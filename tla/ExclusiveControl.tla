-------------------------- MODULE ExclusiveControl --------------------------
(***************************************************************************)
(* What the conflict check of the action engine promises, without saying   *)
(* how: a run takes control of all its containers in one step, only while  *)
(* nobody else controls one of them, keeps them until it leaves, and never *)
(* comes back.  docs/ARCHITECTURE.md: "prevent competing actions against   *)
(* the same container"; "independent groups may run concurrently when      *)
(* their container sets do not overlap".                                   *)
(***************************************************************************)
CONSTANTS Agents, Items

VARIABLES
  holds,   \* holds[a]: the items agent a controls
  gone     \* the agents that have left for good

vars == <<holds, gone>>

Init ==
  /\ holds = [a \in Agents |-> {}]
  /\ gone = {}

Acquire(a, S) ==
  /\ a \notin gone
  /\ holds[a] = {}
  /\ \A b \in Agents : holds[b] \cap S = {}
  /\ holds' = [holds EXCEPT ![a] = S]
  /\ UNCHANGED gone

\* Several agents may leave together: a restart stops them all.
Leave(D) ==
  /\ gone' = gone \cup D
  /\ holds' = [a \in Agents |-> IF a \in D THEN {} ELSE holds[a]]

Next ==
  \/ \E a \in Agents, S \in SUBSET Items : Acquire(a, S)
  \/ \E D \in SUBSET Agents : Leave(D)

Spec == Init /\ [][Next]_vars
=============================================================================
