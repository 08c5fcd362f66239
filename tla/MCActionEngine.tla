--------------------------- MODULE MCActionEngine ---------------------------
(* Instances of ActionEngine for TLC. *)
EXTENDS ActionEngine

CONSTANTS nameA, idA, nameB, cA, cB, g1, s1

\* Container A is known by its name and by its id, container B by its name.
TwoContainers == {cA, cB}
ThreeRefs == {nameA, idA, nameB}
ThreeRefsOf == [x \in ThreeRefs |-> IF x = nameB THEN cB ELSE cA]

OneGroup == {g1}
OneSchedule == {s1}
NoSchedule == {}

\* What the group may contain; NoGroup is a deleted group.
BothOrNone == {{nameA, nameB}, NoGroup}
FixedContents == {{nameA, nameB}, {nameB}}
GroupOrNone == {g1, NoTarget}
GroupTarget == {g1}
GroupOrContainer == {g1, nameA}

\* A container by its id, the group by hand, the group by its schedule.
EachKind == {idA, g1, s1}
ContainersAndGroup == {idA, nameB, g1}
=============================================================================
