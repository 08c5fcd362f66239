----------------------------- MODULE Deliveries -----------------------------
(***************************************************************************)
(* send_event and _post of app/notification_service.py: one event is       *)
(* posted to each enabled webhook that subscribes to it, one after the     *)
(* other, with DEFAULT_RETRIES further attempts each.  An attempt that     *)
(* fails may have been received all the same: only its answer is known to  *)
(* be missing.  The module has no specification of its own; the            *)
(* components that send events compose it with their steps.                *)
(***************************************************************************)
EXTENDS Naturals, FiniteSets

CONSTANTS
  Webhooks,  \* ids, in the order of list_webhooks
  MaxTries   \* DEFAULT_RETRIES + 1

ASSUME WebhookAssumption == Webhooks \subseteq Nat /\ IsFiniteSet(Webhooks)
ASSUME TriesAssumption == MaxTries \in Nat \ {0}

VARIABLES
  listed,   \* the webhooks the event goes to, read once
  toSend,   \* those of them not done with yet
  tries,    \* which attempt on the first of them is next
  copies,   \* how often the first of them has received the event
  errors,   \* the webhooks send_event reports as failed
  heard     \* history: the webhooks done with that have received the event

deliveryVars == <<listed, toSend, tries, copies, errors, heard>>

NothingToSend ==
  /\ listed = {} /\ toSend = {} /\ tries = 1 /\ copies = 0
  /\ errors = {} /\ heard = {}

\* The loop of send_event is over, or has been left.
Forget ==
  /\ listed' = {} /\ toSend' = {} /\ tries' = 1 /\ copies' = 0
  /\ errors' = {} /\ heard' = {}

\* Which webhooks are enabled and subscribe is up to the settings page.
ListWebhooks ==
  /\ listed' \in SUBSET Webhooks
  /\ toSend' = listed'
  /\ UNCHANGED <<tries, copies, errors, heard>>

Current(w) == w \in toSend /\ \A v \in toSend : w <= v

\* _post has returned (failed = FALSE) or raised its RuntimeError.
DoneWith(w, received, failed) ==
  /\ toSend' = toSend \ {w}
  /\ tries' = 1 /\ copies' = 0
  /\ errors' = IF failed THEN errors \cup {w} ELSE errors
  /\ heard' = IF copies + received > 0 THEN heard \cup {w} ELSE heard
  /\ UNCHANGED listed

\* An answer below 400.
Delivered(w) == Current(w) /\ DoneWith(w, 1, FALSE)

\* Seeded fault: a webhook that fails ends the loop.
AttemptFailsForAll(w, received) ==
  /\ Current(w)
  /\ IF tries < MaxTries
       THEN /\ tries' = tries + 1
            /\ copies' = copies + received
            /\ UNCHANGED <<listed, toSend, errors, heard>>
       ELSE /\ toSend' = {} /\ tries' = 1 /\ copies' = 0
            /\ errors' = errors \cup {w}
            /\ UNCHANGED <<listed, heard>>

\* What _post catches: refused or unknown (not received), an HTTP error (received),
\* no answer within DEFAULT_TIMEOUT_SECONDS (either).
AttemptFails(w, received) ==
  /\ Current(w)
  /\ IF tries < MaxTries
       THEN /\ tries' = tries + 1
            /\ copies' = copies + received
            /\ UNCHANGED <<listed, toSend, errors, heard>>
       ELSE DoneWith(w, received, TRUE)

\* One attempt on the first webhook, whatever comes of it.
Attempt == \E w \in toSend : Delivered(w) \/ \E received \in 0 .. 1 : AttemptFails(w, received)

\* What _post does not catch leaves send_event: a connection dropped without an
\* answer, or the ValueError of a URL without a scheme.
Raises == toSend # {} /\ Forget

AllSent == toSend = {}

-----------------------------------------------------------------------------
(* Properties *)

DeliveryTypeOK ==
  /\ listed \subseteq Webhooks /\ toSend \subseteq listed
  /\ errors \subseteq listed /\ heard \subseteq listed
  /\ tries \in 1 .. MaxTries /\ copies \in 0 .. MaxTries

\* docs/SECURITY.md:13, "Webhook delivery must have bounded timeouts/retries": a
\* webhook receives an event at most MaxTries times, and every webhook done with
\* has received it or is reported as failed - one that fails does not keep the
\* event from the others.
EachIsTold ==
  /\ copies < tries /\ tries <= MaxTries
  /\ listed \ toSend \subseteq heard \cup errors
=============================================================================
