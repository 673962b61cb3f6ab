------------------------- MODULE CanonicalReceipts -------------------------
(***************************************************************************)
(* What the adapter promises the Room about addressed events: every event  *)
(* gets one recorded outcome, "posted" only with a canonical message in    *)
(* the Room, and the cursor passes only events that have an outcome.       *)
(***************************************************************************)
EXTENDS Naturals

CONSTANTS
  N,          \* the events are 1..N
  Statuses,   \* the terminal outcomes, "posted" among them
  Revisable   \* may a recorded outcome change before it is acknowledged?

VARIABLES
  message,    \* events with a canonical message in the Room
  outcome,    \* recorded outcome: none, a status, or acknowledged
  frontier    \* acknowledged cursor

promise == <<message, outcome, frontier>>
Events == 1 .. N

Begin ==
  /\ message = {} /\ frontier = 0
  /\ outcome = [s \in Events |-> "none"]

Publish ==
  /\ \E s \in Events \ message : message' = message \cup {s}
  /\ UNCHANGED <<outcome, frontier>>

\* One write may record the outcomes of several events.
Record ==
  /\ outcome' \in [Events -> Statuses \cup {"none", "acknowledged"}]
  /\ \A s \in Events :
       outcome'[s] # outcome[s] =>
         /\ outcome[s] = "none" \/ (Revisable /\ outcome[s] \in Statuses)
         /\ outcome'[s] \in Statuses
         /\ outcome'[s] = "posted" => s \in message
  /\ UNCHANGED <<message, frontier>>

Acknowledge ==
  /\ \E c \in (frontier + 1) .. N :
       /\ \A s \in (frontier + 1) .. c : outcome[s] \in Statuses
       /\ frontier' = c
       /\ outcome' = [s \in Events |-> IF s <= c THEN "acknowledged" ELSE outcome[s]]
  /\ UNCHANGED message

Advance == Publish \/ Record \/ Acknowledge
Promise == Begin /\ [][Advance]_promise
=============================================================================
