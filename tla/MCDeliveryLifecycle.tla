------------------------ MODULE MCDeliveryLifecycle ------------------------
(***************************************************************************)
(* Instances of DeliveryLifecycle for TLC: which completion each source    *)
(* owes, and the promise the adapter is to implement.                      *)
(***************************************************************************)
EXTENDS DeliveryLifecycle

AllCycle == [s \in Sources |-> "cycle"]
AllTurn == [s \in Sources |-> "turn"]
AllOpen == [s \in Sources |-> "open"]

Receipts == INSTANCE CanonicalReceipts WITH
  Statuses <- Terminal, Revisable <- LongRuns,
  message <- {s \in Sources : log[s] # 0},
  outcome <- [s \in Sources |-> IF s <= sack THEN "acknowledged" ELSE disk.evidence[s]],
  frontier <- sack

\* The adapter keeps the promise: outcomes are recorded once (while no run
\* outlives the sweep), posted outcomes only for messages in the Room, and the
\* cursor passes recorded outcomes only.
KeepsPromise == Receipts!Promise
=============================================================================
