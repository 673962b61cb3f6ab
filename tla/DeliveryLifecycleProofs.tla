---------------------- MODULE DeliveryLifecycleProofs ----------------------
(***************************************************************************)
(* The safety properties of DeliveryLifecycle that hold for every value of *)
(* the constants: the acknowledged frontier stays within the evidence, no  *)
(* delivery is called posted without a canonical message, and a completion *)
(* that is owed is not forgotten.  None of them is inductive: each section *)
(* names its strengthening, and the ways the variables it is about change. *)
(***************************************************************************)
EXTENDS DeliveryLifecycleTypes

\* The file changes only by being overwritten with what the memory then holds.
LEMMA DiskStep == [Next]_vars => disk' = disk \/ disk' = Image'
<1> SUFFICES ASSUME [Next]_vars
             PROVE  disk' = disk \/ disk' = Image'
  OBVIOUS
<1>1. ASSUME NEW s \in Sources, WatchNext(s)
      PROVE  disk' = disk \/ disk' = Image'
  BY <1>1 DEF WatchNext, Deliver, Reacknowledge, Decline, ArrivalDropped, Dispatch,
       Sweep,
              RepairExhausted, RepairCall, RepairDone, RepairDebt, RepairFails,
              CompleteEvent, CompleteNew, CompleteOld, Persist
<1>2. ASSUME NEW s \in Sources, NEW g \in Runs, SendNext(s, g)
      PROVE  disk' = disk \/ disk' = Image'
  BY <1>2 DEF SendNext, SendFinal, SendSuperseded, SendRefused, FinishSkip, SkipRefused,
              AuthorityGone, Replay, PolicyUnavailable, PostTooLate, ProcessingEnds,
              ProcessingPasses, AcquireFails, PostFails, LifecycleFails, Freeze,
              RecordReceipt, PostModeChanged, RecordDeliveryFailure, BeginLifecycle,
              LifecycleDone, RecordLifecycleFailure, Settle, Select,
              CompleteEvent, CompleteNew, CompleteOld, Persist
<1>3. ASSUME NEW s \in Sources, RoomNext(s)
      PROVE  disk' = disk
  BY <1>3 DEF RoomNext, ServerComplete, ServerSupersedes, LoseLease, ServerPost
<1>4. CASE LedgerNext \/ WatchStops \/ NewEpoch \/ Crash \/ UNCHANGED vars
  BY <1>4 DEF LedgerNext, ServerAcknowledge, AcknowledgeFails, AcknowledgeReply,
              WatchStops, NewEpoch, Crash, vars, Persist
<1> QED BY <1>1, <1>2, <1>3, <1>4 DEF Next

\* The Room forgets neither a message nor a completion.
LEMMA RoomGrows ==
  TypeOK /\ [Next]_vars => \A s \in Sources : /\ log[s] # 0 => log'[s] # 0
                                              /\ closed[s] => closed'[s]
<1> SUFFICES ASSUME TypeOK, [Next]_vars, NEW t \in Sources
             PROVE  (log[t] # 0 => log'[t] # 0) /\ (closed[t] => closed'[t])
  OBVIOUS
<1>1. ASSUME NEW s \in Sources, WatchNext(s)
      PROVE  UNCHANGED <<log, closed>>
  BY <1>1 DEF WatchNext, Deliver, Reacknowledge, Decline, ArrivalDropped, Dispatch,
       Sweep,
              RepairExhausted, RepairCall, RepairDone, RepairDebt, RepairFails, server
<1>2. ASSUME NEW s \in Sources, NEW g \in Runs, SendNext(s, g)
      PROVE  log' = log /\ closed' \in {closed, [closed EXCEPT ![s] = TRUE]}
  BY <1>2 DEF SendNext, SendFinal, SendSuperseded, SendRefused, FinishSkip, SkipRefused,
              AuthorityGone, Replay, PolicyUnavailable, PostTooLate, ProcessingEnds,
              ProcessingPasses, AcquireFails, PostFails, LifecycleFails, Freeze,
              RecordReceipt, PostModeChanged, RecordDeliveryFailure, BeginLifecycle,
              LifecycleDone, RecordLifecycleFailure, Settle, Select, server
<1>3. ASSUME NEW s \in Sources, RoomNext(s)
      PROVE  (log[t] # 0 => log'[t] # 0) /\ (closed[t] => closed'[t])
  BY <1>3 DEF RoomNext, ServerComplete, ServerSupersedes, LoseLease, ServerPost, server,
              TypeOK, RoomTypes
<1>4. CASE LedgerNext \/ WatchStops \/ NewEpoch \/ Crash \/ UNCHANGED vars
  BY <1>4 DEF LedgerNext, ServerAcknowledge, AcknowledgeFails, AcknowledgeReply,
              WatchStops, NewEpoch, Crash, vars, server
<1> QED BY <1>1, <1>2, <1>3, <1>4 DEF Next, TypeOK, RoomTypes

-----------------------------------------------------------------------------
(***************************************************************************)
(* The acknowledged frontier                                               *)
(***************************************************************************)
\* Neither cursor of the binding is ahead of the Room's.
CursorsBehind == ack <= sack /\ disk.ack <= sack

\* Evidence and cursors change in six ways only.
LedgerMoves ==
  \/ UNCHANGED <<evidence, ack, acking, sack>>
  \/ /\ \E s \in Sources, status \in Terminal, o \in Outcomes : CompleteEvent(s,
       status, o)
     /\ UNCHANGED sack
  \/ LedgerNext
  \/ Crash

\* Every step changes evidence and cursors in one of these ways.
LEMMA LedgerStep == TypeInv /\ [Next]_vars => LedgerMoves
<1> SUFFICES ASSUME TypeInv, [Next]_vars
             PROVE  LedgerMoves
  OBVIOUS
<1>1. ASSUME NEW s \in Sources, WatchNext(s)
      PROVE  LedgerMoves
  <2>1. ASSUME NEW o \in Outcomes, Reacknowledge(s, o) \/ \E status \in {"ignored",
       "superseded"} : Decline(s, status, o)
        PROVE  LedgerMoves
    BY <2>1 DEF Reacknowledge, Decline, binding, server, LedgerMoves, Terminal
  <2>2. ASSUME NEW o \in Outcomes, Deliver(s, o) \/ Sweep(s, o) \/ RepairExhausted(s,
       o) \/ RepairCall(s, o)
                                   \/ RepairDone(s, o) \/ RepairDebt(s, o)
        PROVE  UNCHANGED <<evidence, ack, acking, sack>>
    BY <2>2 DEF Deliver, Sweep, RepairExhausted, RepairCall, RepairDone, RepairDebt,
         server
  <2>3. CASE ArrivalDropped(s) \/ (\E g \in Runs : Dispatch(s, g))
       \/ \E next \in Verdicts : RepairFails(s, next)
    BY <2>3 DEF ArrivalDropped, Dispatch, RepairFails, binding, server, LedgerMoves
  <2> QED BY <1>1, <2>1, <2>2, <2>3 DEF WatchNext, LedgerMoves
<1>2. ASSUME NEW s \in Sources, NEW g \in Runs, SendNext(s, g)
      PROVE  LedgerMoves
  <2>1. ASSUME NEW o \in Outcomes, Settle(s, g, o)
        PROVE  LedgerMoves
    <3>1. result[s][g] \in Terminal
      BY <2>1 DEF Settle, TypeInv, EndedHasResult, TypeOK, RunTypes
    <3> QED BY <2>1, <3>1 DEF Settle, binding, server, LedgerMoves
  <2>2. CASE \/ SendFinal(s, g) \/ SendSuperseded(s, g) \/ SendRefused(s, g)
             \/ FinishSkip(s, g) \/ SkipRefused(s, g)
             \/ AuthorityGone(s, g) \/ Replay(s, g) \/ PolicyUnavailable(s, g)
             \/ PostTooLate(s, g) \/ ProcessingEnds(s, g) \/ ProcessingPasses(s, g)
    BY <2>2 DEF SendFinal, SendSuperseded, SendRefused, FinishSkip, SkipRefused,
              AuthorityGone, Replay, PolicyUnavailable, PostTooLate, ProcessingEnds,
              ProcessingPasses, binding, server, LedgerMoves
  <2>3. ASSUME NEW next \in Verdicts,
               AcquireFails(s, g, next) \/ PostFails(s, g, next) \/ LifecycleFails(s,
                    g, next)
        PROVE  LedgerMoves
    BY <2>3 DEF AcquireFails, PostFails, LifecycleFails, binding, server, LedgerMoves
  <2>4. ASSUME NEW o \in Outcomes,
               \/ Freeze(s, g, o) \/ RecordReceipt(s, g, o) \/ PostModeChanged(s, g, o)
               \/ BeginLifecycle(s, g, o)
               \/ LifecycleDone(s, g, o) \/ RecordLifecycleFailure(s, g, o)
               \/ \E action \in {"post", "skip", "fail"} : Select(s, g, action, o)
        PROVE  UNCHANGED <<evidence, ack, acking, sack>>
    BY <2>4 DEF Freeze, RecordReceipt, PostModeChanged, BeginLifecycle, LifecycleDone,
                RecordLifecycleFailure, Select, binding, server
  <2>5. ASSUME NEW o \in Outcomes, RecordDeliveryFailure(s, g, o)
        PROVE  UNCHANGED <<evidence, ack, acking, sack>>
    BY <2>5 DEF RecordDeliveryFailure, binding, server
  <2> QED BY <1>2, <2>1, <2>2, <2>3, <2>4, <2>5 DEF SendNext, LedgerMoves
<1>3. ASSUME NEW s \in Sources, RoomNext(s)
      PROVE  UNCHANGED <<evidence, ack, acking, sack>>
  BY <1>3 DEF RoomNext, ServerComplete, ServerSupersedes, LoseLease, ServerPost,
       binding, tasks, server
<1>4. CASE LedgerNext \/ WatchStops \/ NewEpoch \/ Crash \/ UNCHANGED vars
  BY <1>4 DEF WatchStops, NewEpoch, vars, binding, tasks, server, LedgerMoves
<1> QED BY <1>1, <1>2, <1>3, <1>4 DEF Next, LedgerMoves

\* The inductive invariant.
ReachInv == CursorsBehind /\ EvidenceReach

\* Every step keeps the frontier within the evidence and the cursors behind.
LEMMA ReachStep == TypeInv /\ TypeOK' /\ ReachInv /\ [Next]_vars => ReachInv'
<1> SUFFICES ASSUME TypeInv, TypeOK', ReachInv, [Next]_vars
             PROVE  ReachInv'
  OBVIOUS
<1> DEFINE Reached(s) == s <= ack \/ evidence[s] \in Terminal
<1>0. /\ ack \in 0 .. N /\ sack \in 0 .. N /\ acking \in 0 .. N /\ disk.ack \in 0 .. N
      /\ ack' \in 0 .. N /\ sack' \in 0 .. N /\ acking' \in 0 .. N
      /\ evidence \in [Sources -> Terminal \cup {"none"}] 
  BY DEF TypeInv, TypeOK, BindingTypes, WatchTypes, RoomTypes, Images
\* What the memory reaches, the file reaches when it was overwritten or kept.
<1>1. ASSUME sack <= sack', ack' <= sack',
             \A s \in Sources : s <= sack' \/ s <= acking' => Reached(s)',
             \A s \in Sources : disk' = disk /\ (s <= sack'
                  \/ s <= acking') => s <= sack \/ s <= acking
      PROVE  ReachInv'
  BY <1>0, <1>1, DiskStep DEF ReachInv, CursorsBehind, EvidenceReach, Image
<1>2. CASE UNCHANGED <<evidence, ack, acking, sack>>
  BY <1>0, <1>1, <1>2 DEF ReachInv, CursorsBehind, EvidenceReach
<1>3. ASSUME NEW s \in Sources, NEW status \in Terminal, NEW o \in Outcomes,
             CompleteEvent(s, status, o), UNCHANGED sack
      PROVE  ReachInv'
  <2>1. CASE CompleteNew(s, status, o) /\ acking' = acking
    BY <1>0, <1>1, <1>3, <2>1 DEF CompleteNew, ReachInv, CursorsBehind, EvidenceReach
  <2>2. CASE CompleteNew(s, status, o) /\ ~ Unsaved(o)
    <3>1. disk' = Image'
      BY <2>2 DEF CompleteNew, Unsaved, Persist
    <3>2. \A t \in Sources : t <= acking' => t <= ack' \/ Proven(t)'
      BY <1>0, <2>2 DEF CompleteNew, Frontier, Sources
    <3>3. \A t \in Sources : evidence[t] \in Terminal => evidence'[t] \in Terminal
      BY <1>0, <2>2 DEF CompleteNew
    <3>4. \A t \in Sources : t <= sack' \/ t <= acking' => Reached(t)'
      BY <1>0, <1>3, <2>2, <3>2, <3>3 DEF CompleteNew, Proven, ReachInv, EvidenceReach
    <3>5. disk'.ack = ack' /\ disk'.evidence = evidence'
      BY <3>1 DEF Image
    <3>6. ack' = ack
      BY <2>2 DEF CompleteNew
    <3> QED BY <1>0, <1>3, <3>4, <3>5, <3>6 DEF ReachInv, CursorsBehind, EvidenceReach
  <2>3. CASE CompleteOld(s, o)
    BY <1>2, <1>3, <2>3 DEF CompleteOld
  <2> QED BY <1>3, <2>1, <2>2, <2>3 DEF CompleteEvent, CompleteNew
<1>4. CASE ServerAcknowledge
  BY <1>0, <1>1, <1>4 DEF ServerAcknowledge, binding, tasks, ReachInv, CursorsBehind,
       EvidenceReach
<1>5. CASE AcknowledgeFails
  BY <1>0, <1>1, <1>5 DEF AcknowledgeFails, binding, server, ReachInv, CursorsBehind,
       EvidenceReach, Sources
<1>6. ASSUME NEW o \in Outcomes, AcknowledgeReply(o)
      PROVE  ReachInv'
  BY <1>0, <1>1, <1>6 DEF AcknowledgeReply, server, ReachInv, CursorsBehind,
       EvidenceReach, Sources
<1>7. CASE Crash
  BY <1>0, <1>1, <1>7 DEF Crash, server, ReachInv, CursorsBehind, EvidenceReach, Sources
<1> QED BY <1>2, <1>3, <1>4, <1>5, <1>6, <1>7, LedgerStep DEF LedgerMoves, LedgerNext

\* Nothing is acknowledged at first.
LEMMA ReachInit == Init => ReachInv
  BY SizeAssumption DEF Init, Image, ReachInv, CursorsBehind, EvidenceReach, Sources

\* The Room's cursor moves by an acknowledgement in flight, within the evidence.
LEMMA AckStep ==
  TypeInv /\ ReachInv /\ [Next]_vars =>
    (sack' # sack => sack' > sack /\ \A s \in (sack + 1) .. sack' : disk.evidence[s] \in Terminal)
<1> SUFFICES ASSUME TypeInv, ReachInv, [Next]_vars, sack' # sack
             PROVE  sack' > sack /\ \A s \in (sack + 1) .. sack' : disk.evidence[s] \in Terminal
  OBVIOUS
<1>1. ServerAcknowledge
  BY LedgerStep DEF LedgerMoves, LedgerNext, AcknowledgeFails, AcknowledgeReply,
       Crash, server
<1>2. ack \in 0 .. N /\ sack \in 0 .. N /\ acking \in 0 .. N /\ disk.ack \in 0 .. N
  BY DEF TypeInv, TypeOK, BindingTypes, WatchTypes, RoomTypes, Images
<1> QED BY <1>1, <1>2, SizeAssumption
        DEF ServerAcknowledge, ReachInv, CursorsBehind, EvidenceReach, Sources

\* The typing invariant, with the outcomes of ended generations.
LEMMA TypeInvariance == Spec => []TypeInv
<1>1. TypeInv /\ [Next]_vars => TypeInv'
  BY TypeStep, EndedStep DEF TypeInv
<1> QED BY <1>1, InitTypes, PTL DEF Spec

\* The frontier invariant holds in every state.
LEMMA ReachInvariance == Spec => []ReachInv
<1>1. TypeInv /\ TypeInv' /\ ReachInv /\ [Next]_vars => ReachInv'
  BY ReachStep DEF TypeInv
<1> QED BY <1>1, ReachInit, TypeInvariance, PTL DEF Spec

\* What the Room was told, or is being told, is in evidence in memory and in the
\* file: a crash at any point loses no outcome the Room was told of.
THEOREM FrontierInEvidence == Spec => []EvidenceReach
<1>1. ReachInv => EvidenceReach
  BY DEF ReachInv
<1> QED BY <1>1, ReachInvariance, PTL

\* The Room's cursor for this participant only grows, and only over sources whose
\* terminal evidence the state file holds when it does.
THEOREM AcknowledgesEvidence == Spec => AckNeedsEvidence
<1>1. TypeInv /\ ReachInv /\ [Next]_vars =>
        [sack' # sack =>
           sack' > sack /\ \A s \in (sack + 1) .. sack' : disk.evidence[s] \in Terminal]_vars
  BY AckStep
<1> QED BY <1>1, ReachInvariance, TypeInvariance, PTL DEF Spec, AckNeedsEvidence
-----------------------------------------------------------------------------
(***************************************************************************)
(* Receipts                                                                *)
(***************************************************************************)
\* An image of the binding calls s posted; a generation does.
Delivered(image, s) == "posted" \in {image.intent[s].state, image.inbox[s],
     image.evidence[s]}
ReceiptLabels == {"received", "replayed", "completing", "replaying", "debt-retry",
     "debt-final"}
RunDelivered(s) == \E g \in Runs : result[s][g] = "posted"
     \/ run[s][g] \in ReceiptLabels

\* Memory, file or a generation takes the canonical message of s for granted.
Due(s) == Delivered(Image, s) \/ Delivered(disk, s) \/ RunDelivered(s)

\* The only step that learns of a canonical message: a receipt that was saved.
Receives(s) == \E g \in Runs : RecordReceipt(s, g, "ok")

Learns(s) == Due(s) \/ Receives(s)
\* What is taken for granted after a step was before, or was just received.
NothingInvented == \A t \in Sources : Due(t)' => Learns(t)

\* It is enough to look at the memory and at the generations: the file follows.
LEMMA InventsNothing ==
  ASSUME disk' = disk \/ disk' = Image',
         \A t \in Sources : Delivered(Image, t)' => Learns(t),
         \A t \in Sources : RunDelivered(t)' => Learns(t)
  PROVE  NothingInvented
  BY DEF NothingInvented, Learns, Due, Delivered, Image

\* A generation that moves on takes a message for granted only at a receipt label.
LEMMA GotoDue ==
  ASSUME TypeOK, NEW s \in Sources, NEW g \in Runs, NEW l, Goto(s, g, l),
       UNCHANGED result,
         l \in ReceiptLabels => Learns(s), NEW t \in Sources, RunDelivered(t)'
  PROVE  Learns(t)
  BY DEF TypeOK, RunTypes, Goto, RunDelivered, Learns, Due

\* A generation that ends takes a message for granted only by ending as posted.
LEMMA EndsDue ==
  ASSUME TypeOK, NEW s \in Sources, NEW g \in Runs, NEW status, Ends(s, g, status),
         status = "posted" => Learns(s), NEW t \in Sources, RunDelivered(t)'
  PROVE  Learns(t)
  BY DEF TypeOK, RunTypes, Ends, Goto, ReceiptLabels, RunDelivered, Learns, Due

\* A send that escapes takes nothing for granted.
LEMMA EscapesDue ==
  ASSUME TypeOK, NEW s \in Sources, NEW g \in Runs, NEW fatal, Escapes(s, g, fatal),
         NEW t \in Sources, RunDelivered(t)'
  PROVE  Learns(t)
<1>1. UNCHANGED result /\ \E l \in {"done", "unsent"} : Goto(s, g, l)
  BY DEF Escapes
<1> QED BY <1>1, GotoDue DEF ReceiptLabels

\* Recording evidence adds no delivery but the one it records.
LEMMA CompleteDue ==
  ASSUME TypeOK, NEW s \in Sources, NEW status, NEW o, CompleteEvent(s, status, o),
         status = "posted" => Learns(s), NEW t \in Sources, Delivered(Image, t)'
  PROVE  Learns(t)
<1>1. /\ intent' \in {intent, [intent EXCEPT ![s] = NoIntent]}
      /\ inbox' \in {inbox, [inbox EXCEPT ![s] = status]}
      /\ evidence' \in {evidence, [evidence EXCEPT ![s] = status]}
  BY DEF CompleteEvent, CompleteNew, CompleteOld
<1> QED BY <1>1 DEF TypeOK, BindingTypes, Delivered, Image, Learns, Due, NoIntent

\* A step that leaves the binding's claims alone adds none.
LEMMA QuietDue ==
  ASSUME UNCHANGED <<intent, inbox, evidence>>, NEW t \in Sources, Delivered(Image, t)'
  PROVE  Learns(t)
  BY DEF Delivered, Image, Learns, Due

\* A step that leaves the generations alone adds no claim of theirs.
LEMMA QuietRun ==
  ASSUME UNCHANGED <<run, result>>, NEW t \in Sources, RunDelivered(t)'
  PROVE  Learns(t)
  BY DEF RunDelivered, Learns, Due

\* No step of a final send but a saved receipt adds a claim.
LEMMA SendDue ==
  ASSUME TypeInv, NEW s \in Sources, NEW g \in Runs, SendNext(s, g),
       disk' = disk \/ disk' = Image'
  PROVE  NothingInvented
<1>0. TypeOK
  BY DEF TypeInv
<1>1. CASE \/ SendFinal(s, g) \/ SendSuperseded(s, g) \/ SendRefused(s, g)
           \/ FinishSkip(s, g) \/ SkipRefused(s, g)
           \/ AuthorityGone(s, g) \/ PolicyUnavailable(s, g)
           \/ PostTooLate(s, g) \/ ProcessingEnds(s, g)
  <2>1. UNCHANGED <<intent, inbox, evidence>>
    BY <1>1 DEF SendFinal, SendSuperseded, SendRefused, FinishSkip, SkipRefused,
              AuthorityGone, PolicyUnavailable, PostTooLate, ProcessingEnds, binding
  <2>2. ASSUME NEW t \in Sources, RunDelivered(t)'
        PROVE  Learns(t)
    <3>1. CASE \E status \in {"superseded", "failed", "skipped",
         "cancelled"} : Ends(s, g, status)
      BY <1>0, <2>2, <3>1, EndsDue
    <3>2. CASE \E fatal : Escapes(s, g, fatal)
      BY <1>0, <2>2, <3>2, EscapesDue
    <3>3. CASE (\E l \in {"fence", "unsent-retry", "done"} : Goto(s, g,
         l)) /\ UNCHANGED result
      BY <1>0, <2>2, <3>3, GotoDue DEF ReceiptLabels
    <3> QED BY <1>1, <3>1, <3>2, <3>3
            DEF SendFinal, SendSuperseded, SendRefused, FinishSkip, SkipRefused,
                AuthorityGone, PolicyUnavailable, PostTooLate, ProcessingEnds
  <2> QED BY <2>1, <2>2, QuietDue, InventsNothing
<1>2. CASE Replay(s, g)
  <2>1. Posted(s) => Learns(s)
    BY DEF Posted, Learns, Due, Delivered, Image
  <2>2. UNCHANGED <<intent, inbox, evidence>>
    BY <1>2 DEF Replay, binding
  <2>3. ASSUME NEW t \in Sources, RunDelivered(t)'
        PROVE  Learns(t)
    BY <1>0, <1>2, <2>1, <2>3, EndsDue, GotoDue DEF Replay, ReceiptLabels
  <2> QED BY <2>2, <2>3, QuietDue, InventsNothing
<1>3. CASE ProcessingPasses(s, g)
  <2>1. UNCHANGED <<intent, inbox, evidence>>
    BY <1>3 DEF ProcessingPasses, binding
  <2>2. ASSUME NEW t \in Sources, RunDelivered(t)'
        PROVE  Learns(t)
    BY <1>0, <1>3, <2>2 DEF ProcessingPasses, TypeOK, RunTypes, Goto, ReceiptLabels,
                            RunDelivered, Learns, Due
  <2> QED BY <2>1, <2>2, QuietDue, InventsNothing
<1>4. ASSUME NEW next \in Verdicts, AcquireFails(s, g, next) \/ PostFails(s, g, next)
      PROVE  NothingInvented
  <2>1. UNCHANGED <<intent, inbox, evidence, result>> /\ Goto(s, g,
       next) /\ next \notin ReceiptLabels
    BY <1>4 DEF AcquireFails, PostFails, binding, ReceiptLabels
  <2> QED BY <1>0, <2>1, GotoDue, QuietDue, InventsNothing
<1>5. ASSUME NEW next \in Verdicts, LifecycleFails(s, g, next)
      PROVE  NothingInvented
  <2>1. UNCHANGED <<intent, inbox, evidence, result>> /\ Goto(s, g, next) /\ Learns(s)
    BY <1>5 DEF LifecycleFails, Completing, binding, ReceiptLabels, Learns, Due,
         RunDelivered
  <2> QED BY <1>0, <2>1, GotoDue, QuietDue, InventsNothing
<1>6. ASSUME NEW o \in Outcomes, \E action \in {"post", "skip", "fail"} : Select(s,
     g, action, o)
      PROVE  NothingInvented
  <2>1. ASSUME NEW t \in Sources, Delivered(Image, t)'
        PROVE  Learns(t)
    BY <1>0, <1>6, <2>1 DEF Select, Delivered, Image, Learns, Due, TypeOK,
         BindingTypes, Intent
  <2>2. ASSUME NEW t \in Sources, RunDelivered(t)'
        PROVE  Learns(t)
    <3>1. CASE \E fatal : Escapes(s, g, fatal)
      BY <1>0, <2>2, <3>1, EscapesDue
    <3>2. CASE (\E l \in {"failing", "skipping", "policy", "acquire"} : Goto(s, g,
         l)) /\ UNCHANGED result
      BY <1>0, <2>2, <3>2, GotoDue DEF ReceiptLabels
    <3> QED BY <1>6, <3>1, <3>2 DEF Select
  <2> QED BY <2>1, <2>2, InventsNothing
<1>7. ASSUME NEW o \in Outcomes, Freeze(s, g, o)
      PROVE  NothingInvented
  <2>1. ASSUME NEW t \in Sources, Delivered(Image, t)'
        PROVE  Learns(t)
    BY <1>0, <1>7, <2>1 DEF Freeze, Delivered, Image, Learns, Due, TypeOK,
         BindingTypes, Intent
  <2>2. UNCHANGED result /\ \E l \in {"posting", "unsent-retry",
       "unsent-final"} : Goto(s, g, l)
    BY <1>7 DEF Freeze, AfterFreeze, Outcomes
  <2> QED BY <1>0, <2>1, <2>2, GotoDue, InventsNothing DEF ReceiptLabels
<1>8. ASSUME NEW o \in Outcomes, RecordReceipt(s, g, o)
      PROVE  NothingInvented
  <2>1. o = "ok" => Learns(s)
    BY <1>8 DEF Learns, Receives
  <2>2. ASSUME NEW t \in Sources, Delivered(Image, t)'
        PROVE  Learns(t)
    BY <1>0, <1>8, <2>1, <2>2 DEF RecordReceipt, Receipted, Delivered, Image, Learns,
         Due,
                                  TypeOK, BindingTypes, Intent
  <2>3. UNCHANGED result /\ \E l : Goto(s, g, l) /\ (l \in ReceiptLabels => o = "ok")
    BY <1>8 DEF RecordReceipt, ReceiptLabels
  <2> QED BY <1>0, <2>1, <2>2, <2>3, GotoDue, InventsNothing
<1>9. ASSUME NEW o \in Outcomes, PostModeChanged(s, g, o)
      PROVE  NothingInvented
  <2>1. UNCHANGED <<intent, inbox, evidence>>
    BY <1>9 DEF PostModeChanged, binding
  <2>2. ASSUME NEW t \in Sources, RunDelivered(t)'
        PROVE  Learns(t)
    BY <1>0, <1>9, <2>2, EndsDue, GotoDue DEF PostModeChanged, ReceiptLabels
  <2> QED BY <2>1, <2>2, QuietDue, InventsNothing
<1>10. ASSUME NEW o \in Outcomes, RecordDeliveryFailure(s, g, o)
       PROVE  NothingInvented
  <2>1. /\ \/ UNCHANGED intent
           \/ \E v \in {"pending",
                "quarantined"} : intent' = [intent EXCEPT ![s].state = v]
        /\ \/ UNCHANGED inbox
           \/ \E v \in {inbox[s], "failed-retryable",
                "quarantined"} : inbox' = [inbox EXCEPT ![s] = v]
        /\ UNCHANGED evidence
    BY <1>10 DEF RecordDeliveryFailure, binding
  <2>2. ASSUME NEW t \in Sources, Delivered(Image, t)'
        PROVE  Learns(t)
    BY <1>0, <2>1, <2>2 DEF Delivered, Image, Learns, Due, TypeOK, BindingTypes, Intent
  <2>3. \E fatal : Escapes(s, g, fatal)
    BY <1>10 DEF RecordDeliveryFailure
  <2> QED BY <1>0, <2>2, <2>3, EscapesDue, InventsNothing
<1>11. ASSUME NEW o \in Outcomes, BeginLifecycle(s, g, o) \/ LifecycleDone(s, g, o)
       PROVE  NothingInvented
  <2>1. UNCHANGED <<intent, inbox, evidence>> /\ Learns(s)
    BY <1>11 DEF BeginLifecycle, LifecycleDone, Completing, ReceiptLabels, Learns,
         Due, RunDelivered
  <2>2. Ends(s, g, "posted") \/ (UNCHANGED result /\ \E l : Goto(s, g, l))
    BY <1>11, BeginMoves DEF LifecycleDone
  <2> QED BY <1>0, <2>1, <2>2, EndsDue, GotoDue, QuietDue, InventsNothing
<1>12. ASSUME NEW o \in Outcomes, RecordLifecycleFailure(s, g, o)
       PROVE  NothingInvented
  <2>1. Learns(s) /\ Ends(s, g, "posted")
    BY <1>12 DEF RecordLifecycleFailure, ReceiptLabels, Learns, Due, RunDelivered
  <2>2. ASSUME NEW t \in Sources, Delivered(Image, t)'
        PROVE  Learns(t)
    BY <1>0, <1>12, <2>1, <2>2 DEF RecordLifecycleFailure, Receipted, Delivered,
         Image, Learns, Due,
                                   TypeOK, BindingTypes, Intent
  <2> QED BY <1>0, <2>1, <2>2, EndsDue, InventsNothing
<1>13. ASSUME NEW o \in Outcomes, Settle(s, g, o)
       PROVE  NothingInvented
  <2>1. result[s][g] = "posted" => Learns(s)
    BY DEF Learns, Due, RunDelivered
  <2>2. UNCHANGED result /\ \E l \in {"done", "settled"} : Goto(s, g, l)
    BY <1>13 DEF Settle
  <2>3. CompleteEvent(s, result[s][g], o) \/ UNCHANGED <<intent, inbox, evidence>>
    BY <1>13 DEF Settle, binding
  <2> QED BY <1>0, <2>1, <2>2, <2>3, GotoDue, CompleteDue, QuietDue,
       InventsNothing DEF ReceiptLabels
<1> QED BY <1>1, <1>2, <1>3, <1>4, <1>5, <1>6, <1>7, <1>8, <1>9, <1>10, <1>11, <1>12,
         <1>13 DEF SendNext

\* No step of the watch task adds a claim.
LEMMA WatchDue ==
  ASSUME TypeInv, NEW s \in Sources, WatchNext(s), disk' = disk \/ disk' = Image'
  PROVE  NothingInvented
<1>0. TypeOK
  BY DEF TypeInv
<1>1. ASSUME NEW o \in Outcomes, Deliver(s, o) \/ Sweep(s, o)
      PROVE  NothingInvented
  <2>1. ASSUME NEW t \in Sources, Delivered(Image, t)'
        PROVE  Learns(t)
    BY <1>0, <1>1, <2>1 DEF Deliver, Noted, Sweep, Delivered, Image, Learns, Due,
         TypeOK, BindingTypes
  <2>2. UNCHANGED <<run, result>>
    BY <1>1 DEF Deliver, Sweep
  <2> QED BY <2>1, <2>2, QuietRun, InventsNothing
<1>2. ASSUME NEW o \in Outcomes,
             Reacknowledge(s, o) \/ \E status \in {"ignored",
                  "superseded"} : Decline(s, status, o)
      PROVE  NothingInvented
  <2>1. UNCHANGED <<run, result>>
    BY <1>2 DEF Reacknowledge, Decline
  <2>2. inbox[s] = "posted" => Learns(s)
    BY DEF Learns, Due, Delivered, Image
  <2>3. \/ CompleteEvent(s, inbox[s], o) \/ UNCHANGED <<intent, inbox, evidence>>
        \/ \E status \in {"ignored", "superseded"} : CompleteEvent(s, status, o)
    BY <1>2 DEF Reacknowledge, Decline, binding
  <2> QED BY <1>0, <2>1, <2>2, <2>3, CompleteDue, QuietDue, QuietRun, InventsNothing
<1>3. ASSUME NEW o \in Outcomes,
             RepairExhausted(s, o) \/ RepairCall(s, o) \/ RepairDone(s, o)
                  \/ RepairDebt(s, o)
      PROVE  NothingInvented
  <2>1. UNCHANGED <<intent, inbox, evidence>> /\ UNCHANGED <<run, result>>
    BY <1>3 DEF RepairExhausted, RepairCall, RepairDone, RepairDebt
  <2> QED BY <2>1, QuietDue, QuietRun, InventsNothing
<1>4. ASSUME NEW next \in Verdicts, RepairFails(s, next)
      PROVE  NothingInvented
  <2>1. UNCHANGED <<intent, inbox, evidence>> /\ UNCHANGED <<run, result>>
    BY <1>4 DEF RepairFails, binding
  <2> QED BY <2>1, QuietDue, QuietRun, InventsNothing
<1>5. CASE ArrivalDropped(s)
  <2>1. UNCHANGED <<intent, inbox, evidence>> /\ UNCHANGED <<run, result>>
    BY <1>5 DEF ArrivalDropped, binding
  <2> QED BY <2>1, QuietDue, QuietRun, InventsNothing
<1>6. ASSUME NEW g \in Runs, Dispatch(s, g)
      PROVE  NothingInvented
  <2>1. UNCHANGED <<intent, inbox, evidence>> /\ UNCHANGED result
        /\ \E l \in {"resend", "model"} : Goto(s, g, l)
    BY <1>6 DEF Dispatch, binding
  <2> QED BY <1>0, <2>1, GotoDue, QuietDue, InventsNothing DEF ReceiptLabels
<1> QED BY <1>1, <1>2, <1>3, <1>4, <1>5, <1>6 DEF WatchNext

\* No step but a saved receipt makes anything take a message for granted.
LEMMA DueStep == TypeInv /\ [Next]_vars => NothingInvented
<1> SUFFICES ASSUME TypeInv, [Next]_vars
             PROVE  NothingInvented
  OBVIOUS
<1>1. disk' = disk \/ disk' = Image'
  BY DiskStep
<1>2. CASE UNCHANGED <<intent, inbox, evidence>> /\ UNCHANGED <<run, result>>
  BY <1>1, <1>2, QuietDue, QuietRun, InventsNothing
<1>3. ASSUME NEW s \in Sources, RoomNext(s)
      PROVE  UNCHANGED <<intent, inbox, evidence>> /\ UNCHANGED <<run, result>>
  BY <1>3 DEF RoomNext, ServerComplete, ServerSupersedes, LoseLease, ServerPost,
       binding, tasks
<1>4. CASE ServerAcknowledge \/ AcknowledgeFails \/ WatchStops \/ NewEpoch
     \/ UNCHANGED vars
  BY <1>2, <1>4 DEF ServerAcknowledge, AcknowledgeFails, WatchStops, NewEpoch, vars,
       binding, tasks
<1>5. ASSUME NEW o \in Outcomes, AcknowledgeReply(o)
      PROVE  NothingInvented
  <2>1. ASSUME NEW t \in Sources, Delivered(Image, t)'
        PROVE  Learns(t)
    BY <1>5, <2>1 DEF AcknowledgeReply, Delivered, Image, Learns, Due
  <2>2. UNCHANGED <<run, result>>
    BY <1>5 DEF AcknowledgeReply
  <2> QED BY <1>1, <2>1, <2>2, QuietRun, InventsNothing
<1>6. CASE Crash
  <2>1. ASSUME NEW t \in Sources, Delivered(Image, t)'
        PROVE  Learns(t)
    BY <1>6, <2>1 DEF Crash, Delivered, Image, Learns, Due
  <2>2. ASSUME NEW t \in Sources, RunDelivered(t)'
        PROVE  Learns(t)
    BY <1>6, <2>2 DEF Crash, TypeInv, TypeOK, RunTypes, ReceiptLabels, RunDelivered,
         Learns, Due
  <2> QED BY <1>1, <2>1, <2>2, InventsNothing
<1> QED BY <1>1, <1>2, <1>3, <1>4, <1>5, <1>6, SendDue, WatchDue DEF Next, LedgerNext

-----------------------------------------------------------------------------
(***************************************************************************)
(* The completion a receipt owes                                           *)
(***************************************************************************)
\* How the journal of a source may change.
JournalMoves(s) ==
  \/ UNCHANGED journal
  \/ journal' = [journal EXCEPT ![s] = Cleared(@)]
  \/ Receives(s) /\ journal' = [journal EXCEPT ![s] = Owed(s)]
  \/ journal' = Counted(s)
  \/ journal' = Completed(s) /\ (closed[s] \/ KindOf[s] = "open")
  \/ journal[s].life # "absent" /\ \E r \in BOOLEAN : journal' = Debt(s, r)
  \/ journal[s].life # "absent" /\ journal' = [journal EXCEPT ![s].life = "blocked"]

\* Every step changes at most one journal, in one of these ways.
LEMMA JournalStep ==
  [Next]_vars => Crash \/ UNCHANGED journal \/ \E s \in Sources : JournalMoves(s)
<1> SUFFICES ASSUME [Next]_vars
             PROVE  Crash \/ UNCHANGED journal \/ \E s \in Sources : JournalMoves(s)
  OBVIOUS
<1>1. ASSUME NEW s \in Sources, WatchNext(s)
      PROVE  JournalMoves(s)
  <2>1. ASSUME NEW o \in Outcomes, Reacknowledge(s, o) \/ \E status \in {"ignored",
       "superseded"} : Decline(s, status, o)
        PROVE  JournalMoves(s)
    BY <2>1 DEF Reacknowledge, Decline, CompleteEvent, CompleteNew, CompleteOld,
         binding, JournalMoves
  <2>2. ASSUME NEW o \in Outcomes, RepairExhausted(s, o) \/ RepairCall(s, o)
       \/ RepairDone(s, o)
        PROVE  JournalMoves(s)
    BY <2>2 DEF RepairExhausted, RepairCall, RepairDone, JournalMoves
  <2>3. ASSUME NEW o \in Outcomes, RepairDebt(s, o)
        PROVE  JournalMoves(s)
    BY <2>3 DEF RepairDebt, DebtSound, JournalMoves
  <2>4. ASSUME NEW o \in Outcomes, Deliver(s, o) \/ Sweep(s, o)
        PROVE  UNCHANGED journal
    BY <2>4 DEF Deliver, Sweep
  <2>5. CASE ArrivalDropped(s) \/ (\E g \in Runs : Dispatch(s, g))
       \/ \E next \in Verdicts : RepairFails(s, next)
    BY <2>5 DEF ArrivalDropped, Dispatch, RepairFails, binding, JournalMoves
  <2> QED BY <1>1, <2>1, <2>2, <2>3, <2>4, <2>5 DEF WatchNext, JournalMoves
<1>2. ASSUME NEW s \in Sources, NEW g \in Runs, SendNext(s, g)
      PROVE  JournalMoves(s)
  <2>1. CASE \/ SendFinal(s, g) \/ SendSuperseded(s, g) \/ SendRefused(s, g)
             \/ FinishSkip(s, g) \/ SkipRefused(s, g)
             \/ AuthorityGone(s, g) \/ Replay(s, g) \/ PolicyUnavailable(s, g)
             \/ PostTooLate(s, g) \/ ProcessingEnds(s, g) \/ ProcessingPasses(s, g)
    BY <2>1 DEF SendFinal, SendSuperseded, SendRefused, FinishSkip, SkipRefused,
              AuthorityGone, Replay, PolicyUnavailable, PostTooLate, ProcessingEnds,
              ProcessingPasses, binding, JournalMoves
  <2>2. ASSUME NEW next \in Verdicts,
               AcquireFails(s, g, next) \/ PostFails(s, g, next) \/ LifecycleFails(s,
                    g, next)
        PROVE  JournalMoves(s)
    BY <2>2 DEF AcquireFails, PostFails, LifecycleFails, binding, JournalMoves
  <2>3. ASSUME NEW o \in Outcomes, Freeze(s, g, o) \/ PostModeChanged(s, g, o)
               \/ RecordDeliveryFailure(s, g, o) \/ \E action \in {"post", "skip",
                    "fail"} : Select(s, g, action, o)
        PROVE  UNCHANGED journal
    BY <2>3 DEF Freeze, PostModeChanged, RecordDeliveryFailure, Select, binding
  <2>4. ASSUME NEW o \in Outcomes, RecordReceipt(s, g, o)
        PROVE  JournalMoves(s)
    BY <2>4 DEF RecordReceipt, Receives, JournalMoves
  <2>5. ASSUME NEW o \in Outcomes, BeginLifecycle(s, g, o) \/ LifecycleDone(s, g, o)
        PROVE  JournalMoves(s)
    BY <2>5 DEF BeginLifecycle, LifecycleDone, JournalMoves
  <2>6. ASSUME NEW o \in Outcomes, RecordLifecycleFailure(s, g, o)
        PROVE  JournalMoves(s)
    <3>1. At(s, g, "debt-retry") \in BOOLEAN
      BY DEF At
    <3> QED BY <2>6, <3>1 DEF RecordLifecycleFailure, DebtSound, JournalMoves
  <2>7. ASSUME NEW o \in Outcomes, Settle(s, g, o)
        PROVE  JournalMoves(s)
    BY <2>7 DEF Settle, CompleteEvent, CompleteNew, CompleteOld, binding, JournalMoves
  <2> QED BY <1>2, <2>1, <2>2, <2>3, <2>4, <2>5, <2>6, <2>7 DEF SendNext, JournalMoves
<1>3. ASSUME NEW s \in Sources, RoomNext(s)
      PROVE  UNCHANGED journal
  BY <1>3 DEF RoomNext, ServerComplete, ServerSupersedes, LoseLease, ServerPost, binding
<1>4. CASE LedgerNext \/ WatchStops \/ NewEpoch \/ UNCHANGED vars
  BY <1>4 DEF LedgerNext, ServerAcknowledge, AcknowledgeFails, AcknowledgeReply,
              WatchStops, NewEpoch, vars, binding
<1> QED BY <1>1, <1>2, <1>3, <1>4 DEF Next

\* A debt is dropped only by its completion or with a crash, and a journal is
\* opened only by a receipt.
LEMMA DebtStep ==
  ASSUME TypeOK, [Next]_vars, ~ Crash, NEW t \in Sources
  PROVE  /\ KindOf[t] # "open" /\ Owes(Image, t) => Owes(Image, t)' \/ closed[t]
         /\ journal'[t].life # "absent" => journal[t].life # "absent" \/ Receives(t)
<1>1. journal \in [Sources -> Journal]
  BY DEF TypeOK, BindingTypes
<1>2. CASE UNCHANGED journal
  BY <1>2 DEF Owes, Image
<1>3. ASSUME NEW s \in Sources, JournalMoves(s)
      PROVE  /\ KindOf[t] # "open" /\ Owes(Image, t) => Owes(Image, t)' \/ closed[t]
             /\ journal'[t].life # "absent" => journal[t].life # "absent" \/ Receives(t)
  <2>1. CASE journal' = [journal EXCEPT ![s] = Cleared(@)]
    BY <1>1, <2>1 DEF Owes, Image, Cleared, NoJournal
  <2>2. CASE Receives(s) /\ journal' = [journal EXCEPT ![s] = Owed(s)]
    BY <1>1, <2>2 DEF Owes, Image, Owed
  <2>3. CASE journal' = Counted(s)
    BY <1>1, <2>3 DEF Owes, Image, Counted, Journal
  <2>4. CASE journal' = Completed(s) /\ (closed[s] \/ KindOf[s] = "open")
    BY <1>1, <2>4 DEF Owes, Image, Completed, NoJournal
  <2>5. CASE journal[s].life # "absent" /\ \E r \in BOOLEAN : journal' = Debt(s, r)
    BY <1>1, <2>5 DEF Owes, Image, Debt, Journal
  <2>6. CASE journal[s].life # "absent" /\ journal' = [journal EXCEPT ![s].life = "blocked"]
    BY <1>1, <2>6 DEF Owes, Image, Journal
  <2> QED BY <1>2, <1>3, <2>1, <2>2, <2>3, <2>4, <2>5, <2>6 DEF JournalMoves
<1> QED BY <1>2, <1>3, JournalStep

-----------------------------------------------------------------------------
\* Whatever claims or has journaled a delivery has a canonical message behind it.
TruthInv ==
  \A s \in Sources :
    Due(s) \/ journal[s].life # "absent"
         \/ disk.journal[s].life # "absent" => log[s] # 0

\* Every step keeps every claim backed by the Room.
LEMMA TruthStep == TypeInv /\ TruthInv /\ [Next]_vars => TruthInv'
<1> SUFFICES ASSUME TypeInv, TruthInv, [Next]_vars, NEW s \in Sources,
                    (Due(s) \/ journal[s].life # "absent"
                         \/ disk.journal[s].life # "absent")'
             PROVE  log'[s] # 0
  BY DEF TruthInv
<1>1. log[s] # 0 => log'[s] # 0
  BY RoomGrows DEF TypeInv
<1>2. Receives(s) => log[s] # 0
  BY DEF Receives, RecordReceipt, Answered
<1>3. Due(s)' => log[s] # 0
  BY <1>2, DueStep DEF NothingInvented, Learns, TruthInv
<1>4. journal'[s].life # "absent" => log[s] # 0
  <2>1. CASE Crash
    BY <2>1 DEF Crash, TruthInv
  <2>2. CASE ~ Crash
    BY <1>2, <2>2, DebtStep DEF TruthInv, TypeInv
  <2> QED BY <2>1, <2>2
<1>5. disk'.journal[s].life # "absent" => log[s] # 0
  BY <1>4, DiskStep DEF Image, TruthInv
<1> QED BY <1>1, <1>3, <1>4, <1>5

\* While a cycle attempt or turn is open: the memory knows the debts of the file,
\* and the file holds a debt for every delivery anything takes for granted.
DebtInv ==
  \A s \in Sources : KindOf[s] # "open" /\ ~ closed[s] =>
    /\ Owes(disk, s) => Owes(Image, s)
    /\ Due(s) => Owes(disk, s)

\* Every step keeps the debts of uncompleted deliveries, in memory and file.
LEMMA DebtInvStep ==
  TypeInv /\ DebtInv /\ [Next]_vars =>
    /\ DebtInv'
    /\ \A s \in Sources : KindOf[s] # "open" /\ Owes(disk, s) /\ ~ Owes(disk,
         s)' => closed[s]
<1> SUFFICES ASSUME TypeInv, DebtInv, [Next]_vars, NEW s \in Sources, KindOf[s] # "open"
             PROVE  /\ ~ closed[s]' => /\ Owes(disk, s)' => Owes(Image, s)'
                                       /\ Due(s)' => Owes(disk, s)'
                    /\ Owes(disk, s) /\ ~ Owes(disk, s)' => closed[s]
  BY DEF DebtInv
<1>1. closed[s] => closed[s]'
  BY RoomGrows DEF TypeInv
<1>2. ~ closed[s] /\ Owes(disk, s) => Owes(disk, s)' /\ Owes(Image, s)'
  <2>1. CASE Crash
    BY <2>1 DEF Crash, Owes, Image
  <2>2. CASE ~ Crash
    <3>1. ~ closed[s] /\ Owes(disk, s) => Owes(Image, s)'
      BY <2>2, DebtStep DEF DebtInv, TypeInv
    <3>2. Owes(Image, s)' => Owes(Image', s)
      BY DEF Owes, Image
    <3> QED BY <3>1, DiskStep DEF Owes, Image
  <2> QED BY <2>1, <2>2
<1>3. Receives(s) => Owes(disk, s)' /\ Owes(Image, s)'
  <2>1. Receives(s) => journal'[s] = Owed(s) /\ disk' = Image'
    BY DEF Receives, RecordReceipt, Persist, TypeInv, TypeOK, BindingTypes
  <2> QED BY <2>1 DEF Owed, Owes, Image
<1>4. Owes(disk, s)' /\ ~ Owes(disk, s) => Owes(Image, s)'
  BY DiskStep DEF Owes, Image
<1>5. Due(s)' => Due(s) \/ Receives(s)
  BY DueStep DEF NothingInvented, Learns
<1> QED BY <1>1, <1>2, <1>3, <1>4, <1>5 DEF DebtInv

\* Nothing is claimed or owed at first.
LEMMA ReceiptInit == Init => TruthInv /\ DebtInv
  BY DEF Init, TruthInv, DebtInv, Due, Delivered, RunDelivered, ReceiptLabels, Owes,
       Image,
         NoIntent, NoJournal

\* Claims are backed and debts are kept in every state.
LEMMA ReceiptInvariance == Spec => [](TruthInv /\ DebtInv)
<1>1. TypeInv /\ TruthInv /\ DebtInv /\ [Next]_vars => TruthInv' /\ DebtInv'
  BY TruthStep, DebtInvStep
<1> QED BY <1>1, ReceiptInit, TypeInvariance, PTL DEF Spec

\* Neither memory, nor file, nor an outcome given to the host calls a source posted
\* unless the Room holds its canonical message.
THEOREM PostedIsTrue == Spec => []ReceiptTruth
<1>1. TruthInv => ReceiptTruth
  BY DEF TruthInv, ReceiptTruth, SaysPosted, Due, Delivered, RunDelivered, Image
<1> QED BY <1>1, ReceiptInvariance, PTL

\* A receipt of a cycle or turn source is never in the file without the completion it
\* owes, unless the Room has completed it.
THEOREM PostedCarriesDebt == Spec => []ReceiptCarriesDebt
<1>1. DebtInv => ReceiptCarriesDebt
  BY DEF DebtInv, ReceiptCarriesDebt, Due, Delivered
<1> QED BY <1>1, ReceiptInvariance, PTL

\* A completion the file says is owed leaves the file only after the Room has seen
\* the attempt or turn completed.
THEOREM DebtsAreKept == Spec => NoDebtLost
<1>1. TypeInv /\ DebtInv /\ [Next]_vars =>
        [\A s \in Sources :
           KindOf[s] # "open" /\ Owes(disk, s) /\ ~ Owes(disk, s)' => closed[s]]_vars
  BY DebtInvStep
<1> QED BY <1>1, ReceiptInvariance, TypeInvariance, PTL DEF Spec, NoDebtLost
=============================================================================
