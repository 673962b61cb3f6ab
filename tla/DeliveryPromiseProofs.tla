------------------------ MODULE DeliveryPromiseProofs ------------------------
(***************************************************************************)
(* DeliveryLifecycle implements CanonicalReceipts: KeepsPromise holds for  *)
(* every value of the constants.  That every step maps to a step of the    *)
(* promise or to none needs to know that what the file has recorded is     *)
(* never taken back, and, while no run outlives the sweep, never changed:  *)
(* a source then has one generation at work at a time, none without being  *)
(* its owner, and none once its outcome is recorded.                       *)
(*                                                                         *)
(* The second half is about one source and its Room while no run outlives  *)
(* the sweep: the post stays what was frozen, and the completion is not    *)
(* called more often than the budget allows.                               *)
(***************************************************************************)
EXTENDS DeliveryLifecycleProofs, MCDeliveryLifecycle

-----------------------------------------------------------------------------
(***************************************************************************)
(* How far a step reaches                                                  *)
(***************************************************************************)
\* Nothing of t changes; an arrival of t may be over.
Untouched(t) ==
  /\ UNCHANGED <<intent[t], journal[t], inbox[t], evidence[t], run[t], text[t], result[t],
                 owner[t], log[t], calls[t], ack, sack>>
  /\ Arrived(t)' => Arrived(t)

\* The watch task takes up a source by its own number only.
LEMMA ArrivalElsewhere ==
  ASSUME NEW s \in Sources, NEW t \in Sources, t # s,
         \/ arrival' \in {arrival, NoArrival}
         \/ \E g : arrival' = [at |-> s, by |-> g]
  PROVE  Arrived(t)' => Arrived(t)
<1>1. t # 0
  BY DEF Sources
<1>2. Arrived(t)' => arrival'.at = t
  BY DEF Arrived
<1>3. arrival' = NoArrival => arrival'.at = 0
  BY DEF NoArrival
<1>4. ASSUME NEW g, arrival' = [at |-> s, by |-> g]
      PROVE  arrival'.at = s
  BY <1>4
<1>5. arrival' = arrival => (Arrived(t)' => Arrived(t))
  BY DEF Arrived
<1> QED BY <1>1, <1>2, <1>3, <1>4, <1>5

\* What a completion of s does to the records of another source: nothing.
LEMMA CompleteElsewhere ==
  ASSUME TypeOK, NEW s \in Sources, NEW status, NEW o, CompleteEvent(s, status, o),
         NEW t \in Sources, t # s
  PROVE  UNCHANGED <<intent[t], journal[t], inbox[t], evidence[t], ack>>
  BY DEF TypeOK, BindingTypes, CompleteEvent, CompleteNew, CompleteOld

\* A step of the watch task for s does not touch another source.
LEMMA WatchElsewhere ==
  ASSUME TypeOK, NEW s \in Sources, WatchNext(s), NEW t \in Sources, t # s
  PROVE  Untouched(t)
<1>1. ASSUME NEW o \in Outcomes,
             Reacknowledge(s, o) \/ \E status \in {"ignored", "superseded"} : Decline(s, status, o)
      PROVE  Untouched(t)
  <2>1. UNCHANGED <<intent[t], journal[t], inbox[t], evidence[t], ack>>
    BY <1>1, CompleteElsewhere DEF Reacknowledge, Decline, binding
  <2>2. arrival' = NoArrival
    BY <1>1 DEF Reacknowledge, Decline
  <2> QED BY <1>1, <2>1, <2>2, ArrivalElsewhere DEF Reacknowledge, Decline, server, Untouched
<1>2. ASSUME NEW o \in Outcomes, Deliver(s, o) \/ Sweep(s, o)
      PROVE  Untouched(t)
  <2>1. arrival' \in {arrival, NoArrival} \/ arrival' = [at |-> s, by |-> NoRun]
    BY <1>2 DEF Deliver, Sweep
  <2>2. Arrived(t)' => Arrived(t)
    BY <2>1, ArrivalElsewhere
  <2> QED BY <1>2, <2>2 DEF TypeOK, BindingTypes, RunTypes, Deliver, Sweep, server, Untouched
<1>3. ASSUME NEW o \in Outcomes,
             RepairExhausted(s, o) \/ RepairCall(s, o) \/ RepairDone(s, o) \/ RepairDebt(s, o)
      PROVE  Untouched(t)
  BY <1>3 DEF TypeOK, BindingTypes, RoomTypes, RepairExhausted, RepairCall, RepairDone,
              RepairDebt, Counted, Called, Completed, Debt, server, Untouched, Arrived
<1>4. CASE ArrivalDropped(s) \/ \E next \in Verdicts : RepairFails(s, next)
  BY <1>4, ArrivalElsewhere DEF ArrivalDropped, RepairFails, binding, server, Untouched
<1>5. ASSUME NEW g \in Runs, Dispatch(s, g)
      PROVE  Untouched(t)
  <2>1. Arrived(t)' => Arrived(t)
    BY <1>5, ArrivalElsewhere DEF Dispatch
  <2> QED BY <1>5, <2>1 DEF TypeOK, RunTypes, Dispatch, Goto, binding, server, Untouched
<1> QED BY <1>1, <1>2, <1>3, <1>4, <1>5 DEF WatchNext

\* Moving a generation of s, ending it or letting it escape.
LEMMA MovesElsewhere ==
  ASSUME TypeOK, NEW s \in Sources, NEW g \in Runs, NEW t \in Sources, t # s
  PROVE  /\ \A l : Goto(s, g, l) => run'[t] = run[t]
         /\ \A status : Ends(s, g, status) => run'[t] = run[t] /\ result'[t] = result[t]
         /\ \A fatal : Escapes(s, g, fatal) =>
              /\ UNCHANGED <<run[t], result[t], owner[t]>>
              /\ Arrived(t)' => Arrived(t)
  BY ArrivalElsewhere DEF TypeOK, RunTypes, Goto, Ends, Escapes

\* A step of a final send for s does not touch another source.
LEMMA SendElsewhere ==
  ASSUME TypeOK, NEW s \in Sources, NEW g \in Runs, SendNext(s, g), NEW t \in Sources, t # s
  PROVE  Untouched(t)
<1>1. CASE \/ SendFinal(s, g) \/ SendSuperseded(s, g) \/ SendRefused(s, g)
           \/ FinishSkip(s, g) \/ SkipRefused(s, g)
           \/ AuthorityGone(s, g) \/ PolicyUnavailable(s, g)
           \/ PostTooLate(s, g) \/ Replay(s, g)
  BY <1>1, MovesElsewhere
     DEF SendFinal, SendSuperseded, SendRefused, FinishSkip, SkipRefused, AuthorityGone,
         PolicyUnavailable, PostTooLate, Replay, binding, server, Untouched, Arrived
<1>2. CASE ProcessingPasses(s, g) \/ ProcessingEnds(s, g)
  BY <1>2, MovesElsewhere DEF TypeOK, RunTypes, ProcessingPasses, ProcessingEnds, binding,
                              server, Untouched, Arrived
<1>3. ASSUME NEW next \in Verdicts,
             AcquireFails(s, g, next) \/ PostFails(s, g, next) \/ LifecycleFails(s, g, next)
      PROVE  Untouched(t)
  BY <1>3, MovesElsewhere DEF AcquireFails, PostFails, LifecycleFails, binding, server,
                              Untouched, Arrived
<1>4. ASSUME NEW o \in Outcomes, NEW action \in {"post", "skip", "fail"},
             Select(s, g, action, o)
      PROVE  Untouched(t)
  <2>1. UNCHANGED <<intent[t], text[t], run[t], result[t], owner[t]>> /\ (Arrived(t)' => Arrived(t))
    BY <1>4, MovesElsewhere DEF TypeOK, BindingTypes, RunTypes, Select, Arrived
  <2> QED BY <1>4, <2>1 DEF Select, server, Untouched
<1>5. ASSUME NEW o \in Outcomes, Freeze(s, g, o) \/ RecordReceipt(s, g, o)
                                   \/ PostModeChanged(s, g, o)
      PROVE  Untouched(t)
  BY <1>5, MovesElsewhere DEF TypeOK, BindingTypes, RunTypes, Freeze, RecordReceipt,
     Receipted, PostModeChanged, binding, server, Untouched, Arrived
<1>6. ASSUME NEW o \in Outcomes, RecordDeliveryFailure(s, g, o)
      PROVE  Untouched(t)
  <2>1. UNCHANGED <<run[t], result[t], owner[t]>> /\ (Arrived(t)' => Arrived(t))
    BY <1>6, MovesElsewhere DEF RecordDeliveryFailure
  <2> QED BY <1>6, <2>1 DEF TypeOK, BindingTypes, RecordDeliveryFailure, binding, server,
                            Untouched
<1>7. ASSUME NEW o \in Outcomes, BeginLifecycle(s, g, o) \/ LifecycleDone(s, g, o)
                                   \/ RecordLifecycleFailure(s, g, o)
      PROVE  Untouched(t)
  <2>1. UNCHANGED <<run[t], result[t]>>
    BY <1>7, MovesElsewhere, BeginMoves DEF LifecycleDone, RecordLifecycleFailure
  <2>2. UNCHANGED <<intent[t], journal[t], calls[t]>>
    BY <1>7 DEF TypeOK, BindingTypes, RoomTypes, BeginLifecycle, LifecycleDone,
                RecordLifecycleFailure, Counted, Called, Completed, Debt, Receipted
  <2> QED BY <1>7, <2>1, <2>2 DEF BeginLifecycle, LifecycleDone, RecordLifecycleFailure,
                                  server, Untouched, Arrived
<1>8. ASSUME NEW o \in Outcomes, Settle(s, g, o)
      PROVE  Untouched(t)
  <2>1. UNCHANGED <<intent[t], journal[t], inbox[t], evidence[t], ack>>
    BY <1>8, CompleteElsewhere DEF Settle, binding
  <2>2. UNCHANGED <<run[t], owner[t]>> /\ (Arrived(t)' => Arrived(t))
    BY <1>8, MovesElsewhere, ArrivalElsewhere DEF TypeOK, RunTypes, Settle
  <2> QED BY <1>8, <2>1, <2>2 DEF Settle, server, Untouched
<1> QED BY <1>1, <1>2, <1>3, <1>4, <1>5, <1>6, <1>7, <1>8 DEF SendNext

-----------------------------------------------------------------------------
(***************************************************************************)
(* One generation at a time                                                *)
(***************************************************************************)
\* A generation at work owns its source; its source has no outcome and is not
\* acknowledged before the generation itself has recorded one.
Owned(s) == \A g \in Runs : run[s][g] \in Live => owner[s] = g
Unsettled(s) ==
  \A g \in Runs : run[s][g] \in Live \ {"settled"} => inbox[s] \notin Terminal /\ s > ack
OneOutcome(s) ==
  \A g \in Runs : run[s][g] = "settled" => evidence[s] \in {"none", result[s][g]}

\* Evidence is never without its note in the inbox; and what the file has recorded
\* is what the memory holds.
Recorded(image, s) == image.evidence[s] \in Terminal => image.inbox[s] \in Terminal
Stands(s) == s > sack /\ disk.evidence[s] \in Terminal => evidence[s] = disk.evidence[s]

Generation(s) ==
  /\ Owned(s) /\ Unsettled(s) /\ OneOutcome(s)
  /\ Recorded(Image, s) /\ Recorded(disk, s) /\ Stands(s)

\* The last event of a task in a step: a generation that goes on keeps its source,
\* one that has completed it ends, and only two steps bring it that far.
LEMMA SendMoves ==
  ASSUME TypeOK, NEW s \in Sources, NEW g \in Runs, SendNext(s, g)
  PROVE  /\ run[s][g] \in Live
         /\ \E l : /\ Goto(s, g, l)
                   /\ l \in Live => owner' = owner
                   /\ run[s][g] = "settled" => l = "done"
                   /\ l = "settled" => \/ ProcessingPasses(s, g)
                                       \/ \E o \in Outcomes : Settle(s, g, o)
<1> DEFINE Moves ==
      /\ run[s][g] \in Live
      /\ \E l : /\ Goto(s, g, l)
                /\ l \in Live => owner' = owner
                /\ run[s][g] = "settled" => l = "done"
                /\ l = "settled" => \/ ProcessingPasses(s, g)
                                    \/ \E o \in Outcomes : Settle(s, g, o)
<1>1. "done" \notin Live /\ "unsent" \in Live /\ "settled" \in Live
  BY DEF Live, Midway
<1>2. ASSUME NEW fatal, Escapes(s, g, fatal)
      PROVE  \E l \in {"done", "unsent"} : Goto(s, g, l) /\ (l \in Live => owner' = owner)
  BY <1>1, <1>2 DEF Escapes
<1>3. CASE \/ SendFinal(s, g) \/ SendSuperseded(s, g) \/ FinishSkip(s, g)
           \/ AuthorityGone(s, g) \/ PolicyUnavailable(s, g)
           \/ PostTooLate(s, g) \/ Replay(s, g)
  <2>1. run[s][g] \in Live \ {"settled"} /\ owner' = owner
    BY <1>3 DEF SendFinal, SendSuperseded, FinishSkip, AuthorityGone, PolicyUnavailable,
                PostTooLate, Replay, At, Sending, Live
  <2>2. \E l : Goto(s, g, l) /\ l # "settled"
    BY <1>3 DEF SendFinal, SendSuperseded, FinishSkip, AuthorityGone, PolicyUnavailable,
                PostTooLate, Replay, Ends
  <2> QED BY <2>1, <2>2
<1>4. CASE SendRefused(s, g) \/ SkipRefused(s, g)
  <2>1. run[s][g] \in Live \ {"settled"}
    BY <1>4 DEF SendRefused, SkipRefused, Live, At
  <2>2. \E fatal : Escapes(s, g, fatal)
    BY <1>4 DEF SendRefused, SkipRefused
  <2> QED BY <1>2, <2>1, <2>2
<1>5. CASE ProcessingEnds(s, g) \/ ProcessingPasses(s, g)
  BY <1>1, <1>5 DEF ProcessingEnds, ProcessingPasses, Live
<1>6. ASSUME NEW next \in Verdicts,
             AcquireFails(s, g, next) \/ PostFails(s, g, next) \/ LifecycleFails(s, g, next)
      PROVE  Moves
  BY <1>6 DEF AcquireFails, PostFails, LifecycleFails, At, Sending, Completing, Live, Verdicts
<1>7. ASSUME NEW o \in Outcomes, NEW action \in {"post", "skip", "fail"},
             Select(s, g, action, o)
      PROVE  Moves
  <2>1. run[s][g] \in Live \ {"settled"}
    BY <1>7 DEF Select, At, Live
  <2>2. \/ \E fatal : Escapes(s, g, fatal)
        \/ owner' = owner /\ \E l : Goto(s, g, l) /\ l # "settled"
    BY <1>7 DEF Select
  <2> QED BY <1>2, <2>1, <2>2
<1>8. ASSUME NEW o \in Outcomes, Freeze(s, g, o) \/ RecordReceipt(s, g, o)
                                   \/ PostModeChanged(s, g, o)
      PROVE  Moves
  <2>1. run[s][g] \in Live \ {"settled"} /\ owner' = owner
    BY <1>8 DEF Freeze, RecordReceipt, PostModeChanged, At, Sending, Live
  <2>2. \E l : Goto(s, g, l) /\ l # "settled"
    BY <1>8 DEF Freeze, AfterFreeze, Outcomes, RecordReceipt, PostModeChanged, Ends
  <2> QED BY <2>1, <2>2
<1>9. ASSUME NEW o \in Outcomes, RecordDeliveryFailure(s, g, o)
      PROVE  Moves
  <2>1. run[s][g] \in Live \ {"settled"}
    BY <1>9 DEF RecordDeliveryFailure, Live, Midway
  <2>2. \E fatal : Escapes(s, g, fatal)
    BY <1>9 DEF RecordDeliveryFailure
  <2> QED BY <1>2, <2>1, <2>2
<1>10. ASSUME NEW o \in Outcomes, BeginLifecycle(s, g, o) \/ LifecycleDone(s, g, o)
                                    \/ RecordLifecycleFailure(s, g, o)
       PROVE  Moves
  <2>1. run[s][g] \in Live \ {"settled"} /\ owner' = owner
    BY <1>10 DEF BeginLifecycle, LifecycleDone, RecordLifecycleFailure, Completing, Live, Midway
  <2>2. \E l : Goto(s, g, l) /\ l # "settled"
    BY <1>10, BeginMoves DEF LifecycleDone, RecordLifecycleFailure, Ends
  <2> QED BY <2>1, <2>2
<1>11. ASSUME NEW o \in Outcomes, Settle(s, g, o)
       PROVE  Moves
  <2>1. run[s][g] \in Live
    BY <1>11 DEF Settle, Live
  <2>2. \E l \in {"done", "settled"} : /\ Goto(s, g, l)
                                       /\ l = "settled" => owner' = owner
                                       /\ run[s][g] = "settled" => l = "done"
    BY <1>11 DEF Settle, At
  <2> QED BY <1>1, <1>11, <2>1, <2>2
<1> QED BY <1>3, <1>4, <1>5, <1>6, <1>7, <1>8, <1>9, <1>10, <1>11 DEF SendNext

\* What the file and the memory record about s survives a step that leaves its
\* evidence, its note and the cursors alone, whether or not the step is saved.
LEMMA QuietRecords ==
  ASSUME TypeOK, NEW s \in Sources, disk' = disk \/ disk' = Image',
         UNCHANGED <<inbox[s], evidence[s], sack>>,
         Recorded(Image, s), Recorded(disk, s), Stands(s)
  PROVE  (Recorded(Image, s) /\ Recorded(disk, s) /\ Stands(s))'
  BY DEF Recorded, Stands, Image

\* A completion records an outcome where there was none, or the same again.
LEMMA CompleteRecords ==
  ASSUME TypeOK, NEW s \in Sources, NEW status \in Terminal, NEW o,
         CompleteEvent(s, status, o), disk' = disk \/ disk' = Image', UNCHANGED sack,
         Recorded(Image, s), Recorded(disk, s), Stands(s),
         evidence[s] \in {"none", status}
  PROVE  /\ (Recorded(Image, s) /\ Recorded(disk, s) /\ Stands(s))'
         /\ evidence'[s] \in {"none", status}
<1>1. CASE CompleteNew(s, status, o)
  <2>1. inbox'[s] = status /\ evidence'[s] = status
    BY <1>1 DEF CompleteNew, TypeOK, BindingTypes
  <2>2. disk.evidence[s] \in Terminal /\ s > sack => disk.evidence[s] = status
    BY DEF Stands, Terminal
  <2> QED BY <2>1, <2>2 DEF Recorded, Stands, Image
<1>2. CASE CompleteOld(s, o)
  <2>1. UNCHANGED <<inbox[s], evidence[s]>>
    BY <1>2 DEF CompleteOld
  <2> QED BY <2>1, QuietRecords
<1> QED BY <1>1, <1>2 DEF CompleteEvent

\* A source no step touches keeps its one generation.
LEMMA GenerationElsewhere ==
  ASSUME TypeOK, NEW t \in Sources, Untouched(t), disk' = disk \/ disk' = Image',
         Generation(t)
  PROVE  Generation(t)'
<1>1. (Recorded(Image, t) /\ Recorded(disk, t) /\ Stands(t))'
  BY QuietRecords DEF Untouched, Generation
<1> QED BY <1>1 DEF Untouched, Generation, Owned, Unsettled, OneOutcome

\* A step of the watch task keeps the one generation of its source, as long as the
\* sweep leaves a source alone that a run works on.
LEMMA WatchGeneration ==
  ASSUME ~ LongRuns, TypeOK, NEW s \in Sources, WatchNext(s),
         disk' = disk \/ disk' = Image', Generation(s)
  PROVE  Generation(s)'
<1>1. sack' = sack
  BY DEF WatchNext, Deliver, Reacknowledge, Sweep, Decline, RepairExhausted, RepairCall,
         RepairDone, RepairDebt, RepairFails, ArrivalDropped, Dispatch, server
<1>2. ASSUME NEW status \in Terminal, NEW o \in Outcomes, CompleteEvent(s, status, o),
             UNCHANGED <<run, result, owner>>,
             \/ evidence[s] = status
             \/ inbox[s] \notin Terminal /\ owner[s] = NoRun
      PROVE  Generation(s)'
  <2>1. evidence[s] \in {"none", status}
    BY <1>2 DEF Generation, Recorded, Image, TypeOK, BindingTypes
  <2>2. (Recorded(Image, s) /\ Recorded(disk, s) /\ Stands(s))'
    BY <1>1, <1>2, <2>1, CompleteRecords DEF Generation
  <2>3. CASE inbox[s] \notin Terminal /\ owner[s] = NoRun
    <3>1. \A g \in Runs : run[s][g] \notin Live
      BY <2>3 DEF Generation, Owned, NoRun, Runs
    <3> QED BY <1>2, <2>2, <3>1 DEF Generation, Owned, Unsettled, OneOutcome, Live
  <2>4. CASE evidence[s] = status
    <3>1. \A g \in Runs : run[s][g] \in Live => run[s][g] = "settled"
      BY <2>4 DEF Generation, Unsettled, Recorded, Image
    <3>2. evidence'[s] = evidence[s]
      BY <1>2, <2>4 DEF CompleteEvent, CompleteNew, CompleteOld, TypeOK, BindingTypes
    <3> QED BY <1>2, <2>2, <3>1, <3>2 DEF Generation, Owned, Unsettled, OneOutcome
  <2> QED BY <1>2, <2>3, <2>4
<1>3. CASE UNCHANGED <<run, result, owner, inbox, evidence, ack>>
  BY <1>1, <1>3, QuietRecords DEF Generation, Owned, Unsettled, OneOutcome
<1>4. ASSUME NEW o \in Outcomes, Reacknowledge(s, o)
      PROVE  Generation(s)'
  BY <1>2, <1>3, <1>4 DEF Reacknowledge, binding
<1>5. ASSUME NEW o \in Outcomes, NEW status \in {"ignored", "superseded"}, Decline(s, status, o)
      PROVE  Generation(s)'
  BY <1>2, <1>5 DEF Decline, Terminal
<1>6. ASSUME NEW o \in Outcomes, Deliver(s, o)
      PROVE  Generation(s)'
  <2>1. inbox'[s] = Noted(s) /\ UNCHANGED <<run, result, owner, evidence, ack>>
    BY <1>6 DEF Deliver, TypeOK, BindingTypes
  <2>2. inbox'[s] \in Terminal <=> inbox[s] \in Terminal
    BY <2>1 DEF Noted, Terminal
  <2>3. (Recorded(Image, s) /\ Recorded(disk, s) /\ Stands(s))'
    BY <1>1, <2>1, <2>2 DEF Generation, Recorded, Stands, Image
  <2> QED BY <2>1, <2>2, <2>3 DEF Generation, Owned, Unsettled, OneOutcome
<1>7. ASSUME NEW o \in Outcomes, Sweep(s, o)
      PROVE  Generation(s)'
  <2>1. /\ inbox[s] \notin Terminal /\ inbox'[s] \notin Terminal
        /\ UNCHANGED <<run, result, evidence, ack>> /\ ~ LiveRun(s)
    BY <1>7 DEF Sweep, Terminal, TypeOK, BindingTypes
  <2>2. (Recorded(Image, s) /\ Recorded(disk, s) /\ Stands(s))'
    BY <1>1, <2>1 DEF Generation, Recorded, Stands, Image
  <2> QED BY <2>1, <2>2 DEF Generation, Owned, Unsettled, OneOutcome, LiveRun, Live
<1>8. ASSUME NEW g \in Runs, Dispatch(s, g)
      PROVE  Generation(s)'
  <2>1. \A h \in Runs : run[s][h] \notin Live
    BY <1>8 DEF Dispatch, Generation, Owned, NoRun, Runs
  <2>2. /\ UNCHANGED <<result, inbox, evidence, ack>> /\ owner'[s] = g
        /\ inbox[s] \notin Terminal /\ s > ack
        /\ \E l \in {"model", "resend"} : Goto(s, g, l)
    BY <1>8 DEF Dispatch, binding, TypeOK, RunTypes
  <2>3. \A h \in Runs : run'[s][h] \in Live => h = g /\ run'[s][h] # "settled"
    BY <2>1, <2>2 DEF Goto, TypeOK, RunTypes
  <2>4. (Recorded(Image, s) /\ Recorded(disk, s) /\ Stands(s))'
    BY <1>1, <2>2, QuietRecords DEF Generation
  <2> QED BY <2>2, <2>3, <2>4 DEF Generation, Owned, Unsettled, OneOutcome, Live
<1>9. ASSUME NEW o \in Outcomes,
             RepairExhausted(s, o) \/ RepairCall(s, o) \/ RepairDone(s, o) \/ RepairDebt(s, o)
      PROVE  Generation(s)'
  BY <1>3, <1>9 DEF RepairExhausted, RepairCall, RepairDone, RepairDebt
<1>10. CASE ArrivalDropped(s) \/ \E next \in Verdicts : RepairFails(s, next)
  BY <1>3, <1>10 DEF ArrivalDropped, RepairFails, binding
<1> QED BY <1>4, <1>5, <1>6, <1>7, <1>8, <1>9, <1>10 DEF WatchNext

\* Only the end of a send records an outcome; before it at most a failure is noted.
LEMMA SendNotes ==
  ASSUME TypeOK, NEW s \in Sources, NEW g \in Runs, SendNext(s, g)
  PROVE  /\ sack' = sack
         /\ \/ \E o \in Outcomes : Settle(s, g, o)
            \/ /\ UNCHANGED <<evidence, ack>>
               /\ \/ inbox'[s] = inbox[s]
                  \/ run[s][g] \in Live \ {"settled"} /\ inbox'[s] \notin Terminal
<1>1. CASE \/ SendFinal(s, g) \/ SendSuperseded(s, g) \/ SendRefused(s, g)
           \/ FinishSkip(s, g) \/ SkipRefused(s, g) \/ AuthorityGone(s, g)
           \/ PolicyUnavailable(s, g) \/ PostTooLate(s, g) \/ Replay(s, g)
           \/ ProcessingEnds(s, g) \/ ProcessingPasses(s, g)
  BY <1>1 DEF SendFinal, SendSuperseded, SendRefused, FinishSkip, SkipRefused, AuthorityGone,
              PolicyUnavailable, PostTooLate, Replay, ProcessingEnds, ProcessingPasses,
              binding, server
<1>2. ASSUME NEW next \in Verdicts,
             AcquireFails(s, g, next) \/ PostFails(s, g, next) \/ LifecycleFails(s, g, next)
      PROVE  UNCHANGED <<inbox, evidence, ack, sack>>
  BY <1>2 DEF AcquireFails, PostFails, LifecycleFails, binding, server
<1>3. ASSUME NEW o \in Outcomes,
             \/ Freeze(s, g, o) \/ RecordReceipt(s, g, o) \/ PostModeChanged(s, g, o)
             \/ BeginLifecycle(s, g, o) \/ LifecycleDone(s, g, o)
             \/ RecordLifecycleFailure(s, g, o)
             \/ \E action \in {"post", "skip", "fail"} : Select(s, g, action, o)
      PROVE  UNCHANGED <<inbox, evidence, ack, sack>>
  BY <1>3 DEF Freeze, RecordReceipt, PostModeChanged, BeginLifecycle, LifecycleDone,
              RecordLifecycleFailure, Select, binding, server
<1>4. ASSUME NEW o \in Outcomes, RecordDeliveryFailure(s, g, o)
      PROVE  /\ UNCHANGED <<evidence, ack, sack>>
             /\ \/ inbox'[s] = inbox[s]
                \/ run[s][g] \in Live \ {"settled"} /\ inbox'[s] \notin Terminal
  BY <1>4 DEF RecordDeliveryFailure, binding, server, Live, Midway, Terminal, TypeOK,
              BindingTypes
<1>5. ASSUME NEW o \in Outcomes, Settle(s, g, o)
      PROVE  sack' = sack
  BY <1>5 DEF Settle, server
<1> QED BY <1>1, <1>2, <1>3, <1>4, <1>5 DEF SendNext

\* A step of a send keeps the one generation of its source.
LEMMA SendGeneration ==
  ASSUME TypeOK, EndedHasResult, NEW s \in Sources, NEW g \in Runs, SendNext(s, g),
         disk' = disk \/ disk' = Image', Generation(s)
  PROVE  Generation(s)'
<1>1. \A h \in Runs : run[s][h] \in Live <=> h = g
  BY SendMoves DEF Generation, Owned
<1>2. PICK l : /\ Goto(s, g, l)
               /\ l \in Live => owner' = owner
               /\ run[s][g] = "settled" => l = "done"
               /\ l = "settled" => \/ ProcessingPasses(s, g)
                                   \/ \E o \in Outcomes : Settle(s, g, o)
  BY SendMoves
<1>3. \A h \in Runs : run'[s][h] = IF h = g THEN l ELSE run[s][h]
  BY <1>2 DEF Goto, TypeOK, RunTypes
<1>4. "done" \notin Live /\ "settled" \in Live
  BY DEF Live, Midway
<1>5. Owned(s)'
  BY <1>1, <1>2, <1>3 DEF Generation, Owned
<1>6. run[s][g] # "settled" => evidence[s] \notin Terminal /\ inbox[s] \notin Terminal /\ s > ack
  BY <1>1 DEF Generation, Unsettled, Recorded, Image
<1>7. CASE ~ \E o \in Outcomes : Settle(s, g, o)
  <2>1. /\ UNCHANGED <<evidence, ack, sack>>
        /\ \/ inbox'[s] = inbox[s]
           \/ run[s][g] # "settled" /\ inbox'[s] \notin Terminal
    BY <1>7, SendNotes
  <2>2. Unsettled(s)'
    BY <1>1, <1>2, <1>3, <1>4, <1>6, <2>1 DEF Unsettled
  <2>3. (Recorded(Image, s) /\ Recorded(disk, s) /\ Stands(s))'
    BY <1>6, <2>1 DEF Generation, Recorded, Stands, Image
  <2>4. OneOutcome(s)'
    <3>1. l = "settled" => evidence[s] = "none"
      BY <1>2, <1>6, <1>7 DEF ProcessingPasses, TypeOK, BindingTypes
    <3> QED BY <1>1, <1>3, <1>4, <2>1, <3>1 DEF OneOutcome
  <2> QED BY <1>5, <2>2, <2>3, <2>4 DEF Generation
<1>8. ASSUME NEW o \in Outcomes, Settle(s, g, o)
      PROVE  Generation(s)'
  <2>1. /\ l \in {"done", "settled"} /\ result' = result /\ sack' = sack
        /\ run[s][g] \in {"settling", "settled"}
        /\ \/ UNCHANGED <<inbox, evidence, ack>>
           \/ CompleteEvent(s, result[s][g], o)
    <3>1. \A m \in Labels : Goto(s, g, m) => m = l
      BY <1>2 DEF Goto, TypeOK, RunTypes
    <3>2. "done" \in Labels /\ "settled" \in Labels
      BY DEF Labels, Live
    <3> QED BY <1>8, <3>1, <3>2 DEF Settle, binding, server
  <2>2. result[s][g] \in Terminal
    BY <2>1 DEF EndedHasResult, TypeOK, RunTypes
  <2>3. evidence[s] \in {"none", result[s][g]}
    BY <1>6, <2>1 DEF Generation, OneOutcome, TypeOK, BindingTypes
  <2>4. /\ (Recorded(Image, s) /\ Recorded(disk, s) /\ Stands(s))'
        /\ evidence'[s] \in {"none", result[s][g]}
    BY <2>1, <2>2, <2>3, CompleteRecords, QuietRecords DEF Generation
  <2>5. Unsettled(s)' /\ OneOutcome(s)'
    BY <1>1, <1>3, <1>4, <2>1, <2>4 DEF Unsettled, OneOutcome
  <2> QED BY <1>5, <2>4, <2>5 DEF Generation
<1> QED BY <1>7, <1>8

\* An acknowledgement reaches recorded sources only, so no generation at work.
LEMMA AcknowledgeGeneration ==
  ASSUME TypeOK, ReachInv, NEW o, AcknowledgeReply(o), disk' = disk \/ disk' = Image',
         NEW t \in Sources, Generation(t)
  PROVE  Generation(t)'
<1>1. /\ ack' = acking /\ sack' = sack /\ sack = acking /\ UNCHANGED <<run, result, owner>>
      /\ inbox'[t] = IF t <= acking THEN "absent" ELSE inbox[t]
      /\ evidence'[t] = IF t <= acking THEN "none" ELSE evidence[t]
  BY DEF AcknowledgeReply, server
<1>2. t <= acking => t <= ack \/ inbox[t] \in Terminal
  BY DEF ReachInv, EvidenceReach, Generation, Recorded, Image
<1>3. ack \in Nat /\ acking \in Nat /\ t \in Nat
  BY SizeAssumption DEF TypeOK, BindingTypes, WatchTypes, Sources
<1>4. Unsettled(t)' /\ OneOutcome(t)' /\ Owned(t)'
  BY <1>1, <1>2, <1>3 DEF Generation, Owned, Unsettled, OneOutcome, Terminal
<1>5. (Recorded(Image, t) /\ Recorded(disk, t) /\ Stands(t))'
  BY <1>1, <1>3 DEF Generation, Recorded, Stands, Image, Terminal
<1> QED BY <1>4, <1>5 DEF Generation

\* Every step keeps one generation at work at a time, while no run outlives the sweep.
GenerationInv == \A s \in Sources : Generation(s)
LEMMA GenerationStep ==
  ~ LongRuns /\ TypeInv /\ ReachInv /\ GenerationInv /\ [Next]_vars => GenerationInv'
<1> SUFFICES ASSUME ~ LongRuns, TypeInv, ReachInv, GenerationInv, [Next]_vars, NEW t \in Sources
             PROVE  Generation(t)'
  BY DEF GenerationInv
<1>0. TypeOK /\ EndedHasResult /\ Generation(t) /\ (disk' = disk \/ disk' = Image')
  BY DiskStep DEF TypeInv, GenerationInv
<1>1. ASSUME NEW s \in Sources, WatchNext(s)
      PROVE  Generation(t)'
  BY <1>0, <1>1, WatchGeneration, WatchElsewhere, GenerationElsewhere
<1>2. ASSUME NEW s \in Sources, NEW g \in Runs, SendNext(s, g)
      PROVE  Generation(t)'
  BY <1>0, <1>2, SendGeneration, SendElsewhere, GenerationElsewhere
<1>3. CASE UNCHANGED <<run, result, owner, inbox, evidence, ack, sack>>
  BY <1>0, <1>3, QuietRecords DEF Generation, Owned, Unsettled, OneOutcome
<1>4. ASSUME NEW s \in Sources, RoomNext(s)
      PROVE  UNCHANGED <<run, result, owner, inbox, evidence, ack, sack>>
  BY <1>4 DEF RoomNext, ServerComplete, ServerSupersedes, LoseLease, ServerPost, binding,
              tasks, server
<1>5. CASE AcknowledgeFails \/ WatchStops \/ NewEpoch \/ UNCHANGED vars
  BY <1>3, <1>5 DEF AcknowledgeFails, WatchStops, NewEpoch, vars, binding, tasks, server
<1>6. CASE ServerAcknowledge
  <2>1. /\ sack' > sack /\ sack \in Nat /\ sack' \in Nat /\ t \in Nat
        /\ UNCHANGED <<run, result, owner, inbox, evidence, ack, disk>>
    BY <1>0, <1>6, SizeAssumption DEF ServerAcknowledge, binding, tasks, TypeOK, RoomTypes,
       WatchTypes, Sources
  <2> QED BY <1>0, <2>1 DEF Generation, Owned, Unsettled, OneOutcome, Recorded, Stands, Image
<1>7. ASSUME NEW o \in Outcomes, AcknowledgeReply(o)
      PROVE  Generation(t)'
  BY <1>0, <1>7, AcknowledgeGeneration
<1>8. CASE Crash
  <2>1. \A g \in Runs : run'[t][g] \notin Live
    BY <1>8 DEF Crash, Live, Midway
  <2>2. /\ UNCHANGED <<disk, sack>> /\ inbox' = disk.inbox /\ evidence' = disk.evidence
    BY <1>8 DEF Crash, server
  <2>3. "settled" \in Live
    BY DEF Live
  <2> QED BY <1>0, <2>1, <2>2, <2>3
          DEF Generation, Owned, Unsettled, OneOutcome, Recorded, Stands, Image
<1> QED BY <1>1, <1>2, <1>3, <1>4, <1>5, <1>6, <1>7, <1>8 DEF Next, LedgerNext

\* One generation at a time, in every state.
LEMMA GenerationInvariance ==
  ASSUME ~ LongRuns
  PROVE  Spec => []GenerationInv
<1>1. Init => GenerationInv
  BY DEF Init, Image, GenerationInv, Generation, Owned, Unsettled, OneOutcome, Recorded, Stands,
         Live, Midway, Terminal
<1>2. TypeInv /\ ReachInv /\ GenerationInv /\ [Next]_vars => GenerationInv'
  BY GenerationStep
<1> QED BY <1>1, <1>2, TypeInvariance, ReachInvariance, PTL DEF Spec

-----------------------------------------------------------------------------
(***************************************************************************)
(* What is recorded stays recorded                                         *)
(***************************************************************************)
\* What the file has recorded ahead of the Room's cursor, the memory has too.
Remembered(s) == s > sack /\ disk.evidence[s] \in Terminal => evidence[s] \in Terminal
RememberedInv == \A s \in Sources : Remembered(s)

\* A step takes no recorded outcome back, whatever the runs of the host do.
LEMMA EvidenceGrows ==
  ASSUME TypeInv, [Next]_vars, NEW t \in Sources, t > sack', Remembered(t),
         disk.evidence[t] \in Terminal
  PROVE  evidence'[t] \in Terminal
<1>0. /\ t \in Nat /\ sack \in Nat /\ sack' \in Nat
      /\ evidence \in [Sources -> Terminal \cup {"none"}]
  <2>1. sack' = sack \/ sack' = acking
    BY LedgerStep DEF LedgerMoves, LedgerNext, ServerAcknowledge, AcknowledgeFails,
                      AcknowledgeReply, Crash, server
  <2>2. sack \in 0 .. N /\ acking \in 0 .. N /\ evidence \in [Sources -> Terminal \cup {"none"}]
    BY DEF TypeInv, TypeOK, BindingTypes, RoomTypes, WatchTypes
  <2> QED BY <2>1, <2>2, SizeAssumption DEF Sources
<1>1. CASE UNCHANGED <<evidence, sack>>
  BY <1>0, <1>1 DEF Remembered
<1>2. ASSUME NEW s \in Sources, NEW status \in Terminal, NEW o, CompleteEvent(s, status, o),
             UNCHANGED sack
      PROVE  evidence'[t] \in Terminal
  BY <1>0, <1>2 DEF CompleteEvent, CompleteNew, CompleteOld, Remembered
<1>3. CASE ServerAcknowledge
  BY <1>0, <1>3 DEF ServerAcknowledge, binding, Remembered
<1>4. CASE AcknowledgeFails
  BY <1>1, <1>4 DEF AcknowledgeFails, binding, server
<1>5. ASSUME NEW o \in Outcomes, AcknowledgeReply(o)
      PROVE  evidence'[t] \in Terminal
  BY <1>0, <1>5 DEF AcknowledgeReply, server, Remembered
<1>6. CASE Crash
  BY <1>6 DEF Crash
<1> QED BY <1>1, <1>2, <1>3, <1>4, <1>5, <1>6, LedgerStep DEF LedgerMoves, LedgerNext

\* The memory knows every recorded outcome, in every state.
LEMMA RememberedInvariance == Spec => []RememberedInv
<1>1. Init => RememberedInv
  BY DEF Init, Image, RememberedInv, Remembered, Terminal
<1>2. TypeInv /\ RememberedInv /\ [Next]_vars => RememberedInv'
  <2> SUFFICES ASSUME TypeInv, RememberedInv, [Next]_vars, NEW t \in Sources,
                      t > sack', disk'.evidence[t] \in Terminal
               PROVE  evidence'[t] \in Terminal
    BY DEF RememberedInv, Remembered
  <2>1. disk'.evidence[t] = disk.evidence[t] \/ disk'.evidence[t] = evidence'[t]
    BY DiskStep DEF Image
  <2> QED BY <2>1, EvidenceGrows DEF RememberedInv
<1> QED BY <1>1, <1>2, TypeInvariance, PTL DEF Spec

\* While no run outlives the sweep, a completion repeats what is recorded.
LEMMA OutcomeStands ==
  ASSUME ~ LongRuns, TypeInv, GenerationInv, [Next]_vars, sack' = sack, NEW t \in Sources,
         t > sack, disk.evidence[t] \in Terminal
  PROVE  evidence'[t] = disk.evidence[t]
<1>1. /\ TypeOK /\ Generation(t) /\ evidence[t] = disk.evidence[t] /\ inbox[t] \in Terminal
      /\ \A g \in Runs : run[t][g] \in Live => run[t][g] = "settled" /\ result[t][g] = evidence[t]
  BY DEF TypeInv, GenerationInv, Generation, Stands, Recorded, Image, Unsettled, OneOutcome,
         Terminal
<1>2. ASSUME NEW s \in Sources, NEW status, NEW o, CompleteEvent(s, status, o),
             s = t => status = evidence[t]
      PROVE  evidence'[t] = evidence[t]
  BY <1>1, <1>2 DEF CompleteEvent, CompleteNew, CompleteOld, TypeOK, BindingTypes
<1>3. ASSUME NEW s \in Sources, NEW o \in Outcomes, Reacknowledge(s, o)
      PROVE  evidence'[t] = evidence[t]
  BY <1>2, <1>3 DEF Reacknowledge, binding
<1>4. ASSUME NEW s \in Sources, NEW o \in Outcomes, NEW status \in {"ignored", "superseded"},
             Decline(s, status, o)
      PROVE  evidence'[t] = evidence[t]
  BY <1>1, <1>2, <1>4 DEF Decline
<1>5. ASSUME NEW s \in Sources, NEW g \in Runs, NEW o \in Outcomes, Settle(s, g, o)
      PROVE  evidence'[t] = evidence[t]
  <2>1. run[s][g] \in Live
    BY <1>5 DEF Settle, Live
  <2> QED BY <1>1, <1>2, <1>5, <2>1 DEF Settle, binding
<1>6. ASSUME NEW s \in Sources, WatchNext(s)
      PROVE  evidence'[t] = evidence[t]
  BY <1>3, <1>4, <1>6 DEF WatchNext, Deliver, Sweep, RepairExhausted, RepairCall, RepairDone,
                          RepairDebt, RepairFails, ArrivalDropped, Dispatch, binding
<1>7. ASSUME NEW s \in Sources, NEW g \in Runs, SendNext(s, g)
      PROVE  evidence'[t] = evidence[t]
  BY <1>1, <1>5, <1>7, SendNotes
<1>8. ASSUME NEW s \in Sources, RoomNext(s)
      PROVE  UNCHANGED evidence
  BY <1>8 DEF RoomNext, ServerComplete, ServerSupersedes, LoseLease, ServerPost, binding
<1>9. CASE ServerAcknowledge \/ AcknowledgeFails \/ WatchStops \/ NewEpoch \/ UNCHANGED vars
  BY <1>1, <1>9 DEF ServerAcknowledge, AcknowledgeFails, WatchStops, NewEpoch, vars, binding
<1>10. ASSUME NEW o \in Outcomes, AcknowledgeReply(o)
       PROVE  evidence'[t] = evidence[t]
  <2>1. sack \in 0 .. N /\ t \in 1 .. N
    BY <1>1 DEF TypeOK, RoomTypes, Sources
  <2> QED BY <1>10, <2>1, SizeAssumption DEF AcknowledgeReply
<1>11. CASE Crash
  BY <1>1, <1>11 DEF Crash
<1> QED BY <1>1, <1>6, <1>7, <1>8, <1>9, <1>10, <1>11 DEF Next, LedgerNext

-----------------------------------------------------------------------------
(***************************************************************************)
(* The refinement                                                          *)
(***************************************************************************)
\* A message enters the Room one post at a time, and nothing is written meanwhile.
LEMMA MessageStep ==
  [Next]_vars => \/ log' = log
                 \/ \E s \in Sources, g \in Runs : ServerPost(s, g)
<1> SUFFICES ASSUME [Next]_vars, ~ \E s \in Sources, g \in Runs : ServerPost(s, g)
             PROVE  log' = log
  OBVIOUS
<1>1. ASSUME NEW s \in Sources, WatchNext(s)
      PROVE  log' = log
  BY <1>1 DEF WatchNext, Deliver, Reacknowledge, Decline, ArrivalDropped, Dispatch, Sweep,
              RepairExhausted, RepairCall, RepairDone, RepairDebt, RepairFails, server
<1>2. ASSUME NEW s \in Sources, NEW g \in Runs, SendNext(s, g)
      PROVE  log' = log
  BY <1>2 DEF SendNext, SendFinal, SendSuperseded, SendRefused, FinishSkip, SkipRefused,
              AuthorityGone, Replay, PolicyUnavailable, PostTooLate, ProcessingEnds,
              ProcessingPasses, AcquireFails, PostFails, LifecycleFails, Freeze,
              RecordReceipt, PostModeChanged, RecordDeliveryFailure, BeginLifecycle,
              LifecycleDone, RecordLifecycleFailure, Settle, Select, server
<1>3. ASSUME NEW s \in Sources, RoomNext(s)
      PROVE  log' = log
  BY <1>3 DEF RoomNext, ServerComplete, ServerSupersedes, LoseLease, server
<1>4. CASE LedgerNext \/ WatchStops \/ NewEpoch \/ Crash \/ UNCHANGED vars
  BY <1>4 DEF LedgerNext, ServerAcknowledge, AcknowledgeFails, AcknowledgeReply, WatchStops,
              NewEpoch, Crash, vars, server
<1> QED BY <1>1, <1>2, <1>3, <1>4 DEF Next

\* At first nothing is recorded, posted or acknowledged.
LEMMA PromiseBegins == Init => Receipts!Begin
  BY SizeAssumption DEF Init, Image, Sources, Receipts!Begin, Receipts!Events

\* A post publishes one message.
LEMMA PostPublishes ==
  ASSUME TypeOK, NEW s \in Sources, NEW g \in Runs, ServerPost(s, g), log'[s] # 0
  PROVE  Receipts!Publish
<1>1. UNCHANGED <<disk, sack>> /\ log[s] = 0 /\ log' = [log EXCEPT ![s] = text[s][g]]
  BY DEF ServerPost
<1>2. {t \in Sources : log'[t] # 0} = {t \in Sources : log[t] # 0} \cup {s}
  BY <1>1 DEF TypeOK, RoomTypes
<1> QED BY <1>1, <1>2 DEF Receipts!Publish, Receipts!Events, Sources

\* An acknowledgement passes recorded outcomes.
LEMMA AcknowledgementPasses ==
  ASSUME TypeInv, ReachInv, ServerAcknowledge
  PROVE  Receipts!Acknowledge
<1>1. UNCHANGED <<disk, log>> /\ sack' = acking /\ sack \in 0 .. N /\ acking \in 0 .. N
  BY DEF ServerAcknowledge, TypeInv, TypeOK, WatchTypes, RoomTypes
<1>2. sack' > sack /\ \A s \in (sack + 1) .. sack' : disk.evidence[s] \in Terminal
  <2>1. [Next]_vars
    BY DEF Next, LedgerNext
  <2> QED BY <1>1, <2>1, AckStep DEF ServerAcknowledge
<1>3. sack' \in (sack + 1) .. N
  BY <1>1, <1>2, SizeAssumption
<1>4. \A s \in (sack + 1) .. sack' : s \in Sources /\ ~ s <= sack
  BY <1>1, SizeAssumption DEF Sources
<1>5. \A s \in Sources : ~ s <= sack' => ~ s <= sack
  BY <1>1, <1>2, SizeAssumption DEF Sources
<1> QED BY <1>1, <1>2, <1>3, <1>4, <1>5 DEF Receipts!Acknowledge, Receipts!Events, Sources

\* A write of the file records outcomes: of sources that had none, unless a recorded
\* one may be revised, and a posted one only with a canonical message.
LEMMA WriteRecords ==
  ASSUME TypeInv, TypeOK', RememberedInv, TruthInv', ~ LongRuns => GenerationInv, [Next]_vars,
         UNCHANGED <<log, sack>>, disk' = Image'
  PROVE  Receipts!Record
<1> DEFINE Shown(s) == IF s <= sack THEN "acknowledged" ELSE disk.evidence[s]
<1>1. /\ sack \in Nat /\ sack' = sack /\ disk'.evidence = evidence'
      /\ \A s \in Sources : /\ s \in Nat
                            /\ disk.evidence[s] \in Terminal \cup {"none"}
                            /\ evidence'[s] \in Terminal \cup {"none"}
  BY SizeAssumption DEF TypeInv, TypeOK, BindingTypes, Images, RoomTypes, Sources, Image
<1>2. ASSUME NEW s \in Sources, Shown(s)' # Shown(s)
      PROVE  /\ Shown(s) = "none" \/ (LongRuns /\ Shown(s) \in Terminal)
             /\ Shown(s)' \in Terminal
             /\ Shown(s)' = "posted" => log[s] # 0
  <2>1. s > sack /\ Shown(s) = disk.evidence[s] /\ Shown(s)' = evidence'[s]
    BY <1>1, <1>2
  <2>2. disk.evidence[s] \in Terminal => LongRuns /\ evidence'[s] \in Terminal
    BY <1>1, <1>2, <2>1, OutcomeStands, EvidenceGrows DEF RememberedInv
  <2>3. evidence'[s] = "posted" => log[s] # 0
    BY DEF TruthInv, Due, Delivered, Image
  <2> QED BY <1>1, <1>2, <2>1, <2>2, <2>3
<1>3. \A s \in Sources : Shown(s)' \in Terminal \cup {"none", "acknowledged"}
  BY <1>1
<1> QED BY <1>1, <1>2, <1>3 DEF Receipts!Record, Receipts!Events, Sources

\* Every step is a step of the promise, or none.
LEMMA PromiseStep ==
  ASSUME TypeInv, TypeInv', ReachInv, RememberedInv, TruthInv', ~ LongRuns => GenerationInv,
         [Next]_vars
  PROVE  [Receipts!Advance]_(Receipts!promise)
<1>1. ASSUME NEW s \in Sources, NEW g \in Runs, ServerPost(s, g), log' # log
      PROVE  Receipts!Publish
  <2>1. log'[s] # 0
    BY <1>1 DEF ServerPost, TypeInv, TypeOK, RoomTypes
  <2> QED BY <1>1, <2>1, PostPublishes DEF TypeInv
<1>2. sack' = sack \/ ServerAcknowledge
  BY LedgerStep DEF LedgerMoves, LedgerNext, AcknowledgeFails, AcknowledgeReply, Crash, server
<1>3. CASE UNCHANGED <<log, sack, disk>>
  BY <1>3 DEF Receipts!promise
<1>4. CASE UNCHANGED <<log, sack>> /\ disk' = Image'
  BY <1>4, WriteRecords DEF TypeInv, Receipts!Advance
<1> QED BY <1>1, <1>2, <1>3, <1>4, MessageStep, AcknowledgementPasses, DiskStep
        DEF Receipts!Advance

\* The adapter implements the promise it makes to the Room: one outcome per event,
\* "posted" only with a canonical message, and a cursor that passes recorded outcomes
\* only, through every crash, failed save and overtaken run.
THEOREM PromiseIsKept == Spec => KeepsPromise
<1>1. CASE LongRuns
  <2>1. TypeInv /\ TypeInv' /\ ReachInv /\ RememberedInv /\ TruthInv' /\ [Next]_vars
          => [Receipts!Advance]_(Receipts!promise)
    BY <1>1, PromiseStep
  <2> QED BY <2>1, PromiseBegins, TypeInvariance, ReachInvariance, RememberedInvariance,
             ReceiptInvariance, PTL DEF Spec, KeepsPromise, Receipts!Promise
<1>2. CASE ~ LongRuns
  <2>1. TypeInv /\ TypeInv' /\ ReachInv /\ RememberedInv /\ TruthInv' /\ GenerationInv
          /\ [Next]_vars => [Receipts!Advance]_(Receipts!promise)
    BY PromiseStep
  <2>2. Spec => []GenerationInv
    BY <1>2, GenerationInvariance
  <2> QED BY <2>1, <2>2, PromiseBegins, TypeInvariance, ReachInvariance, RememberedInvariance,
             ReceiptInvariance, PTL DEF Spec, KeepsPromise, Receipts!Promise
<1> QED BY <1>1, <1>2

-----------------------------------------------------------------------------
(***************************************************************************)
(* The exchange with the Room                                              *)
(*                                                                         *)
(* What passes between the binding and the Room for one source, while no   *)
(* run outlives the sweep: a request on its way is the one frozen in the   *)
(* file and repeats the message the Room may already hold, and sender and  *)
(* repair together call for its completion within the budget.  Neither is  *)
(* inductive.  The strengthening says, of memory and file alike, what they *)
(* hold of a message in the Room and of the calls made for it, and, of the *)
(* one generation at work, what it may rely on at each of its steps.       *)
(***************************************************************************)
(***************************************************************************)
(* The inductive invariant                                                 *)
(***************************************************************************)
\* Nothing more is to be done for s.
Over(image, s) == image.inbox[s] \in Terminal \/ s <= image.ack

\* Memory and file: only a post is frozen, and only what was frozen is posted; the
\* message in the Room is the frozen one; a debt, or a call for one, follows a receipt;
\* and a journal has counted every call.
WellFrozen(image, s) ==
  /\ image.intent[s].frozen => image.intent[s].action = "post"
  /\ image.intent[s].state = "posted" => image.intent[s].frozen
PostKept(image, s) ==
  log[s] # 0 => \/ image.intent[s].frozen /\ image.intent[s].body = log[s]
                \/ Over(image, s)
ReceiptKept(image, s) ==
  calls[s] > 0 \/ image.journal[s].life # "absent" =>
    image.intent[s].state = "posted" \/ Over(image, s)
CallsCounted(image, s) ==
  image.journal[s].life # "absent" => calls[s] <= image.journal[s].attempts

Kept(image, s) == /\ WellFrozen(image, s) /\ PostKept(image, s)
                  /\ ReceiptKept(image, s) /\ CallsCounted(image, s)

\* A request frozen in memory is in the file.
Stored(s) ==
  intent[s].frozen => disk.intent[s].frozen /\ disk.intent[s].body = intent[s].body

\* An event that is about to be dispatched has no generation, and its request is stored.
Arrival(s) ==
  Arrived(s) /\ inbox[s] \notin Terminal /\ s > ack => owner[s] = NoRun /\ Stored(s)

\* What a generation relies on at each step of a final send.
Step(s, g) ==
  /\ run[s][g] \in {"model", "resend", "fence", "policy", "posting", "reposting"} => Stored(s)
  /\ run[s][g] = "acquire" => intent[s].action = "post" /\ ~ intent[s].frozen
  /\ run[s][g] \in {"policy", "posting", "reposting"} =>
       intent[s].frozen /\ text[s][g] = intent[s].body
  /\ Sending(s, g) => ~ Posted(s)
  /\ run[s][g] \in ReceiptLabels => Posted(s)
  /\ run[s][g] \in {"received", "replayed"} => journal[s].life # "absent"

Exchange(s) == /\ Kept(Image, s) /\ Kept(disk, s) /\ Arrival(s)
               /\ \A g \in Runs : Step(s, g)
               /\ calls[s] <= Budget

-----------------------------------------------------------------------------
(***************************************************************************)
(* What a step has to show                                                 *)
(***************************************************************************)
\* The file follows the memory, or stays as it was.
LEMMA DiskKept ==
  ASSUME NEW s \in Sources, disk' = Image' \/ (disk' = disk /\ UNCHANGED <<log[s], calls[s]>>),
         Kept(disk, s), Kept(Image, s)'
  PROVE  Kept(disk, s)'
<1>1. CASE disk' = Image'
  BY <1>1 DEF Kept, WellFrozen, PostKept, ReceiptKept, CallsCounted, Over, Image
<1>2. CASE disk' = disk /\ UNCHANGED <<log[s], calls[s]>>
  BY <1>2 DEF Kept, WellFrozen, PostKept, ReceiptKept, CallsCounted, Over
<1> QED BY <1>1, <1>2

\* What the binding holds of a source nothing happens to, it keeps.
LEMMA QuietKept ==
  ASSUME NEW s \in Sources, UNCHANGED <<intent[s], journal[s], inbox[s], ack, log[s], calls[s]>>,
         Kept(Image, s)
  PROVE  Kept(Image, s)'
  BY DEF Kept, WellFrozen, PostKept, ReceiptKept, CallsCounted, Over, Image

\* A stored request stays stored while the intent is left alone.
LEMMA QuietStored ==
  ASSUME NEW s \in Sources, intent'[s] = intent[s], disk' = disk \/ disk' = Image', Stored(s)
  PROVE  Stored(s)'
  BY DEF Stored, Image

\* A completion of s settles it.
LEMMA CompleteKept ==
  ASSUME TypeOK, NEW s \in Sources, NEW status \in Terminal, NEW o, CompleteEvent(s, status, o),
         UNCHANGED <<log, calls>>, Kept(Image, s)
  PROVE  Kept(Image, s)' /\ Over(Image, s)'
<1>1. /\ intent'[s] \in {intent[s], NoIntent} /\ journal'[s] \in {journal[s], NoJournal}
      /\ Over(Image, s)'
  BY DEF CompleteEvent, CompleteNew, CompleteOld, Cleared, Over, Image, TypeOK, BindingTypes
<1>2. WellFrozen(Image, s)'
  BY <1>1 DEF Kept, WellFrozen, Image, NoIntent
<1>3. CallsCounted(Image, s)'
  BY <1>1 DEF Kept, CallsCounted, Image, NoJournal
<1> QED BY <1>1, <1>2, <1>3 DEF Kept, PostKept, ReceiptKept

\* A source no step touches keeps what is exchanged for it.
LEMMA ExchangeElsewhere ==
  ASSUME TypeOK, NEW t \in Sources, Untouched(t), disk' = disk \/ disk' = Image', Exchange(t)
  PROVE  Exchange(t)'
<1>1. Kept(Image, t)' /\ Kept(disk, t)'
  BY QuietKept, DiskKept DEF Untouched, Exchange
<1>2. Stored(t) => Stored(t)'
  BY QuietStored DEF Untouched
<1>3. Arrival(t)'
  BY <1>2 DEF Untouched, Exchange, Arrival
<1>4. ASSUME NEW g \in Runs
      PROVE  Step(t, g)'
  BY <1>2 DEF Untouched, Exchange, Step, Sending, Posted
<1> QED BY <1>1, <1>3, <1>4 DEF Exchange, Untouched

-----------------------------------------------------------------------------
(***************************************************************************)
(* The steps of a final send                                               *)
(***************************************************************************)
\* The generation that goes on is the only one of its source.
LEMMA OneSender ==
  ASSUME TypeOK, NEW s \in Sources, NEW g \in Runs, SendNext(s, g), Generation(s), Step(s, g)'
  PROVE  \A h \in Runs : Step(s, h)'
<1>1. \A h \in Runs : h # g => run[s][h] \notin Live
  BY SendMoves DEF Generation, Owned
<1>2. \A h \in Runs : h # g => run'[s][h] = run[s][h]
  BY SendMoves DEF Goto, TypeOK, RunTypes
<1> QED BY <1>1, <1>2 DEF Step, Sending, ReceiptLabels, Live, Midway

\* No event of the source waits for its dispatch while a generation has it.
LEMMA SendArrival ==
  ASSUME TypeOK, EndedHasResult, NEW s \in Sources, NEW g \in Runs, SendNext(s, g),
         Generation(s), Arrival(s)
  PROVE  Arrival(s)'
<1>1. run[s][g] \in Live /\ owner[s] # NoRun
  BY SendMoves DEF Generation, Owned, NoRun, Runs
<1>2. Arrived(s) => inbox[s] \in Terminal \/ s <= ack
  BY <1>1, SizeAssumption DEF Arrival, TypeOK, BindingTypes, Sources
<1>3. arrival' \in {arrival, NoArrival}
  BY DEF SendNext, SendFinal, SendSuperseded, SendRefused, FinishSkip, SkipRefused,
         AuthorityGone, Replay, PolicyUnavailable, PostTooLate, ProcessingEnds,
         ProcessingPasses, AcquireFails, PostFails, LifecycleFails, Freeze,
         RecordReceipt, PostModeChanged, RecordDeliveryFailure, BeginLifecycle,
         LifecycleDone, RecordLifecycleFailure, Settle, Select, Escapes
<1>4. Arrived(s)' => Arrived(s)
  BY <1>3 DEF Arrived, NoArrival, Sources
<1>5. CASE ~ \E o \in Outcomes : Settle(s, g, o)
  <2>1. /\ ack' = ack
        /\ \/ inbox'[s] = inbox[s]
           \/ inbox[s] \notin Terminal /\ s > ack
    BY <1>5, SendNotes DEF Generation, Unsettled
  <2> QED BY <1>2, <1>4, <2>1, SizeAssumption DEF Arrival, TypeOK, BindingTypes, Sources
<1>6. ASSUME NEW o \in Outcomes, Settle(s, g, o)
      PROVE  Arrival(s)'
  <2>1. result[s][g] \in Terminal
    BY <1>6 DEF Settle, EndedHasResult, TypeOK, RunTypes
  <2>2. ack' = ack /\ (inbox' = inbox \/ inbox'[s] \in Terminal \/ s <= ack)
    BY <1>6, <2>1 DEF Settle, CompleteEvent, CompleteNew, CompleteOld, binding, TypeOK,
                      BindingTypes
  <2> QED BY <1>2, <1>4, <2>2, SizeAssumption DEF Arrival, TypeOK, BindingTypes, Sources
<1> QED BY <1>5, <1>6

\* The steps that leave the binding as it is: they move the generation.
LEMMA MoveExchange ==
  ASSUME TypeOK, NEW s \in Sources, NEW g \in Runs, disk' = disk \/ disk' = Image', Exchange(s),
         \/ SendFinal(s, g) \/ SendSuperseded(s, g) \/ SendRefused(s, g)
         \/ FinishSkip(s, g) \/ SkipRefused(s, g) \/ AuthorityGone(s, g)
         \/ PolicyUnavailable(s, g) \/ PostTooLate(s, g) \/ Replay(s, g)
         \/ ProcessingEnds(s, g) \/ ProcessingPasses(s, g)
         \/ \E next \in Verdicts :
              AcquireFails(s, g, next) \/ PostFails(s, g, next) \/ LifecycleFails(s, g, next)
         \/ \E o \in Outcomes : PostModeChanged(s, g, o)
  PROVE  Kept(Image, s)' /\ Step(s, g)'
<1>1. UNCHANGED <<intent, journal, inbox, ack, log, calls, text>>
  BY DEF SendFinal, SendSuperseded, SendRefused, FinishSkip, SkipRefused, AuthorityGone,
         PolicyUnavailable, PostTooLate, Replay, ProcessingEnds, ProcessingPasses,
         AcquireFails, PostFails, LifecycleFails, PostModeChanged, binding, server
<1>2. Kept(Image, s)'
  BY <1>1, QuietKept DEF Exchange
<1>3. Step(s, g) /\ (Stored(s) => Stored(s)')
  BY <1>1, QuietStored DEF Exchange
<1>4. CASE SendFinal(s, g)
  <2>1. Stored(s)' /\ run'[s][g] = "fence"
    BY <1>3, <1>4 DEF SendFinal, Goto, TypeOK, RunTypes, Step
  <2> QED BY <1>2, <2>1 DEF Step, Sending, ReceiptLabels
<1>5. CASE Replay(s, g)
  <2>1. Stored(s)' /\ intent[s].frozen /\ text[s][g] = intent[s].body
    BY <1>3, <1>5 DEF Replay, At, Step
  <2>2. \/ run'[s][g] = "reposting" /\ ~ Posted(s)
        \/ run'[s][g] = "replayed" /\ Posted(s) /\ journal[s].life # "absent"
        \/ run'[s][g] = "settling"
    BY <1>5 DEF Replay, Goto, Ends, TypeOK, RunTypes
  <2> QED BY <1>1, <1>2, <2>1, <2>2 DEF Step, Sending, Posted, ReceiptLabels
<1>6. ASSUME NEW next \in Verdicts, LifecycleFails(s, g, next)
      PROVE  Step(s, g)'
  BY <1>1, <1>6 DEF LifecycleFails, Completing, Goto, TypeOK, RunTypes, Exchange, Step,
                    Sending, Posted, ReceiptLabels
<1>7. ASSUME NEW l \in {"done", "settling", "settled", "unsent", "unsent-retry", "unsent-final"},
             Goto(s, g, l)
      PROVE  Step(s, g)'
  BY <1>7 DEF Goto, TypeOK, RunTypes, Step, Sending, ReceiptLabels
<1>8. CASE \/ SendSuperseded(s, g) \/ FinishSkip(s, g) \/ AuthorityGone(s, g)
           \/ PolicyUnavailable(s, g) \/ PostTooLate(s, g)
           \/ ProcessingEnds(s, g) \/ ProcessingPasses(s, g)
  BY <1>2, <1>7, <1>8 DEF SendSuperseded, FinishSkip, AuthorityGone, PolicyUnavailable, PostTooLate,
                    ProcessingEnds, ProcessingPasses, Ends
<1>9. CASE SendRefused(s, g) \/ SkipRefused(s, g)
  BY <1>2, <1>7, <1>9 DEF SendRefused, SkipRefused, Escapes
<1>10. ASSUME NEW next \in Verdicts, AcquireFails(s, g, next) \/ PostFails(s, g, next)
       PROVE  Step(s, g)'
  BY <1>7, <1>10 DEF AcquireFails, PostFails
<1>11. ASSUME NEW o \in Outcomes, PostModeChanged(s, g, o)
       PROVE  Step(s, g)'
  BY <1>7, <1>11 DEF PostModeChanged, Ends
<1> QED BY <1>2, <1>4, <1>5, <1>6, <1>8, <1>9, <1>10, <1>11

\* Selecting what to send: a frozen request is not selected anew.
LEMMA SelectExchange ==
  ASSUME TypeOK, NEW s \in Sources, NEW g \in Runs, NEW action \in {"post", "skip", "fail"},
         NEW o \in Outcomes, Select(s, g, action, o), Generation(s), Exchange(s)
  PROVE  Kept(Image, s)' /\ Step(s, g)'
<1>1. /\ UNCHANGED <<journal, inbox, ack, log, calls>>
      /\ run[s][g] \in {"fence", "model", "resend"}
      /\ disk' = disk \/ disk' = Image'
  BY DEF Select, server, At, Persist
<1>2. /\ intent[s].frozen => intent'[s] = intent[s]
      /\ ~ intent[s].frozen => ~ intent'[s].frozen /\ intent'[s].state # "posted"
      /\ text'[s][g] = intent'[s].body
  BY DEF Select, Exchange, Kept, WellFrozen, Image, TypeOK, BindingTypes, RunTypes, Intent
<1>3. ~ Over(Image, s) /\ Stored(s)
  BY <1>1, SizeAssumption DEF Generation, Unsettled, Exchange, Step, Live, Over, Image, TypeOK,
     BindingTypes, Sources
<1>4. Kept(Image, s)'
  BY <1>1, <1>2, <1>3 DEF Exchange, Kept, WellFrozen, PostKept, ReceiptKept, CallsCounted,
                          Over, Image
<1>5. Stored(s)'
  BY <1>1, <1>2, <1>3, QuietStored DEF Stored
<1>6. \E l \in {"done", "unsent", "failing", "skipping", "policy", "acquire"} :
        /\ Goto(s, g, l)
        /\ l = "policy" => intent'[s].frozen
        /\ l = "acquire" => intent'[s].action = "post" /\ ~ intent'[s].frozen
  <2>1. CASE \E fatal : Escapes(s, g, fatal)
    BY <2>1 DEF Escapes
  <2>2. CASE ~ \E fatal : Escapes(s, g, fatal)
    <3>1. \/ Goto(s, g, "failing") \/ Goto(s, g, "skipping")
          \/ Goto(s, g, "policy") /\ intent'[s].frozen
          \/ /\ Goto(s, g, "acquire")
             /\ intent'[s].action # "skip" /\ intent'[s].action # "none" /\ ~ intent'[s].frozen
      BY <2>2 DEF Select, TypeOK, BindingTypes, Intent
    <3>2. intent'[s].action \in {"none", "post", "skip"}
      BY DEF Select, TypeOK, BindingTypes, Intent
    <3> QED BY <3>1, <3>2
  <2> QED BY <2>1, <2>2
<1>7. PICK l \in {"done", "unsent", "failing", "skipping", "policy", "acquire"} :
             /\ run'[s][g] = l
             /\ l = "policy" => intent'[s].frozen
             /\ l = "acquire" => intent'[s].action = "post" /\ ~ intent'[s].frozen
  BY <1>6 DEF Goto, TypeOK, RunTypes
<1>8. Step(s, g)'
  BY <1>2, <1>5, <1>7 DEF Step, Sending, ReceiptLabels
<1> QED BY <1>4, <1>8

\* Freezing the request: it goes out only when it is in the file.
LEMMA FreezeExchange ==
  ASSUME TypeOK, NEW s \in Sources, NEW g \in Runs, NEW o \in Outcomes, Freeze(s, g, o),
         Generation(s), Exchange(s)
  PROVE  Kept(Image, s)' /\ Step(s, g)'
<1>1. /\ UNCHANGED <<journal, inbox, ack, log, calls>>
      /\ intent[s].action = "post" /\ ~ intent[s].frozen /\ ~ Posted(s)
      /\ intent'[s] = [intent[s] EXCEPT !.frozen = TRUE] /\ text'[s][g] = intent[s].body
      /\ o = "ok" => disk' = Image'
      /\ \E l \in {"posting", "unsent-final", "unsent-retry"} :
           run'[s][g] = l /\ (l = "posting" => o = "ok")
  BY DEF Freeze, server, At, Persist, AfterFreeze, Outcomes, Goto, Exchange, Step, Kept, WellFrozen,
         Image, Posted, TypeOK, BindingTypes, RunTypes, Intent
<1>2. ~ Over(Image, s)
  BY SizeAssumption DEF Freeze, At, Generation, Unsettled, Live, Over, Image, TypeOK,
     BindingTypes, Sources
<1>3. Kept(Image, s)'
  BY <1>1, <1>2 DEF Exchange, Kept, WellFrozen, PostKept, ReceiptKept, CallsCounted, Over, Image,
                    Posted, TypeOK, BindingTypes, Intent
<1>4. Step(s, g)'
  BY <1>1 DEF Step, Sending, ReceiptLabels, Stored, Image, Posted, TypeOK, BindingTypes, Intent
<1> QED BY <1>3, <1>4

\* A receipt is saved for a message no call was made for yet.
LEMMA ReceiptExchange ==
  ASSUME TypeOK, NEW s \in Sources, NEW g \in Runs, NEW o \in Outcomes, RecordReceipt(s, g, o),
         Generation(s), Exchange(s)
  PROVE  Kept(Image, s)' /\ Step(s, g)'
<1>1. /\ UNCHANGED <<inbox, ack, log, calls>> /\ intent[s].frozen /\ ~ Posted(s)
      /\ ~ Over(Image, s) /\ Kept(Image, s)
  <2>1. UNCHANGED <<inbox, ack, log, calls>> /\ Sending(s, g)
    BY DEF RecordReceipt, server
  <2>2. intent[s].frozen /\ ~ Posted(s) /\ Kept(Image, s)
    BY <2>1 DEF Exchange, Step, Sending
  <2>3. inbox[s] \notin Terminal /\ s > ack
    BY <2>1 DEF Sending, Generation, Unsettled, Live
  <2>4. Image.inbox = inbox /\ Image.ack = ack /\ s \in Nat /\ ack \in Nat
    BY SizeAssumption DEF Image, TypeOK, BindingTypes, Sources
  <2> QED BY <2>1, <2>2, <2>3, <2>4 DEF Over
<1>2. CASE o = "ok"
  <2>1. /\ intent'[s] = [intent[s] EXCEPT !.state = "posted"]
        /\ journal'[s].life # "absent" /\ journal'[s].attempts = 0
        /\ run'[s][g] \in {"received", "replayed"}
    BY <1>2 DEF RecordReceipt, Receipted, Owed, Goto, TypeOK, BindingTypes, RunTypes
  <2>2. calls[s] = 0
    <3>1. ~ calls[s] > 0 /\ calls[s] \in Nat
      BY <1>1 DEF Kept, ReceiptKept, Posted, Image, TypeOK, RoomTypes
    <3> QED BY <3>1
  <2>3. intent'[s].frozen /\ intent'[s].action = intent[s].action /\ intent'[s].state = "posted"
        /\ intent'[s].body = intent[s].body
    BY <1>1, <2>1 DEF TypeOK, BindingTypes, Intent
  <2>4. WellFrozen(Image, s)' /\ PostKept(Image, s)' /\ ReceiptKept(Image, s)'
    BY <1>1, <2>3 DEF Kept, WellFrozen, PostKept, ReceiptKept, Over, Image
  <2>5. CallsCounted(Image, s)'
    BY <1>1, <2>1, <2>2 DEF CallsCounted, Image
  <2> QED BY <2>1, <2>3, <2>4, <2>5 DEF Kept, Step, Sending, Posted, ReceiptLabels
<1>3. CASE o # "ok"
  <2>1. UNCHANGED <<intent, journal>> /\ run'[s][g] = "unsent-retry"
    BY <1>3 DEF RecordReceipt, Goto, TypeOK, RunTypes
  <2> QED BY <1>1, <2>1, QuietKept DEF Step, Sending, ReceiptLabels
<1> QED BY <1>2, <1>3

\* A failed delivery is noted in the intent's state only.
LEMMA FailureExchange ==
  ASSUME TypeOK, NEW s \in Sources, NEW g \in Runs, NEW o \in Outcomes,
         RecordDeliveryFailure(s, g, o), Generation(s), Exchange(s)
  PROVE  Kept(Image, s)' /\ Step(s, g)'
<1>1. /\ UNCHANGED <<journal, ack, log, calls>>
      /\ ~ Over(Image, s) /\ Kept(Image, s)
  <2>1. UNCHANGED <<journal, ack, log, calls>> /\ run[s][g] \in Live \ {"settled"}
    BY DEF RecordDeliveryFailure, binding, server, Live, Midway
  <2> QED BY <2>1, SizeAssumption DEF Exchange, Generation, Unsettled, Over, Image, TypeOK,
             BindingTypes, Sources
<1>2. Kept(Image, s)'
  <2>1. CASE Posted(s)
    BY <1>1, <2>1, QuietKept DEF RecordDeliveryFailure, binding
  <2>2. CASE ~ Posted(s)
    <3>1. /\ intent'[s].frozen = intent[s].frozen /\ intent'[s].action = intent[s].action
          /\ intent'[s].body = intent[s].body /\ intent'[s].state # "posted"
      BY <2>2 DEF RecordDeliveryFailure, TypeOK, BindingTypes, Intent
    <3> QED BY <1>1, <2>2, <3>1
            DEF Kept, WellFrozen, PostKept, ReceiptKept, CallsCounted, Over, Image, Posted
  <2> QED BY <2>1, <2>2
<1>3. run'[s][g] \in {"done", "unsent"}
  BY DEF RecordDeliveryFailure, Escapes, Goto, TypeOK, RunTypes
<1> QED BY <1>2, <1>3 DEF Step, Sending, ReceiptLabels

\* The calls the sender makes, and their answers.
LEMMA LifecycleExchange ==
  ASSUME TypeOK, NEW s \in Sources, NEW g \in Runs, NEW o \in Outcomes, Exchange(s),
         BeginLifecycle(s, g, o) \/ LifecycleDone(s, g, o) \/ RecordLifecycleFailure(s, g, o)
  PROVE  /\ Kept(Image, s)' /\ Step(s, g)' /\ calls'[s] <= Budget
         /\ calls'[s] = calls[s] \/ disk' = Image'
<1>1. UNCHANGED <<inbox, ack, log>> /\ Posted(s) /\ Kept(Image, s) /\ run[s][g] \in ReceiptLabels
  BY DEF BeginLifecycle, LifecycleDone, RecordLifecycleFailure, Completing, server, Exchange,
         Step, ReceiptLabels
<1>2. /\ Posted(s)' /\ intent'[s].frozen = intent[s].frozen
      /\ intent'[s].action = intent[s].action /\ intent'[s].body = intent[s].body
  BY <1>1 DEF BeginLifecycle, LifecycleDone, RecordLifecycleFailure, Receipted, Posted, TypeOK,
              BindingTypes, Intent
<1>3. /\ journal'[s].life # "absent" =>
           /\ journal[s].life # "absent"
           /\ calls'[s] - calls[s] <= journal'[s].attempts - journal[s].attempts
      /\ calls[s] \in Nat /\ calls'[s] \in Nat /\ journal[s].attempts \in Nat
      /\ journal'[s].attempts \in Nat /\ calls'[s] <= Budget
      /\ calls'[s] = calls[s] \/ disk' = Image'
  <2>1. calls[s] \in Nat /\ journal[s] \in Journal /\ calls[s] <= Budget /\ Step(s, g)
    BY DEF TypeOK, BindingTypes, RoomTypes, Exchange
  <2>2. CASE BeginLifecycle(s, g, o) /\ KindOf[s] # "open" /\ journal[s].attempts < Budget
    <3>1. /\ journal'[s] = [journal[s] EXCEPT !.attempts = @ + 1]
          /\ calls'[s] = calls[s] \/ (calls'[s] = calls[s] + 1 /\ disk' = Image')
          /\ journal[s].life # "absent" /\ calls[s] <= journal[s].attempts
      BY <1>1, <2>1, <2>2, SizeAssumption DEF BeginLifecycle, Counted, Called, Persist, TypeOK,
         BindingTypes, RoomTypes, Step, Kept, CallsCounted, Image, Journal
    <3>2. journal'[s].attempts = journal[s].attempts + 1
      BY <2>1, <3>1 DEF Journal
    <3> QED BY <2>1, <2>2, <3>1, <3>2, SizeAssumption DEF Journal
  <2>3. CASE BeginLifecycle(s, g, o) /\ ~ (KindOf[s] # "open" /\ journal[s].attempts < Budget)
    <3>1. calls' = calls /\ journal'[s] \in {journal[s], NoJournal}
      BY <2>1, <2>3, SizeAssumption DEF BeginLifecycle, Completed, TypeOK, BindingTypes, Journal
    <3> QED BY <2>1, <3>1 DEF Journal, NoJournal
  <2>4. CASE LifecycleDone(s, g, o)
    <3>1. calls' = calls /\ journal'[s] \in {journal[s], NoJournal}
      BY <2>1, <2>4 DEF LifecycleDone, Completed, TypeOK, BindingTypes
    <3> QED BY <2>1, <3>1 DEF Journal, NoJournal
  <2>5. CASE RecordLifecycleFailure(s, g, o)
    <3>1. calls' = calls /\ journal'[s].attempts = journal[s].attempts
          /\ (journal'[s].life # "absent" => journal[s].life # "absent")
      BY <2>1, <2>5 DEF RecordLifecycleFailure, DebtSound, Debt, TypeOK, BindingTypes, Journal
    <3> QED BY <2>1, <3>1 DEF Journal
  <2> QED BY <2>2, <2>3, <2>4, <2>5
<1>4. Kept(Image, s)'
  BY <1>1, <1>2, <1>3 DEF Kept, WellFrozen, PostKept, ReceiptKept, CallsCounted, Over, Image, Posted
<1>5. run'[s][g] \in {"completing", "replaying", "debt-retry", "debt-final", "settling"}
  BY DEF BeginLifecycle, LifecycleDone, RecordLifecycleFailure, Ends, Goto, TypeOK, RunTypes,
         Outcomes
<1> QED BY <1>2, <1>3, <1>4, <1>5 DEF Step, Sending, ReceiptLabels

\* The end of a send.
LEMMA SettleExchange ==
  ASSUME TypeOK, EndedHasResult, NEW s \in Sources, NEW g \in Runs, NEW o \in Outcomes,
         Settle(s, g, o), Exchange(s)
  PROVE  Kept(Image, s)' /\ Step(s, g)'
<1>1. result[s][g] \in Terminal
  BY DEF Settle, EndedHasResult, TypeOK, RunTypes
<1>2. Kept(Image, s)'
  BY <1>1, CompleteKept, QuietKept DEF Settle, binding, server, Exchange
<1>3. run'[s][g] \in {"done", "settled"}
  BY DEF Settle, Goto, TypeOK, RunTypes
<1> QED BY <1>2, <1>3 DEF Step, Sending, ReceiptLabels

\* Every step of a final send keeps what is exchanged for its source.
LEMMA SendExchange ==
  ASSUME TypeOK, EndedHasResult, NEW s \in Sources, NEW g \in Runs, SendNext(s, g),
         disk' = disk \/ disk' = Image', Generation(s), Exchange(s)
  PROVE  Exchange(s)'
<1>1. /\ Kept(Image, s)' /\ Step(s, g)' /\ log' = log /\ calls'[s] <= Budget
      /\ calls'[s] = calls[s] \/ disk' = Image'
  <2>1. CASE \/ SendFinal(s, g) \/ SendSuperseded(s, g) \/ SendRefused(s, g)
             \/ FinishSkip(s, g) \/ SkipRefused(s, g) \/ AuthorityGone(s, g)
             \/ PolicyUnavailable(s, g) \/ PostTooLate(s, g) \/ Replay(s, g)
             \/ ProcessingEnds(s, g) \/ ProcessingPasses(s, g)
             \/ \E next \in Verdicts :
                  AcquireFails(s, g, next) \/ PostFails(s, g, next) \/ LifecycleFails(s, g, next)
             \/ \E o \in Outcomes : PostModeChanged(s, g, o)
    <3>1. UNCHANGED <<log, calls>>
      BY <2>1 DEF SendFinal, SendSuperseded, SendRefused, FinishSkip, SkipRefused, AuthorityGone,
         PolicyUnavailable, PostTooLate, Replay, ProcessingEnds, ProcessingPasses,
         AcquireFails, PostFails, LifecycleFails, PostModeChanged, server
    <3> QED BY <2>1, <3>1, MoveExchange DEF Exchange
  <2>2. ASSUME NEW o \in Outcomes, NEW action \in {"post", "skip", "fail"}, Select(s, g, action, o)
        PROVE  Kept(Image, s)' /\ Step(s, g)' /\ UNCHANGED <<log, calls>>
    <3>1. UNCHANGED <<log, calls>>
      BY <2>2 DEF Select, server
    <3> QED BY <2>2, <3>1, SelectExchange
  <2>3. ASSUME NEW o \in Outcomes, Freeze(s, g, o) \/ RecordReceipt(s, g, o)
                                     \/ RecordDeliveryFailure(s, g, o) \/ Settle(s, g, o)
        PROVE  Kept(Image, s)' /\ Step(s, g)' /\ UNCHANGED <<log, calls>>
    <3>1. UNCHANGED <<log, calls>>
      BY <2>3 DEF Freeze, RecordReceipt, RecordDeliveryFailure, Settle, server
    <3> QED BY <2>3, <3>1, FreezeExchange, ReceiptExchange, FailureExchange, SettleExchange
  <2>4. ASSUME NEW o \in Outcomes, BeginLifecycle(s, g, o) \/ LifecycleDone(s, g, o)
                                     \/ RecordLifecycleFailure(s, g, o)
        PROVE  /\ Kept(Image, s)' /\ Step(s, g)' /\ log' = log /\ calls'[s] <= Budget
               /\ calls'[s] = calls[s] \/ disk' = Image'
    <3>1. log' = log
      BY <2>4 DEF BeginLifecycle, LifecycleDone, RecordLifecycleFailure, server
    <3> QED BY <2>4, <3>1, LifecycleExchange
  <2>5. calls[s] <= Budget
    BY DEF Exchange
  <2> QED BY <2>1, <2>2, <2>3, <2>4, <2>5 DEF SendNext
<1>2. Kept(disk, s)'
  BY <1>1, DiskKept DEF Exchange
<1> QED BY <1>1, <1>2, OneSender, SendArrival DEF Exchange

-----------------------------------------------------------------------------
(***************************************************************************)
(* The steps of the watch task                                             *)
(***************************************************************************)
\* A step that leaves runs and intent alone disturbs no generation, unless it drops the
\* journal under one that has just received.
LEMMA QuietSteps ==
  ASSUME NEW s \in Sources, UNCHANGED <<run, text>>, intent'[s] = intent[s],
         disk' = disk \/ disk' = Image', \A g \in Runs : Step(s, g),
         \/ journal[s].life # "absent" => journal'[s].life # "absent"
         \/ \A g \in Runs : run[s][g] \notin Midway
  PROVE  \A g \in Runs : Step(s, g)'
<1>1. Stored(s) => Stored(s)'
  BY QuietStored
<1> QED BY <1>1 DEF Step, Sending, Posted, ReceiptLabels, Midway

\* A completion without a send: no generation is at work.
LEMMA AcknowledgedExchange ==
  ASSUME TypeOK, NEW s \in Sources, NEW status \in Terminal, NEW o, CompleteEvent(s, status, o),
         inbox[s] \in Terminal \/ owner[s] = NoRun, UNCHANGED <<run, log, calls>>,
         arrival' = NoArrival, disk' = disk \/ disk' = Image', Generation(s), Exchange(s)
  PROVE  Exchange(s)'
<1>1. Kept(Image, s)' /\ Kept(disk, s)'
  BY CompleteKept, DiskKept DEF Exchange
<1>2. \A g \in Runs : run[s][g] \notin Live \ {"settled"}
  BY DEF Generation, Owned, Unsettled, NoRun, Runs
<1>3. \A g \in Runs : Step(s, g)'
  BY <1>2 DEF Step, Sending, ReceiptLabels, Live, Midway
<1>4. Arrival(s)'
  BY DEF Arrival, Arrived, NoArrival, Sources
<1> QED BY <1>1, <1>3, <1>4 DEF Exchange

\* The calls the repair makes are counted like the sender's.
LEMMA RepairExchange ==
  ASSUME TypeOK, NEW s \in Sources, NEW o \in Outcomes, disk' = disk \/ disk' = Image', Exchange(s),
         RepairExhausted(s, o) \/ RepairCall(s, o) \/ RepairDone(s, o) \/ RepairDebt(s, o)
  PROVE  Exchange(s)'
<1>1. /\ UNCHANGED <<intent, inbox, ack, log, run, text, owner, arrival>>
  BY DEF RepairExhausted, RepairCall, RepairDone, RepairDebt, server
<1>2. calls[s] \in Nat /\ journal[s] \in Journal /\ calls[s] <= Budget /\ Kept(Image, s)
  BY DEF TypeOK, BindingTypes, RoomTypes, Exchange
<1>3. /\ journal'[s].life # "absent" =>
           /\ journal[s].life # "absent"
           /\ calls'[s] - calls[s] <= journal'[s].attempts - journal[s].attempts
      /\ calls'[s] # calls[s] => journal[s].life # "absent" /\ disk' = Image'
      /\ journal'[s].attempts \in Nat /\ calls'[s] \in Nat /\ calls'[s] <= Budget
      /\ \/ journal[s].life # "absent" => journal'[s].life # "absent"
         \/ \A g \in Runs : run[s][g] \notin Midway
  <2>1. CASE RepairCall(s, o) /\ KindOf[s] # "open"
    <3>1. /\ journal'[s] = [journal[s] EXCEPT !.attempts = @ + 1]
          /\ calls'[s] = calls[s] \/ (calls'[s] = calls[s] + 1 /\ disk' = Image')
          /\ journal[s].life # "absent" /\ journal[s].attempts < Budget
          /\ calls[s] <= journal[s].attempts
      BY <1>2, <2>1 DEF RepairCall, Counted, Called, Persist, TypeOK, BindingTypes, RoomTypes,
                        Kept, CallsCounted, Image
    <3>2. /\ journal'[s].attempts = journal[s].attempts + 1
          /\ journal'[s].life = journal[s].life /\ journal[s].attempts \in Nat
      BY <1>2, <3>1 DEF Journal
    <3> QED BY <1>2, <3>1, <3>2, SizeAssumption
  <2>2. CASE RepairCall(s, o) /\ KindOf[s] = "open"
    BY <1>2, <2>2 DEF RepairCall, Journal
  <2>3. CASE RepairExhausted(s, o) \/ RepairDebt(s, o)
    <3>1. /\ calls' = calls /\ journal'[s].attempts = journal[s].attempts
          /\ journal'[s].life # "absent" <=> journal[s].life # "absent"
      BY <1>2, <2>3 DEF RepairExhausted, RepairDebt, DebtSound, Debt, TypeOK, BindingTypes, Journal
    <3> QED BY <1>2, <3>1 DEF Journal
  <2>4. CASE RepairDone(s, o)
    <3>1. calls' = calls /\ journal'[s] \in {journal[s], NoJournal}
          /\ \A g \in Runs : run[s][g] \notin Midway
      BY <1>2, <2>4 DEF RepairDone, LoopFree, Completed, TypeOK, BindingTypes
    <3> QED BY <1>2, <3>1 DEF Journal, NoJournal
  <2> QED BY <2>1, <2>2, <2>3, <2>4
<1>4. Kept(Image, s)'
  <2>1. WellFrozen(Image, s)' /\ PostKept(Image, s)' /\ ReceiptKept(Image, s)'
    BY <1>1, <1>2, <1>3 DEF Kept, WellFrozen, PostKept, ReceiptKept, Over, Image
  <2>2. journal[s].attempts \in Nat
    BY <1>2 DEF Journal
  <2>3. CallsCounted(Image, s)'
    BY <1>2, <1>3, <2>2 DEF Kept, CallsCounted, Image
  <2> QED BY <2>1, <2>3 DEF Kept
<1>5. Kept(disk, s)'
  BY <1>1, <1>3, <1>4, DiskKept DEF Exchange
<1>6. \A g \in Runs : Step(s, g)'
  BY <1>1, <1>3, QuietSteps DEF Exchange
<1>7. Arrival(s)'
  BY <1>1, QuietStored DEF Exchange, Arrival, Arrived
<1> QED BY <1>3, <1>4, <1>5, <1>6, <1>7 DEF Exchange

\* Every step of the watch task keeps what is exchanged for its source.
LEMMA WatchExchange ==
  ASSUME TypeOK, NEW s \in Sources, WatchNext(s), disk' = disk \/ disk' = Image',
         Generation(s), Exchange(s)
  PROVE  Exchange(s)'
<1>1. ASSUME NEW o \in Outcomes, Reacknowledge(s, o)
      PROVE  Exchange(s)'
  <2>1. CASE CompleteEvent(s, inbox[s], o)
    BY <1>1, <2>1, AcknowledgedExchange DEF Reacknowledge, server
  <2>2. CASE UNCHANGED <<binding, disk>>
    <3>1. Kept(Image, s)' /\ Kept(disk, s)'
      BY <1>1, <2>2, QuietKept, DiskKept DEF Reacknowledge, binding, server, Exchange
    <3>2. \A g \in Runs : Step(s, g)'
      BY <1>1, <2>2, QuietSteps DEF Reacknowledge, binding, Exchange
    <3>3. Arrival(s)'
      BY <1>1 DEF Reacknowledge, Arrival, Arrived, NoArrival, Sources
    <3> QED BY <1>1, <3>1, <3>2, <3>3 DEF Reacknowledge, Exchange
  <2> QED BY <1>1, <2>1, <2>2 DEF Reacknowledge
<1>2. ASSUME NEW o \in Outcomes, NEW status \in {"ignored", "superseded"}, Decline(s, status, o)
      PROVE  Exchange(s)'
  BY <1>2, AcknowledgedExchange DEF Decline, Terminal, server
<1>3. ASSUME NEW o \in Outcomes, Deliver(s, o) \/ Sweep(s, o)
      PROVE  Exchange(s)'
  <2>1. UNCHANGED <<intent, journal, ack, log, calls, run, text>>
    BY <1>3 DEF Deliver, Sweep, server
  <2>2. inbox'[s] \in Terminal <=> inbox[s] \in Terminal
    BY <1>3 DEF Deliver, Sweep, Noted, Terminal, TypeOK, BindingTypes
  <2>3. Kept(Image, s)'
    BY <2>1, <2>2 DEF Exchange, Kept, WellFrozen, PostKept, ReceiptKept, CallsCounted, Over, Image
  <2>4. \A g \in Runs : Step(s, g)'
    BY <2>1, QuietSteps DEF Exchange
  <2>5. Arrival(s)'
    <3>1. CASE Sweep(s, o)
      BY <3>1 DEF Sweep, WatchFree, Arrival, Arrived, NoArrival, Sources
    <3>2. CASE Deliver(s, o)
      <4>1. ASSUME Arrived(s)'
            PROVE  o = "ok" /\ ~ Idle(s)
        BY <3>2, <4>1 DEF Deliver, Arrived, NoArrival, Sources
      <4>2. o = "ok" => Stored(s)'
        BY <2>1, <3>2 DEF Deliver, Persist, Stored, Image
      <4> QED BY <2>2, <3>2, <4>1, <4>2 DEF Deliver, Idle, Arrival
    <3> QED BY <1>3, <3>1, <3>2
  <2> QED BY <2>1, <2>3, <2>4, <2>5, DiskKept DEF Exchange
<1>4. CASE ArrivalDropped(s) \/ \E next \in Verdicts : RepairFails(s, next)
  <2>1. /\ UNCHANGED <<binding, disk, log, calls, run, text, owner>>
        /\ arrival' \in {arrival, NoArrival}
    BY <1>4 DEF ArrivalDropped, RepairFails, server
  <2>2. Kept(Image, s)' /\ Kept(disk, s)'
    BY <2>1, QuietKept, DiskKept DEF binding, Exchange
  <2>3. \A g \in Runs : Step(s, g)'
    BY <2>1, QuietSteps DEF binding, Exchange
  <2>4. Arrived(s)' => Arrived(s)
    BY <2>1 DEF Arrived, NoArrival, Sources
  <2>5. Arrival(s)'
    BY <2>1, <2>4, QuietStored DEF binding, Exchange, Arrival
  <2> QED BY <2>1, <2>2, <2>3, <2>5 DEF Exchange
<1>5. ASSUME NEW g \in Runs, Dispatch(s, g)
      PROVE  Exchange(s)'
  <2>1. UNCHANGED <<binding, disk, log, calls>> /\ Stored(s)
    BY <1>5 DEF Dispatch, server, Exchange, Arrival
  <2>2. Kept(Image, s)' /\ Kept(disk, s)'
    BY <2>1, QuietKept, DiskKept DEF binding, Exchange
  <2>3. /\ \A h \in Runs : h # g => run'[s][h] = run[s][h] /\ run[s][h] \notin Live
        /\ run'[s][g] \in {"model", "resend"}
    <3>1. \A h \in Runs : run[s][h] \notin Live
      BY <1>5 DEF Dispatch, Generation, Owned, NoRun, Runs
    <3>2. \E l \in {"model", "resend"} : Goto(s, g, l)
      BY <1>5 DEF Dispatch
    <3> QED BY <3>1, <3>2 DEF Goto, TypeOK, RunTypes
  <2>4. Stored(s)'
    BY <2>1 DEF Stored, binding
  <2>5. \A h \in Runs : Step(s, h)'
    BY <2>3, <2>4 DEF Step, Sending, ReceiptLabels, Live, Midway
  <2>6. Arrival(s)'
    <3>1. ~ Arrived(s)'
      BY <1>5 DEF Dispatch, Arrived, NoArrival, NoRun, Runs, Sources
    <3> QED BY <3>1 DEF Arrival
  <2> QED BY <2>1, <2>2, <2>5, <2>6 DEF Exchange
<1>6. ASSUME NEW o \in Outcomes,
             RepairExhausted(s, o) \/ RepairCall(s, o) \/ RepairDone(s, o) \/ RepairDebt(s, o)
      PROVE  Exchange(s)'
  BY <1>6, RepairExchange
<1> QED BY <1>1, <1>2, <1>3, <1>4, <1>5, <1>6 DEF WatchNext

-----------------------------------------------------------------------------
(***************************************************************************)
(* The Room, the acknowledgement and the crash                             *)
(***************************************************************************)
\* The Room commits the request that is frozen on both sides.
LEMMA PostExchange ==
  ASSUME TypeOK, NEW s \in Sources, NEW g \in Runs, ServerPost(s, g), NEW t \in Sources, Exchange(t)
  PROVE  Exchange(t)'
<1>1. /\ UNCHANGED <<binding, disk, tasks, calls>>
      /\ log'[t] = log[t] \/ (t = s /\ log'[t] = text[t][g] /\ Sending(t, g))
  BY DEF ServerPost, TypeOK, RoomTypes
<1>2. Sending(t, g) => /\ intent[t].frozen /\ text[t][g] = intent[t].body
                       /\ disk.intent[t].frozen /\ text[t][g] = disk.intent[t].body
  BY DEF Exchange, Step, Stored, Sending
<1>3. PostKept(Image, t)' /\ PostKept(disk, t)'
  BY <1>1, <1>2 DEF binding, Exchange, Kept, PostKept, Over, Image
<1>4. Kept(Image, t)' /\ Kept(disk, t)'
  BY <1>1, <1>3 DEF binding, Exchange, Kept, WellFrozen, ReceiptKept, CallsCounted, Over, Image
<1> QED BY <1>1, <1>4 DEF binding, tasks, Exchange, Arrival, Arrived, Stored, Step, Sending, Posted

\* What is acknowledged is over.
LEMMA AcknowledgeExchange ==
  ASSUME TypeOK, ReachInv, NEW o, AcknowledgeReply(o), disk' = disk \/ disk' = Image',
         NEW t \in Sources, Exchange(t)
  PROVE  Exchange(t)'
<1>1. /\ UNCHANGED <<intent, journal, log, calls, run, text, owner, arrival>>
      /\ inbox'[t] = IF t <= ack' THEN "absent" ELSE inbox[t]
      /\ ack \in Int /\ ack' \in Int /\ t \in Int /\ ack <= ack'
  BY SizeAssumption DEF AcknowledgeReply, server, ReachInv, CursorsBehind, TypeOK, BindingTypes,
     WatchTypes, RoomTypes, Sources
<1>2. Kept(Image, t)'
  BY <1>1 DEF Exchange, Kept, WellFrozen, PostKept, ReceiptKept, CallsCounted, Over, Image
<1>3. Kept(disk, t)'
  BY <1>1, <1>2, DiskKept DEF Exchange
<1>4. \A g \in Runs : Step(t, g)'
  BY <1>1, QuietSteps DEF Exchange
<1>5. Arrival(t)'
  BY <1>1, QuietStored DEF Exchange, Arrival, Arrived
<1> QED BY <1>1, <1>2, <1>3, <1>4, <1>5 DEF Exchange

\* A crash leaves what the file holds.
LEMMA CrashExchange ==
  ASSUME TypeOK, Crash, NEW t \in Sources, Exchange(t)
  PROVE  Exchange(t)'
<1>1. /\ UNCHANGED <<disk, log, calls>> /\ intent' = disk.intent /\ journal' = disk.journal
      /\ inbox' = disk.inbox /\ ack' = disk.ack
  BY DEF Crash, server
<1>2. Kept(Image, t)' /\ Kept(disk, t)'
  BY <1>1 DEF Exchange, Kept, WellFrozen, PostKept, ReceiptKept, CallsCounted, Over, Image
<1>3. \A g \in Runs : run'[t][g] \notin Live
  BY DEF Crash, TypeOK, RunTypes, Live, Midway
<1>4. \A g \in Runs : Step(t, g)'
  BY <1>3 DEF Step, Sending, ReceiptLabels, Live, Midway
<1>5. Arrival(t)'
  BY DEF Crash, Arrival, Arrived, NoArrival, Sources
<1> QED BY <1>1, <1>2, <1>4, <1>5 DEF Exchange

\* Every step keeps what is exchanged for every source.
ExchangeInv == \A s \in Sources : Exchange(s)
LEMMA ExchangeStep ==
  TypeInv /\ ReachInv /\ GenerationInv /\ ExchangeInv /\ [Next]_vars => ExchangeInv'
<1> SUFFICES ASSUME TypeInv, ReachInv, GenerationInv, ExchangeInv, [Next]_vars, NEW t \in Sources
             PROVE  Exchange(t)'
  BY DEF ExchangeInv
<1>0. /\ TypeOK /\ EndedHasResult /\ Generation(t) /\ Exchange(t)
      /\ disk' = disk \/ disk' = Image'
  BY DiskStep DEF TypeInv, GenerationInv, ExchangeInv
<1>1. ASSUME NEW s \in Sources, WatchNext(s)
      PROVE  Exchange(t)'
  BY <1>0, <1>1, WatchExchange, WatchElsewhere, ExchangeElsewhere
<1>2. ASSUME NEW s \in Sources, NEW g \in Runs, SendNext(s, g)
      PROVE  Exchange(t)'
  BY <1>0, <1>2, SendExchange, SendElsewhere, ExchangeElsewhere
<1>3. CASE UNCHANGED <<binding, disk, run, text, owner, arrival, log, calls>>
  BY <1>0, <1>3 DEF binding, Exchange, Kept, WellFrozen, PostKept, ReceiptKept, CallsCounted,
                    Over, Image, Arrival, Arrived, Stored, Step, Sending, Posted
<1>4. ASSUME NEW s \in Sources, RoomNext(s)
      PROVE  Exchange(t)'
  BY <1>0, <1>3, <1>4, PostExchange DEF RoomNext, ServerComplete, ServerSupersedes, LoseLease,
                                        tasks, server
<1>5. CASE ServerAcknowledge \/ AcknowledgeFails \/ WatchStops \/ NewEpoch \/ UNCHANGED vars
  BY <1>3, <1>5 DEF ServerAcknowledge, AcknowledgeFails, WatchStops, NewEpoch, vars, tasks, server
<1>6. ASSUME NEW o \in Outcomes, AcknowledgeReply(o)
      PROVE  Exchange(t)'
  BY <1>0, <1>6, AcknowledgeExchange
<1>7. CASE Crash
  BY <1>0, <1>7, CrashExchange
<1> QED BY <1>1, <1>2, <1>4, <1>5, <1>6, <1>7 DEF Next, LedgerNext

\* What is exchanged for every source, in every state.
LEMMA ExchangeInvariance ==
  ASSUME ~ LongRuns
  PROVE  Spec => []ExchangeInv
<1>1. Init => ExchangeInv
  BY SizeAssumption
     DEF Init, Image, ExchangeInv, Exchange, Kept, WellFrozen, PostKept, ReceiptKept, CallsCounted,
         Over, Arrival, Arrived, NoArrival, NoIntent, NoJournal, Stored, Step, Sending,
         ReceiptLabels, Sources
<1>2. TypeInv /\ ReachInv /\ GenerationInv /\ ExchangeInv /\ [Next]_vars => ExchangeInv'
  BY ExchangeStep
<1> QED BY <1>1, <1>2, TypeInvariance, ReachInvariance, GenerationInvariance, PTL DEF Spec

-----------------------------------------------------------------------------
\* While no run outlives the sweep, a request on its way to the Room is the one frozen
\* in the file and repeats the message the Room may already hold: no crash, failed save
\* or lost answer makes the adapter post a second, different message for a source.
THEOREM FrozenPost ==
  ASSUME ~ LongRuns
  PROVE  Spec => []PostIsFrozen
<1>1. TypeInv /\ GenerationInv /\ ExchangeInv => PostIsFrozen
  <2> SUFFICES ASSUME TypeInv, GenerationInv, ExchangeInv, NEW s \in Sources, NEW g \in Runs,
                      Sending(s, g)
               PROVE  /\ disk.intent[s].frozen /\ disk.intent[s].body = text[s][g]
                      /\ log[s] \in {0, text[s][g]}
    BY DEF PostIsFrozen
  <2>1. /\ intent[s].frozen /\ intent[s].body = text[s][g]
        /\ disk.intent[s].frozen /\ disk.intent[s].body = text[s][g]
    BY DEF ExchangeInv, Exchange, Step, Stored, Sending
  <2>2. ~ Over(Image, s)
    BY SizeAssumption DEF Sending, GenerationInv, Generation, Unsettled, Live, Over, Image,
       TypeInv, TypeOK, BindingTypes, Sources
  <2> QED BY <2>1, <2>2 DEF ExchangeInv, Exchange, Kept, PostKept, Image
<1> QED BY <1>1, TypeInvariance, GenerationInvariance, ExchangeInvariance, PTL

\* While no run outlives the sweep, sender and repair together never ask the Room more
\* often than the budget to complete one source, crashes between call and save included.
THEOREM CallsWithinBudget ==
  ASSUME ~ LongRuns
  PROVE  Spec => []LifecycleBudget
<1>1. ExchangeInv => LifecycleBudget
  BY DEF ExchangeInv, Exchange, LifecycleBudget
<1> QED BY <1>1, ExchangeInvariance, PTL
=============================================================================
