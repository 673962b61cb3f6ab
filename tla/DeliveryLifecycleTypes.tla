----------------------- MODULE DeliveryLifecycleTypes -----------------------
(***************************************************************************)
(* TypeOK is an invariant of DeliveryLifecycle for every number of events, *)
(* dispatch generations, crashes and retries.  Each action has a lemma     *)
(* with one step for each group of variables it disturbs.  TypeOK alone is *)
(* not inductive: a callback records the outcome of a generation, so the   *)
(* outcome of a generation that ended must be known not to be "none".      *)
(***************************************************************************)
EXTENDS DeliveryLifecycle, TLAPS

\* A generation that ended has an outcome for its callbacks to record.
EndedHasResult ==
  \A s \in Sources, g \in Runs : run[s][g] \in {"settling",
       "settled"} => result[s][g] # "none"

\* What the state of an intent and the life of a journal may be.
IntentStates == {"none", "selected", "pending", "posted", "quarantined"}
Lives == {"absent", "pending", "blocked", "not_required"}

\* An entry of a table of tables can be replaced by one of its kind.
LEMMA EntryTypes ==
  ASSUME NEW A, NEW B, NEW C, NEW f \in [A -> [B -> C]], NEW a \in A, NEW b \in B,
       NEW c \in C
  PROVE [f EXCEPT ![a][b] = c] \in [A -> [B -> C]]
  OBVIOUS

\* What an intent becomes when it is selected, frozen, receipted or forgotten.
LEMMA IntentTypes ==
  ASSUME intent \in [Sources -> Intent], NEW s \in Sources
  PROVE /\ [intent EXCEPT ![s] = NoIntent] \in [Sources -> Intent]
        /\ Receipted(s) \in [Sources -> Intent]
        /\ \A v \in IntentStates : [intent EXCEPT ![s].state = v] \in [Sources -> Intent]
        /\ \A b \in 0 .. MaxDispatch :
             [intent EXCEPT ![s].frozen = TRUE, ![s].body = b] \in [Sources -> Intent]
<1>1. NoIntent \in Intent
  BY SizeAssumption DEF Intent, NoIntent
<1>2. ASSUME NEW i \in Intent, NEW v \in IntentStates
      PROVE  [i EXCEPT !.state = v] \in Intent
  BY <1>2 DEF Intent, IntentStates
<1>3. ASSUME NEW i \in Intent, NEW b \in 0 .. MaxDispatch
      PROVE  [i EXCEPT !.frozen = TRUE, !.body = b] \in Intent
  BY <1>3 DEF Intent
<1>4. ASSUME NEW v \in IntentStates
      PROVE  [intent EXCEPT ![s].state = v] \in [Sources -> Intent]
  BY <1>2
<1>5. ASSUME NEW b \in 0 .. MaxDispatch
      PROVE  [intent EXCEPT ![s].frozen = TRUE, ![s].body = b] \in [Sources -> Intent]
  BY <1>3
<1>6. "posted" \in IntentStates
  BY DEF IntentStates
<1> QED BY <1>1, <1>4, <1>5, <1>6 DEF Receipted

\* What a journal becomes when a debt is counted, noted, blocked or dropped.
LEMMA JournalTypes ==
  ASSUME journal \in [Sources -> Journal], NEW s \in Sources
  PROVE /\ Completed(s) \in [Sources -> Journal]
        /\ Counted(s) \in [Sources -> Journal]
        /\ [journal EXCEPT ![s].life = "blocked"] \in [Sources -> Journal]
        /\ [journal EXCEPT ![s] = Cleared(@)] \in [Sources -> Journal]
        /\ [journal EXCEPT ![s] = Owed(s)] \in [Sources -> Journal]
<1>1. NoJournal \in Journal
  BY DEF Journal, NoJournal
<1>2. Owed(s) \in Journal
  BY DEF Journal, Owed
<1>3. ASSUME NEW j \in Journal, NEW v \in Lives
      PROVE  [j EXCEPT !.life = v] \in Journal
  BY <1>3 DEF Journal, Lives
<1>9. ASSUME NEW j \in Journal PROVE [j EXCEPT !.attempts = @ + 1] \in Journal
  BY <1>9 DEF Journal
<1>4. "pending" \in Lives /\ "blocked" \in Lives
  BY DEF Lives
<1>5. Counted(s) \in [Sources -> Journal]
  BY <1>9 DEF Counted
<1>7. [journal EXCEPT ![s].life = "blocked"] \in [Sources -> Journal]
  BY <1>3, <1>4
<1>8. [journal EXCEPT ![s] = Cleared(@)] \in [Sources -> Journal]
  BY <1>1 DEF Cleared
<1> QED BY <1>1, <1>2, <1>5, <1>7, <1>8 DEF Completed

\* What a journal becomes when a debt is noted with its diagnosis.
LEMMA DebtTypes ==
  ASSUME journal \in [Sources -> Journal], NEW s \in Sources, NEW r
  PROVE Debt(s, r) \in [Sources -> Journal]
<1>1. ASSUME NEW j \in Journal, NEW v \in Lives
      PROVE  [j EXCEPT !.life = v, !.diagnosed = TRUE] \in Journal
  BY <1>1 DEF Journal, Lives
<1>2. "pending" \in Lives /\ "blocked" \in Lives
  BY DEF Lives
<1> QED BY <1>1, <1>2 DEF Debt

\* A save leaves a well-formed image in the file, or the one it held.
LEMMA SavedTypes ==
  ASSUME disk \in Images, BindingTypes', NEW o, Persist(o)
  PROVE disk' \in Images
  BY DEF Images, Image, BindingTypes, Persist

\* Moving a generation to a label keeps the labels typed.
LEMMA GotoTypes ==
  ASSUME TypeOK, NEW s \in Sources, NEW g \in Runs, NEW l \in Labels, Goto(s, g, l)
  PROVE run' \in [Sources -> [Runs -> Labels]]
  BY EntryTypes DEF TypeOK, RunTypes, Goto

\* Ending a generation with a terminal outcome keeps labels and outcomes typed.
LEMMA EndsTypes ==
  ASSUME TypeOK, NEW s \in Sources, NEW g \in Runs, NEW status \in Terminal, Ends(s,
       g, status)
  PROVE /\ run' \in [Sources -> [Runs -> Labels]]
        /\ result' \in [Sources -> [Runs -> Terminal \cup {"none"}]]
  BY EntryTypes, GotoTypes DEF TypeOK, RunTypes, Ends, Labels, Live

\* A send that escapes without an outcome keeps every task variable typed.
LEMMA EscapesTypes ==
  ASSUME TypeOK, NEW s \in Sources, NEW g \in Runs, NEW fatal, Escapes(s, g, fatal)
  PROVE /\ run' \in [Sources -> [Runs -> Labels]]
        /\ result' \in [Sources -> [Runs -> Terminal \cup {"none"}]]
        /\ owner' \in [Sources -> 0 .. MaxDispatch]
        /\ arrival' \in [at : 0 .. N, by : 0 .. MaxDispatch]
        /\ watch' \in {"running", "dead", "stopped"}
<1>1. "done" \in Labels /\ "unsent" \in Labels
  BY DEF Labels, Live
<1>2. NoArrival \in [at : 0 .. N, by : 0 .. MaxDispatch] /\ NoRun \in 0 .. MaxDispatch
  BY SizeAssumption DEF NoArrival, NoRun
<1> QED BY <1>1, <1>2, GotoTypes DEF TypeOK, RunTypes, WatchTypes, Escapes

\* Recording terminal evidence keeps memory, file and frontier typed.
LEMMA CompleteTypes ==
  ASSUME TypeOK, NEW s \in Sources, NEW status \in Terminal, NEW o, CompleteEvent(s,
       status, o)
  PROVE BindingTypes' /\ disk' \in Images /\ acking' \in 0 .. N
<1>1. intent' \in [Sources -> Intent] /\ journal' \in [Sources -> Journal]
  <2>1. intent' \in {intent, [intent EXCEPT ![s] = NoIntent]}
    BY DEF CompleteEvent, CompleteNew, CompleteOld
  <2>2. journal' \in {journal, [journal EXCEPT ![s] = Cleared(@)]}
    BY DEF CompleteEvent, CompleteNew, CompleteOld
  <2>3. intent \in [Sources -> Intent] /\ journal \in [Sources -> Journal]
    BY DEF TypeOK, BindingTypes
  <2>4. [intent EXCEPT ![s] = NoIntent] \in [Sources -> Intent]
    BY <2>3, IntentTypes
  <2>5. [journal EXCEPT ![s] = Cleared(@)] \in [Sources -> Journal]
    BY <2>3, JournalTypes
  <2> QED BY <2>1, <2>2, <2>3, <2>4, <2>5
<1>2. /\ inbox' \in [Sources -> Waiting \cup Terminal]
      /\ evidence' \in [Sources -> Terminal \cup {"none"}]
      /\ retries' \in [Sources -> Nat] /\ ack' \in 0 .. N
  BY SizeAssumption DEF TypeOK, BindingTypes, CompleteEvent, CompleteNew, CompleteOld
<1>3. BindingTypes'
  BY <1>1, <1>2 DEF BindingTypes
<1>4. disk' \in Images
  BY <1>3, SavedTypes DEF TypeOK, CompleteEvent, CompleteNew, CompleteOld
<1>5. acking' \in 0 .. N
  BY SizeAssumption DEF TypeOK, BindingTypes, WatchTypes, CompleteEvent, CompleteNew,
       CompleteOld
<1> QED BY <1>3, <1>4, <1>5
-----------------------------------------------------------------------------
(***************************************************************************)
(* The ledger                                                              *)
(***************************************************************************)
\* ServerAcknowledge keeps every variable within its type.
LEMMA ServerAcknowledgeTypes ==
  ASSUME TypeOK, ServerAcknowledge
  PROVE  TypeOK'
<1>1. RoomTypes'
  BY SizeAssumption DEF ServerAcknowledge, TypeOK, RoomTypes, RunTypes, WatchTypes
<1>2. BindingTypes' /\ disk' \in Images /\ RunTypes' /\ WatchTypes'
  BY DEF ServerAcknowledge, TypeOK, binding, BindingTypes, tasks, RunTypes, WatchTypes
<1> QED BY <1>1, <1>2 DEF TypeOK

\* AcknowledgeFails keeps every variable within its type.
LEMMA AcknowledgeFailsTypes ==
  ASSUME TypeOK, AcknowledgeFails
  PROVE  TypeOK'
<1>1. WatchTypes'
  BY SizeAssumption DEF AcknowledgeFails, TypeOK, WatchTypes
<1>2. BindingTypes' /\ disk' \in Images /\ RunTypes' /\ RoomTypes'
  BY DEF AcknowledgeFails, TypeOK, binding, BindingTypes, RunTypes, server, RoomTypes
<1> QED BY <1>1, <1>2 DEF TypeOK

\* AcknowledgeReply keeps every variable within its type.
LEMMA AcknowledgeReplyTypes ==
  ASSUME TypeOK, NEW o, AcknowledgeReply(o)
  PROVE  TypeOK'
<1>1. BindingTypes'
  BY SizeAssumption DEF AcknowledgeReply, TypeOK, BindingTypes, WatchTypes, Waiting
<1>2. disk' \in Images
  BY <1>1, SavedTypes DEF AcknowledgeReply, TypeOK
<1>3. WatchTypes'
  BY SizeAssumption DEF AcknowledgeReply, TypeOK, WatchTypes
<1>4. RunTypes' /\ RoomTypes'
  BY DEF AcknowledgeReply, TypeOK, RunTypes, server, RoomTypes
<1> QED BY <1>1, <1>2, <1>3, <1>4 DEF TypeOK

-----------------------------------------------------------------------------
(***************************************************************************)
(* The receive boundary and dispatch                                       *)
(***************************************************************************)
\* Deliver keeps every variable within its type.
LEMMA DeliverTypes ==
  ASSUME TypeOK, NEW s \in Sources, NEW o, Deliver(s, o)
  PROVE  TypeOK'
<1>1. BindingTypes'
  BY DEF Deliver, Noted, TypeOK, BindingTypes, Waiting
<1>2. disk' \in Images
  BY <1>1, SavedTypes DEF Deliver, TypeOK
<1>3. WatchTypes'
  BY SizeAssumption DEF Deliver, Sources, NoArrival, NoRun, TypeOK, WatchTypes
<1>4. RunTypes' /\ RoomTypes'
  BY DEF Deliver, TypeOK, RunTypes, server, RoomTypes
<1> QED BY <1>1, <1>2, <1>3, <1>4 DEF TypeOK

\* Reacknowledge keeps every variable within its type.
LEMMA ReacknowledgeTypes ==
  ASSUME TypeOK, NEW s \in Sources, NEW o, Reacknowledge(s, o)
  PROVE  TypeOK'
<1>1. BindingTypes' /\ disk' \in Images /\ acking' \in 0 .. N
  <2>1. CASE evidence[s] = inbox[s]
    BY <2>1, CompleteTypes DEF Reacknowledge
  <2>2. CASE evidence[s] # inbox[s]
    BY <2>2 DEF Reacknowledge, binding, TypeOK, BindingTypes, WatchTypes
  <2> QED BY <2>1, <2>2
<1>2. WatchTypes'
  BY <1>1, SizeAssumption DEF Reacknowledge, Sources, NoArrival, NoRun, TypeOK,
       WatchTypes
<1>3. RunTypes' /\ RoomTypes'
  BY DEF Reacknowledge, TypeOK, RunTypes, server, RoomTypes
<1> QED BY <1>1, <1>2, <1>3 DEF TypeOK

\* Decline keeps every variable within its type.
LEMMA DeclineTypes ==
  ASSUME TypeOK, NEW s \in Sources, NEW status \in {"ignored", "superseded"}, NEW o,
       Decline(s, status, o)
  PROVE  TypeOK'
<1>1. BindingTypes' /\ disk' \in Images /\ acking' \in 0 .. N
  BY CompleteTypes DEF Decline, Terminal
<1>2. WatchTypes'
  BY <1>1, SizeAssumption DEF Decline, Sources, NoArrival, NoRun, TypeOK, WatchTypes
<1>3. RunTypes' /\ RoomTypes'
  BY DEF Decline, TypeOK, RunTypes, server, RoomTypes
<1> QED BY <1>1, <1>2, <1>3 DEF TypeOK

\* ArrivalDropped keeps every variable within its type.
LEMMA ArrivalDroppedTypes ==
  ASSUME TypeOK, NEW s \in Sources, ArrivalDropped(s)
  PROVE  TypeOK'
<1>1. WatchTypes'
  BY SizeAssumption DEF ArrivalDropped, Sources, NoArrival, NoRun, TypeOK, WatchTypes
<1>2. BindingTypes' /\ disk' \in Images /\ RunTypes' /\ RoomTypes'
  BY DEF ArrivalDropped, TypeOK, binding, BindingTypes, RunTypes, server, RoomTypes
<1> QED BY <1>1, <1>2 DEF TypeOK

\* Dispatch keeps every variable within its type.
LEMMA DispatchTypes ==
  ASSUME TypeOK, NEW s \in Sources, NEW g \in Runs, Dispatch(s, g)
  PROVE  TypeOK'
<1>1. RunTypes'
  <2>1. run' \in [Sources -> [Runs -> Labels]]
    BY GotoTypes DEF Dispatch, Labels, Live
  <2>2. intent[s].body \in 0 .. MaxDispatch /\ g \in 0 .. MaxDispatch
    BY DEF TypeOK, BindingTypes, Intent, Runs
  <2>3. \E b \in 0 .. MaxDispatch : text' = [text EXCEPT ![s][g] = b]
    BY <2>2 DEF Dispatch
  <2>4. text' \in [Sources -> [Runs -> 0 .. MaxDispatch]]
    BY <2>3, EntryTypes DEF TypeOK, RunTypes
  <2> QED BY <2>1, <2>2, <2>4 DEF Dispatch, TypeOK, RunTypes
<1>2. WatchTypes'
  BY SizeAssumption DEF Dispatch, Sources, NoArrival, NoRun, Runs, TypeOK, WatchTypes
<1>3. BindingTypes' /\ disk' \in Images /\ RoomTypes'
  BY DEF Dispatch, TypeOK, binding, BindingTypes, server, RoomTypes
<1> QED BY <1>1, <1>2, <1>3 DEF TypeOK

-----------------------------------------------------------------------------
(***************************************************************************)
(* The end of a generation                                                 *)
(***************************************************************************)
\* Settle keeps every variable within its type.
LEMMA SettleTypes ==
  ASSUME TypeOK, EndedHasResult, NEW s \in Sources, NEW g \in Runs, NEW o, Settle(s,
       g, o)
  PROVE  TypeOK'
<1>1. BindingTypes' /\ disk' \in Images /\ acking' \in 0 .. N
  <2>1. CASE CompleteEvent(s, result[s][g], o)
    <3>1. result[s][g] \in Terminal
      BY DEF Settle, EndedHasResult, TypeOK, RunTypes
    <3> QED BY <2>1, <3>1, CompleteTypes
  <2>2. CASE UNCHANGED <<binding, disk, acking>>
    BY <2>2 DEF binding, TypeOK, BindingTypes, WatchTypes
  <2> QED BY <2>1, <2>2 DEF Settle
<1>2. RunTypes'
  BY GotoTypes, SizeAssumption DEF Settle, TypeOK, RunTypes, Labels, Live, Midway, NoRun
<1>3. WatchTypes'
  BY <1>1, SizeAssumption DEF Settle, Sources, NoArrival, NoRun, TypeOK, WatchTypes
<1>4. RoomTypes'
  BY DEF Settle, TypeOK, server, RoomTypes
<1> QED BY <1>1, <1>2, <1>3, <1>4 DEF TypeOK

\* ProcessingEnds keeps every variable within its type.
LEMMA ProcessingEndsTypes ==
  ASSUME TypeOK, NEW s \in Sources, NEW g \in Runs, ProcessingEnds(s, g)
  PROVE  TypeOK'
<1>1. RunTypes'
  BY GotoTypes, SizeAssumption DEF ProcessingEnds, TypeOK, RunTypes, Labels, Live,
       Midway, NoRun
<1>2. BindingTypes' /\ disk' \in Images /\ WatchTypes' /\ RoomTypes'
  BY DEF ProcessingEnds, TypeOK, binding, BindingTypes, WatchTypes, server, RoomTypes
<1> QED BY <1>1, <1>2 DEF TypeOK

\* ProcessingPasses keeps every variable within its type.
LEMMA ProcessingPassesTypes ==
  ASSUME TypeOK, NEW s \in Sources, NEW g \in Runs, ProcessingPasses(s, g)
  PROVE  TypeOK'
<1>1. RunTypes'
  <2>1. run' \in [Sources -> [Runs -> Labels]]
    BY GotoTypes DEF ProcessingPasses, Labels, Live
  <2>2. result' \in [Sources -> [Runs -> Terminal \cup {"none"}]]
    BY EntryTypes DEF ProcessingPasses, TypeOK, RunTypes, Terminal
  <2> QED BY <2>1, <2>2 DEF ProcessingPasses, TypeOK, RunTypes
<1>2. RoomTypes'
  BY DEF ProcessingPasses, TypeOK, RoomTypes
<1>3. BindingTypes' /\ disk' \in Images /\ WatchTypes'
  BY DEF ProcessingPasses, TypeOK, binding, BindingTypes, WatchTypes
<1> QED BY <1>1, <1>2, <1>3 DEF TypeOK

-----------------------------------------------------------------------------
(***************************************************************************)
(* The send up to the canonical message                                    *)
(***************************************************************************)
\* SendFinal keeps every variable within its type.
LEMMA SendFinalTypes ==
  ASSUME TypeOK, NEW s \in Sources, NEW g \in Runs, SendFinal(s, g)
  PROVE  TypeOK'
<1>1. RunTypes'
  BY GotoTypes DEF SendFinal, TypeOK, RunTypes, Labels, Live, Midway
<1>2. BindingTypes' /\ disk' \in Images /\ WatchTypes' /\ RoomTypes'
  BY DEF SendFinal, TypeOK, binding, BindingTypes, WatchTypes, server, RoomTypes
<1> QED BY <1>1, <1>2 DEF TypeOK

\* SendSuperseded keeps every variable within its type.
LEMMA SendSupersededTypes ==
  ASSUME TypeOK, NEW s \in Sources, NEW g \in Runs, SendSuperseded(s, g)
  PROVE  TypeOK'
<1>1. RunTypes'
  BY EndsTypes DEF SendSuperseded, TypeOK, RunTypes, Labels, Live, Midway, Terminal
<1>2. BindingTypes' /\ disk' \in Images /\ WatchTypes' /\ RoomTypes'
  BY DEF SendSuperseded, TypeOK, binding, BindingTypes, WatchTypes, server, RoomTypes
<1> QED BY <1>1, <1>2 DEF TypeOK

\* SendRefused keeps every variable within its type.
LEMMA SendRefusedTypes ==
  ASSUME TypeOK, NEW s \in Sources, NEW g \in Runs, SendRefused(s, g)
  PROVE  TypeOK'
<1>1. RunTypes' /\ WatchTypes'
  BY EscapesTypes DEF SendRefused, TypeOK, RunTypes, WatchTypes
<1>2. BindingTypes' /\ disk' \in Images /\ RoomTypes'
  BY DEF SendRefused, TypeOK, binding, BindingTypes, server, RoomTypes
<1> QED BY <1>1, <1>2 DEF TypeOK

\* Select keeps every variable within its type.
LEMMA SelectTypes ==
  ASSUME TypeOK, NEW s \in Sources, NEW g \in Runs, NEW action \in {"post", "skip",
       "fail"}, NEW o, Select(s, g, action, o)
  PROVE  TypeOK'
<1>1. intent[s] \in Intent /\ text[s][g] \in 0 .. MaxDispatch
  BY DEF TypeOK, BindingTypes, RunTypes
<1>2. PICK chosen \in Intent : /\ intent' = [intent EXCEPT ![s] = chosen]
                               /\ text' = [text EXCEPT ![s][g] = chosen.body]
  BY <1>1 DEF Select, Intent
<1>3. BindingTypes'
  BY <1>2 DEF Select, TypeOK, BindingTypes
<1>4. disk' \in Images
  BY <1>3, SavedTypes DEF Select, TypeOK
<1>5. text' \in [Sources -> [Runs -> 0 .. MaxDispatch]]
  BY <1>2, EntryTypes DEF TypeOK, RunTypes, Intent
<1>6. RunTypes' /\ WatchTypes'
  <2>1. CASE \E fatal \in BOOLEAN : Escapes(s, g, fatal)
    BY <2>1, <1>5, EscapesTypes DEF Select, TypeOK, RunTypes, WatchTypes
  <2>2. CASE /\ \E l \in {"failing", "skipping", "policy", "acquire"} : Goto(s, g, l)
             /\ UNCHANGED <<result, owner, arrival, watch>>
    BY <2>2, <1>5, GotoTypes DEF Select, TypeOK, RunTypes, WatchTypes, Labels, Live,
         Midway
  <2> QED BY <2>1, <2>2 DEF Select
<1>7. RoomTypes'
  BY DEF Select, TypeOK, server, RoomTypes
<1> QED BY <1>3, <1>4, <1>6, <1>7 DEF TypeOK

\* FinishSkip keeps every variable within its type.
LEMMA FinishSkipTypes ==
  ASSUME TypeOK, NEW s \in Sources, NEW g \in Runs, FinishSkip(s, g)
  PROVE  TypeOK'
<1>1. RunTypes'
  BY EndsTypes DEF FinishSkip, TypeOK, RunTypes, Labels, Live, Midway, Terminal
<1>2. RoomTypes'
  BY DEF FinishSkip, TypeOK, RoomTypes
<1>3. BindingTypes' /\ disk' \in Images /\ WatchTypes'
  BY DEF FinishSkip, TypeOK, binding, BindingTypes, WatchTypes
<1> QED BY <1>1, <1>2, <1>3 DEF TypeOK

\* SkipRefused keeps every variable within its type.
LEMMA SkipRefusedTypes ==
  ASSUME TypeOK, NEW s \in Sources, NEW g \in Runs, SkipRefused(s, g)
  PROVE  TypeOK'
<1>1. RunTypes' /\ WatchTypes'
  BY EscapesTypes DEF SkipRefused, TypeOK, RunTypes, WatchTypes
<1>2. BindingTypes' /\ disk' \in Images /\ RoomTypes'
  BY DEF SkipRefused, TypeOK, binding, BindingTypes, server, RoomTypes
<1> QED BY <1>1, <1>2 DEF TypeOK

\* AuthorityGone keeps every variable within its type.
LEMMA AuthorityGoneTypes ==
  ASSUME TypeOK, NEW s \in Sources, NEW g \in Runs, AuthorityGone(s, g)
  PROVE  TypeOK'
<1>1. RunTypes'
  BY EndsTypes DEF AuthorityGone, TypeOK, RunTypes, Labels, Live, Midway, Terminal
<1>2. BindingTypes' /\ disk' \in Images /\ WatchTypes' /\ RoomTypes'
  BY DEF AuthorityGone, TypeOK, binding, BindingTypes, WatchTypes, server, RoomTypes
<1> QED BY <1>1, <1>2 DEF TypeOK

\* AcquireFails keeps every variable within its type.
LEMMA AcquireFailsTypes ==
  ASSUME TypeOK, NEW s \in Sources, NEW g \in Runs, NEW next \in Verdicts,
       AcquireFails(s, g, next)
  PROVE  TypeOK'
<1>1. RunTypes'
  BY GotoTypes DEF AcquireFails, TypeOK, RunTypes, Labels, Live, Midway
<1>2. BindingTypes' /\ disk' \in Images /\ WatchTypes' /\ RoomTypes'
  BY DEF AcquireFails, TypeOK, binding, BindingTypes, WatchTypes, server, RoomTypes
<1> QED BY <1>1, <1>2 DEF TypeOK

\* Freeze keeps every variable within its type.
LEMMA FreezeTypes ==
  ASSUME TypeOK, NEW s \in Sources, NEW g \in Runs, NEW o, Freeze(s, g, o)
  PROVE  TypeOK'
<1>1. PICK b \in 0 .. MaxDispatch :
        /\ intent' = [intent EXCEPT ![s].frozen = TRUE, ![s].body = b]
        /\ text' = [text EXCEPT ![s][g] = b]
  <2>1. intent[s].body \in 0 .. MaxDispatch /\ text[s][g] \in 0 .. MaxDispatch
    BY DEF TypeOK, BindingTypes, RunTypes, Intent
  <2> QED BY <2>1 DEF Freeze
<1>2. intent \in [Sources -> Intent]
  BY DEF TypeOK, BindingTypes
<1>3. BindingTypes'
  <2>1. [intent EXCEPT ![s].frozen = TRUE, ![s].body = b] \in [Sources -> Intent]
    BY <1>2, IntentTypes
  <2> QED BY <1>1, <2>1 DEF Freeze, TypeOK, BindingTypes
<1>4. disk' \in Images
  BY <1>3, SavedTypes DEF Freeze, TypeOK
<1>5. RunTypes'
  <2>1. o \in {"ok", "refused", "error"}
    BY ShapeAssumption DEF Freeze, Writes
  <2>2. run' \in [Sources -> [Runs -> Labels]]
    BY <2>1, GotoTypes DEF Freeze, AfterFreeze, Labels, Live, Midway
  <2>3. text' \in [Sources -> [Runs -> 0 .. MaxDispatch]]
    BY <1>1, EntryTypes DEF TypeOK, RunTypes
  <2> QED BY <2>2, <2>3 DEF Freeze, TypeOK, RunTypes
<1>6. WatchTypes' /\ RoomTypes'
  BY DEF Freeze, TypeOK, WatchTypes, server, RoomTypes
<1> QED BY <1>3, <1>4, <1>5, <1>6 DEF TypeOK

\* Replay keeps every variable within its type.
LEMMA ReplayTypes ==
  ASSUME TypeOK, NEW s \in Sources, NEW g \in Runs, Replay(s, g)
  PROVE  TypeOK'
<1>1. RunTypes'
  BY EndsTypes, GotoTypes DEF Replay, TypeOK, RunTypes, Labels, Live, Midway, Terminal
<1>2. BindingTypes' /\ disk' \in Images /\ WatchTypes' /\ RoomTypes'
  BY DEF Replay, TypeOK, binding, BindingTypes, WatchTypes, server, RoomTypes
<1> QED BY <1>1, <1>2 DEF TypeOK

\* PolicyUnavailable keeps every variable within its type.
LEMMA PolicyUnavailableTypes ==
  ASSUME TypeOK, NEW s \in Sources, NEW g \in Runs, PolicyUnavailable(s, g)
  PROVE  TypeOK'
<1>1. RunTypes'
  BY GotoTypes DEF PolicyUnavailable, TypeOK, RunTypes, Labels, Live, Midway
<1>2. BindingTypes' /\ disk' \in Images /\ WatchTypes' /\ RoomTypes'
  BY DEF PolicyUnavailable, TypeOK, binding, BindingTypes, WatchTypes, server, RoomTypes
<1> QED BY <1>1, <1>2 DEF TypeOK

-----------------------------------------------------------------------------
(***************************************************************************)
(* The canonical post and its receipt                                      *)
(***************************************************************************)
\* ServerPost keeps every variable within its type.
LEMMA ServerPostTypes ==
  ASSUME TypeOK, NEW s \in Sources, NEW g \in Runs, ServerPost(s, g)
  PROVE  TypeOK'
<1>1. RoomTypes'
  BY DEF ServerPost, TypeOK, RoomTypes, RunTypes, WatchTypes
<1>2. BindingTypes' /\ disk' \in Images /\ RunTypes' /\ WatchTypes'
  BY DEF ServerPost, TypeOK, binding, BindingTypes, tasks, RunTypes, WatchTypes
<1> QED BY <1>1, <1>2 DEF TypeOK

\* RecordReceipt keeps every variable within its type.
LEMMA RecordReceiptTypes ==
  ASSUME TypeOK, NEW s \in Sources, NEW g \in Runs, NEW o, RecordReceipt(s, g, o)
  PROVE  TypeOK'
<1>1. intent \in [Sources -> Intent] /\ journal \in [Sources -> Journal]
  BY DEF TypeOK, BindingTypes
<1>2. /\ Receipted(s) \in [Sources -> Intent]
      /\ [journal EXCEPT ![s] = Owed(s)] \in [Sources -> Journal]
  BY <1>1, IntentTypes, JournalTypes
<1>3. BindingTypes'
  BY <1>2 DEF RecordReceipt, TypeOK, BindingTypes
<1>4. disk' \in Images
  BY <1>3, SavedTypes DEF RecordReceipt, TypeOK
<1>5. RunTypes'
  BY GotoTypes DEF RecordReceipt, TypeOK, RunTypes, Labels, Live, Midway
<1>6. WatchTypes' /\ RoomTypes'
  BY DEF RecordReceipt, TypeOK, WatchTypes, server, RoomTypes
<1> QED BY <1>3, <1>4, <1>5, <1>6 DEF TypeOK

\* PostFails keeps every variable within its type.
LEMMA PostFailsTypes ==
  ASSUME TypeOK, NEW s \in Sources, NEW g \in Runs, NEW next \in Verdicts,
       PostFails(s, g, next)
  PROVE  TypeOK'
<1>1. RunTypes'
  BY GotoTypes DEF PostFails, TypeOK, RunTypes, Labels, Live, Midway
<1>2. BindingTypes' /\ disk' \in Images /\ WatchTypes' /\ RoomTypes'
  BY DEF PostFails, TypeOK, binding, BindingTypes, WatchTypes, server, RoomTypes
<1> QED BY <1>1, <1>2 DEF TypeOK

\* PostTooLate keeps every variable within its type.
LEMMA PostTooLateTypes ==
  ASSUME TypeOK, NEW s \in Sources, NEW g \in Runs, PostTooLate(s, g)
  PROVE  TypeOK'
<1>1. RunTypes'
  BY EndsTypes DEF PostTooLate, TypeOK, RunTypes, Labels, Live, Midway, Terminal
<1>2. BindingTypes' /\ disk' \in Images /\ WatchTypes' /\ RoomTypes'
  BY DEF PostTooLate, TypeOK, binding, BindingTypes, WatchTypes, server, RoomTypes
<1> QED BY <1>1, <1>2 DEF TypeOK

\* PostModeChanged keeps every variable within its type.
LEMMA PostModeChangedTypes ==
  ASSUME TypeOK, NEW s \in Sources, NEW g \in Runs, NEW o, PostModeChanged(s, g, o)
  PROVE  TypeOK'
<1>1. BindingTypes'
  BY DEF PostModeChanged, binding, TypeOK, BindingTypes
<1>2. disk' \in Images
  BY <1>1, SavedTypes DEF PostModeChanged, binding, TypeOK
<1>3. RunTypes'
  BY EndsTypes, GotoTypes DEF PostModeChanged, TypeOK, RunTypes, Labels, Live,
       Midway, Terminal
<1>4. RoomTypes'
  BY DEF PostModeChanged, TypeOK, RoomTypes
<1>5. WatchTypes'
  BY DEF PostModeChanged, TypeOK, WatchTypes
<1> QED BY <1>1, <1>2, <1>3, <1>4, <1>5 DEF TypeOK

\* RecordDeliveryFailure keeps every variable within its type.
LEMMA RecordDeliveryFailureTypes ==
  ASSUME TypeOK, NEW s \in Sources, NEW g \in Runs, NEW o, RecordDeliveryFailure(s,
       g, o)
  PROVE  TypeOK'
<1>1. intent \in [Sources -> Intent] /\ journal \in [Sources -> Journal]
  BY DEF TypeOK, BindingTypes
<1>2. ASSUME NEW v \in {"pending", "quarantined"}
      PROVE  [intent EXCEPT ![s].state = v] \in [Sources -> Intent]
  BY <1>1, IntentTypes DEF IntentStates
<1>3. intent' \in {intent, [intent EXCEPT ![s].state = "pending"],
                   [intent EXCEPT ![s].state = "quarantined"]}
  BY DEF RecordDeliveryFailure, binding
<1>4. \/ UNCHANGED <<inbox, retries>>
      \/ \E n \in Nat, v \in {inbox[s], "failed-retryable", "quarantined"} :
           /\ retries' = [retries EXCEPT ![s] = n] /\ inbox' = [inbox EXCEPT ![s] = v]
  <2>1. CASE Posted(s)
    BY <2>1 DEF RecordDeliveryFailure, binding
  <2>2. CASE ~ Posted(s)
    <3>1. retries[s] \in Nat /\ retries[s] + 1 \in Nat
      BY DEF TypeOK, BindingTypes
    <3> QED BY <2>2, <3>1 DEF RecordDeliveryFailure
  <2> QED BY <2>1, <2>2
<1>5. BindingTypes'
  <2>1. intent' \in [Sources -> Intent]
    BY <1>1, <1>2, <1>3
  <2>2. inbox' \in [Sources -> Waiting \cup Terminal] /\ retries' \in [Sources -> Nat]
    BY <1>4 DEF TypeOK, BindingTypes, Waiting
  <2>3. UNCHANGED <<journal, evidence, ack>>
    BY DEF RecordDeliveryFailure, binding
  <2> QED BY <2>1, <2>2, <2>3 DEF TypeOK, BindingTypes
<1>6. disk' \in Images
  BY <1>5, SavedTypes DEF RecordDeliveryFailure, binding, TypeOK
<1>7. RunTypes' /\ WatchTypes'
  BY EscapesTypes DEF RecordDeliveryFailure, TypeOK, RunTypes, WatchTypes
<1>8. RoomTypes'
  BY DEF RecordDeliveryFailure, TypeOK, server, RoomTypes
<1> QED BY <1>5, <1>6, <1>7, <1>8 DEF TypeOK

-----------------------------------------------------------------------------
(***************************************************************************)
(* The lifecycle and its repair                                            *)
(***************************************************************************)
\* The lifecycle begins with a call, a failure to record, or is over at once.
LEMMA BeginMoves ==
  ASSUME NEW s \in Sources, NEW g \in Runs, NEW o, BeginLifecycle(s, g, o)
  PROVE  \/ Ends(s, g, "posted")
         \/ /\ \E l \in {"debt-retry", "debt-final", "completing", "replaying"} :
                  Goto(s, g, l)
            /\ UNCHANGED result
<1>1. o \in {"ok", "refused", "error"}
  BY ShapeAssumption DEF BeginLifecycle, Writes
<1> QED BY <1>1 DEF BeginLifecycle

\* BeginLifecycle keeps every variable within its type.
LEMMA BeginLifecycleTypes ==
  ASSUME TypeOK, NEW s \in Sources, NEW g \in Runs, NEW o, BeginLifecycle(s, g, o)
  PROVE  TypeOK'
<1>1. intent \in [Sources -> Intent] /\ journal \in [Sources -> Journal]
  BY DEF TypeOK, BindingTypes
<1>2. {journal, Completed(s), Counted(s)} \subseteq [Sources -> Journal]
  BY <1>1, JournalTypes
<1>3. journal' \in {journal, Completed(s), Counted(s)}
  BY DEF BeginLifecycle
<1>4. BindingTypes'
  BY <1>2, <1>3 DEF BeginLifecycle, TypeOK, BindingTypes
<1>5. disk' \in Images
  BY <1>4, SavedTypes DEF BeginLifecycle, TypeOK
<1>6. RunTypes'
  <2>1. CASE Ends(s, g, "posted")
    BY <2>1, EndsTypes DEF BeginLifecycle, TypeOK, RunTypes, Terminal
  <2>2. CASE /\ \E l \in {"debt-retry", "debt-final", "completing", "replaying"} :
                    Goto(s, g, l)
             /\ UNCHANGED result
    BY <2>2, GotoTypes DEF BeginLifecycle, TypeOK, RunTypes, Labels, Live, Midway
  <2> QED BY <2>1, <2>2, BeginMoves
<1>7. RoomTypes'
  BY DEF BeginLifecycle, TypeOK, RoomTypes, Called, server
<1>8. WatchTypes'
  BY DEF BeginLifecycle, TypeOK, WatchTypes
<1> QED BY <1>4, <1>5, <1>6, <1>7, <1>8 DEF TypeOK

\* ServerComplete keeps every variable within its type.
LEMMA ServerCompleteTypes ==
  ASSUME TypeOK, NEW s \in Sources, ServerComplete(s)
  PROVE  TypeOK'
<1>1. RoomTypes'
  BY DEF ServerComplete, TypeOK, RoomTypes
<1>2. BindingTypes' /\ disk' \in Images /\ RunTypes' /\ WatchTypes'
  BY DEF ServerComplete, TypeOK, binding, BindingTypes, tasks, RunTypes, WatchTypes
<1> QED BY <1>1, <1>2 DEF TypeOK

\* ServerSupersedes keeps every variable within its type.
LEMMA ServerSupersedesTypes ==
  ASSUME TypeOK, NEW s \in Sources, ServerSupersedes(s)
  PROVE  TypeOK'
<1>1. RoomTypes'
  BY DEF ServerSupersedes, TypeOK, RoomTypes
<1>2. BindingTypes' /\ disk' \in Images /\ RunTypes' /\ WatchTypes'
  BY DEF ServerSupersedes, TypeOK, binding, BindingTypes, tasks, RunTypes, WatchTypes
<1> QED BY <1>1, <1>2 DEF TypeOK

\* LifecycleDone keeps every variable within its type.
LEMMA LifecycleDoneTypes ==
  ASSUME TypeOK, NEW s \in Sources, NEW g \in Runs, NEW o, LifecycleDone(s, g, o)
  PROVE  TypeOK'
<1>1. intent \in [Sources -> Intent] /\ journal \in [Sources -> Journal]
  BY DEF TypeOK, BindingTypes
<1>2. {journal, Completed(s)} \subseteq [Sources -> Journal]
  BY <1>1, JournalTypes
<1>3. journal' \in {journal, Completed(s)}
  BY DEF LifecycleDone
<1>4. BindingTypes'
  BY <1>2, <1>3 DEF LifecycleDone, TypeOK, BindingTypes
<1>5. disk' \in Images
  BY <1>4, SavedTypes DEF LifecycleDone, TypeOK
<1>6. RunTypes'
  BY EndsTypes, GotoTypes DEF LifecycleDone, TypeOK, RunTypes, Labels, Live, Midway,
       Terminal
<1>7. WatchTypes' /\ RoomTypes'
  BY DEF LifecycleDone, TypeOK, WatchTypes, server, RoomTypes
<1> QED BY <1>4, <1>5, <1>6, <1>7 DEF TypeOK

\* LifecycleFails keeps every variable within its type.
LEMMA LifecycleFailsTypes ==
  ASSUME TypeOK, NEW s \in Sources, NEW g \in Runs, NEW next \in Verdicts,
       LifecycleFails(s, g, next)
  PROVE  TypeOK'
<1>1. RunTypes'
  BY GotoTypes DEF LifecycleFails, TypeOK, RunTypes, Labels, Live, Midway
<1>2. BindingTypes' /\ disk' \in Images /\ WatchTypes' /\ RoomTypes'
  BY DEF LifecycleFails, TypeOK, binding, BindingTypes, WatchTypes, server, RoomTypes
<1> QED BY <1>1, <1>2 DEF TypeOK

\* RecordLifecycleFailure keeps every variable within its type.
LEMMA RecordLifecycleFailureTypes ==
  ASSUME TypeOK, NEW s \in Sources, NEW g \in Runs, NEW o, RecordLifecycleFailure(s,
       g, o)
  PROVE  TypeOK'
<1>1. intent \in [Sources -> Intent] /\ journal \in [Sources -> Journal]
  BY DEF TypeOK, BindingTypes
<1>2. {intent, Receipted(s)} \subseteq [Sources -> Intent]
  BY <1>1, IntentTypes
<1>3. journal' \in {journal, Debt(s, At(s, g, "debt-retry")),
     [journal EXCEPT ![s].life = "blocked"]}
  BY DEF RecordLifecycleFailure
<1>4. journal' \in [Sources -> Journal]
  BY <1>1, <1>3, JournalTypes, DebtTypes
<1>5. BindingTypes'
  BY <1>2, <1>4 DEF RecordLifecycleFailure, TypeOK, BindingTypes
<1>6. disk' \in Images
  BY <1>5, SavedTypes DEF RecordLifecycleFailure, TypeOK
<1>7. RunTypes'
  BY EndsTypes DEF RecordLifecycleFailure, TypeOK, RunTypes, Labels, Live, Midway,
       Terminal
<1>8. WatchTypes' /\ RoomTypes'
  BY DEF RecordLifecycleFailure, TypeOK, WatchTypes, server, RoomTypes
<1> QED BY <1>5, <1>6, <1>7, <1>8 DEF TypeOK

\* RepairExhausted keeps every variable within its type.
LEMMA RepairExhaustedTypes ==
  ASSUME TypeOK, NEW s \in Sources, NEW o, RepairExhausted(s, o)
  PROVE  TypeOK'
<1>1. intent \in [Sources -> Intent] /\ journal \in [Sources -> Journal]
  BY DEF TypeOK, BindingTypes
<1>2. {[journal EXCEPT ![s].life = "blocked"]} \subseteq [Sources -> Journal]
  BY <1>1, JournalTypes
<1>3. journal' \in {[journal EXCEPT ![s].life = "blocked"]}
  BY DEF RepairExhausted
<1>4. BindingTypes'
  BY <1>2, <1>3 DEF RepairExhausted, TypeOK, BindingTypes
<1>5. disk' \in Images
  BY <1>4, SavedTypes DEF RepairExhausted, TypeOK
<1>6. WatchTypes'
  BY SizeAssumption DEF RepairExhausted, Sources, TypeOK, WatchTypes
<1>7. RunTypes' /\ RoomTypes'
  BY DEF RepairExhausted, TypeOK, RunTypes, server, RoomTypes
<1> QED BY <1>4, <1>5, <1>6, <1>7 DEF TypeOK

\* RepairCall keeps every variable within its type.
LEMMA RepairCallTypes ==
  ASSUME TypeOK, NEW s \in Sources, NEW o, RepairCall(s, o)
  PROVE  TypeOK'
<1>1. intent \in [Sources -> Intent] /\ journal \in [Sources -> Journal]
  BY DEF TypeOK, BindingTypes
<1>2. {journal, Counted(s)} \subseteq [Sources -> Journal]
  BY <1>1, JournalTypes
<1>3. journal' \in {journal, Counted(s)}
  BY DEF RepairCall
<1>4. BindingTypes'
  BY <1>2, <1>3 DEF RepairCall, TypeOK, BindingTypes
<1>5. disk' \in Images
  BY <1>4, SavedTypes DEF RepairCall, TypeOK
<1>6. WatchTypes'
  BY SizeAssumption DEF RepairCall, Sources, RepairSteps, TypeOK, WatchTypes
<1>7. RoomTypes'
  BY DEF RepairCall, TypeOK, RoomTypes, Called, server
<1>8. RunTypes'
  BY DEF RepairCall, TypeOK, RunTypes
<1> QED BY <1>4, <1>5, <1>6, <1>7, <1>8 DEF TypeOK

\* RepairDone keeps every variable within its type.
LEMMA RepairDoneTypes ==
  ASSUME TypeOK, NEW s \in Sources, NEW o, RepairDone(s, o)
  PROVE  TypeOK'
<1>1. intent \in [Sources -> Intent] /\ journal \in [Sources -> Journal]
  BY DEF TypeOK, BindingTypes
<1>2. {journal, Completed(s)} \subseteq [Sources -> Journal]
  BY <1>1, JournalTypes
<1>3. journal' \in {journal, Completed(s)}
  BY DEF RepairDone
<1>4. BindingTypes'
  BY <1>2, <1>3 DEF RepairDone, TypeOK, BindingTypes
<1>5. disk' \in Images
  BY <1>4, SavedTypes DEF RepairDone, TypeOK
<1>6. WatchTypes'
  BY SizeAssumption DEF RepairDone, Sources, RepairSteps, NoRepair, TypeOK, WatchTypes
<1>7. RunTypes' /\ RoomTypes'
  BY DEF RepairDone, TypeOK, RunTypes, server, RoomTypes
<1> QED BY <1>4, <1>5, <1>6, <1>7 DEF TypeOK

\* RepairFails keeps every variable within its type.
LEMMA RepairFailsTypes ==
  ASSUME TypeOK, NEW s \in Sources, NEW next \in Verdicts, RepairFails(s, next)
  PROVE  TypeOK'
<1>1. WatchTypes'
  BY SizeAssumption DEF RepairFails, Sources, RepairSteps, TypeOK, WatchTypes
<1>2. BindingTypes' /\ disk' \in Images /\ RunTypes' /\ RoomTypes'
  BY DEF RepairFails, TypeOK, binding, BindingTypes, RunTypes, server, RoomTypes
<1> QED BY <1>1, <1>2 DEF TypeOK

\* RepairDebt keeps every variable within its type.
LEMMA RepairDebtTypes ==
  ASSUME TypeOK, NEW s \in Sources, NEW o, RepairDebt(s, o)
  PROVE  TypeOK'
<1>1. intent \in [Sources -> Intent] /\ journal \in [Sources -> Journal]
  BY DEF TypeOK, BindingTypes
<1>2. Debt(s, repair.step = "debt-retry") \in [Sources -> Journal]
  BY <1>1, DebtTypes
<1>3. journal' \in {journal, Debt(s, repair.step = "debt-retry")}
  BY DEF RepairDebt
<1>4. BindingTypes'
  BY <1>1, <1>2, <1>3 DEF RepairDebt, TypeOK, BindingTypes
<1>5. disk' \in Images
  BY <1>4, SavedTypes DEF RepairDebt, TypeOK
<1>6. WatchTypes'
  BY SizeAssumption DEF RepairDebt, Sources, RepairSteps, NoRepair, TypeOK, WatchTypes
<1>7. RunTypes' /\ RoomTypes'
  BY DEF RepairDebt, TypeOK, RunTypes, server, RoomTypes
<1> QED BY <1>4, <1>5, <1>6, <1>7 DEF TypeOK

-----------------------------------------------------------------------------
(***************************************************************************)
(* Time, other members of the Room, crashes                                *)
(***************************************************************************)
\* Sweep keeps every variable within its type.
LEMMA SweepTypes ==
  ASSUME TypeOK, NEW s \in Sources, NEW o, Sweep(s, o)
  PROVE  TypeOK'
<1>1. BindingTypes'
  BY SizeAssumption DEF Sweep, TypeOK, BindingTypes, Waiting
<1>2. disk' \in Images
  BY <1>1, SavedTypes DEF Sweep, TypeOK
<1>3. RunTypes'
  BY SizeAssumption DEF Sweep, TypeOK, RunTypes, NoRun
<1>4. WatchTypes'
  BY SizeAssumption DEF Sweep, Sources, NoRun, TypeOK, WatchTypes
<1>5. RoomTypes'
  BY DEF Sweep, TypeOK, server, RoomTypes
<1> QED BY <1>1, <1>2, <1>3, <1>4, <1>5 DEF TypeOK

\* WatchStops keeps every variable within its type.
LEMMA WatchStopsTypes ==
  ASSUME TypeOK, WatchStops
  PROVE  TypeOK'
<1>1. WatchTypes'
  BY SizeAssumption DEF WatchStops, TypeOK, WatchTypes
<1>2. BindingTypes' /\ disk' \in Images /\ RunTypes' /\ RoomTypes'
  BY DEF WatchStops, TypeOK, binding, BindingTypes, RunTypes, server, RoomTypes
<1> QED BY <1>1, <1>2 DEF TypeOK

\* LoseLease keeps every variable within its type.
LEMMA LoseLeaseTypes ==
  ASSUME TypeOK, NEW s \in Sources, LoseLease(s)
  PROVE  TypeOK'
<1>1. RunTypes'
  BY DEF LoseLease, TypeOK, RunTypes
<1>2. BindingTypes' /\ disk' \in Images /\ WatchTypes' /\ RoomTypes'
  BY DEF LoseLease, TypeOK, binding, BindingTypes, WatchTypes, server, RoomTypes
<1> QED BY <1>1, <1>2 DEF TypeOK

\* NewEpoch keeps every variable within its type.
LEMMA NewEpochTypes ==
  ASSUME TypeOK, NewEpoch
  PROVE  TypeOK'
<1>1. RoomTypes'
  BY SizeAssumption DEF NewEpoch, TypeOK, RoomTypes
<1>2. BindingTypes' /\ disk' \in Images /\ RunTypes' /\ WatchTypes'
  BY DEF NewEpoch, TypeOK, binding, BindingTypes, tasks, RunTypes, WatchTypes
<1> QED BY <1>1, <1>2 DEF TypeOK

\* Crash keeps every variable within its type.
LEMMA CrashTypes ==
  ASSUME TypeOK, Crash
  PROVE  TypeOK'
<1>1. BindingTypes' /\ disk' \in Images
  BY DEF Crash, TypeOK, BindingTypes, Images
<1>2. RunTypes'
  BY SizeAssumption DEF Crash, NoRun, TypeOK, RunTypes, Labels, Live, Midway
<1>3. WatchTypes'
  BY SizeAssumption DEF Crash, RepairSteps, NoArrival, NoRun, NoRepair, TypeOK,
       WatchTypes
<1>4. RoomTypes'
  BY SizeAssumption DEF Crash, TypeOK, RoomTypes, server
<1> QED BY <1>1, <1>2, <1>3, <1>4 DEF TypeOK

-----------------------------------------------------------------------------
(***************************************************************************)
(* A generation that ended has an outcome                                  *)
(***************************************************************************)
\* A generation that moves on without ending needs no outcome.
LEMMA GotoEnded ==
  ASSUME TypeOK, EndedHasResult, NEW s \in Sources, NEW g \in Runs, NEW l,
         Goto(s, g, l), l \notin {"settling", "settled"}, UNCHANGED result
  PROVE  EndedHasResult'
  BY DEF TypeOK, RunTypes, EndedHasResult, Goto

\* A generation that ends gets its outcome in the same step.
LEMMA EndsEnded ==
  ASSUME TypeOK, EndedHasResult, NEW s \in Sources, NEW g \in Runs,
       NEW status \in Terminal,
         Ends(s, g, status)
  PROVE  EndedHasResult'
  BY DEF TypeOK, RunTypes, EndedHasResult, Ends, Goto, Terminal

\* A send that escapes has not ended.
LEMMA EscapesEnded ==
  ASSUME TypeOK, EndedHasResult, NEW s \in Sources, NEW g \in Runs, NEW fatal,
         Escapes(s, g, fatal)
  PROVE  EndedHasResult'
<1>1. \E l \in {"done", "unsent"} : Goto(s, g, l) /\ UNCHANGED result
  BY DEF Escapes
<1> QED BY <1>1, GotoEnded

\* A callback leaves the outcome it records in place.
LEMMA SettleEnded ==
  ASSUME TypeOK, EndedHasResult, NEW s \in Sources, NEW g \in Runs, NEW o, Settle(s,
       g, o)
  PROVE  EndedHasResult'
<1>1. UNCHANGED result /\ \E l : Goto(s, g, l)
  BY DEF Settle
<1> QED BY <1>1 DEF TypeOK, RunTypes, EndedHasResult, Settle, Goto

\* No step of a final send ends a generation without an outcome.
LEMMA SendEnded ==
  ASSUME TypeOK, EndedHasResult, NEW s \in Sources, NEW g \in Runs, SendNext(s, g)
  PROVE  EndedHasResult'
<1>1. CASE SendSuperseded(s, g)
  BY <1>1, EndsEnded DEF SendSuperseded, Terminal
<1>2. CASE FinishSkip(s, g)
  BY <1>2, EndsEnded DEF FinishSkip, Terminal
<1>3. CASE AuthorityGone(s, g)
  BY <1>3, EndsEnded DEF AuthorityGone, Terminal
<1>4. CASE PostTooLate(s, g)
  BY <1>4, EndsEnded DEF PostTooLate, Terminal
<1>5. ASSUME NEW o \in Outcomes, RecordLifecycleFailure(s, g, o)
      PROVE  EndedHasResult'
  BY <1>5, EndsEnded DEF RecordLifecycleFailure, Terminal
<1>6. ASSUME NEW o \in Outcomes, LifecycleDone(s, g, o)
      PROVE  EndedHasResult'
  BY <1>6, EndsEnded, GotoEnded DEF LifecycleDone, Terminal
<1>7. ASSUME NEW o \in Outcomes, BeginLifecycle(s, g, o)
      PROVE  EndedHasResult'
  BY <1>7, BeginMoves, EndsEnded, GotoEnded DEF Terminal, Outcomes
<1>8. ASSUME NEW o \in Outcomes, PostModeChanged(s, g, o)
      PROVE  EndedHasResult'
  BY <1>8, EndsEnded, GotoEnded DEF PostModeChanged, Terminal
<1>9. CASE Replay(s, g)
  BY <1>9, EndsEnded, GotoEnded DEF Replay, Terminal
<1>10. CASE SendRefused(s, g)
  BY <1>10, EscapesEnded DEF SendRefused
<1>11. CASE SkipRefused(s, g)
  BY <1>11, EscapesEnded DEF SkipRefused
<1>12. ASSUME NEW o \in Outcomes, RecordDeliveryFailure(s, g, o)
      PROVE  EndedHasResult'
  BY <1>12, EscapesEnded DEF RecordDeliveryFailure
<1>13. CASE SendFinal(s, g)
  BY <1>13, GotoEnded DEF SendFinal
<1>14. ASSUME NEW next \in Verdicts, AcquireFails(s, g, next)
      PROVE  EndedHasResult'
  BY <1>14, GotoEnded DEF AcquireFails, Verdicts
<1>15. ASSUME NEW next \in Verdicts, PostFails(s, g, next)
      PROVE  EndedHasResult'
  BY <1>15, GotoEnded DEF PostFails, Verdicts
<1>16. ASSUME NEW next \in Verdicts, LifecycleFails(s, g, next)
      PROVE  EndedHasResult'
  BY <1>16, GotoEnded DEF LifecycleFails, Verdicts
<1>17. CASE PolicyUnavailable(s, g)
  BY <1>17, GotoEnded DEF PolicyUnavailable
<1>18. CASE ProcessingEnds(s, g)
  BY <1>18, GotoEnded DEF ProcessingEnds
<1>19. ASSUME NEW o \in Outcomes, Freeze(s, g, o)
      PROVE  EndedHasResult'
  BY <1>19, GotoEnded DEF Freeze, AfterFreeze, Outcomes
<1>20. ASSUME NEW o \in Outcomes, RecordReceipt(s, g, o)
      PROVE  EndedHasResult'
  BY <1>20, GotoEnded DEF RecordReceipt
<1>21. ASSUME NEW action \in {"post", "skip", "fail"}, NEW o \in Outcomes, Select(s,
     g, action, o)
      PROVE  EndedHasResult'
  BY <1>21, EscapesEnded, GotoEnded DEF Select
<1>22. CASE ProcessingPasses(s, g)
  BY <1>22 DEF ProcessingPasses, TypeOK, RunTypes, EndedHasResult, Goto
<1>23. ASSUME NEW o \in Outcomes, Settle(s, g, o)
      PROVE  EndedHasResult'
  BY <1>23, SettleEnded
<1> QED BY <1>1, <1>2, <1>3, <1>4, <1>5, <1>6, <1>7, <1>8, <1>9, <1>10, <1>11, <1>12,
         <1>13, <1>14, <1>15, <1>16, <1>17, <1>18, <1>19, <1>20, <1>21, <1>22,
              <1>23 DEF SendNext

\* Steps of the watch task, the ledger and the Room end no generation.
LEMMA EndedStep == TypeOK /\ EndedHasResult /\ [Next]_vars => EndedHasResult'
<1> SUFFICES ASSUME TypeOK, EndedHasResult, [Next]_vars
             PROVE  EndedHasResult'
  OBVIOUS
<1>1. CASE UNCHANGED <<run, result>>
  BY <1>1 DEF EndedHasResult
<1>2. ASSUME NEW s \in Sources, NEW g \in Runs, SendNext(s, g)
      PROVE  EndedHasResult'
  BY <1>2, SendEnded
<1>3. ASSUME NEW s \in Sources, WatchNext(s)
      PROVE  EndedHasResult'
  <2>1. ASSUME NEW g \in Runs, Dispatch(s, g)
        PROVE  EndedHasResult'
    BY <2>1, GotoEnded DEF Dispatch
  <2>2. (\E g \in Runs : Dispatch(s, g)) \/ UNCHANGED <<run, result>>
    BY <1>3 DEF WatchNext, Deliver, Reacknowledge, Sweep, Decline, RepairExhausted,
         RepairCall, RepairDone, RepairDebt, RepairFails, ArrivalDropped
  <2> QED BY <1>1, <2>1, <2>2
<1>4. ASSUME NEW s \in Sources, RoomNext(s)
      PROVE  UNCHANGED <<run, result>>
  BY <1>4 DEF RoomNext, ServerComplete, ServerSupersedes, LoseLease, ServerPost, tasks
<1>5. CASE LedgerNext \/ WatchStops \/ NewEpoch \/ UNCHANGED vars
  BY <1>1, <1>5 DEF LedgerNext, ServerAcknowledge, AcknowledgeFails, AcknowledgeReply,
                    WatchStops, NewEpoch, vars, tasks
<1>6. CASE Crash
  BY <1>6 DEF Crash, EndedHasResult, TypeOK, RunTypes
<1> QED BY <1>1, <1>2, <1>3, <1>4, <1>5, <1>6 DEF Next

-----------------------------------------------------------------------------
\* The inductive invariant.
TypeInv == TypeOK /\ EndedHasResult

\* Every step of a final send keeps the types.
LEMMA SendTypes ==
  ASSUME TypeOK, EndedHasResult, NEW s \in Sources, NEW g \in Runs, SendNext(s, g)
  PROVE  TypeOK'
<1>1. ASSUME NEW o \in Outcomes
      PROVE  /\ Freeze(s, g, o) => TypeOK'
             /\ RecordReceipt(s, g, o) => TypeOK'
             /\ PostModeChanged(s, g, o) => TypeOK'
             /\ RecordDeliveryFailure(s, g, o) => TypeOK'
             /\ BeginLifecycle(s, g, o) => TypeOK'
             /\ LifecycleDone(s, g, o) => TypeOK'
             /\ RecordLifecycleFailure(s, g, o) => TypeOK'
             /\ Settle(s, g, o) => TypeOK'
             /\ \A action \in {"post", "skip", "fail"} : Select(s, g, action,
                  o) => TypeOK'
  BY FreezeTypes, RecordReceiptTypes, PostModeChangedTypes,
       RecordDeliveryFailureTypes, BeginLifecycleTypes, LifecycleDoneTypes,
            RecordLifecycleFailureTypes, SettleTypes, SelectTypes
<1>2. ASSUME NEW next \in Verdicts
      PROVE  (AcquireFails(s, g, next) \/ PostFails(s, g, next) \/ LifecycleFails(s,
           g, next)) => TypeOK'
  BY AcquireFailsTypes, PostFailsTypes, LifecycleFailsTypes
<1> QED
  BY <1>1, <1>2, SendFinalTypes, SendSupersededTypes, SendRefusedTypes,
       FinishSkipTypes, SkipRefusedTypes, AuthorityGoneTypes, ReplayTypes,
            PolicyUnavailableTypes, PostTooLateTypes, ProcessingEndsTypes,
                 ProcessingPassesTypes DEF SendNext

\* Every step of the watch task for one event keeps the types.
LEMMA WatchTaskTypes ==
  ASSUME TypeOK, NEW s \in Sources, WatchNext(s)
  PROVE  TypeOK'
  BY DeliverTypes, ReacknowledgeTypes, SweepTypes, DeclineTypes,
       RepairExhaustedTypes, RepairCallTypes, RepairDoneTypes, RepairDebtTypes,
            RepairFailsTypes, ArrivalDroppedTypes, DispatchTypes DEF WatchNext

\* Every step of the Room for one event keeps the types.
LEMMA RoomTaskTypes ==
  ASSUME TypeOK, NEW s \in Sources, RoomNext(s)
  PROVE  TypeOK'
  BY ServerCompleteTypes, ServerSupersedesTypes, LoseLeaseTypes, ServerPostTypes
       DEF RoomNext

\* Every step keeps the types, given that ended generations have outcomes.
LEMMA TypeStep == TypeInv /\ [Next]_vars => TypeOK'
<1> SUFFICES ASSUME TypeInv, [Next]_vars
             PROVE  TypeOK'
  OBVIOUS
<1>1. CASE UNCHANGED vars
  BY <1>1 DEF TypeInv, TypeOK, BindingTypes, RunTypes, WatchTypes, RoomTypes,
              vars, binding, tasks, server
<1>2. CASE LedgerNext \/ WatchStops \/ NewEpoch \/ Crash
  BY <1>2, ServerAcknowledgeTypes, AcknowledgeFailsTypes, AcknowledgeReplyTypes,
     WatchStopsTypes, NewEpochTypes, CrashTypes DEF TypeInv, LedgerNext
<1>3. ASSUME NEW s \in Sources, WatchNext(s) \/ RoomNext(s)
     \/ \E g \in Runs : SendNext(s, g)
      PROVE  TypeOK'
  BY <1>3, WatchTaskTypes, RoomTaskTypes, SendTypes DEF TypeInv
<1> QED BY <1>1, <1>2, <1>3 DEF Next

\* The freshly joined binding is well-formed.
LEMMA InitTypes == Init => TypeInv
<1> SUFFICES ASSUME Init
             PROVE  TypeInv
  OBVIOUS
<1>1. NoIntent \in Intent /\ NoJournal \in Journal
  BY SizeAssumption DEF Intent, NoIntent, Journal, NoJournal
<1>2. BindingTypes
  BY <1>1, SizeAssumption DEF Init, BindingTypes, Waiting
<1>3. disk \in Images
  BY <1>2 DEF Init, BindingTypes, Images, Image
<1>4. RunTypes
  BY SizeAssumption DEF Init, RunTypes, Labels, NoRun
<1>5. WatchTypes /\ RoomTypes
  BY SizeAssumption DEF Init, WatchTypes, RoomTypes, NoArrival, NoRun, RepairSteps
<1>6. EndedHasResult
  BY DEF Init, EndedHasResult
<1> QED BY <1>2, <1>3, <1>4, <1>5, <1>6 DEF TypeInv, TypeOK

\* Every variable of the adapter, the file and the Room keeps its shape, for
\* every value of the constants: no sequence of saves, failed saves, crashes and
\* overtaken runs puts into the binding what the file could not hold.
THEOREM TypeCorrect == Spec => []TypeOK
<1>1. Init => TypeInv
  BY InitTypes
<1>2. TypeInv /\ [Next]_vars => TypeInv'
  BY TypeStep, EndedStep DEF TypeInv
<1>3. TypeInv => TypeOK
  BY DEF TypeInv
<1> QED BY <1>1, <1>2, <1>3, PTL DEF Spec
=============================================================================
