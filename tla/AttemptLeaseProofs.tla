-------------------------- MODULE AttemptLeaseProofs --------------------------
(***************************************************************************)
(* Proofs about AttemptAuthority, for any number of sources, attempts and  *)
(* generations: who owns the attempt of a submission, what goes out        *)
(* without one, and whose lease is kept.                                   *)
(***************************************************************************)
EXTENDS AttemptAuthorityProofs

-----------------------------------------------------------------------------
(***************************************************************************)
(* What the steps of the sender do to its source                           *)
(***************************************************************************)
\* What the state says of source s is the same after the step.
Kept(s) ==
  /\ held'[s] = held[s] /\ renewal'[s] = renewal[s] /\ (s \in marked' <=> s \in marked)
  /\ mem'.intent[s] = mem.intent[s] /\ mem'.cycle[s] = mem.cycle[s]
Saved == file' = file \/ file' = mem'
RoomKept == room'.attempt = room.attempt /\ Open' \in {Open, None}

\* Only a claim has an answer, or waits for one.
AnswerKept(g) ==
  \/ send'[g].answer = None \/ send'[g].at \in {"claim", "first", "second"}
  \/ send'[g].answer = send[g].answer /\ send[g].at \in {"running", "state"}

\* Attempts stay owned, but for a completion that fails after the receipt.
OwnersKept(g) ==
  LET s == send[g].source IN
  \/ mem'.owner = mem.owner
  \/ /\ send[g].at = "receipt" /\ send'[g].at = "ended"
     /\ held'[s] = None /\ renewal'[s] = NoRenewal
     /\ \A a \in Attempts : mem.owner[a] # s => mem'.owner[a] = mem.owner[a]

\* A step of generation g at work touches its own source only.
Frame(g) ==
  /\ Works(g) /\ OwnersKept(g) /\ Saved /\ torn' = torn /\ left \subseteq left' /\ RoomKept
  /\ \A t \in Sources : t # send[g].source => Kept(t)
  /\ AnswerKept(g)

Begins(g) ==
  /\ send[g].at = "running" /\ send'[g].at = "state"
  /\ send'[g].attempt = held[send[g].source] /\ Kept(send[g].source)
Resumes(g) ==
  LET s == send[g].source IN
  /\ send[g].at = "state" /\ send'[g].at = "receipt"
  /\ send'[g].attempt = mem.cycle[s] /\ mem.intent[s] = "posted"
  /\ held'[s] = held[s] /\ s \notin marked'
  /\ renewal'[s] = IF s \in marked THEN NoRenewal ELSE renewal[s]
  /\ mem'.intent[s] = mem.intent[s] /\ mem'.cycle[s] = mem.cycle[s]
\* The renewal ends, and the source will be settled.
Closes(g) ==
  LET s == send[g].source IN
  /\ send[g].at \notin {"running", "ended"} /\ send'[g].at = "ended"
  /\ send'[g].attempt = send[g].attempt /\ renewal'[s] = NoRenewal
  /\ held'[s] \in {None, held[s]} /\ (s \in marked' => s \in marked)
  /\ mem'.intent[s] = mem.intent[s] /\ mem'.cycle[s] = mem.cycle[s]
\* The outcome leaves the renewal running.
Abandons(g) ==
  /\ send'[g].at = "ended" /\ send'[g].attempt = send[g].attempt
  /\ Kept(send[g].source) /\ send[g].source \in left'
Replayed(g) ==
  /\ send[g].at = "receipt" /\ send'[g].at = "ended"
  /\ send'[g].attempt = send[g].attempt /\ Kept(send[g].source)
  /\ Open' # send[g].attempt \/ send[g].attempt = None
Adopts(g) ==
  LET s == send[g].source IN
  /\ send[g].at = "claim" /\ send'[g].at = "freeze"
  /\ send'[g].attempt = send[g].attempt /\ held'[s] = send[g].attempt
  /\ renewal'[s] = renewal[s] /\ (s \in marked' <=> s \in marked)
  /\ mem'.intent[s] = mem.intent[s] /\ mem'.cycle[s] = mem.cycle[s]
\* A selection, made now or before; its attempt, and where it leads.
SelectsOnce(g) ==
  LET s == send[g].source
      c == Chosen(g)
      next == send'[g]
  IN /\ send[g].at = "state" /\ s \notin marked
     /\ held'[s] = held[s] /\ renewal'[s] = renewal[s] /\ s \notin marked'
     /\ mem.intent[s] \in {"none", "skip", "selected", "frozen"}
     /\ IF mem.intent[s] = "none"
        THEN mem'.intent[s] \in {"skip", "selected"} /\ mem'.cycle[s] = send[g].attempt
        ELSE mem'.intent[s] = mem.intent[s] /\ mem'.cycle[s] = mem.cycle[s]
     /\ \/ next.at = "failed" /\ next.attempt = send[g].attempt
        \/ next.at = "replay" /\ next.attempt = mem.cycle[s] /\ mem.intent[s] = "frozen"
        \/ next.at \in {"alone", "ended"} /\ c = None /\ next.attempt = send[g].attempt
        \/ next.at \in {"claim", "pass"} /\ c # None /\ next.attempt = c
\* The post or its receipt is written under the attempt of the run.
Writes(g) ==
  LET s == send[g].source IN
  /\ send[g].at \in {"freeze", "alone", "sent"}
  /\ send'[g].at \in {"replay", "receipt", "failed"}
  /\ send'[g].attempt = send[g].attempt
  /\ held'[s] = held[s] /\ renewal'[s] = renewal[s] /\ (s \in marked' <=> s \in marked)
  /\ mem'.intent[s] = IF send[g].at = "sent" THEN "posted" ELSE "frozen"
  /\ send'[g].at = "receipt" => send[g].at = "sent"
  /\ mem'.cycle[s] = send[g].attempt
Fails(g) == send[g].at \notin {"running", "receipt", "ended"} \/ send[g].answer = Waiting
Passes(g) ==
  LET s == send[g].source IN
  /\ \/ send'[g].at = "failed" /\ Fails(g)
     \/ /\ send'[g].at \in {"replay", "first", "second", "sent"}
        /\ send[g].at \in {"replay", "first", "second", "sent"} \/ send[g].answer = Waiting
  /\ send'[g].attempt = send[g].attempt
  /\ held'[s] = held[s] /\ renewal'[s] = renewal[s] /\ (s \in marked' <=> s \in marked)
  /\ mem'.intent[s] \in {mem.intent[s], "quarantined"} /\ mem'.cycle[s] = mem.cycle[s]

Effect(g) ==
  /\ Frame(g)
  /\ \/ Begins(g) \/ Resumes(g) \/ Closes(g) \/ Abandons(g) \/ Replayed(g) \/ Adopts(g)
     \/ SelectsOnce(g) \/ Writes(g) \/ Passes(g)

\* Frames of the steps that leave the binding alone, and of those that write it.
LEMMA SameFrame ==
  ASSUME TypeInv, UNCHANGED binding
  PROVE  /\ mem'.owner = mem.owner /\ Saved
         /\ mem'.intent = mem.intent /\ mem'.cycle = mem.cycle
         /\ room' = room => RoomKept
BY DEF binding, Saved, RoomKept, Open

LEMMA CompletedKeeps ==
  ASSUME TypeInv, NEW a, room' = Completed(a)
  PROVE  RoomKept /\ (a = None \/ Open' # a)
<1>1. room' \in [attempt : 0 .. MaxAttempts, open : BOOLEAN]
      /\ room'.attempt = room.attempt /\ room'.open = (room.open /\ room.attempt # a)
  BY CompletedType DEF TypeInv
<1>2. room.attempt \in 0 .. MaxAttempts /\ room.open \in BOOLEAN
  BY DEF TypeInv, RoomTypes
<1> QED BY <1>1, <1>2 DEF RoomKept, Open

LEMMA WriteFrame ==
  ASSUME TypeInv, NEW m \in Binding, NEW o, Persist(m, o), room' = room
  PROVE  /\ mem'.owner = m.owner /\ Saved /\ RoomKept
         /\ mem'.intent = m.intent /\ mem'.cycle = m.cycle
BY PersistTypes DEF TypeInv, Saved, RoomKept, Open

LEMMA BeginsEffect ==
  ASSUME TypeInv, NEW g \in Runs, SendBegins(g) \/ SendResumes(g) PROVE Effect(g)
<1> DEFINE s == send[g].source
<1>1. Works(g) /\ s \in Sources /\ send[g] \in Gen
  BY BeginsStep, ResumesStep DEF Works, TypeInv, SendTypes
<1>2. UNCHANGED <<binding, torn, left, room, held>>
  BY DEF SendBegins, SendResumes, others, history
<1>3. /\ mem'.owner = mem.owner /\ Saved /\ torn' = torn /\ left' = left /\ RoomKept
      /\ mem'.intent = mem.intent /\ mem'.cycle = mem.cycle
  BY <1>2, SameFrame
<1>4. CASE SendBegins(g)
  <2>1. send'[g] = [send[g] EXCEPT !.at = "state", !.attempt = held[s]]
    BY <1>4 DEF SendBegins, TypeInv, SendTypes
  <2>2. UNCHANGED <<marked, renewal>>
    BY <1>4 DEF SendBegins
  <2>5. /\ send'[g].at = "state" /\ send'[g].attempt = held[s]
        /\ send'[g].answer = send[g].answer
    BY <1>1, <2>1 DEF Gen
  <2>6. \A t \in Sources : Kept(t)
    BY <1>2, <1>3, <2>2 DEF Kept
  <2>3. Frame(g)
    <3>1. AnswerKept(g)
      BY <1>4, <2>5 DEF SendBegins, At, AnswerKept
    <3> QED BY <1>1, <1>3, <2>6, <3>1 DEF Frame, OwnersKept
  <2>4. Begins(g)
    BY <1>1, <1>4, <2>5, <2>6 DEF Begins, SendBegins, At
  <2> QED BY <2>3, <2>4 DEF Effect
<1>5. CASE SendResumes(g)
  <2>1. send'[g] = [send[g] EXCEPT !.at = "receipt", !.attempt = mem.cycle[s], !.again = TRUE]
    BY <1>5 DEF SendResumes, TypeInv, SendTypes
  <2>2. /\ marked' = marked \ {s}
        /\ renewal' = IF s \in marked THEN Stopped(s) ELSE renewal
        /\ send[g].at = "state" /\ mem.intent[s] = "posted"
    BY <1>5 DEF SendResumes, At, HasReceipt
  <2>3. Stopped(s)[s] = NoRenewal /\ \A t \in Sources : t # s => Stopped(s)[t] = renewal[t]
    BY <1>1, StopsTypes DEF TypeInv
  <2>6. /\ send'[g].at = "receipt" /\ send'[g].attempt = mem.cycle[s]
        /\ send'[g].answer = send[g].answer
    BY <1>1, <2>1 DEF Gen
  <2>7. \A t \in Sources : t # s => Kept(t)
    BY <1>1, <1>2, <1>3, <2>2, <2>3 DEF Kept
  <2>4. Frame(g)
    BY <1>1, <1>3, <2>2, <2>6, <2>7 DEF Frame, OwnersKept, AnswerKept
  <2>5. Resumes(g)
    BY <1>1, <1>2, <1>3, <2>2, <2>3, <2>6 DEF Resumes
  <2> QED BY <2>4, <2>5 DEF Effect
<1> QED BY <1>4, <1>5

\* The record of g after a move.
LEMMA MovedRecord ==
  ASSUME TypeInv, NEW g \in Runs, Working(g), NEW at \in SendSteps,
         Moves(g, at) \/ (Claims(g, at) /\ at \in {"first", "second"})
  PROVE  /\ send'[g].at = at /\ send'[g].attempt = send[g].attempt
         /\ AnswerKept(g)
BY MovesTypes DEF TypeInv, Working, AnswerKept

LEMMA ClosesEffect ==
  ASSUME TypeInv, NEW g \in Runs,
         SendSuperseded(g) \/ SendFenced(g) \/ SendPasses(g) \/ SendCompletes(g)
  PROVE  Effect(g)
<1> DEFINE s == send[g].source
           a == send[g].attempt
<1>1. Works(g)
  BY MovingStep, CompletingStep DEF Saves
<1>2. Working(g) /\ s \in Sources
  BY <1>1 DEF Works, TypeInv, SendTypes
<1>3. Moves(g, "ended") /\ UNCHANGED <<binding, torn, left>>
      /\ send[g].at \in {"state", "claim", "pass", "receipt"}
  BY DEF SendSuperseded, SendFenced, SendPasses, SendCompletes, SendAnswered, At, others,
         history
<1>4. /\ send'[g].at = "ended" /\ send'[g].attempt = a
      /\ AnswerKept(g)
  BY <1>2, <1>3, MovedRecord, StepsAreSteps
<1>5. /\ mem'.owner = mem.owner /\ Saved
      /\ mem'.intent = mem.intent /\ mem'.cycle = mem.cycle
      /\ room' = room => RoomKept
  BY <1>3, SameFrame
<1>6. RoomKept
  BY <1>5, CompletedKeeps
  DEF SendSuperseded, SendFenced, SendPasses, SendCompletes, others
<1>7. Stopped(s)[s] = NoRenewal /\ \A t \in Sources : t # s => Stopped(s)[t] = renewal[t]
  BY <1>2, StopsTypes DEF TypeInv
<1>8. \/ Stops(s) /\ marked' = marked
      \/ renewal' = Stopped(s) /\ held' = held /\ marked' = marked \ {s}
      \/ UNCHANGED <<held, marked, renewal>> /\ SendCompletes(g)
  BY DEF SendSuperseded, SendFenced, SendPasses, SendCompletes
<1>9. \A t \in Sources : t # s => Kept(t)
  BY <1>2, <1>5, <1>7, <1>8 DEF Kept, Stops, TypeInv, RenewalTypes
<1>10. Frame(g)
  BY <1>1, <1>3, <1>4, <1>5, <1>6, <1>9 DEF Frame, OwnersKept
<1>11. CASE Stops(s) /\ marked' = marked
  BY <1>2, <1>3, <1>4, <1>5, <1>7, <1>10, <1>11
  DEF Effect, Closes, Stops, TypeInv, RenewalTypes
<1>12. CASE renewal' = Stopped(s) /\ held' = held /\ marked' = marked \ {s}
  BY <1>2, <1>3, <1>4, <1>5, <1>7, <1>10, <1>12 DEF Effect, Closes
<1>13. CASE UNCHANGED <<held, marked, renewal>> /\ SendCompletes(g)
  <2>1. send[g].at = "receipt" /\ room' = Completed(a)
    BY <1>13 DEF SendCompletes, At
  <2>2. Replayed(g)
    BY <1>4, <1>5, <1>13, <2>1, CompletedKeeps DEF Replayed, Kept
  <2> QED BY <1>10, <2>2 DEF Effect
<1> QED BY <1>8, <1>11, <1>12, <1>13

LEMMA GivesBackEffect ==
  ASSUME TypeInv, NEW g \in Runs, NEW o \in Saves, CompletionFails(g, o) \/ ReplayStops(g, o)
  PROVE  Effect(g)
<1> DEFINE s == send[g].source
           given == [mem EXCEPT !.owner = GivenUp(s)]
           lost == With(mem, s, send[g].attempt, "superseded")
<1>1. Works(g)
  BY CompletingStep, RefreshStep
<1>2. Working(g) /\ s \in Sources /\ mem \in Binding
  BY <1>1 DEF Works, TypeInv, SendTypes, BindingTypes
<1>3. /\ Moves(g, "ended") /\ Stops(s) /\ UNCHANGED <<marked, torn, left>>
      /\ send[g].at \in {"receipt", "sent", "first", "second"}
      /\ CompletionFails(g, o) => send[g].at = "receipt"
  BY DEF CompletionFails, ReplayStops, Refreshing, SendAnswered, At, others, history
<1>4. send'[g].at = "ended" /\ send'[g].attempt = send[g].attempt /\ AnswerKept(g)
  BY <1>2, <1>3, MovedRecord, StepsAreSteps
<1>5. /\ renewal'[s] = NoRenewal /\ held'[s] = None
      /\ \A t \in Sources : t # s => held'[t] = held[t] /\ renewal'[t] = renewal[t]
  BY <1>2, <1>3, StopsTypes DEF Stops, TypeInv, RenewalTypes
<1>6. RoomKept
  BY CompletedKeeps DEF CompletionFails, ReplayStops, others, RoomKept, Open
<1>7. /\ given \in Binding /\ given.owner = GivenUp(s)
      /\ given.intent = mem.intent /\ given.cycle = mem.cycle
  <2>1. GivenUp(s) \in [Attempts -> 0 .. N]
    BY <1>2, SmallNumbers DEF GivenUp, Binding
  <2> QED BY <1>2, <2>1 DEF Binding
<1>8. /\ lost \in Binding /\ lost.owner = mem.owner
      /\ lost.intent = mem.intent /\ lost.cycle = mem.cycle
  BY <1>2, WithType
<1>9. \/ UNCHANGED binding \/ Persist(lost, o) \/ Persist(mem, o)
      \/ Persist(given, o) /\ CompletionFails(g, o)
  BY DEF CompletionFails, ReplayStops
<1> HIDE DEF given, lost
<1>10. /\ Saved /\ mem'.intent = mem.intent /\ mem'.cycle = mem.cycle
       /\ mem'.owner = mem.owner \/ (mem'.owner = GivenUp(s) /\ CompletionFails(g, o))
  BY <1>2, <1>7, <1>8, <1>9, PersistTypes, SameFrame DEF TypeInv, Saved
<1>11. \A a \in Attempts : mem.owner[a] # s => GivenUp(s)[a] = mem.owner[a]
  BY DEF GivenUp
<1>12. OwnersKept(g)
  BY <1>3, <1>4, <1>5, <1>10, <1>11 DEF OwnersKept
<1>13. \A t \in Sources : t # s => Kept(t)
  BY <1>3, <1>5, <1>10 DEF Kept
<1>14. Frame(g)
  BY <1>1, <1>3, <1>4, <1>6, <1>10, <1>12, <1>13 DEF Frame
<1>15. Closes(g)
  BY <1>3, <1>4, <1>5, <1>10 DEF Closes
<1> QED BY <1>14, <1>15 DEF Effect

LEMMA AbandonsEffect ==
  ASSUME TypeInv, NEW g \in Runs, SendStale(g) \/ PostRefused(g) PROVE Effect(g)
<1> DEFINE s == send[g].source
<1>1. Works(g)
  BY LeavingStep
<1>2. Working(g) /\ s \in Sources
  BY <1>1 DEF Works, TypeInv, SendTypes
<1>3. /\ Moves(g, "ended") /\ left' = left \cup {s}
      /\ UNCHANGED <<binding, held, marked, renewal, room, torn>>
  BY DEF SendStale, PostRefused, Leaving, leaving
<1>4. send'[g].at = "ended" /\ send'[g].attempt = send[g].attempt /\ AnswerKept(g)
  BY <1>2, <1>3, MovedRecord, StepsAreSteps
<1>5. /\ mem'.owner = mem.owner /\ Saved /\ RoomKept
      /\ mem'.intent = mem.intent /\ mem'.cycle = mem.cycle
  BY <1>3, SameFrame
<1>6. \A t \in Sources : Kept(t)
  BY <1>3, <1>5 DEF Kept
<1> QED BY <1>1, <1>2, <1>3, <1>4, <1>5, <1>6 DEF Effect, Frame, OwnersKept, Abandons

LEMMA PassesEffect ==
  ASSUME TypeInv, NEW g \in Runs,
         \/ Checks(g) \/ SubmitsAlone(g) \/ SendRetries(g) \/ SendFails(g) \/ PassFails(g)
         \/ \E o \in Saves : RefreshLoses(g, o) \/ RefreshDenied(g, o) \/ Refreshes(g, o)
  PROVE  Effect(g)
<1> DEFINE s == send[g].source
           a == send[g].attempt
           lost == With(mem, s, a, "superseded")
           kept == With(mem, s, a, "active")
<1>1. Works(g)
  BY MovingStep, CompletingStep, RefreshStep DEF Saves
<1>2. Working(g) /\ s \in Sources /\ mem \in Binding
  BY <1>1 DEF Works, TypeInv, SendTypes, BindingTypes
<1>3. UNCHANGED <<held, marked, renewal, torn, left>>
  BY DEF Checks, SubmitsAlone, SendRetries, SendFails, PassFails, RefreshLoses, RefreshDenied,
         Refreshes, others, history
<1>4. \E at \in SendSteps :
        /\ Moves(g, at) \/ (Claims(g, at) /\ at \in {"first", "second"})
        /\ \/ at = "failed" /\ Fails(g)
           \/ /\ at \in {"replay", "first", "second", "sent"}
              /\ send[g].at \in {"replay", "first", "second", "sent"} \/ send[g].answer = Waiting
  <2>1. CASE Checks(g) \/ SubmitsAlone(g) \/ SendRetries(g)
    BY <2>1, StepsAreSteps DEF Checks, SubmitsAlone, SendRetries, At
  <2>2. CASE SendFails(g) \/ PassFails(g)
    BY <2>2, StepsAreSteps DEF SendFails, PassFails, At, Fails
  <2>3. CASE \E o \in Saves : RefreshLoses(g, o) \/ RefreshDenied(g, o) \/ Refreshes(g, o)
    BY <2>3, StepsAreSteps
    DEF RefreshLoses, RefreshDenied, Refreshes, Refreshing, SendAnswered, At, Fails
  <2> QED BY <2>1, <2>2, <2>3
<1>5. /\ \/ send'[g].at = "failed" /\ Fails(g)
         \/ /\ send'[g].at \in {"replay", "first", "second", "sent"}
            /\ send[g].at \in {"replay", "first", "second", "sent"} \/ send[g].answer = Waiting
      /\ send'[g].attempt = a
      /\ AnswerKept(g)
  BY <1>2, <1>4, MovedRecord
<1>6. /\ lost \in Binding /\ lost.owner = mem.owner /\ lost.intent = mem.intent
      /\ lost.cycle = mem.cycle
      /\ kept \in Binding /\ kept.owner = mem.owner /\ kept.intent = mem.intent
      /\ kept.cycle = mem.cycle
  BY <1>2, WithType
<1> HIDE DEF lost, kept
<1>7. ASSUME NEW m \in Binding
      PROVE  /\ Quarantined(m, s) \in Binding /\ Quarantined(m, s).owner = m.owner
             /\ Quarantined(m, s).cycle = m.cycle
             /\ Quarantined(m, s).intent = [m.intent EXCEPT ![s] = "quarantined"]
  BY DEF Quarantined, Binding
<1>8. /\ mem'.owner = mem.owner /\ Saved /\ RoomKept /\ mem'.cycle = mem.cycle
      /\ mem'.intent \in {mem.intent, [mem.intent EXCEPT ![s] = "quarantined"]}
  <2>1. CASE UNCHANGED binding /\ room' \in {room, Completed(a)}
    BY <1>3, <2>1, SameFrame, CompletedKeeps
  <2>2. CASE room' = room /\ \E m \in {Quarantined(lost, s), Quarantined(mem, s),
                                       Quarantined(kept, s), kept, lost}, o \in Saves : Persist(m, o)
    <3>1. PICK m \in {Quarantined(lost, s), Quarantined(mem, s), Quarantined(kept, s), kept,
                         lost}, o \in Saves : Persist(m, o)
      BY <2>2
    <3>2. /\ m \in Binding /\ m.owner = mem.owner /\ m.cycle = mem.cycle
          /\ m.intent \in {mem.intent, [mem.intent EXCEPT ![s] = "quarantined"]}
      BY <1>2, <1>6, <1>7
    <3> QED BY <1>3, <2>2, <3>1, <3>2, WriteFrame
  <2>3. CASE \E o \in Saves : RefreshLoses(g, o) \/ RefreshDenied(g, o) \/ Refreshes(g, o)
    <3>1. room' = room
      BY <2>3 DEF RefreshLoses, RefreshDenied, Refreshes, others
    <3> QED BY <2>2, <2>3, <3>1 DEF RefreshLoses, RefreshDenied, Refreshes, Failed, lost, kept
  <2> QED
    BY <2>1, <2>3 DEF Checks, SubmitsAlone, SendRetries, SendFails, PassFails, others
<1>9. \A t \in Sources : t # s => Kept(t)
  BY <1>2, <1>3, <1>8 DEF Kept, Binding
<1>10. Frame(g)
  BY <1>1, <1>3, <1>5, <1>8, <1>9 DEF Frame, OwnersKept
<1>11. Passes(g)
  BY <1>2, <1>3, <1>5, <1>8 DEF Passes, Binding
<1> QED BY <1>10, <1>11 DEF Effect

LEMMA WritesEffect ==
  ASSUME TypeInv, NEW g \in Runs, NEW o \in Saves, Freezes(g, o) \/ SendReceives(g, o)
  PROVE  Effect(g)
<1> DEFINE s == send[g].source
           a == send[g].attempt
           m1 == [mem EXCEPT !.intent[s] = "frozen", !.cycle[s] = a]
           m2 == [mem EXCEPT !.intent[s] = "posted", !.cycle[s] = a]
<1>1. Works(g)
  BY FreezesStep
<1>2. Working(g) /\ s \in Sources /\ mem \in Binding /\ BindingTypes /\ a \in 0 .. MaxAttempts
  BY <1>1 DEF Works, TypeInv, SendTypes, BindingTypes, Gen
<1>3. UNCHANGED <<held, marked, renewal, room, torn, left>>
  BY DEF Freezes, SendReceives, others, history
<1>4. \E at \in {"replay", "receipt", "failed"} : Moves(g, at)
  BY DEF Freezes, SendReceives
<1>5. /\ send'[g].at \in {"replay", "receipt", "failed"} /\ send'[g].attempt = a
      /\ AnswerKept(g)
  BY <1>2, <1>4, MovedRecord, StepsAreSteps
<1>6. /\ m1 \in Binding /\ m1.owner = mem.owner
      /\ m1.intent = [mem.intent EXCEPT ![s] = "frozen"] /\ m1.cycle = [mem.cycle EXCEPT ![s] = a]
      /\ m2 \in Binding /\ m2.owner = mem.owner
      /\ m2.intent = [mem.intent EXCEPT ![s] = "posted"] /\ m2.cycle = [mem.cycle EXCEPT ![s] = a]
  <2>1. /\ m1 \in Binding /\ m1.owner = mem.owner
        /\ m1.intent = [mem.intent EXCEPT ![s] = "frozen"] /\ m1.cycle = [mem.cycle EXCEPT ![s] = a]
    BY <1>2 DEF Binding
  <2>2. /\ m2 \in Binding /\ m2.owner = mem.owner
        /\ m2.intent = [mem.intent EXCEPT ![s] = "posted"] /\ m2.cycle = [mem.cycle EXCEPT ![s] = a]
    BY <1>2 DEF Binding
  <2> QED BY <2>1, <2>2
<1>7. /\ send[g].at \in {"freeze", "alone", "sent"}
      /\ IF send[g].at = "sent" THEN Persist(m2, o) ELSE Persist(m1, o)
      /\ send[g].at # "sent" => Moves(g, "replay") \/ Moves(g, "failed")
  BY DEF Freezes, SendReceives, Frozen, At
<1> HIDE DEF m1, m2
<1>8. /\ mem'.owner = mem.owner /\ Saved /\ RoomKept
      /\ mem'.intent = IF send[g].at = "sent" THEN m2.intent ELSE m1.intent
      /\ mem'.cycle = [mem.cycle EXCEPT ![s] = a]
  BY <1>3, <1>6, <1>7, WriteFrame
<1>9. \A t \in Sources : t # s => Kept(t)
  BY <1>2, <1>3, <1>6, <1>8 DEF Kept, Binding
<1>10. Frame(g)
  BY <1>1, <1>3, <1>5, <1>8, <1>9 DEF Frame, OwnersKept
<1>11. Writes(g)
  <2>1. send'[g].at = "receipt" => send[g].at = "sent"
    BY <1>2, <1>7, MovedRecord, StepsAreSteps
  <2> QED BY <1>2, <1>3, <1>5, <1>6, <1>7, <1>8, <2>1 DEF Writes, Binding
<1> QED BY <1>10, <1>11 DEF Effect

LEMMA AdoptsEffect ==
  ASSUME TypeInv, NEW g \in Runs, SendClaimed(g) PROVE Effect(g)
<1> DEFINE s == send[g].source
           a == send[g].attempt
<1>1. Works(g)
  BY MovingStep
<1>2. Working(g) /\ s \in Sources
  BY <1>1 DEF Works, TypeInv, SendTypes
<1>3. /\ UNCHANGED <<binding, marked, renewal, room, torn, left>> /\ send[g].at = "claim"
      /\ held' = [held EXCEPT ![s] = a] /\ Moves(g, "freeze")
  BY DEF SendClaimed, others, history, SendAnswered, At
<1>4. /\ send'[g].at = "freeze" /\ send'[g].attempt = a
      /\ AnswerKept(g)
  BY <1>2, <1>3, MovedRecord, StepsAreSteps
<1>5. /\ mem'.owner = mem.owner /\ Saved /\ RoomKept
      /\ mem'.intent = mem.intent /\ mem'.cycle = mem.cycle
  BY <1>3, SameFrame
<1>6. \A t \in Sources : t # s => Kept(t)
  BY <1>2, <1>3, <1>5 DEF Kept, TypeInv, RenewalTypes
<1>7. Frame(g)
  BY <1>1, <1>3, <1>4, <1>5, <1>6 DEF Frame, OwnersKept
<1>8. Adopts(g)
  BY <1>2, <1>3, <1>4, <1>5 DEF Adopts, TypeInv, RenewalTypes
<1> QED BY <1>7, <1>8 DEF Effect

LEMMA SelectsEffect ==
  ASSUME TypeInv, NEW g \in Runs, NEW o \in Saves, SelectsPost(g, o) \/ SelectsSkip(g, o)
  PROVE  Effect(g)
<1> DEFINE s == send[g].source
           a == send[g].attempt
           c == Chosen(g)
           m1 == [mem EXCEPT !.intent[s] = "selected", !.cycle[s] = a]
           m2 == [mem EXCEPT !.intent[s] = "skip", !.cycle[s] = a]
<1>1. Works(g)
  BY SelectsPostStep, SelectsSkipStep
<1>2. /\ Working(g) /\ s \in Sources /\ mem \in Binding /\ BindingTypes
      /\ a \in 0 .. MaxAttempts /\ send[g] \in Gen
  BY <1>1 DEF Works, TypeInv, SendTypes, BindingTypes, Gen
<1>3. UNCHANGED <<held, marked, renewal, room, torn, left>> /\ send[g].at = "state" /\ s \notin marked
  BY DEF SelectsPost, SelectsSkip, others, history, At, Unmarked
<1>4. /\ m1 \in Binding /\ m1.owner = mem.owner
      /\ m1.intent = [mem.intent EXCEPT ![s] = "selected"]
      /\ m1.cycle = [mem.cycle EXCEPT ![s] = a]
      /\ m2 \in Binding /\ m2.owner = mem.owner
      /\ m2.intent = [mem.intent EXCEPT ![s] = "skip"] /\ m2.cycle = [mem.cycle EXCEPT ![s] = a]
  <2>1. /\ m1 \in Binding /\ m1.owner = mem.owner
        /\ m1.intent = [mem.intent EXCEPT ![s] = "selected"]
        /\ m1.cycle = [mem.cycle EXCEPT ![s] = a]
    BY <1>2 DEF Binding
  <2>2. /\ m2 \in Binding /\ m2.owner = mem.owner
        /\ m2.intent = [mem.intent EXCEPT ![s] = "skip"] /\ m2.cycle = [mem.cycle EXCEPT ![s] = a]
    BY <1>2 DEF Binding
  <2> QED BY <2>1, <2>2
<1>5. IF mem.intent[s] = "none" THEN Persist(m1, o) \/ Persist(m2, o) ELSE UNCHANGED binding
  BY DEF SelectsPost, SelectsSkip, Selects
<1> HIDE DEF m1, m2
<1>6. /\ mem'.owner = mem.owner /\ Saved /\ RoomKept
      /\ IF mem.intent[s] = "none"
         THEN mem'.intent \in {m1.intent, m2.intent} /\ mem'.cycle = m1.cycle
         ELSE mem'.intent = mem.intent /\ mem'.cycle = mem.cycle
  BY <1>3, <1>4, <1>5, WriteFrame, SameFrame
<1>7. \A t \in Sources : t # s => Kept(t)
  BY <1>2, <1>3, <1>4, <1>6 DEF Kept, Binding
<1>8. /\ mem.intent[s] \in {"none", "skip", "selected", "frozen"}
      /\ IF mem.intent[s] = "none"
         THEN mem'.intent[s] \in {"skip", "selected"} /\ mem'.cycle[s] = a
         ELSE mem'.intent[s] = mem.intent[s] /\ mem'.cycle[s] = mem.cycle[s]
  <2>1. mem.intent[s] \in {"none", "skip", "selected", "frozen"}
    BY DEF SelectsPost, SelectsSkip
  <2> QED BY <1>2, <1>4, <1>6, <2>1 DEF Binding
<1>9. /\ \/ send'[g].at = "failed" /\ send'[g].attempt = a
         \/ send'[g].at = "replay" /\ send'[g].attempt = mem.cycle[s] /\ mem.intent[s] = "frozen"
         \/ send'[g].at \in {"alone", "ended"} /\ c = None /\ send'[g].attempt = a
         \/ send'[g].at \in {"claim", "pass"} /\ c # None /\ send'[g].attempt = c
      /\ AnswerKept(g)
  <2>1. CASE SelectsPost(g, o)
    <3>1. send'[g] =
            IF o # "ok" THEN [send[g] EXCEPT !.at = "failed"]
            ELSE IF mem.intent[s] = "frozen"
            THEN [send[g] EXCEPT !.at = "replay", !.attempt = mem.cycle[s], !.again = TRUE]
            ELSE IF c = None THEN [send[g] EXCEPT !.at = "alone"]
            ELSE [send[g] EXCEPT !.at = "claim", !.attempt = c, !.answer = Waiting]
      BY <2>1 DEF SelectsPost, TypeInv, SendTypes
    <3> HIDE DEF c
    <3> QED BY <1>2, <1>3, <3>1 DEF Gen, AnswerKept
  <2>2. CASE SelectsSkip(g, o)
    <3>1. send'[g] =
            IF o # "ok" THEN [send[g] EXCEPT !.at = "failed"]
            ELSE IF c = None THEN [send[g] EXCEPT !.at = "ended"]
            ELSE [send[g] EXCEPT !.at = "pass", !.attempt = c]
      BY <2>2 DEF SelectsSkip, TypeInv, SendTypes
    <3> HIDE DEF c
    <3> QED BY <1>2, <1>3, <3>1 DEF Gen, AnswerKept
  <2> QED BY <2>1, <2>2
<1> HIDE DEF c
<1>10. Frame(g)
  BY <1>1, <1>3, <1>6, <1>7, <1>9 DEF Frame, OwnersKept
<1>11. SelectsOnce(g)
  BY <1>3, <1>8, <1>9 DEF SelectsOnce, c
<1> QED BY <1>10, <1>11 DEF Effect

LEMMA WorkEffect == ASSUME TypeInv, NEW g \in Runs, WorkNext(g) PROVE Effect(g)
BY BeginsEffect, ClosesEffect, GivesBackEffect, AbandonsEffect, PassesEffect, WritesEffect,
   AdoptsEffect, SelectsEffect DEF WorkNext

-----------------------------------------------------------------------------
(***************************************************************************)
(* What the other steps do to a source                                     *)
(***************************************************************************)
\* Source s has its outcome, its attempt and its intent are given up.
GivesUp(s) ==
  /\ mem'.settled = mem.settled \cup {s} /\ mem'.intent[s] = "none" /\ mem'.cycle[s] = None
  /\ \A a \in Attempts : mem.owner[a] # s => mem'.owner[a] = mem.owner[a]
SameRecords ==
  /\ mem'.settled = mem.settled /\ mem'.owner = mem.owner
  /\ mem'.intent = mem.intent /\ mem'.cycle = mem.cycle

EndEffect(g) ==
  LET s == send[g].source IN
  /\ Finishes(g) /\ UNCHANGED <<late, torn, renewal, marked>> /\ left \subseteq left'
  /\ Saved /\ RoomKept
  /\ \A t \in Sources : t # s => Kept(t)
  /\ \/ /\ GivesUp(s)
        /\ \/ held'[s] = held[s] /\ (send[g].at = "ended" \/ s \in left')
           \/ /\ send[g].at \in {"failed", "running"}
              /\ held[s] # None /\ held'[s] = None /\ Open' # held[s]
     \/ SameRecords /\ held' = held /\ send[g].at \in {"failed", "running"}

LEMMA SettledEffect ==
  ASSUME TypeInv, NEW s \in Sources, NEW o \in Saves, Persist(Settled(s), o)
  PROVE  /\ GivesUp(s) /\ Saved
         /\ \A t \in Sources : t # s => /\ mem'.intent[t] = mem.intent[t]
                                        /\ mem'.cycle[t] = mem.cycle[t]
<1>1. /\ Settled(s) \in Binding
      /\ Settled(s).settled = mem.settled \cup {s}
      /\ Settled(s).owner = GivenUp(s)
      /\ Settled(s).intent = [mem.intent EXCEPT ![s] = "none"]
      /\ Settled(s).cycle = [mem.cycle EXCEPT ![s] = None]
  BY SettledType DEF TypeInv
<1>2. /\ mem'.settled = mem.settled \cup {s} /\ mem'.owner = GivenUp(s)
      /\ mem'.intent = [mem.intent EXCEPT ![s] = "none"]
      /\ mem'.cycle = [mem.cycle EXCEPT ![s] = None]
      /\ Saved
  BY <1>1, PersistTypes DEF TypeInv, Saved
<1>3. mem \in Binding
  BY DEF TypeInv, BindingTypes
<1>4. \A a \in Attempts : mem.owner[a] # s => mem'.owner[a] = mem.owner[a]
  BY <1>2, <1>3 DEF GivenUp
<1> QED BY <1>2, <1>3, <1>4 DEF GivesUp, Binding

LEMMA EndsEffect == ASSUME TypeInv, NEW g \in Runs, EndNext(g) PROVE EndEffect(g)
<1> DEFINE s == send[g].source
<1>1. Finishes(g) /\ UNCHANGED late
  BY EndStep DEF EndNext
<1>2. s \in Sources
  BY <1>1 DEF Finishes, TypeInv, SendTypes
<1>3. UNCHANGED <<torn, renewal, marked>> /\ left \subseteq left'
  BY DEF EndNext, ProcessingEnds, RecoveryFails, DispatchFails, ProcessingSettles,
         ProcessingPasses, DispatchIgnored, Leaving, leaving, history
<1>4. ASSUME NEW o \in Saves, ProcessingSettles(g, o) PROVE EndEffect(g)
  <2>1. Persist(Settled(s), o) /\ held' = held /\ room' = room /\ send[g].at = "ended"
    BY <1>4 DEF ProcessingSettles, At
  <2>2. RoomKept
    BY <2>1 DEF RoomKept, Open
  <2> QED BY <1>1, <1>2, <1>3, <2>1, <2>2, SettledEffect DEF EndEffect, Kept
<1>5. ASSUME NEW o \in Saves, ProcessingPasses(g, o) PROVE EndEffect(g)
  <2>1. /\ Persist(Settled(s), o) /\ held[s] # None /\ send[g].at \in {"failed", "running"}
        /\ held' = [held EXCEPT ![s] = None] /\ room' = Completed(held[s])
    BY <1>5 DEF ProcessingPasses, At
  <2>2. RoomKept /\ Open' # held[s]
    BY <2>1, CompletedKeeps
  <2>3. held'[s] = None /\ \A t \in Sources : t # s => held'[t] = held[t]
    BY <1>2, <2>1 DEF TypeInv, RenewalTypes
  <2> QED BY <1>1, <1>2, <1>3, <2>1, <2>2, <2>3, SettledEffect DEF EndEffect, Kept
<1>6. CASE ProcessingEnds(g) \/ RecoveryFails(g) \/ DispatchFails(g)
  <2>1. /\ UNCHANGED <<file, mem, held>> /\ send[g].at \in {"failed", "running"}
        /\ room' \in {room, Completed(held[s])}
    BY <1>6 DEF ProcessingEnds, RecoveryFails, DispatchFails, At, binding
  <2>2. RoomKept
    BY <2>1, CompletedKeeps DEF RoomKept, Open
  <2> QED
    BY <1>1, <1>2, <1>3, <2>1, <2>2 DEF EndEffect, Kept, Saved, SameRecords
<1>7. ASSUME NEW o \in Saves, DispatchIgnored(g, o) PROVE EndEffect(g)
  <2>1. Persist(Settled(s), o) /\ held' = held /\ room' = room /\ s \in left'
    BY <1>7 DEF DispatchIgnored, Leaving
  <2>2. RoomKept
    BY <2>1 DEF RoomKept, Open
  <2> QED BY <1>1, <1>2, <1>3, <2>1, <2>2, SettledEffect DEF EndEffect, Kept
<1> QED BY <1>4, <1>5, <1>6, <1>7 DEF EndNext

\* The renewal of s asks, keeps its lease, or ends with a marker unless a save raised.
RenewalEffect(s) ==
  /\ UNCHANGED <<dispatch, freed, late, left, room, receive, send>> /\ Saved /\ SameRecords
  /\ \A t \in Sources : t # s => Kept(t)
  /\ torn => torn'
  /\ \/ /\ renewal'[s] # NoRenewal /\ renewal[s] # NoRenewal
        /\ renewal'[s].attempt = renewal[s].attempt
        /\ held'[s] \in {held[s], renewal[s].attempt} /\ (s \in marked' <=> s \in marked)
     \/ renewal'[s] = NoRenewal /\ held'[s] = None /\ (torn' \/ s \in marked')

LEMMA RenewalsEffect ==
  ASSUME TypeInv, NEW s \in Sources, RenewalNext(s) PROVE RenewalEffect(s)
<1> DEFINE a == renewal[s].attempt
           kept == With(mem, s, a, "active")
           lost == With(mem, s, a, "superseded")
<1>1. UNCHANGED <<receive, send, dispatch, watch, room, freed, late, left>>
  BY DEF RenewalNext, RenewalAsks, RenewalDenied, RenewalKeeps, RenewalLoses, history
<1>2. mem \in Binding /\ BindingTypes
  BY DEF TypeInv, BindingTypes
<1>3. SameRecords /\ Saved
  <2>1. /\ kept \in Binding /\ kept.settled = mem.settled /\ kept.owner = mem.owner
        /\ kept.intent = mem.intent /\ kept.cycle = mem.cycle
        /\ lost \in Binding /\ lost.settled = mem.settled /\ lost.owner = mem.owner
        /\ lost.intent = mem.intent /\ lost.cycle = mem.cycle
    BY <1>2, WithType
  <2>2. UNCHANGED binding \/ \E o : Persist(kept, o) \/ Persist(lost, o)
    BY DEF RenewalNext, RenewalAsks, RenewalDenied, RenewalKeeps, RenewalLoses
  <2> HIDE DEF kept, lost
  <2> QED BY <1>2, <2>1, <2>2, PersistTypes DEF binding, SameRecords, Saved
<1>4. torn => torn'
  BY DEF RenewalNext, RenewalAsks, RenewalDenied, RenewalKeeps, RenewalLoses, history
<1>5. ASSUME NEW marks \in BOOLEAN, RenewalEnds(s, marks), torn' \/ marks PROVE RenewalEffect(s)
  <2>1. renewal'[s] = NoRenewal /\ held'[s] = None /\ (marks => s \in marked')
        /\ \A t \in Sources : t # s => /\ renewal'[t] = renewal[t] /\ held'[t] = held[t]
                                       /\ (t \in marked' <=> t \in marked)
    BY <1>5 DEF RenewalEnds, TypeInv, RenewalTypes
  <2> QED BY <1>1, <1>3, <1>4, <1>5, <2>1 DEF RenewalEffect, Kept, SameRecords
<1>6. CASE RenewalAsks(s)
  <2>1. renewal[s] \in Renewing /\ renewal[s] # NoRenewal
    BY <1>6 DEF RenewalAsks, NoRenewal, TypeInv, RenewalTypes
  <2> DEFINE x == [renewal[s] EXCEPT !.at = "claim", !.answer = Waiting]
  <2>2. x \in Renewing /\ x.attempt = a /\ x # NoRenewal
    BY <2>1, SmallNumbers DEF Renewing, NoRenewal
  <2>3. renewal' = [renewal EXCEPT ![s] = x]
    BY <1>6 DEF RenewalAsks, TypeInv, RenewalTypes
  <2> HIDE DEF x
  <2>4. renewal'[s] = x /\ (\A t \in Sources : t # s => renewal'[t] = renewal[t])
        /\ UNCHANGED <<held, marked>>
    BY <1>6, <2>3 DEF RenewalAsks, TypeInv, RenewalTypes
  <2> QED BY <1>1, <1>3, <1>4, <2>1, <2>2, <2>4 DEF RenewalEffect, Kept, SameRecords
<1>7. CASE RenewalDenied(s)
  BY <1>5, <1>7 DEF RenewalDenied
<1>8. ASSUME NEW o \in Saves, RenewalLoses(s, o) PROVE RenewalEffect(s)
  BY <1>5, <1>8 DEF RenewalLoses
<1>9. CASE RenewalKeeps(s)
  <2>1. renewal[s] \in Renewing /\ renewal[s] # NoRenewal
    BY <1>9 DEF RenewalKeeps, Answered, NoRenewal, TypeInv, RenewalTypes
  <2>2. CASE RenewalEnds(s, TRUE)
    BY <1>5, <2>2
  <2>3. CASE /\ renewal' = [renewal EXCEPT ![s] = Asleep(a)]
             /\ held' = [held EXCEPT ![s] = a] /\ marked' = marked
    <3>1. Asleep(a).attempt = a /\ Asleep(a) # NoRenewal
      BY <2>1 DEF Asleep, NoRenewal
    <3>2. renewal'[s] = Asleep(a) /\ held'[s] = a
          /\ \A t \in Sources : t # s => renewal'[t] = renewal[t] /\ held'[t] = held[t]
      BY <2>3 DEF TypeInv, RenewalTypes
    <3> QED BY <1>1, <1>3, <1>4, <2>1, <2>3, <3>1, <3>2 DEF RenewalEffect, Kept, SameRecords
  <2> QED BY <1>9, <2>2, <2>3 DEF RenewalKeeps
<1> QED BY <1>6, <1>7, <1>8, <1>9 DEF RenewalNext

\* The Room opens an attempt, or ends it.
RoomEffect ==
  /\ UNCHANGED <<file, mem, held, marked, renewal, receive, send, dispatch, history>>
  /\ \/ room'.attempt = room.attempt + 1 /\ Open' = room.attempt + 1
     \/ room'.attempt = room.attempt /\ Open' = None

LEMMA RoomsEffect == ASSUME TypeInv, RoomOpens \/ RoomEnds PROVE RoomEffect
<1>1. room \in [attempt : 0 .. MaxAttempts, open : BOOLEAN]
  BY DEF TypeInv, RoomTypes
<1>2. UNCHANGED <<file, mem, held, marked, renewal, receive, send, dispatch, history>>
  BY DEF RoomOpens, RoomEnds, binding, process
<1>3. CASE RoomOpens
  <2>1. room' = [room EXCEPT !.attempt = room.attempt + 1, !.open = TRUE]
    BY <1>3 DEF RoomOpens
  <2>2. room'.attempt = room.attempt + 1 /\ room'.open = TRUE
    BY <1>1, <2>1
  <2> QED BY <1>2, <2>2 DEF RoomEffect, Open
<1>4. CASE RoomEnds
  <2>1. room'.attempt = room.attempt /\ room'.open = FALSE
    BY <1>1, <1>4 DEF RoomEnds
  <2> QED BY <1>2, <2>1 DEF RoomEffect, Open
<1> QED BY <1>3, <1>4

\* A claim is answered with the open attempt.
AnswersEffect ==
  /\ UNCHANGED <<file, mem, held, marked, dispatch, room, history>>
  /\ \A s \in Sources : /\ renewal'[s].attempt = renewal[s].attempt
                        /\ renewal'[s] = NoRenewal <=> renewal[s] = NoRenewal
  /\ \A g \in Runs : /\ send'[g].at = send[g].at /\ send'[g].source = send[g].source
                     /\ send'[g].model = send[g].model /\ send'[g].attempt = send[g].attempt
                     /\ send'[g].answer = send[g].answer \/ send[g].answer = Waiting
  /\ receive'.at = receive.at /\ receive'.source = receive.source
  /\ receive'.answer \in {receive.answer, Open}

LEMMA AnswerEffect == ASSUME TypeInv, ClaimAnswered PROVE AnswersEffect
<1>1. UNCHANGED <<file, mem, held, marked, dispatch, room, history>>
  BY DEF ClaimAnswered, binding
<1>2. /\ \A g \in Runs : /\ send'[g].at = send[g].at /\ send'[g].source = send[g].source
                         /\ send'[g].model = send[g].model
                         /\ send'[g].attempt = send[g].attempt
      /\ receive'.at = receive.at /\ receive'.source = receive.source
  BY AnswerStep
<1>3. \A s \in Sources : /\ renewal'[s].attempt = renewal[s].attempt
                         /\ renewal'[s] = NoRenewal <=> renewal[s] = NoRenewal
  <2>1. CASE renewal' = renewal
    BY <2>1
  <2>2. ASSUME NEW t \in Sources, renewal[t].answer = Waiting,
               renewal' = [renewal EXCEPT ![t].answer = Open], NEW s \in Sources
        PROVE  /\ renewal'[s].attempt = renewal[s].attempt
               /\ renewal'[s] = NoRenewal <=> renewal[s] = NoRenewal
    <3>1. renewal[t] \in Renewing /\ NoRenewal \notin Renewing
      BY <2>2, SmallNumbers, IdleTypes DEF TypeInv, RenewalTypes, NoRenewal
    <3>2. Open \in Answers
      BY OpenIsAnAnswer, SmallNumbers DEF TypeInv
    <3>3. [renewal[t] EXCEPT !.answer = Open] \in Renewing
          /\ [renewal[t] EXCEPT !.answer = Open].attempt = renewal[t].attempt
      BY <3>1, <3>2 DEF Renewing
    <3> QED BY <2>2, <3>1, <3>3 DEF TypeInv, RenewalTypes
  <2> QED BY <2>1, <2>2 DEF ClaimAnswered
<1>4. \A g \in Runs : send'[g].answer = send[g].answer \/ send[g].answer = Waiting
  BY DEF ClaimAnswered, TypeInv, SendTypes, Gen
<1>5. receive'.answer \in {receive.answer, Open}
  <2>1. receive.answer = Waiting => receive \in Receiving
    BY SmallNumbers DEF TypeInv, ReceiveTypes, Idle
  <2> QED BY <2>1 DEF ClaimAnswered, Receiving
<1> QED BY <1>1, <1>2, <1>3, <1>4, <1>5 DEF AnswersEffect

\* The claim of an event begins, for a source without a run and without a selection.
ReceivesEffect(s) ==
  /\ UNCHANGED <<file, mem, held, marked, renewal, send, dispatch, room, history>>
  /\ dispatch.inflight[s] = 0 /\ mem.intent[s] = "none"
  /\ receive'.at = "claim" /\ receive'.source = s /\ receive'.answer = Waiting

LEMMA ReceiveEffect ==
  ASSUME TypeInv, NEW s \in Sources, Receive(s) PROVE ReceivesEffect(s)
BY DEF Receive, Receivable, ReceivesEffect, binding, Idle

\* It ends with the outcome of its source ...
SupersedesEffect(s) ==
  /\ receive.at = "claim" /\ receive.source = s /\ receive'.at # "claim"
  /\ \/ receive.answer = None
     \/ receive.answer \in Attempts /\ mem.owner[receive.answer] \notin {0, s}
     \/ s \in left'
  /\ GivesUp(s) /\ Saved /\ Notes(s)
  /\ \A t \in Sources : t # s => Kept(t)
  /\ left \subseteq left' /\ UNCHANGED <<held, marked, renewal, send, dispatch, room, freed, torn>>

LEMMA SupersedeEffect ==
  ASSUME TypeInv, NEW o \in Saves, ReceiveSupersedes(o) \/ ReceiveIgnores(o)
  PROVE  receive.source \in Sources /\ SupersedesEffect(receive.source)
<1> DEFINE s == receive.source
<1>1. receive.at = "claim" /\ s \in Sources /\ receive.answer \in Answers
  BY DEF ReceiveSupersedes, ReceiveIgnores, Answered, TypeInv, ReceiveTypes, Receiving, Idle
<1>2. \/ receive.answer # Waiting /\ (receive.answer # None => Taken(s, receive.answer))
      \/ s \in left'
  BY DEF ReceiveSupersedes, ReceiveIgnores, Answered
<1>3. \A x \in Answers : x = Waiting \/ x = None \/ x \in Attempts
  BY AuthorityAssumption DEF Answers, Waiting, None, Attempts
<1>4. \/ receive.answer = None
      \/ receive.answer \in Attempts /\ mem.owner[receive.answer] \notin {0, s}
      \/ s \in left'
  BY <1>1, <1>2, <1>3 DEF Taken
<1>5. /\ Persist(Settled(s), o) /\ receive' = Idle /\ Notes(s)
      /\ left \subseteq left'
      /\ UNCHANGED <<held, marked, renewal, send, dispatch, room, freed, torn>>
  BY DEF ReceiveSupersedes, ReceiveIgnores
<1>6. GivesUp(s) /\ Saved
      /\ \A t \in Sources : t # s => /\ mem'.intent[t] = mem.intent[t]
                                     /\ mem'.cycle[t] = mem.cycle[t]
  BY <1>1, <1>5, SettledEffect
<1>7. receive'.at # "claim"
  BY <1>5 DEF Idle
<1> QED BY <1>1, <1>4, <1>5, <1>6, <1>7 DEF SupersedesEffect, Kept

\* ... or with a new attempt for it, and the source is queued; or not, as the save fails.
OwnsEffect(s, a) ==
  /\ receive.at = "claim" /\ receive.source = s /\ receive.answer = a /\ receive'.at # "claim"
  /\ mem.owner[a] \in {0, s} /\ mem'.owner = [mem.owner EXCEPT ![a] = s]
  /\ mem'.settled = mem.settled /\ mem'.intent = mem.intent /\ mem'.cycle = mem.cycle
  /\ Saved /\ Notes(s) /\ UNCHANGED <<marked, room, freed, left, torn>>
  /\ \A t \in Sources : t # s => Kept(t)
  /\ \/ UNCHANGED <<held, renewal, send, dispatch>>
     \/ /\ Queues(s) /\ held'[s] = a /\ renewal'[s] # NoRenewal
        /\ renewal'[s].attempt = IF renewal[s] = NoRenewal THEN a ELSE renewal[s].attempt

LEMMA DispatchEffect ==
  ASSUME TypeInv, NEW o \in Saves, ReceiveDispatches(o)
  PROVE  /\ receive.source \in Sources /\ receive.answer \in Attempts
         /\ OwnsEffect(receive.source, receive.answer)
<1> DEFINE s == receive.source
           a == receive.answer
           m0 == With(mem, s, a, "active")
           m == [m0 EXCEPT !.owner[a] = s]
<1>1. receive.at = "claim" /\ s \in Sources /\ a \in Attempts
  BY DEF ReceiveDispatches, Answered, TypeInv, ReceiveTypes, Receiving, Idle
<1>2. /\ m \in Binding /\ m.owner = [mem.owner EXCEPT ![a] = s]
      /\ m.settled = mem.settled /\ m.intent = mem.intent /\ m.cycle = mem.cycle
  <2>1. BindingTypes /\ mem \in Binding
    BY DEF TypeInv, BindingTypes
  <2>2. /\ m0 \in Binding /\ m0.owner = mem.owner
        /\ m0.settled = mem.settled /\ m0.intent = mem.intent /\ m0.cycle = mem.cycle
    BY <2>1, WithType
  <2> HIDE DEF m0
  <2>3. m \in Binding
    BY <1>1, <2>2, SmallNumbers DEF Binding
  <2>4. /\ m.owner = [m0.owner EXCEPT ![a] = s]
        /\ m.settled = m0.settled /\ m.intent = m0.intent /\ m.cycle = m0.cycle
    BY <2>2 DEF Binding
  <2> QED BY <2>2, <2>3, <2>4
<1>3. ~ Taken(s, a) /\ Persist(m, o) /\ Notes(s) /\ UNCHANGED <<marked, room, freed, left, torn>>
  BY DEF ReceiveDispatches
<1> HIDE DEF m
<1>4. /\ mem'.owner = [mem.owner EXCEPT ![a] = s] /\ Saved
      /\ mem'.settled = mem.settled /\ mem'.intent = mem.intent /\ mem'.cycle = mem.cycle
  BY <1>2, <1>3, PersistTypes DEF TypeInv, Saved
<1>5. mem.owner[a] \in {0, s}
  BY <1>3 DEF Taken
<1>6. CASE o # "ok"
  <2>1. receive' = Idle /\ UNCHANGED <<held, renewal, send, dispatch>>
    BY <1>6 DEF ReceiveDispatches
  <2>2. receive'.at # "claim"
    BY <2>1 DEF Idle
  <2> QED BY <1>1, <1>3, <1>4, <1>5, <2>1, <2>2 DEF OwnsEffect, Kept
<1>7. CASE o = "ok"
  <2>1. /\ held' = [held EXCEPT ![s] = a]
        /\ renewal' = [renewal EXCEPT ![s] = IF @ = NoRenewal THEN Asleep(a) ELSE @]
        /\ DispatchNext([dispatch EXCEPT !.queue = @ \cup {s}], send, TRUE)
    BY <1>7 DEF ReceiveDispatches
  <2>2. Queues(s)
    BY <1>1, <1>3, <1>4, <2>1, QueuesTypes
  <2>3. held'[s] = a /\ \A t \in Sources : t # s => /\ held'[t] = held[t]
                                                    /\ renewal'[t] = renewal[t]
    BY <1>1, <2>1 DEF TypeInv, RenewalTypes
  <2>4. renewal'[s] = IF renewal[s] = NoRenewal THEN Asleep(a) ELSE renewal[s]
    BY <1>1, <2>1 DEF TypeInv, RenewalTypes
  <2>5. Asleep(a).attempt = a /\ Asleep(a) # NoRenewal
    BY DEF Asleep, NoRenewal
  <2>6. receive'.at # "claim"
    BY <2>2 DEF Queues
  <2> QED BY <1>1, <1>3, <1>4, <1>5, <2>2, <2>3, <2>4, <2>5, <2>6 DEF OwnsEffect, Kept
<1> QED BY <1>1, <1>6, <1>7

\* A source with a selection is queued as it is.
RecoversEffect(s) ==
  /\ Queues(s) /\ UNCHANGED <<file, mem, held, marked, renewal, room, history>>
  /\ mem.intent[s] # "none"

LEMMA RecoverEffect ==
  ASSUME TypeInv, NEW s \in Sources, Recovers(s) PROVE RecoversEffect(s)
BY RecoversStep DEF Recovers, RecoversEffect

\* Memory is what the file was, and nothing runs.
CrashEffect ==
  /\ mem' = file /\ dispatch'.queue = {} /\ receive'.at # "claim"
  /\ \A s \in Sources : held'[s] = None /\ renewal'[s] = NoRenewal
  /\ \A g \in Runs : ~ Working(g)'
  /\ UNCHANGED <<file, room, leaving>>

LEMMA CrashesEffect == ASSUME TypeInv, Crash PROVE CrashEffect
BY CrashStep DEF Crash, CrashEffect, NoDispatch, Working, SendSteps, Idle

\* Every step that can be taken without a sweep, by its effect.
Effects ==
  \/ \E g \in Runs : Effect(g) \/ EndEffect(g)
  \/ \E s \in Sources : RenewalEffect(s) \/ ReceivesEffect(s) \/ RecoversEffect(s)
  \/ \E s \in Sources : SupersedesEffect(s) \/ \E a \in Attempts : OwnsEffect(s, a)
  \/ RoomEffect \/ AnswersEffect \/ CrashEffect
  \/ /\ UNCHANGED <<file, mem, held, marked, renewal, send, dispatch, room, history>>
     /\ receive'.at # "claim" \/ receive' = receive

\* What is at work, and what was swept or lost, is never forgotten.
LEMMA NextEffects ==
  ASSUME TypeInv, [Next]_vars, freed' = {}
  PROVE  Effects /\ freed = {}
<1>1. CASE UNCHANGED vars
  BY <1>1 DEF vars, Effects, history
<1>2. ASSUME NEW s \in Sources, Sweep(s) PROVE FALSE
  BY <1>2, SweepStep DEF Sweeps
<1>3. CASE Next
  <2>1. CASE QuietNext
    BY <2>1, RoomsEffect, AnswerEffect, RenewalsEffect
    DEF QuietNext, Effects, RoomEffect, AnswersEffect, RenewalEffect, history
  <2>2. ASSUME NEW g \in Runs, WorkNext(g) PROVE Effects /\ freed = {}
    BY <2>2, WorkEffect DEF Effects, Effect, Frame, Works
  <2>3. ASSUME NEW g \in Runs, EndNext(g) PROVE Effects /\ freed = {}
    BY <2>3, EndsEffect DEF Effects, EndEffect, Finishes
  <2>4. CASE ReceiveLost
    <3>1. Idle.at # "claim"
      BY DEF Idle
    <3> QED BY <2>4, <3>1 DEF ReceiveLost, Effects, binding, history
  <2>5. ASSUME NEW s \in Sources, Receive(s) \/ Recovers(s) PROVE Effects /\ freed = {}
    BY <2>5, ReceiveEffect, RecoverEffect DEF Effects, ReceivesEffect, RecoversEffect, history
  <2>6. ASSUME NEW o \in Saves, ReceiveSupersedes(o) \/ ReceiveIgnores(o) \/ ReceiveDispatches(o)
        PROVE  Effects /\ freed = {}
    BY <2>6, SupersedeEffect, DispatchEffect DEF Effects, SupersedesEffect, OwnsEffect
  <2>7. CASE Crash
    BY <2>7, CrashesEffect DEF Effects, CrashEffect, leaving
  <2> QED BY <1>2, <1>3, <2>1, <2>2, <2>3, <2>4, <2>5, <2>6, <2>7, NextByKind
<1> QED BY <1>1, <1>3

\* Only a claim waits for an answer.
AnswerInv == \A g \in Runs : send[g].answer # None => send[g].at \in {"claim", "first", "second"}

LEMMA InitAnswer == Init => AnswerInv
BY DEF Init, AnswerInv, Idle

\* Every fresh run, and every run that is over, awaits nothing.
LEMMA AnswersOver ==
  ASSUME TypeInv, NEW gs \in [Runs -> Gen], \A h \in Runs : gs[h].answer # None => send[h] = gs[h],
         AnswerInv, NEW d \in Gate,
         StartsNone(d, gs) \/ \E h \in Runs, s \in Sources : Starts(d, gs, h, s)
  PROVE  AnswerInv'
<1>1. CASE StartsNone(d, gs)
  BY <1>1 DEF StartsNone, AnswerInv
<1>2. ASSUME NEW h \in Runs, NEW s \in Sources, Starts(d, gs, h, s) PROVE AnswerInv'
  <2>1. StartedRun(d, gs, h, s)
    BY <1>2, StartsRun
  <2>2. send'[h].answer = None
    BY <2>1, StartedType DEF StartedRun
  <2> QED BY <2>1, <2>2 DEF StartedRun, AnswerInv
<1> QED BY <1>1, <1>2

LEMMA AnswersStep ==
  ASSUME TypeInv, AnswerInv, [Next]_vars PROVE AnswerInv'
<1>1. CASE send' = send
  BY <1>1 DEF AnswerInv
<1>2. ASSUME NEW g \in Runs, WorkNext(g) PROVE AnswerInv'
  BY <1>2, WorkEffect DEF Effect, Frame, Works, AnswerKept, AnswerInv
<1>3. ASSUME NEW g \in Runs, EndNext(g) PROVE AnswerInv'
  <2>1. Finishes(g)
    BY <1>3, EndStep DEF EndNext
  <2>2. Ended(g) \in [Runs -> Gen] /\ Ended(g)[g].answer = None
        /\ \A h \in Runs : h # g => Ended(g)[h] = send[h]
    BY <2>1, EndedType DEF Finishes, TypeInv
  <2> QED BY <2>1, <2>2, AnswersOver DEF Finishes
<1>4. ASSUME NEW s \in Sources, Queues(s) PROVE AnswerInv'
  <2> DEFINE d == [dispatch EXCEPT !.queue = @ \cup {s}]
  <2>1. d \in Gate /\ send \in [Runs -> Gen]
    BY QueuedGate DEF TypeInv, SendTypes
  <2>2. StartsNone(d, send) \/ \E g \in Runs, t \in Sources : Starts(d, send, g, t)
    BY <1>4 DEF Queues
  <2> HIDE DEF d
  <2> QED BY <2>1, <2>2, AnswersOver
<1>5. CASE ClaimAnswered
  BY <1>5, AnswerEffect, SmallNumbers DEF AnswersEffect, AnswerInv
<1>6. CASE Crash
  <2>1. SendTypes' /\ \A g \in Runs : ~ Working(g)'
    BY <1>6, CrashStep, CrashesEffect DEF TypeInv, CrashEffect
  <2> QED BY <2>1 DEF SendTypes, AnswerInv
<1>7. CASE QuietNext
  BY <1>1, <1>5, <1>7, RoomsEffect, RenewalsEffect DEF QuietNext, RoomEffect, RenewalEffect
<1>8. CASE \/ ReceiveLost \/ \E s \in Sources : Receive(s) \/ Recovers(s) \/ Sweep(s)
           \/ \E o \in Saves : ReceiveSupersedes(o) \/ ReceiveIgnores(o) \/ ReceiveDispatches(o)
  BY <1>1, <1>4, <1>8, ReceiveStep, RecoversStep, SweepStep, ReceiveDispatchesStep DEF Sweeps
<1>9. CASE UNCHANGED vars
  BY <1>1, <1>9 DEF vars
<1> QED BY <1>2, <1>3, <1>6, <1>7, <1>8, <1>9, NextByKind

-----------------------------------------------------------------------------
(***************************************************************************)
(* Who submits owns the attempt                                            *)
(***************************************************************************)
RunOf(g, s) == Working(g) /\ send[g].source = s
Has(s) == renewal[s] # NoRenewal
Lease(s) == renewal[s].attempt

LEMMA NothingIsForgotten == ASSUME Effects PROVE late \subseteq late'
BY NotedLate
DEF Effects, Effect, Frame, Works, EndEffect, RenewalEffect, ReceivesEffect, RecoversEffect,
    SupersedesEffect, OwnsEffect, RoomEffect, AnswersEffect, CrashEffect, history,
    leaving

\* No run of a source goes on or starts but the one at work, or a fresh one.
LEMMA RunsKept ==
  ASSUME TypeInv, GateInv, freed = {}, NEW g \in Runs, Working(g)
  PROVE  \A h \in Runs, s \in Sources : RunOf(h, s) => h = g /\ s = send[g].source
BY OnlyRun DEF RunOf

\* A selection that may still be submitted.
Submittable(m, s) == m.intent[s] \in {"skip", "selected", "frozen"} /\ m.cycle[s] # None
\* Attempts a source works under are its own, until it has its receipt.
MemoryOwned(s) ==
  /\ s \notin mem.settled /\ held[s] # None => mem.owner[held[s]] = s
  /\ Submittable(mem, s) => mem.owner[mem.cycle[s]] = s
  /\ s \notin mem.settled /\ Has(s) => mem.owner[Lease(s)] = s
FileOwned(s) == Submittable(file, s) => file.owner[file.cycle[s]] = s
RunOwned(g) ==
  LET s == send[g].source IN
  /\ send[g].at \notin {"receipt", "ended"} /\ send[g].attempt # None =>
       mem.owner[send[g].attempt] = s
  /\ At(g, "receipt") => ~ Submittable(mem, s)
RunsOwned(s) == \A g \in Runs : RunOf(g, s) => RunOwned(g)
OwnerInv ==
  freed = {} => \A s \in Sources \ late : MemoryOwned(s) /\ FileOwned(s) /\ RunsOwned(s)

LEMMA InitOwner == Init => OwnerInv
BY DEF Init, OwnerInv, MemoryOwned, FileOwned, Submittable, RunsOwned, RunOf, Working, Has, Idle,
       SendSteps

LEMMA FileFollows ==
  ASSUME Saved, NEW s, MemoryOwned(s)', FileOwned(s) PROVE FileOwned(s)'
BY DEF Saved, MemoryOwned, FileOwned, Submittable

LEMMA OwnedTypes ==
  ASSUME TypeInv, NEW s \in Sources
  PROVE  /\ held[s] \in 0 .. MaxAttempts /\ mem.cycle[s] \in 0 .. MaxAttempts
         /\ Has(s) => Lease(s) \in Attempts
         /\ \A g \in Runs : send[g].attempt \in 0 .. MaxAttempts
BY DEF TypeInv, RenewalTypes, BindingTypes, Binding, Has, Lease, Renewing, SendTypes, Gen

\* A step that moves no run and takes no attempt from s, nor changes its intent.
LEMMA StaysOwned ==
  ASSUME TypeInv, NEW s \in Sources, RunsOwned(s), send' = send,
         \A a \in Attempts : mem.owner[a] = s => mem'.owner[a] = s,
         Submittable(mem, s)' => Submittable(mem, s)
  PROVE  RunsOwned(s)'
<1> SUFFICES ASSUME NEW h \in Runs, RunOf(h, s)' PROVE RunOwned(h)'
  BY DEF RunsOwned
<1>1. RunOf(h, s) /\ send[h].source = s /\ RunOwned(h) /\ send[h].attempt \in 0 .. MaxAttempts
  BY OwnedTypes DEF RunsOwned, RunOf, Working
<1> QED BY <1>1, SmallNumbers DEF RunOwned, At

LEMMA EffectOwned ==
  ASSUME TypeInv, GateInv, CompletedFirst, AnswerInv, freed = {}, NEW s \in Sources \ late,
         MemoryOwned(s), RunsOwned(s), NEW g \in Runs, Effect(g)
  PROVE  MemoryOwned(s)' /\ RunsOwned(s)'
<1> DEFINE r == send[g].source
<1>1. /\ Frame(g) /\ Works(g) /\ Working(g) /\ OwnersKept(g)
      /\ mem'.settled = mem.settled /\ send'[g].source = r
  BY DEF Effect, Frame, Works
<1>2. /\ \A a \in Attempts : mem.owner[a] # r => mem'.owner[a] = mem.owner[a]
      /\ \/ mem'.owner = mem.owner
         \/ /\ send'[g].at = "ended" /\ held'[r] = None /\ renewal'[r] = NoRenewal
            /\ At(g, "receipt")
  BY <1>1 DEF OwnersKept, At
<1>3. CASE r # s
  <2>1. Kept(s)
    BY <1>1, <1>3 DEF Frame
  <2>2. /\ held[s] \in 0 .. MaxAttempts /\ mem.cycle[s] \in 0 .. MaxAttempts
        /\ Has(s) => Lease(s) \in Attempts
        /\ \A h \in Runs : send[h].attempt \in 0 .. MaxAttempts
    BY OwnedTypes
  <2>3. \A a \in 0 .. MaxAttempts : a # None /\ mem.owner[a] = s => mem'.owner[a] = s
    BY <1>2, <1>3, SmallNumbers
  <2>4. MemoryOwned(s)'
    BY <1>1, <2>1, <2>2, <2>3, SmallNumbers DEF MemoryOwned, Submittable, Kept, Has, Lease
  <2>5. ASSUME NEW h \in Runs, RunOf(h, s)' PROVE RunOwned(h)'
    <3>1. send'[h] = send[h] /\ send[h].source = s /\ RunOwned(h)
      BY <1>1, <1>3, <2>5 DEF RunsOwned, RunOf, Works, Working
    <3> QED BY <2>1, <2>2, <2>3, <3>1 DEF RunOwned, Submittable, Kept, At
  <2> QED BY <2>4, <2>5 DEF RunsOwned
<1>4. CASE r = s
  <2>1. s \notin mem.settled
    BY <1>1, <1>4 DEF CompletedFirst, Working
  <2>2. RunOwned(g)
    BY <1>1, <1>4 DEF RunsOwned, RunOf
  <2>3. \A h \in Runs : RunOf(h, s)' => h = g
    BY <1>1, RunsKept DEF RunOf, Works, Working
  <2>4. CASE mem'.owner = mem.owner
    <3>1. MemoryOwned(s)' /\ RunOwned(g)'
      <4>1. CASE Begins(g)
        BY <1>1, <1>4, <2>1, <2>2, <2>4, <4>1
        DEF Begins, Kept, MemoryOwned, Submittable, RunOwned, At, Has, Lease
      <4>2. CASE Resumes(g)
        BY <1>1, <1>4, <2>1, <2>2, <2>4, <4>2
        DEF Resumes, MemoryOwned, Submittable, RunOwned, At, Has, Lease
      <4>3. CASE Closes(g)
        BY <1>1, <1>4, <2>1, <2>2, <2>4, <4>3
        DEF Closes, MemoryOwned, Submittable, RunOwned, At, Has, Lease
      <4>4. CASE Replayed(g) \/ Abandons(g)
        BY <1>1, <1>4, <2>1, <2>2, <2>4, <4>4
        DEF Replayed, Abandons, Kept, MemoryOwned, Submittable, RunOwned, At, Has, Lease
      <4>5. CASE Adopts(g)
        BY <1>1, <1>4, <2>1, <2>2, <2>4, <4>5
        DEF Adopts, MemoryOwned, Submittable, RunOwned, At, Has, Lease
      <4>6. CASE SelectsOnce(g)
        BY <1>1, <1>4, <2>1, <2>2, <2>4, <4>6
        DEF SelectsOnce, Chosen, MemoryOwned, Submittable, RunOwned, At, Has, Lease
      <4>7. CASE Writes(g)
        BY <1>1, <1>4, <2>1, <2>2, <2>4, <4>7
        DEF Writes, MemoryOwned, Submittable, RunOwned, At, Has, Lease
      <4>8. CASE Passes(g)
        <5>1. send[g].answer = Waiting => ~ At(g, "receipt") /\ ~ At(g, "ended")
          BY SmallNumbers DEF AnswerInv, At
        <5> QED
          BY <1>1, <1>4, <2>1, <2>2, <2>4, <4>8, <5>1
          DEF Passes, Fails, MemoryOwned, Submittable, RunOwned, At, Has, Lease
      <4> QED BY <4>1, <4>2, <4>3, <4>4, <4>5, <4>6, <4>7, <4>8 DEF Effect
    <3> QED BY <2>3, <3>1 DEF RunsOwned
  <2>5. CASE /\ send'[g].at = "ended" /\ held'[s] = None /\ renewal'[s] = NoRenewal
             /\ At(g, "receipt")
    <3>1. mem'.intent[s] = mem.intent[s] /\ mem'.cycle[s] = mem.cycle[s]
      BY <1>1, <1>4, <2>5
      DEF Effect, Begins, Resumes, Closes, Abandons, Replayed, Adopts, SelectsOnce, Writes, Passes,
          Kept, At
    <3>2. MemoryOwned(s)'
      BY <1>4, <2>2, <2>5, <3>1 DEF MemoryOwned, Submittable, RunOwned, At, Has
    <3>3. RunsOwned(s)'
      BY <2>3, <2>5 DEF RunsOwned, RunOwned, At
    <3> QED BY <3>2, <3>3
  <2> QED BY <1>2, <1>4, <2>4, <2>5
<1> QED BY <1>3, <1>4

\* A fresh run works under no attempt yet.
LEMMA FreshRun ==
  ASSUME NEW h \in Runs, Fresh(h) PROVE send'[h].attempt = None /\ send'[h].at = "running"
<1> DEFINE s == send'[h].source
<1>1. s \in Sources /\ send'[h] = Started(s)
  BY DEF Fresh
<1>2. Started(s).attempt = None /\ Started(s).at = "running"
  BY <1>1, StartedType DEF Started
<1> QED BY <1>1, <1>2

LEMMA FreshOwns ==
  ASSUME NEW s \in Sources, \A h \in Runs : RunOf(h, s)' => Fresh(h)
  PROVE  RunsOwned(s)'
BY FreshRun DEF RunsOwned, RunOwned, At

LEMMA OwnerStep ==
  ASSUME TypeInv, GateInv, CompletedFirst, AnswerInv, OwnerInv, [Next]_vars PROVE OwnerInv'
<1> SUFFICES ASSUME freed' = {}, NEW s \in Sources \ late'
             PROVE  MemoryOwned(s)' /\ FileOwned(s)' /\ RunsOwned(s)'
  BY DEF OwnerInv
<1>1. Effects /\ freed = {} /\ s \in Sources \ late
  BY NextEffects, NothingIsForgotten
<1>2. MemoryOwned(s) /\ FileOwned(s) /\ RunsOwned(s)
  BY <1>1 DEF OwnerInv
<1>3. ASSUME NEW g \in Runs, Effect(g)
      PROVE  MemoryOwned(s)' /\ FileOwned(s)' /\ RunsOwned(s)'
  BY <1>1, <1>2, <1>3, EffectOwned, FileFollows DEF Effect, Frame
<1>4. ASSUME NEW g \in Runs, EndEffect(g)
      PROVE  MemoryOwned(s)' /\ FileOwned(s)' /\ RunsOwned(s)'
  <2>1. Working(g) /\ send[g].source \in Sources /\ Finishes(g) /\ UNCHANGED renewal
    BY <1>4 DEF EndEffect, Finishes, TypeInv, SendTypes
  <2>2. RunsOwned(s)'
    BY <1>1, <2>1, AfterFinish, FreshOwns DEF RunOf
  <2>3. MemoryOwned(s)'
    <3>1. CASE SameRecords /\ held' = held
      BY <1>2, <2>1, <3>1 DEF SameRecords, MemoryOwned, Submittable, Has, Lease
    <3>2. CASE GivesUp(send[g].source) /\ send[g].source = s
      BY <2>1, <3>2 DEF GivesUp, MemoryOwned, Submittable
    <3>3. CASE GivesUp(send[g].source) /\ send[g].source # s
      <4>1. Kept(s) /\ mem'.settled = mem.settled \cup {send[g].source}
        BY <1>4, <3>3 DEF EndEffect, GivesUp
      <4>2. \A a \in Attempts : mem.owner[a] = s => mem'.owner[a] = s
        BY <3>3 DEF GivesUp
      <4> QED
        BY <1>2, <2>1, <4>1, <4>2, OwnedTypes, SmallNumbers
        DEF Kept, MemoryOwned, Submittable, Has, Lease
    <3> QED BY <1>4, <3>1, <3>2, <3>3 DEF EndEffect
  <2> QED BY <1>2, <1>4, <2>2, <2>3, FileFollows DEF EndEffect
<1>5. ASSUME NEW t \in Sources, RenewalEffect(t)
      PROVE  MemoryOwned(s)' /\ FileOwned(s)' /\ RunsOwned(s)'
  <2>1. RunsOwned(s)'
    BY <1>2, <1>5, StaysOwned DEF RenewalEffect, SameRecords, Submittable
  <2>2. MemoryOwned(s)'
    BY <1>2, <1>5 DEF RenewalEffect, SameRecords, Kept, MemoryOwned, Submittable, Has, Lease
  <2> QED BY <1>2, <1>5, <2>1, <2>2, FileFollows DEF RenewalEffect
<1>6. ASSUME NEW t \in Sources, SupersedesEffect(t)
      PROVE  MemoryOwned(s)' /\ FileOwned(s)' /\ RunsOwned(s)'
  <2>1. GivesUp(t) /\ Saved /\ Notes(t) /\ UNCHANGED <<held, renewal, send>>
        /\ (t # s => Kept(s))
    BY <1>6 DEF SupersedesEffect
  <2>2. CASE t = s
    <3>1. dispatch.inflight[s] = 0
      BY <2>1, <2>2 DEF Notes
    <3>2. \A g \in Runs : ~ RunOf(g, s)
      BY <1>1, <3>1, OnlyRun, SmallNumbers DEF RunOf
    <3>3. RunsOwned(s)'
      BY <2>1, <3>2 DEF RunsOwned, RunOf, Working
    <3>4. MemoryOwned(s)'
      BY <2>1, <2>2 DEF GivesUp, MemoryOwned, Submittable
    <3> QED BY <1>2, <2>1, <3>3, <3>4, FileFollows
  <2>3. CASE t # s
    <3>1. Kept(s) /\ mem'.settled = mem.settled \cup {t}
      BY <2>1, <2>3 DEF GivesUp
    <3>2. \A a \in Attempts : mem.owner[a] = s => mem'.owner[a] = s
      BY <2>1, <2>3 DEF GivesUp
    <3>3. MemoryOwned(s)'
      BY <1>2, <2>3, <3>1, <3>2, OwnedTypes, SmallNumbers
      DEF Kept, MemoryOwned, Submittable, Has, Lease
    <3>4. RunsOwned(s)'
      BY <1>2, <2>1, <3>1, <3>2, StaysOwned DEF Kept, Submittable
    <3> QED BY <1>2, <2>1, <3>3, <3>4, FileFollows
  <2> QED BY <2>2, <2>3
<1>7. ASSUME NEW t \in Sources, NEW a \in Attempts, OwnsEffect(t, a)
      PROVE  MemoryOwned(s)' /\ FileOwned(s)' /\ RunsOwned(s)'
  <2>1. /\ \A x \in Attempts : mem.owner[x] = s => mem'.owner[x] = s
        /\ mem'.owner[a] = t
    <3>1. mem.owner \in [Attempts -> 0 .. N] /\ 0 \notin Sources
      BY DEF TypeInv, BindingTypes, Binding, Sources
    <3> QED BY <1>7, <3>1 DEF OwnsEffect
  <2>3. MemoryOwned(s)'
    BY <1>2, <1>7, <2>1, OwnedTypes, SmallNumbers
    DEF OwnsEffect, Kept, MemoryOwned, Submittable, Has, Lease
  <2>4. RunsOwned(s)'
    <3>1. CASE send' = send
      BY <1>2, <1>7, <2>1, <3>1, StaysOwned DEF OwnsEffect, Submittable
    <3>2. CASE Queues(t) /\ send' # send
      BY <1>1, <3>2, AfterQueue, FreshOwns DEF RunOf
    <3> QED BY <1>7, <3>1, <3>2 DEF OwnsEffect
  <2> QED BY <1>2, <1>7, <2>3, <2>4, FileFollows DEF OwnsEffect
<1>8. ASSUME NEW t \in Sources, RecoversEffect(t)
      PROVE  MemoryOwned(s)' /\ FileOwned(s)' /\ RunsOwned(s)'
  <2>1. RunsOwned(s)'
    <3>1. CASE send' = send
      BY <1>2, <1>8, <3>1, StaysOwned DEF RecoversEffect, Submittable
    <3>2. CASE send' # send
      BY <1>1, <1>8, <3>2, AfterQueue, FreshOwns DEF RecoversEffect, RunOf
    <3> QED BY <3>1, <3>2
  <2> QED
    BY <1>2, <1>8, <2>1 DEF RecoversEffect, MemoryOwned, FileOwned, Submittable, Has, Lease
<1>9. CASE AnswersEffect
  <2>1. RunsOwned(s)'
    BY <1>2, <1>9 DEF AnswersEffect, RunsOwned, RunOf, Working, RunOwned, Submittable, At
  <2> QED
    BY <1>2, <1>9, <2>1 DEF AnswersEffect, MemoryOwned, FileOwned, Submittable, Has, Lease
<1>10. CASE UNCHANGED <<file, mem, held, renewal, send>>
  <2>1. RunsOwned(s)'
    BY <1>2, <1>10, StaysOwned DEF Submittable
  <2> QED BY <1>2, <1>10, <2>1 DEF MemoryOwned, FileOwned, Submittable, Has, Lease
<1>11. CASE CrashEffect
  BY <1>2, <1>11
  DEF CrashEffect, MemoryOwned, FileOwned, Submittable, RunsOwned, RunOf, Has, leaving
<1> QED
  BY <1>1, <1>3, <1>4, <1>5, <1>6, <1>7, <1>8, <1>9, <1>10, <1>11
  DEF Effects, ReceivesEffect, RoomEffect

\* Who submits owns the attempt.
THEOREM SubmitsOwn == Spec => OwnerSubmits
<1> DEFINE Inv == TypeInv /\ GateInv /\ CompletedFirst /\ AnswerInv /\ OwnerInv
<1>1. Init => Inv
  BY InitTypes, InitGate, InitCompleted, InitAnswer, InitOwner
<1>2. Inv /\ [Next]_vars => Inv'
  BY TypesStep, GateStep, CompletedStep, AnswersStep, OwnerStep
<1>3. Inv /\ Next =>
        \A s \in Sources \ late, a \in Attempts :
          freed = {} /\ Submits(s, a) => mem.owner[a] = s
  <2> SUFFICES ASSUME Inv, Next, NEW s \in Sources \ late, NEW a \in Attempts, freed = {},
                      NEW g \in Runs, Sends(g), send'[g].source = s, send'[g].attempt = a
               PROVE  mem.owner[a] = s
    BY DEF Submits, Sends
  <2>1. Works(g) /\ send'[g].attempt = send[g].attempt /\ (At(g, "replay") \/ At(g, "second"))
    BY SendsCases DEF SubmitsAlone
  <2>2. RunOf(g, s) /\ send[g].attempt = a /\ a # None
    BY <2>1, SmallNumbers DEF Works, RunOf
  <2> QED BY <2>1, <2>2 DEF OwnerInv, RunsOwned, RunOwned, RunOf, At
<1>4. Inv /\ UNCHANGED vars =>
        \A s \in Sources \ late, a \in Attempts : ~ Submits(s, a)
  BY DEF vars, Submits
<1> QED BY <1>1, <1>2, <1>3, <1>4, PTL DEF Spec, OwnerSubmits

-----------------------------------------------------------------------------
(***************************************************************************)
(* Nothing goes out without an attempt                                     *)
(***************************************************************************)
\* No sweep has freed a run, and no save of a renewal raised.
Orderly == freed = {} /\ ~ torn

\* A selection names an attempt, in memory and in the file.
Named(m, s) ==
  /\ m.intent[s] = "none" => m.cycle[s] = None
  /\ m.intent[s] \notin {"none", "quarantined"} => m.cycle[s] # None
\* Source s is under an attempt, or marked as one that lost it, or selected before.
Carried(s) == held[s] # None \/ s \in marked
RunCarries(g) ==
  LET s == send[g].source
      recovery == ~ send[g].model /\ mem.intent[s] # "none"
  IN /\ At(g, "running") => Carried(s) \/ recovery
     /\ At(g, "state") => send[g].attempt # None \/ s \in marked \/ recovery
     /\ send[g].at \notin {"running", "state", "ended", "failed"} =>
          send[g].attempt # None /\ ~ At(g, "alone")
EndsFor(s) == \E g \in Runs : RunOf(g, s) /\ At(g, "ended")
QueueCarries(s) ==
  s \in dispatch.queue \ mem.settled =>
    Carried(s) \/ mem.intent[s] # "none" \/ EndsFor(s)
\* While the receive boundary awaits its claim for s, a run of s is one of the model
\* that has not selected yet, or has left the queue.
ClaimMeets(s) ==
  receive.at = "claim" /\ receive.source = s =>
    /\ \A g \in Runs : RunOf(g, s) =>
         /\ send[g].model /\ s \notin dispatch.queue
         /\ send[g].at \in {"running", "state"} => mem.intent[s] = "none"
    /\ s \in dispatch.queue => mem.intent[s] = "none"
SourceCarries(s) ==
  /\ Named(mem, s) /\ Named(file, s) /\ QueueCarries(s) /\ ClaimMeets(s)
  /\ \A g \in Runs : RunOf(g, s) => RunCarries(g)
EscapeInv == Orderly => \A s \in Sources : SourceCarries(s)

LEMMA InitEscape == Init => EscapeInv
<1> SUFFICES ASSUME Init PROVE EscapeInv
  OBVIOUS
<1>1. ASSUME NEW s \in Sources PROVE SourceCarries(s)
  BY DEF Init, SourceCarries, Named, QueueCarries, ClaimMeets, RunOf, Working, Idle, SendSteps,
         NoDispatch
<1> QED BY <1>1 DEF EscapeInv

LEMMA NamedFollows ==
  ASSUME Saved, NEW s, Named(mem, s)', Named(file, s) PROVE Named(file, s)'
BY DEF Saved, Named

\* A step of the run of s itself.
LEMMA OwnRunCarries ==
  ASSUME TypeInv, GateInv, AnswerInv, freed = {}, NEW g \in Runs, Effect(g),
         NEW s \in Sources, send[g].source = s, SourceCarries(s)
  PROVE  Named(mem, s)' /\ QueueCarries(s)' /\ ClaimMeets(s)' /\ RunCarries(g)'
<1>1. /\ Working(g) /\ Working(g)' /\ mem'.settled = mem.settled /\ send'[g].source = s
      /\ send'[g].model = send[g].model /\ UNCHANGED <<dispatch, receive>>
  BY DEF Effect, Frame, Works
<1>2. RunOf(g, s) /\ RunOf(g, s)' /\ \A h \in Runs : RunOf(h, s) \/ RunOf(h, s)' => h = g
  BY <1>1, RunsKept DEF RunOf, Effect, Frame, Works, Working
<1>3. Named(mem, s) /\ RunCarries(g) /\ QueueCarries(s) /\ ClaimMeets(s)
  BY <1>2 DEF SourceCarries
<1>4. EndsFor(s) <=> send[g].at = "ended"
  BY <1>2 DEF EndsFor, At
<1>5. EndsFor(s)' <=> send'[g].at = "ended"
  BY <1>2 DEF EndsFor, At
<1>6. receive.at = "claim" /\ receive.source = s =>
        /\ send[g].model /\ s \notin dispatch.queue
        /\ send[g].at \in {"running", "state"} => mem.intent[s] = "none"
  BY <1>2, <1>3 DEF ClaimMeets
<1>7. /\ (s \in dispatch.queue \ mem.settled /\ send[g].at # "ended" =>
            Carried(s) \/ mem.intent[s] # "none")
  BY <1>3, <1>4 DEF QueueCarries
\* It is enough to look at the run.
<1>8. ASSUME send'[g].at \in {"running", "state"} =>
               send[g].at \in {"running", "state"} /\ mem'.intent[s] = mem.intent[s],
             s \in dispatch.queue \ mem.settled =>
               Carried(s)' \/ mem'.intent[s] # "none" \/ send'[g].at = "ended"
      PROVE  QueueCarries(s)' /\ ClaimMeets(s)'
  <2>1. QueueCarries(s)'
    BY <1>1, <1>5, <1>8 DEF QueueCarries
  <2>2. ClaimMeets(s)'
    BY <1>1, <1>2, <1>6, <1>8 DEF ClaimMeets
  <2> QED BY <2>1, <2>2
<1>9. CASE Begins(g)
  <2>1. Named(mem, s)' /\ (Carried(s)' <=> Carried(s)) /\ mem'.intent[s] = mem.intent[s]
    BY <1>1, <1>3, <1>9 DEF Begins, Kept, Named, Carried
  <2>2. RunCarries(g)'
    BY <1>1, <1>3, <1>9 DEF Begins, Kept, RunCarries, At, Carried
  <2> QED BY <1>7, <1>8, <1>9, <2>1, <2>2 DEF Begins
<1>10. CASE Resumes(g)
  <2>1. Named(mem, s)' /\ mem'.intent[s] # "none" /\ mem.cycle[s] # None
    BY <1>1, <1>3, <1>10 DEF Resumes, Named
  <2>2. RunCarries(g)'
    BY <1>1, <1>10, <2>1 DEF Resumes, RunCarries, At
  <2> QED BY <1>8, <1>10, <2>1, <2>2 DEF Resumes
<1>11. CASE Closes(g) \/ Abandons(g) \/ Replayed(g)
  <2>1. Named(mem, s)' /\ send'[g].at = "ended"
    BY <1>1, <1>3, <1>11 DEF Closes, Abandons, Replayed, Kept, Named
  <2>2. RunCarries(g)'
    BY <2>1 DEF RunCarries, At
  <2> QED BY <1>8, <2>1, <2>2
<1>12. CASE Adopts(g)
  <2>1. send[g].attempt # None /\ send'[g].at = "freeze"
    BY <1>3, <1>12 DEF Adopts, RunCarries
  <2>2. Named(mem, s)' /\ Carried(s)'
    BY <1>1, <1>3, <1>12, <2>1 DEF Adopts, Named, Carried
  <2>3. RunCarries(g)'
    BY <1>12, <2>1 DEF Adopts, RunCarries, At
  <2> QED BY <1>8, <2>1, <2>2, <2>3
<1>13. CASE SelectsOnce(g)
  <2>1. send[g].at = "state" /\ s \notin marked
    BY <1>1, <1>13 DEF SelectsOnce
  <2>2. send[g].attempt # None \/ mem.intent[s] # "none"
    BY <1>1, <1>3, <2>1 DEF RunCarries, At
  <2>3. mem.intent[s] # "none" => mem.cycle[s] # None
    BY <1>1, <1>3, <1>13 DEF SelectsOnce, Named
  <2>4. Named(mem, s)' /\ mem'.intent[s] # "none"
    BY <1>1, <1>3, <1>13, <2>2 DEF SelectsOnce, Named
  <2>5. Chosen(g) # None
    BY <1>1, <2>2, <2>3 DEF Chosen
  <2>6. /\ send'[g].at \in {"failed", "replay", "claim", "pass"}
        /\ send'[g].at # "failed" => send'[g].attempt # None
    BY <1>1, <1>13, <2>3, <2>5 DEF SelectsOnce
  <2>7. RunCarries(g)'
    BY <2>6 DEF RunCarries, At
  <2> QED BY <1>8, <2>4, <2>6, <2>7
<1>14. CASE Writes(g)
  <2>1. send[g].attempt # None
    BY <1>3, <1>14 DEF Writes, RunCarries
  <2>2. Named(mem, s)' /\ mem'.intent[s] # "none"
    BY <1>1, <1>14, <2>1 DEF Writes, Named
  <2>3. RunCarries(g)'
    BY <1>14, <2>1 DEF Writes, RunCarries, At
  <2>4. send'[g].at \notin {"running", "state"}
    BY <1>14 DEF Writes
  <2> QED BY <1>8, <2>2, <2>3, <2>4
<1>15. CASE Passes(g)
  <2>1. send[g].answer = Waiting => send[g].at \in {"claim", "first", "second"}
    BY SmallNumbers DEF AnswerInv
  <2>2. /\ send[g].at # "ended"
        /\ \/ send'[g].at = "failed"
           \/ send'[g].at \in {"replay", "first", "second", "sent"} /\ send[g].attempt # None
    BY <1>3, <1>15, <2>1 DEF Passes, Fails, RunCarries
  <2>3. Named(mem, s)' /\ (Carried(s)' <=> Carried(s))
        /\ (mem.intent[s] # "none" => mem'.intent[s] # "none")
    BY <1>1, <1>3, <1>15 DEF Passes, Named, Carried
  <2>4. RunCarries(g)'
    BY <1>15, <2>2 DEF Passes, RunCarries, At
  <2>5. send'[g].at \notin {"running", "state"}
    BY <2>2
  <2> QED BY <1>7, <1>8, <2>2, <2>3, <2>4, <2>5
<1> QED BY <1>9, <1>10, <1>11, <1>12, <1>13, <1>14, <1>15 DEF Effect

LEMMA EffectCarries ==
  ASSUME TypeInv, GateInv, AnswerInv, freed = {}, NEW g \in Runs, Effect(g),
         NEW s \in Sources, SourceCarries(s)
  PROVE  SourceCarries(s)'
<1>1. /\ Frame(g) /\ Saved /\ Works(g) /\ Working(g) /\ mem'.settled = mem.settled
      /\ send'[g].source = send[g].source
      /\ \A h \in Runs : h # g => send'[h] = send[h]
      /\ UNCHANGED <<dispatch, receive>>
  BY DEF Effect, Frame, Works
<1>2. CASE send[g].source # s
  <2>1. Kept(s)
    BY <1>1, <1>2 DEF Frame
  <2>2. \A h \in Runs : ~ RunOf(h, s) /\ ~ RunOf(h, s)'
    BY <1>1, <1>2, RunsKept DEF RunOf, Works, Working
  <2>3. Named(mem, s)' /\ QueueCarries(s)' /\ ClaimMeets(s)'
    BY <1>1, <2>1, <2>2
    DEF SourceCarries, Kept, Named, QueueCarries, ClaimMeets, Carried, EndsFor
  <2> QED BY <1>1, <2>2, <2>3, NamedFollows DEF SourceCarries
<1>3. CASE send[g].source = s
  <2>1. Named(mem, s)' /\ QueueCarries(s)' /\ ClaimMeets(s)' /\ RunCarries(g)'
    BY <1>3, OwnRunCarries
  <2>2. \A h \in Runs : RunOf(h, s)' => h = g
    BY <1>1, RunsKept DEF RunOf, Works, Working
  <2> QED BY <1>1, <2>1, <2>2, NamedFollows DEF SourceCarries
<1> QED BY <1>2, <1>3

\* A run that starts from a queue of carried sources.
LEMMA StartsCarry ==
  ASSUME NEW s \in Sources, NEW Q, dispatch'.queue \subseteq Q,
         \A h \in Runs : RunOf(h, s)' => Fresh(h) /\ s \in Q,
         s \in Q \ mem'.settled => Carried(s)' \/ mem'.intent[s] # "none",
         receive'.at = "claim" /\ receive'.source = s /\ s \in Q => mem'.intent[s] = "none"
  PROVE  /\ QueueCarries(s)' /\ ClaimMeets(s)'
         /\ \A h \in Runs : RunOf(h, s)' => RunCarries(h)'
<1>1. ASSUME NEW h \in Runs, RunOf(h, s)'
      PROVE  /\ send'[h].at = "running" /\ send'[h].source = s /\ s \in Q \ mem'.settled
             /\ send'[h].model <=> mem'.intent[s] = "none"
             /\ send'[h].model => s \notin dispatch'.queue
  <2>1. Fresh(h) /\ s \in Q /\ send'[h].source = s
    BY <1>1 DEF RunOf
  <2>2. send'[h] = Started(s) /\ send'[h].at = "running" /\ s \notin mem'.settled
        /\ (send'[h].model => s \notin dispatch'.queue)
    BY <2>1 DEF Fresh
  <2>3. Started(s).model = (mem'.intent[s] = "none")
    BY StartedType
  <2> QED BY <2>1, <2>2, <2>3
<1>2. QueueCarries(s)'
  BY DEF QueueCarries
<1>3. ClaimMeets(s)'
  BY <1>1 DEF ClaimMeets
<1>4. \A h \in Runs : RunOf(h, s)' => RunCarries(h)'
  BY <1>1 DEF RunCarries, At
<1> QED BY <1>2, <1>3, <1>4

LEMMA EndCarries ==
  ASSUME TypeInv, GateInv, freed = {}, NEW g \in Runs, EndEffect(g),
         NEW s \in Sources, SourceCarries(s)
  PROVE  SourceCarries(s)'
<1> DEFINE Q == dispatch.queue \cup Requeued(g)
<1>1. Working(g) /\ Finishes(g) /\ Saved /\ UNCHANGED marked
  BY DEF EndEffect, Finishes
<1>2. /\ ClaimsNot(FALSE) /\ dispatch'.queue \subseteq Q
      /\ \A h \in Runs : RunOf(h, s)' => Fresh(h) /\ s \in Q
  BY <1>1, AfterFinish DEF RunOf
<1>3. Named(mem, s) /\ Named(file, s) /\ QueueCarries(s) /\ ClaimMeets(s)
      /\ \A h \in Runs : RunOf(h, s) => RunCarries(h)
  BY DEF SourceCarries
<1>4. \A h \in Runs : RunOf(h, s) => h = g /\ send[g].source = s
  BY <1>1, RunsKept DEF RunOf
<1>5. /\ Named(mem, s)'
      /\ s \in Q \ mem'.settled => Carried(s)' \/ mem'.intent[s] # "none"
      /\ receive.at = "claim" /\ receive.source = s /\ s \in Q => mem'.intent[s] = "none"
  <2>1. CASE send[g].source # s
    <3>1. Kept(s) /\ (s \in mem.settled => s \in mem'.settled)
      BY <2>1 DEF EndEffect, GivesUp, SameRecords
    <3>2. ~ EndsFor(s) /\ (s \in Q => s \in dispatch.queue)
      BY <1>4, <2>1 DEF EndsFor, Requeued
    <3> QED
      BY <1>3, <3>1, <3>2 DEF Kept, Named, QueueCarries, ClaimMeets, Carried
  <2>2. CASE send[g].source = s /\ GivesUp(s)
    BY <2>2 DEF GivesUp, Named
  <2>3. CASE send[g].source = s /\ ~ GivesUp(s)
    <3>1. SameRecords /\ held' = held /\ send[g].at \in {"failed", "running"}
      BY <2>3 DEF EndEffect
    <3>2. RunOf(g, s) /\ ~ EndsFor(s)
      BY <1>1, <1>4, <2>3, <3>1 DEF RunOf, EndsFor, At
    <3>3. Carried(s)' <=> Carried(s)
      BY <1>1, <3>1 DEF Carried
    <3>4. s \in Q => s \in dispatch.queue \/ send[g].at = "running"
      BY DEF Requeued, At
    <3>5. s \in Q \ mem.settled => Carried(s) \/ mem.intent[s] # "none"
      BY <1>3, <2>3, <3>2, <3>4 DEF QueueCarries, RunCarries, At
    <3>6. receive.at = "claim" /\ receive.source = s /\ s \in Q => mem.intent[s] = "none"
      BY <1>3, <3>2, <3>4 DEF ClaimMeets
    <3> QED BY <1>3, <3>1, <3>3, <3>5, <3>6 DEF SameRecords, Named
  <2> QED BY <2>1, <2>2, <2>3
<1>6. receive'.at = "claim" => receive' = receive
  BY <1>2 DEF ClaimsNot
<1> HIDE DEF Q
<1>7. /\ QueueCarries(s)' /\ ClaimMeets(s)'
      /\ \A h \in Runs : RunOf(h, s)' => RunCarries(h)'
  BY <1>2, <1>5, <1>6, StartsCarry
<1> QED BY <1>1, <1>3, <1>5, <1>7, NamedFollows DEF SourceCarries

\* Source t is queued, under an attempt or with a selection.
LEMMA QueuesCarry ==
  ASSUME TypeInv, GateInv, freed = {}, NEW t \in Sources, Queues(t),
         mem'.intent = mem.intent, Carried(t)' \/ mem.intent[t] # "none",
         NEW s \in Sources, SourceCarries(s), Carried(s) => Carried(s)',
         s \in marked => s \in marked'
  PROVE  /\ QueueCarries(s)' /\ ClaimMeets(s)'
         /\ \A h \in Runs : RunOf(h, s)' => RunCarries(h)'
<1> DEFINE Q == dispatch.queue \cup {t}
<1>1. mem'.settled = mem.settled /\ receive'.at # "claim"
  BY DEF Queues
<1>2. /\ dispatch'.queue \subseteq Q
      /\ \/ send' = send
         \/ /\ \A h \in Runs : ~ Working(h)
            /\ \A h \in Runs : Working(h)' => Fresh(h) /\ send'[h].source \in Q
  BY AfterQueue
<1>3. QueueCarries(s) /\ \A h \in Runs : RunOf(h, s) => RunCarries(h)
  BY DEF SourceCarries
<1>4. CASE send' = send
  <2>1. QueueCarries(s)'
    BY <1>1, <1>2, <1>3, <1>4 DEF QueueCarries, EndsFor, RunOf, Working, At
  <2>2. ClaimMeets(s)'
    BY <1>1 DEF ClaimMeets
  <2>3. \A h \in Runs : RunOf(h, s)' => RunCarries(h)'
    <3> SUFFICES ASSUME NEW h \in Runs, RunOf(h, s)' PROVE RunCarries(h)'
      OBVIOUS
    <3>1. RunOf(h, s) /\ RunCarries(h) /\ send[h].source = s
      BY <1>3, <1>4 DEF RunOf, Working
    <3> QED BY <1>4, <3>1 DEF RunCarries, At
  <2> QED BY <2>1, <2>2, <2>3
<1>5. CASE /\ \A h \in Runs : ~ Working(h)
           /\ \A h \in Runs : Working(h)' => Fresh(h) /\ send'[h].source \in Q
  <2>1. ~ EndsFor(s)
    BY <1>5 DEF EndsFor, RunOf
  <2>2. s \in Q \ mem'.settled => Carried(s)' \/ mem'.intent[s] # "none"
    BY <1>1, <1>3, <2>1 DEF QueueCarries
  <2>3. \A h \in Runs : RunOf(h, s)' => Fresh(h) /\ s \in Q
    BY <1>5 DEF RunOf
  <2> HIDE DEF Q
  <2> QED BY <1>1, <1>2, <2>2, <2>3, StartsCarry
<1> QED BY <1>2, <1>4, <1>5

LEMMA EscapeStep ==
  ASSUME TypeInv, GateInv, AnswerInv, EscapeInv, [Next]_vars PROVE EscapeInv'
<1> SUFFICES ASSUME freed' = {}, ~ torn', NEW s \in Sources PROVE SourceCarries(s)'
  BY DEF EscapeInv, Orderly
<1>1. Effects /\ freed = {}
  BY NextEffects
<1>2. ~ torn
  BY <1>1
  DEF Effects, Effect, Frame, EndEffect, RenewalEffect, ReceivesEffect, RecoversEffect,
      SupersedesEffect, OwnsEffect, RoomEffect, AnswersEffect, CrashEffect, history,
      leaving
<1>3. SourceCarries(s)
  BY <1>1, <1>2 DEF EscapeInv, Orderly
<1>4. ASSUME NEW g \in Runs, Effect(g) \/ EndEffect(g) PROVE SourceCarries(s)'
  BY <1>1, <1>3, <1>4, EffectCarries, EndCarries
<1>5. ASSUME NEW t \in Sources, RenewalEffect(t) PROVE SourceCarries(s)'
  <2>1. /\ UNCHANGED <<dispatch, receive, send>> /\ Saved
        /\ mem'.settled = mem.settled /\ mem'.intent = mem.intent /\ mem'.cycle = mem.cycle
    BY <1>5 DEF RenewalEffect, SameRecords
  <2>2. (Carried(s) => Carried(s)') /\ (s \in marked => s \in marked')
    <3>1. CASE t # s
      BY <1>5, <3>1 DEF RenewalEffect, Kept, Carried
    <3>2. CASE t = s
      <4>1. renewal[s] # NoRenewal => renewal[s].attempt # None
        BY SmallNumbers DEF TypeInv, RenewalTypes, Renewing
      <4> QED BY <1>2, <1>5, <3>2, <4>1 DEF RenewalEffect, Carried
    <3> QED BY <3>1, <3>2
  <2>3. Named(mem, s)' /\ QueueCarries(s)' /\ ClaimMeets(s)'
    BY <1>3, <2>1, <2>2
    DEF SourceCarries, Named, QueueCarries, ClaimMeets, EndsFor, RunOf, Working, At
  <2>4. \A h \in Runs : RunOf(h, s)' => RunCarries(h)'
    <3> SUFFICES ASSUME NEW h \in Runs, RunOf(h, s)' PROVE RunCarries(h)'
      OBVIOUS
    <3>1. RunOf(h, s) /\ RunCarries(h) /\ send[h].source = s
      BY <1>3, <2>1 DEF SourceCarries, RunOf, Working
    <3> QED BY <2>1, <2>2, <3>1 DEF RunCarries, At
  <2> QED BY <1>3, <2>1, <2>3, <2>4, NamedFollows DEF SourceCarries
<1>6. ASSUME NEW t \in Sources, ReceivesEffect(t) PROVE SourceCarries(s)'
  <2>1. /\ UNCHANGED <<file, mem, held, marked, renewal, send, dispatch>>
        /\ dispatch.inflight[t] = 0 /\ mem.intent[t] = "none" /\ receive'.source = t
    BY <1>6 DEF ReceivesEffect
  <2>2. \A h \in Runs : ~ RunOf(h, t)
    BY <1>1, <2>1, OnlyRun, SmallNumbers DEF RunOf
  <2>3. \A h \in Runs : RunOf(h, s)' <=> RunOf(h, s)
    BY <2>1 DEF RunOf, Working
  <2>4. ClaimMeets(s)'
    BY <2>1, <2>2, <2>3 DEF ClaimMeets
  <2>5. Named(mem, s)' /\ Named(file, s)' /\ QueueCarries(s)'
    BY <1>3, <2>1, <2>3 DEF SourceCarries, Named, QueueCarries, EndsFor, Carried, At
  <2>6. \A h \in Runs : RunOf(h, s)' => RunCarries(h)'
    BY <1>3, <2>1, <2>3 DEF SourceCarries, RunCarries, Carried, At
  <2> QED BY <2>4, <2>5, <2>6 DEF SourceCarries
<1>7. ASSUME NEW t \in Sources, SupersedesEffect(t) PROVE SourceCarries(s)'
  <2>1. /\ UNCHANGED <<held, marked, send, dispatch>> /\ GivesUp(t) /\ Saved
        /\ receive.at = "claim" /\ receive.source = t /\ receive'.at # "claim"
        /\ t # s => Kept(s)
    BY <1>7 DEF SupersedesEffect
  <2>2. Named(mem, s)' /\ QueueCarries(s)' /\ ClaimMeets(s)'
    <3>1. ClaimMeets(s)'
      BY <2>1 DEF ClaimMeets
    <3>2. Named(mem, s)'
      BY <1>3, <2>1 DEF SourceCarries, GivesUp, Kept, Named
    <3>3. QueueCarries(s)'
      <4>1. CASE t = s
        BY <2>1, <4>1 DEF GivesUp, QueueCarries
      <4>2. CASE t # s
        BY <1>3, <2>1, <4>2
        DEF SourceCarries, GivesUp, Kept, QueueCarries, EndsFor, RunOf, Working, Carried, At
      <4> QED BY <4>1, <4>2
    <3> QED BY <3>1, <3>2, <3>3
  <2>3. \A h \in Runs : RunOf(h, s)' => RunCarries(h)'
    <3> SUFFICES ASSUME NEW h \in Runs, RunOf(h, s)' PROVE RunCarries(h)'
      OBVIOUS
    <3>1. RunOf(h, s) /\ RunCarries(h) /\ send[h].source = s
      BY <1>3, <2>1 DEF SourceCarries, RunOf, Working
    <3>2. t = s => send[h].model
      BY <1>3, <2>1, <3>1 DEF SourceCarries, ClaimMeets
    <3> QED BY <2>1, <3>1, <3>2 DEF RunCarries, At, Carried, Kept
  <2> QED BY <1>3, <2>1, <2>2, <2>3, NamedFollows DEF SourceCarries
<1>8. ASSUME NEW t \in Sources, NEW a \in Attempts, OwnsEffect(t, a) PROVE SourceCarries(s)'
  <2>1. /\ mem'.settled = mem.settled /\ mem'.intent = mem.intent /\ mem'.cycle = mem.cycle
        /\ Saved /\ UNCHANGED marked /\ receive'.at # "claim"
    BY <1>8 DEF OwnsEffect
  <2>2. Named(mem, s)' /\ Named(file, s)'
    BY <1>3, <2>1, NamedFollows DEF SourceCarries, Named
  <2>3. CASE UNCHANGED <<held, send, dispatch>>
    <3>1. QueueCarries(s)' /\ ClaimMeets(s)'
      BY <1>3, <2>1, <2>3
      DEF SourceCarries, QueueCarries, ClaimMeets, EndsFor, RunOf, Working, Carried, At
    <3>2. \A h \in Runs : RunOf(h, s)' => RunCarries(h)'
      BY <1>3, <2>1, <2>3 DEF SourceCarries, RunOf, Working, RunCarries, Carried, At
    <3> QED BY <2>2, <3>1, <3>2 DEF SourceCarries
  <2>4. CASE Queues(t) /\ held'[t] = a
    <3>1. Carried(t)' /\ (Carried(s) => Carried(s)')
      BY <1>8, <2>1, <2>4, SmallNumbers DEF OwnsEffect, Kept, Carried
    <3> QED BY <1>1, <1>3, <2>1, <2>2, <2>4, <3>1, QueuesCarry DEF SourceCarries
  <2> QED BY <1>8, <2>3, <2>4 DEF OwnsEffect
<1>9. ASSUME NEW t \in Sources, RecoversEffect(t) PROVE SourceCarries(s)'
  <2>1. Named(mem, s)' /\ Named(file, s)' /\ (Carried(s) => Carried(s)')
        /\ (s \in marked => s \in marked')
    BY <1>3, <1>9 DEF RecoversEffect, SourceCarries, Named, Carried
  <2> QED
    BY <1>1, <1>3, <1>9, <2>1, QueuesCarry DEF RecoversEffect, SourceCarries
<1>10. CASE AnswersEffect
  <2>1. \A h \in Runs : RunOf(h, s)' <=> RunOf(h, s)
    BY <1>10 DEF AnswersEffect, RunOf, Working
  <2>2. Named(mem, s)' /\ Named(file, s)' /\ QueueCarries(s)' /\ ClaimMeets(s)'
    BY <1>3, <1>10, <2>1
    DEF AnswersEffect, SourceCarries, Named, QueueCarries, ClaimMeets, EndsFor, Carried, At
  <2>3. \A h \in Runs : RunOf(h, s)' => RunCarries(h)'
    BY <1>3, <1>10, <2>1 DEF AnswersEffect, SourceCarries, RunCarries, Carried, At
  <2> QED BY <2>2, <2>3 DEF SourceCarries
<1>11. CASE /\ UNCHANGED <<file, mem, held, marked, send, dispatch>>
            /\ receive'.at # "claim" \/ receive' = receive
  <2>1. \A h \in Runs : RunOf(h, s)' <=> RunOf(h, s)
    BY <1>11 DEF RunOf, Working
  <2>2. Named(mem, s)' /\ Named(file, s)' /\ QueueCarries(s)' /\ ClaimMeets(s)'
    BY <1>3, <1>11, <2>1
    DEF SourceCarries, Named, QueueCarries, ClaimMeets, EndsFor, Carried, At
  <2>3. \A h \in Runs : RunOf(h, s)' => RunCarries(h)'
    BY <1>3, <1>11, <2>1 DEF SourceCarries, RunCarries, Carried, At
  <2> QED BY <2>2, <2>3 DEF SourceCarries
<1>12. CASE CrashEffect
  BY <1>3, <1>12
  DEF CrashEffect, SourceCarries, Named, QueueCarries, ClaimMeets, RunOf
<1> QED
  BY <1>1, <1>4, <1>5, <1>6, <1>7, <1>8, <1>9, <1>10, <1>11, <1>12 DEF Effects, RoomEffect

\* Output whose lease was lost does not escape without an attempt.
THEOREM NothingEscapes == Spec => NoEscape
<1> DEFINE Inv == TypeInv /\ GateInv /\ AnswerInv /\ EscapeInv
<1>1. Init => Inv
  BY InitTypes, InitGate, InitAnswer, InitEscape
<1>2. Inv /\ [Next]_vars => Inv'
  BY TypesStep, GateStep, AnswersStep, EscapeStep
<1>3. Inv /\ Next =>
        (freed = {} /\ ~ torn => \A s \in Sources : ~ Submits(s, None))
  <2> SUFFICES ASSUME Inv, Next, freed = {}, ~ torn, NEW s \in Sources, NEW g \in Runs,
                      Sends(g), send'[g].source = s, send'[g].attempt = None
               PROVE  FALSE
    BY DEF Submits, Sends
  <2>1. /\ Works(g) /\ send[g].attempt = None
        /\ At(g, "replay") \/ At(g, "second")
    BY SendsCases DEF SubmitsAlone
  <2>2. RunOf(g, s)
    BY <2>1 DEF Works, RunOf
  <2> QED BY <2>1, <2>2 DEF EscapeInv, Orderly, SourceCarries, RunCarries, At
<1>4. Inv /\ UNCHANGED vars => \A s \in Sources : ~ Submits(s, None)
  BY DEF vars, Submits
<1> QED BY <1>1, <1>2, <1>3, <1>4, PTL DEF Spec, NoEscape

-----------------------------------------------------------------------------
(***************************************************************************)
(* No lease is kept for nobody                                             *)
(***************************************************************************)
\* Attempts are numbered in the order in which the Room opens them.
Known(s) ==
  /\ held[s] <= room.attempt /\ mem.cycle[s] <= room.attempt /\ file.cycle[s] <= room.attempt
\* The renewal of s works on an attempt no later than those the source is under, and on
\* one that is over if the source has its outcome.
LeaseFirst(s) ==
  Has(s) =>
    /\ Lease(s) <= room.attempt
    /\ s \in mem.settled => Open # Lease(s)
    /\ held[s] # None => Lease(s) <= held[s]
    /\ s \notin mem.settled /\ mem.cycle[s] # None => Lease(s) <= mem.cycle[s] \/ s \in marked
Guarded(s) == Has(s) \/ s \in marked
QueueGuarded(s) ==
  s \in dispatch.queue \ mem.settled /\ mem.intent[s] = "none" => Guarded(s) \/ EndsFor(s)
RunGuarded(g) ==
  LET s == send[g].source IN
  /\ send[g].attempt <= room.attempt
  /\ Has(s) /\ ~ At(g, "running") /\ send[g].attempt # None => Lease(s) <= send[g].attempt
  /\ Has(s) /\ At(g, "ended") => Open # Lease(s)
  /\ send[g].at \in {"running", "state"} /\ mem.intent[s] = "none" => Guarded(s)
\* While the receive boundary awaits its claim for s, what the answer will be.
ClaimGuarded(s) ==
  receive.at = "claim" /\ receive.source = s =>
    /\ \A g \in Runs : RunOf(g, s) /\ ~ At(g, "ended") => Guarded(s)
    /\ s \notin mem.settled /\ mem.intent[s] # "none" /\ (\A g \in Runs : ~ RunOf(g, s))
         => Guarded(s)
    /\ receive.answer = None /\ Has(s) => Open # Lease(s)
    /\ receive.answer \in Attempts =>
         /\ receive.answer <= room.attempt
         /\ Has(s) /\ s \notin mem.settled => Lease(s) <= receive.answer
SourceGuarded(s) ==
  /\ Known(s) /\ LeaseFirst(s) /\ QueueGuarded(s) /\ ClaimGuarded(s)
  /\ \A g \in Runs : RunOf(g, s) => RunGuarded(g)
LeaseInv == Orderly => \A s \in Sources \ (late \cup left) : SourceGuarded(s)

LEMMA Numbers ==
  ASSUME TypeInv, NEW s \in Sources
  PROVE  /\ room.attempt \in Nat /\ Open \in {room.attempt, None} /\ None = 0
         /\ held[s] \in Nat /\ mem.cycle[s] \in Nat /\ file.cycle[s] \in Nat
         /\ Has(s) => Lease(s) \in Nat /\ Lease(s) # None
         /\ \A g \in Runs : send[g].attempt \in Nat
         /\ \A a \in Attempts : a \in Nat
<1>1. /\ room.attempt \in Nat /\ Open \in {room.attempt, None} /\ None = 0
      /\ held[s] \in Nat /\ \A a \in Attempts : a \in Nat
  BY SmallNumbers DEF TypeInv, RoomTypes, Open, None, RenewalTypes, Attempts
<1>2. mem.cycle[s] \in Nat /\ file.cycle[s] \in Nat
  BY SmallNumbers DEF TypeInv, BindingTypes, Binding
<1>3. Has(s) => Lease(s) \in Nat /\ Lease(s) # None
  BY SmallNumbers DEF TypeInv, RenewalTypes, Renewing, Has, Lease, Attempts, None
<1>4. \A g \in Runs : send[g].attempt \in Nat
  BY SmallNumbers DEF TypeInv, SendTypes, Gen
<1> QED BY <1>1, <1>2, <1>3, <1>4

LEMMA InitLease == Init => LeaseInv
<1> SUFFICES ASSUME Init, NEW s \in Sources PROVE SourceGuarded(s)
  BY DEF LeaseInv
<1>1. ~ Has(s) /\ \A g \in Runs : ~ RunOf(g, s)
  BY DEF Init, Has, RunOf, Working, Idle, SendSteps
<1>2. LeaseFirst(s) /\ QueueGuarded(s) /\ ClaimGuarded(s)
  BY <1>1 DEF Init, LeaseFirst, QueueGuarded, ClaimGuarded, NoDispatch, Idle
<1>3. Known(s)
  BY DEF Init, Known, None
<1> QED BY <1>1, <1>2, <1>3 DEF SourceGuarded

LEMMA KnownFollows ==
  ASSUME TypeInv, NEW s \in Sources, Saved, Known(s), room'.attempt = room.attempt,
         held'[s] <= room.attempt, mem'.cycle[s] <= room.attempt
  PROVE  Known(s)'
BY DEF Saved, Known

\* Whatever a source is left with, the Room has opened the attempts it names: so a
\* restart, which ends every renewal, begins from a file that is sound again.
Reached(s) ==
  /\ Known(s)
  /\ Has(s) => Lease(s) <= room.attempt
  /\ \A g \in Runs : RunOf(g, s) => send[g].attempt <= room.attempt
  /\ receive.at = "claim" /\ receive.source = s /\ receive.answer \in Attempts =>
       receive.answer <= room.attempt
ReachedInv == freed = {} => \A s \in Sources : Reached(s)

LEMMA InitReached == Init => ReachedInv
<1> SUFFICES ASSUME Init, NEW s \in Sources PROVE Reached(s)
  BY DEF ReachedInv
<1> QED BY DEF Init, Reached, Known, None, Has, RunOf, Working, Idle, SendSteps

LEMMA RunReaches ==
  ASSUME TypeInv, GateInv, AnswerInv, freed = {}, NEW g \in Runs, Effect(g),
         NEW s \in Sources, Reached(s)
  PROVE  Reached(s)'
<1>1. /\ Frame(g) /\ Works(g) /\ Saved /\ UNCHANGED receive /\ room'.attempt = room.attempt
      /\ \A h \in Runs : RunOf(h, s)' => RunOf(h, s) /\ (h = g \/ send'[h] = send[h])
      /\ RunOf(g, s) <=> send[g].source = s
  BY DEF Effect, Frame, Works, RoomKept, RunOf, Working
<1>2. Known(s)
  BY DEF Reached
<1>3. room.attempt \in Nat /\ None = 0 /\ None <= room.attempt
  BY Numbers DEF None
<1>4. CASE send[g].source # s
  <2>1. Kept(s)
    BY <1>1, <1>4 DEF Frame
  <2>2. Known(s)'
    BY <1>1, <1>2, <2>1, KnownFollows DEF Known, Kept
  <2> QED BY <1>1, <1>4, <2>1, <2>2 DEF Reached, Kept, Has, Lease
<1>5. CASE send[g].source = s
  <2>1. send[g].attempt <= room.attempt /\ held[s] <= room.attempt /\ mem.cycle[s] <= room.attempt
    BY <1>1, <1>5 DEF Reached, Known
  <2>2. /\ held'[s] \in {None, held[s], send[g].attempt}
        /\ mem'.cycle[s] \in {mem.cycle[s], send[g].attempt}
        /\ Has(s)' => Has(s) /\ Lease(s)' = Lease(s)
    BY <1>5
    DEF Effect, Begins, Resumes, Closes, Abandons, Replayed, Adopts, SelectsOnce, Writes, Passes,
        Kept, Has, Lease
  <2>3. send'[g].attempt <= room.attempt
    BY <1>1, <1>3, <1>5, <2>1
    DEF Effect, Begins, Resumes, Closes, Abandons, Replayed, Adopts, SelectsOnce, Chosen, Writes,
        Passes
  <2>4. Known(s)'
    BY <1>1, <1>2, <1>3, <2>1, <2>2, KnownFollows
  <2> QED BY <1>1, <2>2, <2>3, <2>4 DEF Reached
<1> QED BY <1>4, <1>5

\* Runs that go on or start, and a claim in flight, where the source is as it was or has
\* another attempt of those that it names.
LEMMA ReachFollows ==
  ASSUME TypeInv, NEW s \in Sources, Reached(s), Saved, room'.attempt = room.attempt,
         held'[s] <= room.attempt, mem'.cycle[s] <= room.attempt,
         Has(s)' => Lease(s)' <= room.attempt,
         \A h \in Runs : RunOf(h, s)' => Fresh(h) \/ (RunOf(h, s) /\ send'[h] = send[h]),
         receive'.at = "claim" => receive' = receive
  PROVE  Reached(s)'
<1>1. Known(s)'
  BY KnownFollows DEF Reached
<1>2. room.attempt \in Nat /\ None = 0
  BY Numbers
<1>3. ASSUME NEW h \in Runs, RunOf(h, s)' PROVE send'[h].attempt <= room.attempt
  <2>1. CASE Fresh(h)
    <3>1. send'[h].attempt = None
      BY <2>1, FreshRun
    <3> QED BY <1>2, <3>1
  <2>2. CASE RunOf(h, s) /\ send'[h] = send[h]
    BY <2>2 DEF Reached
  <2> QED BY <1>3, <2>1, <2>2
<1> QED BY <1>1, <1>3 DEF Reached

LEMMA ReachedStep ==
  ASSUME TypeInv, GateInv, AnswerInv, ReachedInv, [Next]_vars PROVE ReachedInv'
<1> SUFFICES ASSUME freed' = {}, NEW s \in Sources PROVE Reached(s)'
  BY DEF ReachedInv
<1>1. Effects /\ freed = {} /\ Reached(s)
  BY NextEffects DEF ReachedInv
<1>2. /\ Known(s) /\ room.attempt \in Nat /\ None = 0 /\ None <= room.attempt
      /\ held[s] <= room.attempt /\ mem.cycle[s] <= room.attempt
      /\ file.cycle[s] <= room.attempt
  BY <1>1, Numbers DEF Reached, Known
<1>3. ASSUME NEW g \in Runs, Effect(g) PROVE Reached(s)'
  BY <1>1, <1>3, RunReaches
<1>4. ASSUME NEW g \in Runs, EndEffect(g) PROVE Reached(s)'
  <2>1. /\ Working(g) /\ Finishes(g) /\ Saved /\ RoomKept /\ send[g].source \in Sources
        /\ UNCHANGED renewal
    BY <1>4 DEF EndEffect, Finishes, TypeInv, SendTypes
  <2>2. ClaimsNot(FALSE) /\ \A h \in Runs : RunOf(h, s)' => Fresh(h)
    BY <1>1, <2>1, AfterFinish DEF RunOf
  <2>3. held'[s] \in {None, held[s]} /\ mem'.cycle[s] \in {None, mem.cycle[s]}
    BY <1>4 DEF EndEffect, Kept, GivesUp, SameRecords
  <2> QED
    BY <1>1, <1>2, <2>1, <2>2, <2>3, ReachFollows DEF ClaimsNot, RoomKept, Reached, Has, Lease
<1>5. ASSUME NEW t \in Sources, RenewalEffect(t) PROVE Reached(s)'
  <2>1. /\ UNCHANGED <<send, receive, room>> /\ Saved /\ mem'.cycle = mem.cycle
        /\ Has(s)' => Has(s) /\ Lease(s)' = Lease(s)
        /\ held'[s] \in {None, held[s]} \/ (Has(s) /\ held'[s] = Lease(s))
    BY <1>5 DEF RenewalEffect, SameRecords, Kept, Has, Lease
  <2>2. held'[s] <= room.attempt
    BY <1>1, <1>2, <2>1 DEF Reached
  <2> QED BY <1>1, <1>2, <2>1, <2>2, ReachFollows DEF Reached, RunOf, Working
<1>6. ASSUME NEW t \in Sources, ReceivesEffect(t) \/ SupersedesEffect(t) PROVE Reached(s)'
  <2>1. /\ UNCHANGED <<held, renewal, send, room>> /\ Saved
        /\ mem'.cycle[s] \in {None, mem.cycle[s]}
    BY <1>6 DEF ReceivesEffect, SupersedesEffect, GivesUp, Kept, Saved
  <2>2. receive'.at = "claim" => receive'.answer = Waiting
    BY <1>6 DEF ReceivesEffect, SupersedesEffect
  <2>3. Known(s)'
    BY <1>2, <2>1, KnownFollows
  <2> QED
    BY <1>1, <2>1, <2>2, <2>3, SmallNumbers DEF Reached, RunOf, Working, Has, Lease
<1>7. ASSUME NEW t \in Sources, NEW a \in Attempts, OwnsEffect(t, a) PROVE Reached(s)'
  <2>1. /\ UNCHANGED room /\ Saved /\ mem'.cycle = mem.cycle /\ receive'.at # "claim"
        /\ receive.at = "claim" /\ receive.source = t /\ receive.answer = a
        /\ \/ held'[s] = held[s] /\ renewal'[s] = renewal[s]
           \/ /\ t = s /\ held'[s] = a
              /\ Lease(s)' = IF Has(s) THEN Lease(s) ELSE a
    BY <1>7 DEF OwnsEffect, Kept, Has, Lease
  <2>2. held'[s] <= room.attempt /\ (Has(s)' => Lease(s)' <= room.attempt)
    BY <1>1, <1>2, <2>1 DEF Reached, Has, Lease
  <2>3. \A h \in Runs : RunOf(h, s)' => Fresh(h) \/ (RunOf(h, s) /\ send'[h] = send[h])
    <3>1. CASE send' = send
      BY <3>1 DEF RunOf, Working
    <3>2. CASE Queues(t)
      BY <1>1, <3>2, AfterQueue DEF RunOf, Working
    <3> QED BY <1>7, <3>1, <3>2 DEF OwnsEffect
  <2> QED BY <1>1, <1>2, <2>1, <2>2, <2>3, ReachFollows
<1>8. ASSUME NEW t \in Sources, RecoversEffect(t) PROVE Reached(s)'
  <2>1. UNCHANGED <<file, mem, held, renewal, room>> /\ receive'.at # "claim"
    BY <1>8 DEF RecoversEffect, Queues
  <2>2. \A h \in Runs : RunOf(h, s)' => Fresh(h) \/ (RunOf(h, s) /\ send'[h] = send[h])
    BY <1>1, <1>8, AfterQueue DEF RecoversEffect, RunOf, Working
  <2> QED BY <1>1, <1>2, <2>1, <2>2, ReachFollows DEF Saved, Reached, Has, Lease
<1>9. CASE RoomEffect
  <2>1. /\ UNCHANGED <<file, mem, held, renewal, receive, send>>
        /\ room'.attempt \in {room.attempt, room.attempt + 1}
    BY <1>9 DEF RoomEffect
  <2>2. \A n \in Nat : n <= room.attempt => n <= room'.attempt
    BY <1>2, <2>1
  <2> QED
    BY <1>1, <2>1, <2>2, Numbers DEF Reached, Known, RunOf, Working, Has, Lease
<1>10. CASE AnswersEffect
  <2>1. Open \in {room.attempt, None} /\ None \notin Attempts
    BY Numbers, SmallNumbers DEF Attempts
  <2> QED
    BY <1>1, <1>2, <1>10, <2>1
    DEF AnswersEffect, Reached, Known, RunOf, Working, Has, Lease
<1>11. CASE CrashEffect
  BY <1>2, <1>11 DEF CrashEffect, Reached, Known, RunOf, Has
<1>12. CASE /\ UNCHANGED <<file, mem, held, marked, renewal, send, dispatch, room, history>>
            /\ receive'.at # "claim" \/ receive' = receive
  BY <1>1, <1>12 DEF Reached, Known, RunOf, Working, Has, Lease
<1> QED
  BY <1>1, <1>3, <1>4, <1>5, <1>6, <1>7, <1>8, <1>9, <1>10, <1>11, <1>12 DEF Effects

\* A step of the run of s itself.
LEMMA OwnRunLeases ==
  ASSUME TypeInv, GateInv, CompletedFirst, AnswerInv, Orderly, NEW g \in Runs, Effect(g),
         NEW s \in Sources \ (late \cup left'), send[g].source = s, SourceCarries(s), SourceGuarded(s)
  PROVE  SourceGuarded(s)'
<1>1. /\ Working(g) /\ Working(g)' /\ mem'.settled = mem.settled /\ send'[g].source = s
      /\ UNCHANGED <<dispatch, receive>> /\ Saved /\ RoomKept /\ s \notin mem.settled
  BY DEF Effect, Frame, Works, CompletedFirst, Orderly, Working
<1>2. RunOf(g, s) /\ RunOf(g, s)' /\ \A h \in Runs : RunOf(h, s) \/ RunOf(h, s)' => h = g
  BY <1>1, RunsKept DEF RunOf, Effect, Frame, Works, Working, Orderly
<1>3. Named(mem, s) /\ RunCarries(g) /\ ClaimMeets(s)
  BY <1>2 DEF SourceCarries
<1>4. Known(s) /\ LeaseFirst(s) /\ QueueGuarded(s) /\ ClaimGuarded(s) /\ RunGuarded(g)
  BY <1>2 DEF SourceGuarded
<1>5. /\ EndsFor(s) <=> send[g].at = "ended"
      /\ EndsFor(s)' <=> send'[g].at = "ended"
  BY <1>2 DEF EndsFor, At
<1> DEFINE a == send[g].attempt
           b == send'[g].attempt
           R == room.attempt
           claimed == receive.at = "claim" /\ receive.source = s
<1>6. /\ R \in Nat /\ Open \in {R, None} /\ Open' \in {Open, None} /\ room'.attempt = R
      /\ None = 0 /\ held[s] \in Nat /\ mem.cycle[s] \in Nat
      /\ Has(s) => Lease(s) \in Nat /\ Lease(s) # None
      /\ a \in Nat
  BY <1>1, Numbers DEF RoomKept
<1>7. claimed /\ send[g].at # "ended" => Guarded(s)
  BY <1>2, <1>4 DEF ClaimGuarded, At
<1>8. s \in dispatch.queue /\ mem.intent[s] = "none" /\ send[g].at # "ended" => Guarded(s)
  BY <1>1, <1>4, <1>5 DEF QueueGuarded
<1>9. send[g].at # "running" /\ a # None /\ Has(s) => Lease(s) <= a
  BY <1>1, <1>4 DEF RunGuarded, At
<1>10. a <= R /\ held[s] <= R /\ mem.cycle[s] <= R
  BY <1>4 DEF RunGuarded, Known
\* It is enough to look at the attempts and at what guards the source.
<1>11. ASSUME held'[s] <= R, mem'.cycle[s] <= R, b <= R,
              Has(s)' => Has(s) /\ Lease(s)' = Lease(s),
              Has(s)' /\ held'[s] # None => Lease(s) <= held'[s],
              Has(s)' /\ mem'.cycle[s] # None => Lease(s) <= mem'.cycle[s] \/ s \in marked',
              Has(s)' /\ b # None => Lease(s) <= b,
              send'[g].at # "running",
              send'[g].at = "ended" /\ Has(s)' => Open' # Lease(s),
              send'[g].at # "ended" =>
                /\ send[g].at # "ended" /\ (mem'.intent[s] = "none" => mem.intent[s] = "none")
                /\ Guarded(s) => Guarded(s)' \/ (mem'.intent[s] = "posted" /\ ~ claimed),
              send'[g].at = "state" => send[g].at = "running"
       PROVE  SourceGuarded(s)'
  <2>1. Known(s)'
    BY <1>1, <1>4, <1>6, <1>11, KnownFollows
  <2>2. LeaseFirst(s)'
    BY <1>1, <1>4, <1>6, <1>11 DEF LeaseFirst
  <2>3. QueueGuarded(s)'
    BY <1>1, <1>5, <1>8, <1>11 DEF QueueGuarded
  <2>4. ClaimGuarded(s)'
    <3> SUFFICES ASSUME receive.at = "claim", receive.source = s
                 PROVE  /\ ~ At(g, "ended")' => Guarded(s)'
                        /\ receive.answer = None /\ Has(s)' => Open' # Lease(s)'
                        /\ receive.answer \in Attempts =>
                             /\ receive.answer <= room'.attempt
                             /\ Has(s)' => Lease(s)' <= receive.answer
      BY <1>1, <1>2 DEF ClaimGuarded
    <3>1. ~ At(g, "ended")' => Guarded(s)'
      BY <1>7, <1>11 DEF At
    <3>2. /\ receive.answer = None /\ Has(s) => Open # Lease(s)
          /\ receive.answer \in Attempts =>
               /\ receive.answer <= R
               /\ Has(s) => Lease(s) <= receive.answer
      BY <1>1, <1>4 DEF ClaimGuarded
    <3> QED BY <1>6, <1>11, <3>1, <3>2
  <2>5. RunGuarded(g)'
    <3>1. send'[g].at = "state" /\ mem'.intent[s] = "none" => Guarded(s)'
      BY <1>1, <1>4, <1>11 DEF RunGuarded
    <3> QED BY <1>1, <1>6, <1>11, <3>1 DEF RunGuarded, At
  <2> QED BY <1>2, <2>1, <2>2, <2>3, <2>4, <2>5 DEF SourceGuarded
<1>12. CASE Begins(g)
  <2>1. Kept(s) /\ b = held[s] /\ send[g].at = "running" /\ send'[g].at = "state"
    BY <1>1, <1>12 DEF Begins
  <2> QED
    BY <1>1, <1>4, <1>6, <1>10, <1>11, <2>1 DEF Kept, LeaseFirst, Has, Lease, Guarded
<1>13. CASE Resumes(g)
  <2>1. /\ send[g].at = "state" /\ send'[g].at = "receipt" /\ b = mem.cycle[s]
        /\ held'[s] = held[s] /\ s \notin marked' /\ mem'.cycle[s] = mem.cycle[s]
        /\ renewal'[s] = IF s \in marked THEN NoRenewal ELSE renewal[s]
        /\ mem.intent[s] = "posted" /\ mem'.intent[s] = "posted"
    BY <1>1, <1>13 DEF Resumes
  <2>2. ~ claimed
    BY <1>2, <1>3, <2>1 DEF ClaimMeets
  <2> QED
    BY <1>1, <1>4, <1>6, <1>10, <1>11, <2>1, <2>2 DEF LeaseFirst, Has, Lease
<1>14. CASE Closes(g)
  <2>1. /\ send'[g].at = "ended" /\ b = a /\ ~ Has(s)' /\ held'[s] \in {None, held[s]}
        /\ mem'.cycle[s] = mem.cycle[s]
    BY <1>1, <1>14 DEF Closes, Has
  <2> QED BY <1>6, <1>10, <1>11, <2>1
<1>15. CASE Replayed(g)
  <2>1. /\ send[g].at = "receipt" /\ send'[g].at = "ended" /\ b = a /\ Kept(s)
        /\ Open' # a \/ a = None
    BY <1>1, <1>15 DEF Replayed
  <2>2. a # None
    BY <1>3, <2>1 DEF RunCarries
  <2>3. Has(s) => Open' # Lease(s)
    BY <1>4, <1>6, <1>9, <1>10, <2>1, <2>2
  <2> QED
    BY <1>1, <1>4, <1>6, <1>9, <1>10, <1>11, <2>1, <2>3 DEF Kept, LeaseFirst, Has, Lease
<1>16. CASE Adopts(g)
  <2>1. /\ send[g].at = "claim" /\ send'[g].at = "freeze" /\ b = a /\ held'[s] = a
        /\ renewal'[s] = renewal[s] /\ (s \in marked' <=> s \in marked)
        /\ mem'.intent[s] = mem.intent[s] /\ mem'.cycle[s] = mem.cycle[s]
    BY <1>1, <1>16 DEF Adopts
  <2> QED
    BY <1>1, <1>4, <1>6, <1>9, <1>10, <1>11, <2>1 DEF LeaseFirst, Has, Lease, Guarded
<1>17. CASE SelectsOnce(g)
  <2>1. /\ send[g].at = "state" /\ s \notin marked /\ s \notin marked'
        /\ held'[s] = held[s] /\ renewal'[s] = renewal[s]
        /\ mem'.cycle[s] \in {a, mem.cycle[s]} /\ mem'.intent[s] # "none"
    BY <1>1, <1>17 DEF SelectsOnce
  <2>2. a # None \/ mem.intent[s] # "none"
    BY <1>1, <1>3, <2>1 DEF RunCarries, At
  <2>3. mem.intent[s] # "none" => mem.cycle[s] # None
    BY <1>1, <1>3, <1>17 DEF SelectsOnce, Named
  <2>4. Chosen(g) # None /\ Chosen(g) \in {a, mem.cycle[s]}
    BY <1>1, <2>2, <2>3 DEF Chosen
  <2>5. /\ send'[g].at \in {"failed", "replay", "claim", "pass"}
        /\ b \in {a, mem.cycle[s]}
    BY <1>1, <1>17, <2>4 DEF SelectsOnce
  <2>6. Has(s) /\ mem.cycle[s] # None => Lease(s) <= mem.cycle[s]
    BY <1>1, <1>4, <2>1 DEF LeaseFirst
  <2> QED
    BY <1>1, <1>4, <1>6, <1>9, <1>10, <1>11, <2>1, <2>5, <2>6
    DEF LeaseFirst, Has, Lease, Guarded
<1>18. CASE Writes(g) \/ Passes(g)
  <2>1. send[g].answer = Waiting => send[g].at \in {"claim", "first", "second"}
    BY SmallNumbers DEF AnswerInv
  <2>2. /\ send[g].at \notin {"running", "ended"}
        /\ send'[g].at \in {"replay", "receipt", "failed", "first", "second", "sent"}
        /\ b = a /\ held'[s] = held[s] /\ renewal'[s] = renewal[s]
        /\ s \in marked' <=> s \in marked
        /\ mem'.cycle[s] \in {a, mem.cycle[s]}
        /\ mem'.intent[s] = "none" => mem.intent[s] = "none"
    BY <1>1, <1>18, <2>1 DEF Writes, Passes, Fails
  <2> QED
    BY <1>1, <1>4, <1>6, <1>9, <1>10, <1>11, <2>2 DEF LeaseFirst, Has, Lease, Guarded
<1> QED BY <1>12, <1>13, <1>14, <1>15, <1>16, <1>17, <1>18 DEF Effect, Abandons

\* A source whose records and runs stay as they are, while the Room may end its attempt.
LEMMA KeptGuarded ==
  ASSUME TypeInv, NEW s \in Sources, Kept(s), Saved, RoomKept, SourceGuarded(s),
         s \in mem'.settled <=> s \in mem.settled
  PROVE  /\ Known(s)' /\ LeaseFirst(s)' /\ (Guarded(s)' <=> Guarded(s))
         /\ \A g \in Runs : RunOf(g, s) /\ send'[g] = send[g] => RunGuarded(g)'
<1>1. /\ held'[s] = held[s] /\ renewal'[s] = renewal[s] /\ (s \in marked' <=> s \in marked)
      /\ mem'.intent[s] = mem.intent[s] /\ mem'.cycle[s] = mem.cycle[s]
      /\ room'.attempt = room.attempt /\ Open' \in {Open, None}
  BY DEF Kept, RoomKept
<1>2. Known(s) /\ LeaseFirst(s) /\ \A g \in Runs : RunOf(g, s) => RunGuarded(g)
  BY DEF SourceGuarded
<1>3. Has(s) => Lease(s) # None
  BY Numbers
<1>4. Known(s)'
  BY <1>1, <1>2, KnownFollows DEF Known
<1>5. LeaseFirst(s)'
  BY <1>1, <1>2, <1>3 DEF LeaseFirst, Has, Lease
<1>6. Guarded(s)' <=> Guarded(s)
  BY <1>1 DEF Guarded, Has
<1>7. ASSUME NEW g \in Runs, RunOf(g, s), send'[g] = send[g] PROVE RunGuarded(g)'
  BY <1>1, <1>2, <1>3, <1>6, <1>7 DEF RunOf, RunGuarded, At, Has, Lease
<1> QED BY <1>4, <1>5, <1>6, <1>7

LEMMA EffectLeases ==
  ASSUME TypeInv, GateInv, CompletedFirst, AnswerInv, Orderly, NEW g \in Runs, Effect(g),
         NEW s \in Sources \ (late \cup left'), SourceCarries(s), SourceGuarded(s)
  PROVE  SourceGuarded(s)'
<1>1. /\ Frame(g) /\ Saved /\ RoomKept /\ Works(g) /\ Working(g) /\ mem'.settled = mem.settled
      /\ send'[g].source = send[g].source /\ UNCHANGED <<dispatch, receive>>
  BY DEF Effect, Frame, Works
<1>2. CASE send[g].source # s
  <2>1. Kept(s)
    BY <1>1, <1>2 DEF Frame
  <2>2. \A h \in Runs : ~ RunOf(h, s) /\ ~ RunOf(h, s)'
    BY <1>1, <1>2, RunsKept DEF RunOf, Works, Working, Orderly
  <2>3. Known(s)' /\ LeaseFirst(s)' /\ (Guarded(s)' <=> Guarded(s))
    BY <1>1, <2>1, KeptGuarded
  <2>4. QueueGuarded(s)'
    BY <1>1, <2>1, <2>2, <2>3 DEF SourceGuarded, QueueGuarded, Kept, EndsFor
  <2>5. ClaimGuarded(s)'
    <3>1. /\ renewal'[s] = renewal[s] /\ mem'.intent[s] = mem.intent[s]
          /\ room'.attempt = room.attempt /\ Open' \in {Open, None}
          /\ Has(s) => Lease(s) # None
      BY <1>1, <2>1, Numbers DEF Kept, RoomKept
    <3> QED BY <1>1, <2>2, <2>3, <3>1 DEF SourceGuarded, ClaimGuarded, Has, Lease
  <2> QED BY <2>2, <2>3, <2>4, <2>5 DEF SourceGuarded
<1>3. CASE send[g].source = s
  BY <1>3, OwnRunLeases
<1> QED BY <1>2, <1>3

\* A run that starts from a queue of guarded sources.
LEMMA StartsGuarded ==
  ASSUME TypeInv', NEW s \in Sources, NEW Q, dispatch'.queue \subseteq Q,
         \A h \in Runs : RunOf(h, s)' => Fresh(h) /\ s \in Q,
         s \in Q \ mem'.settled /\ mem'.intent[s] = "none" => Guarded(s)'
  PROVE  /\ QueueGuarded(s)'
         /\ \A h \in Runs : RunOf(h, s)' => RunGuarded(h)'
<1>1. ASSUME NEW h \in Runs, RunOf(h, s)'
      PROVE  /\ send'[h].at = "running" /\ send'[h].source = s /\ s \in Q \ mem'.settled
             /\ send'[h].attempt = None
  <2>1. Fresh(h) /\ s \in Q /\ send'[h].source = s
    BY <1>1 DEF RunOf
  <2>2. send'[h] = Started(s) /\ send'[h].at = "running" /\ s \notin mem'.settled
    BY <2>1 DEF Fresh
  <2>3. Started(s).attempt = None
    BY StartedType
  <2> QED BY <2>1, <2>2, <2>3
<1>2. QueueGuarded(s)'
  BY DEF QueueGuarded
<1>3. room'.attempt \in Nat /\ None = 0
  BY SmallNumbers DEF TypeInv, RoomTypes, None
<1>4. \A h \in Runs : RunOf(h, s)' => RunGuarded(h)'
  BY <1>1, <1>3 DEF RunGuarded, At
<1> QED BY <1>2, <1>4

\* The claim in flight meets no new run but one of a queued source, which is guarded.
LEMMA ClaimStays ==
  ASSUME TypeInv, NEW s \in Sources, Kept(s), RoomKept, SourceGuarded(s),
         receive'.at = "claim" => receive' = receive,
         s \in mem'.settled <=> s \in mem.settled,
         receive.at = "claim" /\ receive.source = s =>
           \/ Guarded(s)
           \/ \A h \in Runs : ~ RunOf(h, s) /\ ~ RunOf(h, s)'
  PROVE  ClaimGuarded(s)'
<1>1. /\ renewal'[s] = renewal[s] /\ (s \in marked' <=> s \in marked)
      /\ mem'.intent[s] = mem.intent[s] /\ room'.attempt = room.attempt
      /\ Open' \in {Open, None} /\ (Has(s) => Lease(s) # None)
  BY Numbers DEF Kept, RoomKept
<1>2. ClaimGuarded(s)
  BY DEF SourceGuarded
<1> QED BY <1>1, <1>2 DEF ClaimGuarded, Guarded, Has, Lease

LEMMA EndLeases ==
  ASSUME TypeInv, TypeInv', GateInv, CompletedFirst, Orderly, NEW g \in Runs, EndEffect(g),
         NEW s \in Sources \ (late \cup left'), SourceCarries(s), SourceGuarded(s)
  PROVE  SourceGuarded(s)'
<1> DEFINE Q == dispatch.queue \cup Requeued(g)
           t == send[g].source
<1>1. /\ Working(g) /\ Finishes(g) /\ Saved /\ RoomKept /\ t \in Sources
      /\ UNCHANGED <<renewal, marked>> /\ freed = {}
  BY DEF EndEffect, Finishes, Orderly, TypeInv, SendTypes
<1>2. /\ ClaimsNot(FALSE) /\ dispatch'.queue \subseteq Q
      /\ \A h \in Runs : RunOf(h, s)' => Fresh(h) /\ s \in Q
  BY <1>1, AfterFinish DEF RunOf
<1>3. receive'.at = "claim" => receive' = receive
  BY <1>2 DEF ClaimsNot
<1>4. \A h \in Runs : RunOf(h, s) => h = g /\ t = s
  BY <1>1, RunsKept DEF RunOf
<1>5. \A h \in Runs : RunOf(h, s)' => s \notin mem'.settled
  BY <1>2 DEF RunOf, Fresh
<1>6. /\ Known(s) /\ LeaseFirst(s) /\ QueueGuarded(s) /\ ClaimGuarded(s) /\ ClaimMeets(s)
      /\ \A h \in Runs : RunOf(h, s) => RunGuarded(h)
  BY DEF SourceGuarded, SourceCarries
\* Nothing is said of the source but that a run of it may start.
<1>7. ASSUME Kept(s), s \in mem'.settled <=> s \in mem.settled,
             s \in Q \ mem.settled /\ mem.intent[s] = "none" => Guarded(s),
             receive.at = "claim" /\ receive.source = s =>
               \/ Guarded(s)
               \/ /\ \A h \in Runs : ~ RunOf(h, s)
                  /\ s \in Q => mem.intent[s] = "none"
      PROVE  SourceGuarded(s)'
  <2>1. Known(s)' /\ LeaseFirst(s)' /\ (Guarded(s)' <=> Guarded(s))
    BY <1>1, <1>7, KeptGuarded
  <2>2. mem'.intent[s] = mem.intent[s]
    BY <1>7 DEF Kept
  <2>3. ClaimGuarded(s)'
    BY <1>1, <1>2, <1>3, <1>5, <1>7, ClaimStays
  <2> HIDE DEF Q
  <2>4. QueueGuarded(s)' /\ \A h \in Runs : RunOf(h, s)' => RunGuarded(h)'
    BY <1>2, <1>7, <2>1, <2>2, StartsGuarded
  <2> QED BY <2>1, <2>3, <2>4 DEF SourceGuarded
<1>8. CASE t # s
  <2>1. Kept(s) /\ (s \in mem'.settled <=> s \in mem.settled)
    BY <1>8 DEF EndEffect, GivesUp, SameRecords
  <2>2. ~ EndsFor(s) /\ (s \in Q => s \in dispatch.queue) /\ \A h \in Runs : ~ RunOf(h, s)
    BY <1>4, <1>8 DEF EndsFor, Requeued
  <2> QED BY <1>6, <1>7, <2>1, <2>2 DEF QueueGuarded, ClaimMeets
<1>9. CASE t = s /\ SameRecords /\ held' = held /\ send[g].at \in {"failed", "running"}
  <2>1. Kept(s) /\ mem'.settled = mem.settled
    BY <1>1, <1>9 DEF Kept, SameRecords
  <2>2. RunOf(g, s) /\ ~ EndsFor(s)
    BY <1>1, <1>4, <1>9 DEF RunOf, EndsFor, At
  <2>3. s \in Q => s \in dispatch.queue \/ send[g].at = "running"
    BY DEF Requeued, At
  <2>4. s \in Q \ mem.settled /\ mem.intent[s] = "none" => Guarded(s)
    BY <1>6, <1>9, <2>2, <2>3 DEF QueueGuarded, RunGuarded
  <2>5. receive.at = "claim" /\ receive.source = s => Guarded(s)
    BY <1>6, <1>9, <2>2 DEF ClaimGuarded, At
  <2> QED BY <1>7, <2>1, <2>4, <2>5
<1>10. CASE t = s /\ GivesUp(s)
  <2>1. /\ s \in mem'.settled /\ mem'.cycle[s] = None /\ s \notin mem.settled
        /\ Lease(s)' = Lease(s) /\ (Has(s)' <=> Has(s))
    BY <1>1, <1>10 DEF GivesUp, Has, Lease, CompletedFirst, Orderly, Working
  <2>2. /\ room.attempt \in Nat /\ Open \in {room.attempt, None} /\ None = 0
        /\ held[s] \in Nat
        /\ Has(s) => Lease(s) \in Nat /\ Lease(s) # None
        /\ room'.attempt = room.attempt /\ Open' \in {Open, None}
    BY <1>1, Numbers DEF RoomKept
  <2>3. held'[s] \in {None, held[s]} /\ (Has(s) => Open' # Lease(s))
    <3>1. CASE send[g].at = "ended" /\ held'[s] = held[s]
      <4>1. Has(s) => Open # Lease(s)
        BY <1>1, <1>6, <1>10, <3>1 DEF RunOf, RunGuarded, At
      <4> QED BY <2>2, <3>1, <4>1
    <3>2. CASE held[s] # None /\ held'[s] = None /\ Open' # held[s]
      BY <1>6, <2>2, <3>2 DEF LeaseFirst, Known
    <3>3. CASE SameRecords
      BY <2>1, <3>3 DEF SameRecords
    <3> QED BY <1>10, <3>1, <3>2, <3>3 DEF EndEffect
  <2>4. Known(s)'
    BY <1>1, <1>6, <2>1, <2>2, <2>3, KnownFollows DEF Known
  <2>5. LeaseFirst(s)'
    BY <1>6, <2>1, <2>2, <2>3 DEF LeaseFirst
  <2>6. QueueGuarded(s)' /\ \A h \in Runs : ~ RunOf(h, s)'
    BY <1>5, <2>1 DEF QueueGuarded
  <2>7. ClaimGuarded(s)'
    BY <1>3, <1>6, <2>1, <2>2, <2>3, <2>6 DEF ClaimGuarded
  <2> QED BY <2>4, <2>5, <2>6, <2>7 DEF SourceGuarded
<1> QED BY <1>8, <1>9, <1>10 DEF EndEffect

\* Source t is queued, guarded or with a selection.
LEMMA QueuesGuarded ==
  ASSUME TypeInv, TypeInv', GateInv, freed = {}, NEW t \in Sources, Queues(t),
         mem'.intent = mem.intent, mem.intent[t] = "none" => Guarded(t)',
         UNCHANGED <<room, marked>>,
         NEW s \in Sources, SourceGuarded(s), Has(s) => Has(s)' /\ Lease(s)' = Lease(s),
         (Has(s)' => Has(s)) \/ \A h \in Runs : ~ RunOf(h, s)
  PROVE  /\ QueueGuarded(s)' /\ ClaimGuarded(s)'
         /\ \A h \in Runs : RunOf(h, s)' => RunGuarded(h)'
<1> DEFINE Q == dispatch.queue \cup {t}
<1>1. mem'.settled = mem.settled /\ receive'.at # "claim" /\ (Guarded(s) => Guarded(s)')
  BY DEF Queues, Guarded
<1>2. /\ dispatch'.queue \subseteq Q
      /\ \/ send' = send
         \/ /\ \A h \in Runs : ~ Working(h)
            /\ \A h \in Runs : Working(h)' => Fresh(h) /\ send'[h].source \in Q
  BY AfterQueue
<1>3. QueueGuarded(s) /\ \A h \in Runs : RunOf(h, s) => RunGuarded(h)
  BY DEF SourceGuarded
<1>4. ClaimGuarded(s)'
  BY <1>1 DEF ClaimGuarded
<1>5. CASE send' = send
  <2>1. QueueGuarded(s)'
    BY <1>1, <1>2, <1>3, <1>5 DEF QueueGuarded, EndsFor, RunOf, Working, At
  <2>2. \A h \in Runs : RunOf(h, s)' => RunGuarded(h)'
    <3> SUFFICES ASSUME NEW h \in Runs, RunOf(h, s)' PROVE RunGuarded(h)'
      OBVIOUS
    <3>1. RunOf(h, s) /\ RunGuarded(h) /\ send[h].source = s
      BY <1>3, <1>5 DEF RunOf, Working
    <3>2. Open' = Open /\ (Has(s)' <=> Has(s))
      BY <3>1 DEF Open
    <3> QED BY <1>1, <1>5, <3>1, <3>2 DEF RunGuarded, At
  <2> QED BY <1>4, <2>1, <2>2
<1>6. CASE /\ \A h \in Runs : ~ Working(h)
           /\ \A h \in Runs : Working(h)' => Fresh(h) /\ send'[h].source \in Q
  <2>1. ~ EndsFor(s)
    BY <1>6 DEF EndsFor, RunOf
  <2>2. s \in Q \ mem'.settled /\ mem'.intent[s] = "none" => Guarded(s)'
    BY <1>1, <1>3, <2>1 DEF QueueGuarded
  <2>3. \A h \in Runs : RunOf(h, s)' => Fresh(h) /\ s \in Q
    BY <1>6 DEF RunOf
  <2> HIDE DEF Q
  <2>4. QueueGuarded(s)' /\ \A h \in Runs : RunOf(h, s)' => RunGuarded(h)'
    BY <1>2, <2>2, <2>3, StartsGuarded
  <2> QED BY <1>4, <2>4
<1> QED BY <1>2, <1>5, <1>6

\* A step that touches neither the runs, the queue nor the receive boundary.
LEMMA SameRunsGuarded ==
  ASSUME UNCHANGED <<send, dispatch, receive>>, NEW s, SourceGuarded(s),
         mem'.intent = mem.intent, mem'.settled = mem.settled,
         room.attempt <= room'.attempt, room.attempt \in Nat, room'.attempt \in Nat,
         \A g \in Runs : send[g].attempt \in Nat, \A a \in Attempts : a \in Nat,
         Guarded(s) => Guarded(s)',
         Has(s)' => Has(s) /\ Lease(s)' = Lease(s) /\ (Open # Lease(s) => Open' # Lease(s))
  PROVE  /\ QueueGuarded(s)' /\ ClaimGuarded(s)'
         /\ \A g \in Runs : RunOf(g, s)' => RunGuarded(g)'
<1>1. \A g \in Runs : RunOf(g, s)' <=> RunOf(g, s)
  BY DEF RunOf, Working
<1>2. QueueGuarded(s) /\ ClaimGuarded(s) /\ \A g \in Runs : RunOf(g, s) => RunGuarded(g)
  BY DEF SourceGuarded
<1>3. QueueGuarded(s)'
  BY <1>1, <1>2 DEF QueueGuarded, EndsFor, At
<1>4. ClaimGuarded(s)'
  BY <1>1, <1>2 DEF ClaimGuarded, At
<1>5. ASSUME NEW g \in Runs, RunOf(g, s)' PROVE RunGuarded(g)'
  <2>1. RunOf(g, s) /\ RunGuarded(g) /\ send[g].source = s
    BY <1>1, <1>2, <1>5 DEF RunOf
  <2> QED BY <2>1 DEF RunGuarded, At
<1> QED BY <1>3, <1>4, <1>5

LEMMA RenewalLeases ==
  ASSUME TypeInv, NEW t \in Sources, RenewalEffect(t), ~ torn',
         NEW s \in Sources, SourceGuarded(s)
  PROVE  SourceGuarded(s)'
<1>1. /\ UNCHANGED <<send, dispatch, receive, room>> /\ Saved /\ Open' = Open
      /\ mem'.settled = mem.settled /\ mem'.intent = mem.intent /\ mem'.cycle = mem.cycle
  BY DEF RenewalEffect, SameRecords, Open
<1>2. Known(s) /\ LeaseFirst(s)
  BY DEF SourceGuarded
<1>3. /\ room.attempt \in Nat /\ \A g \in Runs : send[g].attempt \in Nat
      /\ \A a \in Attempts : a \in Nat
      /\ None = 0 /\ (Has(s) => Lease(s) \in Nat)
  BY Numbers
<1>4. /\ Has(s)' => Has(s) /\ Lease(s)' = Lease(s)
      /\ held'[s] # held[s] => held'[s] = None \/ (Has(s) /\ held'[s] = Lease(s))
      /\ Guarded(s) => Guarded(s)'
      /\ Has(s)' => (s \in marked' <=> s \in marked)
  <2>1. CASE t # s
    BY <2>1 DEF RenewalEffect, Kept, Has, Lease, Guarded
  <2>2. CASE t = s
    BY <2>2 DEF RenewalEffect, Has, Lease, Guarded
  <2> QED BY <2>1, <2>2
<1>5. Known(s)'
  BY <1>1, <1>2, <1>3, <1>4, KnownFollows DEF Known, LeaseFirst
<1>6. LeaseFirst(s)'
  BY <1>1, <1>2, <1>3, <1>4 DEF LeaseFirst
<1>7. QueueGuarded(s)' /\ ClaimGuarded(s)' /\ \A g \in Runs : RunOf(g, s)' => RunGuarded(g)'
  BY <1>1, <1>3, <1>4, SameRunsGuarded
<1> QED BY <1>5, <1>6, <1>7 DEF SourceGuarded

LEMMA RoomLeases ==
  ASSUME TypeInv, RoomEffect, NEW s \in Sources, SourceGuarded(s) PROVE SourceGuarded(s)'
<1>1. UNCHANGED <<file, mem, held, marked, renewal, receive, send, dispatch>>
  BY DEF RoomEffect
<1>2. Known(s) /\ LeaseFirst(s)
  BY DEF SourceGuarded
<1>3. /\ room.attempt \in Nat /\ None = 0
      /\ held[s] \in Nat /\ mem.cycle[s] \in Nat /\ file.cycle[s] \in Nat
      /\ Has(s) => Lease(s) \in Nat /\ Lease(s) # None
      /\ \A g \in Runs : send[g].attempt \in Nat
      /\ \A a \in Attempts : a \in Nat
  BY Numbers
<1>4. /\ room.attempt <= room'.attempt /\ room'.attempt \in Nat
      /\ Has(s) => Open' # Lease(s)
  BY <1>2, <1>3 DEF RoomEffect, LeaseFirst
<1>5. Known(s)'
  BY <1>1, <1>2, <1>3, <1>4 DEF Known
<1>6. LeaseFirst(s)'
  BY <1>1, <1>2, <1>3, <1>4 DEF LeaseFirst, Has, Lease
<1>7. QueueGuarded(s)' /\ ClaimGuarded(s)' /\ \A g \in Runs : RunOf(g, s)' => RunGuarded(g)'
  BY <1>1, <1>3, <1>4, SameRunsGuarded DEF Guarded, Has, Lease
<1> QED BY <1>5, <1>6, <1>7 DEF SourceGuarded

LEMMA AnswerLeases ==
  ASSUME TypeInv, AnswersEffect, NEW s \in Sources, SourceGuarded(s) PROVE SourceGuarded(s)'
<1>1. /\ UNCHANGED <<file, mem, held, marked, dispatch, room>> /\ Open' = Open
      /\ (Has(s)' <=> Has(s)) /\ Lease(s)' = Lease(s) /\ (Guarded(s)' <=> Guarded(s))
      /\ \A g \in Runs : /\ send'[g].at = send[g].at /\ send'[g].source = send[g].source
                         /\ send'[g].attempt = send[g].attempt
      /\ receive'.at = receive.at /\ receive'.source = receive.source
      /\ receive'.answer \in {receive.answer, Open}
  BY DEF AnswersEffect, Has, Lease, Guarded, Open
<1>2. /\ Known(s) /\ LeaseFirst(s) /\ QueueGuarded(s) /\ ClaimGuarded(s)
      /\ \A g \in Runs : RunOf(g, s) => RunGuarded(g)
  BY DEF SourceGuarded
<1>3. /\ room.attempt \in Nat /\ Open \in {room.attempt, None} /\ None \notin Attempts
      /\ Has(s) => Lease(s) \in Nat /\ Lease(s) # None
  BY Numbers, SmallNumbers DEF Attempts
<1>4. \A g \in Runs : RunOf(g, s)' <=> RunOf(g, s)
  BY <1>1 DEF RunOf, Working
<1>5. Known(s)' /\ LeaseFirst(s)' /\ QueueGuarded(s)'
  BY <1>1, <1>2, <1>4 DEF Known, LeaseFirst, QueueGuarded, EndsFor, At
<1>6. ClaimGuarded(s)'
  BY <1>1, <1>2, <1>3, <1>4 DEF ClaimGuarded, LeaseFirst, At
<1>7. ASSUME NEW g \in Runs, RunOf(g, s)' PROVE RunGuarded(g)'
  <2>1. RunGuarded(g) /\ send[g].source = s
    BY <1>2, <1>4, <1>7 DEF RunOf
  <2> QED BY <1>1, <2>1 DEF RunGuarded, At
<1> QED BY <1>5, <1>6, <1>7 DEF SourceGuarded

LEMMA SupersedeLeases ==
  ASSUME TypeInv, GateInv, freed = {}, NEW t \in Sources, SupersedesEffect(t),
         NEW s \in Sources \ (late' \cup left'), SourceGuarded(s), MemoryOwned(s)
  PROVE  SourceGuarded(s)'
<1>1. /\ receive.at = "claim" /\ receive.source = t /\ receive'.at # "claim"
      /\ GivesUp(t) /\ Saved /\ Notes(t)
      /\ UNCHANGED <<held, marked, renewal, send, dispatch, room>>
      /\ Open' = Open /\ RoomKept
      /\ \/ receive.answer = None
         \/ receive.answer \in Attempts /\ mem.owner[receive.answer] \notin {0, t}
         \/ t # s
  BY DEF SupersedesEffect, Open, RoomKept
<1>2. CASE t # s
  <2>1. Kept(s) /\ (s \in mem'.settled <=> s \in mem.settled)
    BY <1>1, <1>2 DEF SupersedesEffect, GivesUp
  <2>2. /\ Known(s)' /\ LeaseFirst(s)' /\ (Guarded(s)' <=> Guarded(s))
        /\ \A g \in Runs : RunOf(g, s) => RunGuarded(g)'
    BY <1>1, <2>1, KeptGuarded
  <2>3. QueueGuarded(s)'
    BY <1>1, <2>1, <2>2
    DEF SourceGuarded, QueueGuarded, Kept, EndsFor, RunOf, Working, At
  <2>4. ClaimGuarded(s)'
    BY <1>1 DEF ClaimGuarded
  <2> QED BY <1>1, <2>2, <2>3, <2>4 DEF SourceGuarded, RunOf, Working
<1>3. CASE t = s
  <2>1. dispatch.inflight[s] = 0 /\ s \notin mem.settled
    BY <1>1, <1>3 DEF Notes
  <2>2. \A g \in Runs : ~ RunOf(g, s)'
    BY <1>1, <2>1, OnlyRun, SmallNumbers DEF RunOf, Working
  <2>3. /\ room.attempt \in Nat /\ Open \in {room.attempt, None} /\ None = 0
        /\ held[s] \in Nat /\ mem.cycle[s] \in Nat
        /\ Has(s) => Lease(s) \in Nat /\ Lease(s) # None
        /\ \A a \in Attempts : a \in Nat
    BY Numbers
  <2>4. Known(s) /\ LeaseFirst(s) /\ ClaimGuarded(s)
    BY DEF SourceGuarded
  <2>5. Has(s) => Open # Lease(s)
    <3>1. CASE receive.answer = None
      BY <1>1, <1>3, <2>4, <3>1 DEF ClaimGuarded
    <3>2. CASE receive.answer \in Attempts /\ mem.owner[receive.answer] \notin {0, t}
      <4>1. Has(s) => mem.owner[Lease(s)] = s
        BY <2>1 DEF MemoryOwned
      <4>2. Has(s) => Lease(s) # receive.answer
        BY <1>3, <3>2, <4>1
      <4>3. receive.answer <= room.attempt /\ (Has(s) => Lease(s) <= receive.answer)
        BY <1>1, <1>3, <2>1, <2>4, <3>2 DEF ClaimGuarded
      <4> QED BY <2>3, <3>2, <4>2, <4>3
    <3> QED BY <1>1, <1>3, <3>1, <3>2
  <2>6. mem'.cycle[s] = None /\ s \in mem'.settled
    BY <1>1, <1>3 DEF GivesUp
  <2>7. Known(s)'
    BY <1>1, <2>3, <2>4, <2>6, KnownFollows DEF Known
  <2>8. LeaseFirst(s)'
    BY <1>1, <2>4, <2>5, <2>6 DEF LeaseFirst, Has, Lease
  <2>9. QueueGuarded(s)' /\ ClaimGuarded(s)'
    BY <1>1, <2>6 DEF QueueGuarded, ClaimGuarded
  <2> QED BY <2>2, <2>7, <2>8, <2>9 DEF SourceGuarded
<1> QED BY <1>2, <1>3

LEMMA OwnLeases ==
  ASSUME TypeInv, TypeInv', GateInv, freed = {}, NEW t \in Sources, NEW a \in Attempts,
         OwnsEffect(t, a), NEW s \in Sources \ late', SourceCarries(s), SourceGuarded(s)
  PROVE  SourceGuarded(s)'
<1>1. /\ receive.at = "claim" /\ receive.source = t /\ receive.answer = a
      /\ receive'.at # "claim" /\ Saved /\ Notes(t)
      /\ mem'.settled = mem.settled /\ mem'.intent = mem.intent /\ mem'.cycle = mem.cycle
      /\ UNCHANGED <<marked, room>> /\ Open' = Open /\ RoomKept
      /\ t # s => Kept(s)
  BY DEF OwnsEffect, Open, RoomKept
<1>2. /\ Known(s) /\ LeaseFirst(s) /\ QueueGuarded(s) /\ ClaimGuarded(s) /\ Named(mem, s)
      /\ \A g \in Runs : RunOf(g, s) => RunGuarded(g)
  BY DEF SourceGuarded, SourceCarries
<1>3. CASE UNCHANGED <<held, renewal, send, dispatch>>
  <2>1. Kept(s)
    BY <1>1, <1>3 DEF Kept
  <2>2. /\ Known(s)' /\ LeaseFirst(s)' /\ (Guarded(s)' <=> Guarded(s))
        /\ \A g \in Runs : RunOf(g, s) => RunGuarded(g)'
    BY <1>1, <1>3, <2>1, KeptGuarded
  <2>3. QueueGuarded(s)' /\ ClaimGuarded(s)'
    BY <1>1, <1>2, <1>3, <2>2
    DEF QueueGuarded, ClaimGuarded, EndsFor, RunOf, Working, At
  <2> QED BY <1>3, <2>2, <2>3 DEF SourceGuarded, RunOf, Working
<1>4. CASE /\ Queues(t) /\ held'[t] = a /\ renewal'[t] # NoRenewal
           /\ renewal'[t].attempt = IF renewal[t] = NoRenewal THEN a ELSE renewal[t].attempt
  <2>1. Guarded(t)' /\ (t = s => Has(s)')
        /\ (t = s => Lease(s)' = IF Has(s) THEN Lease(s) ELSE a)
    BY <1>4 DEF Guarded, Has, Lease
  <2>2. t # s => (Has(s)' <=> Has(s)) /\ Lease(s)' = Lease(s)
    BY <1>1 DEF Kept, Has, Lease
  <2>3. t = s => dispatch.inflight[s] = 0 /\ s \notin mem.settled
    BY <1>1 DEF Notes
  <2>4. t = s => \A h \in Runs : ~ RunOf(h, s)
    BY <2>3, OnlyRun, SmallNumbers DEF RunOf
  <2>5. QueueGuarded(s)' /\ ClaimGuarded(s)' /\ \A h \in Runs : RunOf(h, s)' => RunGuarded(h)'
    BY <1>1, <1>4, <2>1, <2>2, <2>4, QueuesGuarded
  <2>6. Known(s)' /\ LeaseFirst(s)'
    <3>1. CASE t # s
      BY <1>1, <3>1, KeptGuarded
    <3>2. CASE t = s
      <4>1. /\ room.attempt \in Nat /\ held[s] \in Nat /\ mem.cycle[s] \in Nat /\ a \in Nat
            /\ Has(s) => Lease(s) \in Nat
        BY Numbers
      <4>2. a <= room.attempt /\ (Has(s) => Lease(s) <= a)
        BY <1>1, <1>2, <2>3, <3>2 DEF ClaimGuarded
      <4>3. mem.cycle[s] # None => Has(s) \/ s \in marked
        BY <1>1, <1>2, <2>3, <2>4, <3>2 DEF Named, ClaimGuarded, Guarded
      <4>4. Known(s)'
        BY <1>1, <1>2, <1>4, <3>2, <4>2, KnownFollows DEF Known
      <4>5. LeaseFirst(s)'
        BY <1>1, <1>2, <1>4, <2>1, <2>3, <3>2, <4>1, <4>2, <4>3 DEF LeaseFirst
      <4> QED BY <4>4, <4>5
    <3> QED BY <3>1, <3>2
  <2> QED BY <2>5, <2>6 DEF SourceGuarded
<1> QED BY <1>3, <1>4 DEF OwnsEffect

LEMMA ReceiveLeases ==
  ASSUME TypeInv, GateInv, freed = {}, NEW t \in Sources, ReceivesEffect(t),
         NEW s \in Sources, SourceGuarded(s)
  PROVE  SourceGuarded(s)'
<1>1. /\ UNCHANGED <<file, mem, held, marked, renewal, send, dispatch, room>>
      /\ dispatch.inflight[t] = 0 /\ mem.intent[t] = "none"
      /\ receive'.source = t /\ receive'.answer = Waiting /\ Open' = Open
  BY DEF ReceivesEffect, Open
<1>2. \A h \in Runs : ~ RunOf(h, t)
  BY <1>1, OnlyRun, SmallNumbers DEF RunOf
<1>3. \A h \in Runs : RunOf(h, s)' <=> RunOf(h, s)
  BY <1>1 DEF RunOf, Working
<1>4. ClaimGuarded(s)'
  BY <1>1, <1>2, <1>3, SmallNumbers DEF ClaimGuarded
<1>5. Known(s)' /\ LeaseFirst(s)' /\ QueueGuarded(s)'
  BY <1>1, <1>3
  DEF SourceGuarded, Known, LeaseFirst, QueueGuarded, Guarded, Has, Lease, EndsFor, At
<1>6. \A h \in Runs : RunOf(h, s)' => RunGuarded(h)'
  BY <1>1, <1>3 DEF SourceGuarded, RunGuarded, Guarded, Has, Lease, At
<1> QED BY <1>4, <1>5, <1>6 DEF SourceGuarded

LEMMA RecoverLeases ==
  ASSUME TypeInv, TypeInv', GateInv, freed = {}, NEW t \in Sources, RecoversEffect(t),
         NEW s \in Sources, SourceGuarded(s)
  PROVE  SourceGuarded(s)'
<1>1. /\ UNCHANGED <<file, mem, held, marked, renewal, room>> /\ Queues(t) /\ Open' = Open
      /\ mem.intent[t] # "none"
  BY DEF RecoversEffect, Open
<1>2. QueueGuarded(s)' /\ ClaimGuarded(s)' /\ \A h \in Runs : RunOf(h, s)' => RunGuarded(h)'
  BY <1>1, QueuesGuarded DEF Has, Lease
<1>3. Known(s)' /\ LeaseFirst(s)'
  BY <1>1 DEF SourceGuarded, Known, LeaseFirst, Has, Lease
<1> QED BY <1>2, <1>3 DEF SourceGuarded

LEMMA CrashLeases ==
  ASSUME TypeInv, CrashEffect, NEW s \in Sources, Reached(s) PROVE SourceGuarded(s)'
<1>1. ~ Has(s)' /\ \A g \in Runs : ~ RunOf(g, s)'
  BY DEF CrashEffect, Has, RunOf
<1>2. Known(s)'
  BY Numbers DEF CrashEffect, Reached, Known
<1>3. LeaseFirst(s)' /\ QueueGuarded(s)' /\ ClaimGuarded(s)'
  BY <1>1 DEF CrashEffect, LeaseFirst, QueueGuarded, ClaimGuarded
<1> QED BY <1>1, <1>2, <1>3 DEF SourceGuarded

LEMMA LeaseStep ==
  ASSUME TypeInv, TypeInv', GateInv, CompletedFirst, OwnerInv, AnswerInv, EscapeInv, ReachedInv,
         LeaseInv, [Next]_vars
  PROVE  LeaseInv'
<1> SUFFICES ASSUME freed' = {}, ~ torn', NEW s \in Sources \ (late' \cup left')
             PROVE  SourceGuarded(s)'
  BY DEF LeaseInv, Orderly
<1>1. Effects /\ freed = {} /\ s \in Sources \ late
  BY NextEffects, NothingIsForgotten
<1>2. ~ torn
  BY <1>1
  DEF Effects, Effect, Frame, EndEffect, RenewalEffect, ReceivesEffect, RecoversEffect,
      SupersedesEffect, OwnsEffect, RoomEffect, AnswersEffect, CrashEffect, history,
      leaving
<1>10. CASE CrashEffect
  BY <1>1, <1>10, CrashLeases DEF ReachedInv
<1> SUFFICES ASSUME ~ CrashEffect PROVE SourceGuarded(s)'
  BY <1>10
<1>11. s \notin left
  BY <1>1
  DEF Effects, Effect, Frame, EndEffect, RenewalEffect, ReceivesEffect, RecoversEffect,
      SupersedesEffect, OwnsEffect, RoomEffect, AnswersEffect, history
<1>3. Orderly /\ SourceCarries(s) /\ SourceGuarded(s) /\ MemoryOwned(s)
  BY <1>1, <1>2, <1>11 DEF Orderly, EscapeInv, LeaseInv, OwnerInv
<1>4. ASSUME NEW g \in Runs, Effect(g) \/ EndEffect(g) PROVE SourceGuarded(s)'
  BY <1>1, <1>3, <1>4, EffectLeases, EndLeases
<1>5. ASSUME NEW t \in Sources, RenewalEffect(t) \/ ReceivesEffect(t) \/ RecoversEffect(t)
      PROVE  SourceGuarded(s)'
  BY <1>1, <1>3, <1>5, RenewalLeases, ReceiveLeases, RecoverLeases
<1>6. ASSUME NEW t \in Sources, SupersedesEffect(t) PROVE SourceGuarded(s)'
  BY <1>1, <1>3, <1>6, SupersedeLeases
<1>7. ASSUME NEW t \in Sources, NEW a \in Attempts, OwnsEffect(t, a) PROVE SourceGuarded(s)'
  BY <1>1, <1>3, <1>7, OwnLeases
<1>8. CASE RoomEffect \/ AnswersEffect
  BY <1>1, <1>3, <1>8, RoomLeases, AnswerLeases
<1>9. CASE /\ UNCHANGED <<file, mem, held, marked, renewal, send, dispatch, room>>
           /\ receive'.at # "claim" \/ receive' = receive
  <2>1. \A h \in Runs : RunOf(h, s)' <=> RunOf(h, s)
    BY <1>9 DEF RunOf, Working
  <2>2. Known(s)' /\ LeaseFirst(s)' /\ QueueGuarded(s)' /\ ClaimGuarded(s)'
    BY <1>3, <1>9, <2>1
    DEF SourceGuarded, Known, LeaseFirst, QueueGuarded, ClaimGuarded, Guarded, Has, Lease, Open,
        EndsFor, At
  <2>3. \A h \in Runs : RunOf(h, s)' => RunGuarded(h)'
    BY <1>3, <1>9, <2>1 DEF SourceGuarded, RunGuarded, Guarded, Has, Lease, Open, At
  <2> QED BY <2>2, <2>3 DEF SourceGuarded
<1> QED BY <1>1, <1>4, <1>5, <1>6, <1>7, <1>8, <1>9 DEF Effects

\* No lease is kept for a source that has its outcome.
THEOREM LeasesReturn == Spec => []LeaseIsReturned
<1> DEFINE Inv == /\ TypeInv /\ GateInv /\ CompletedFirst /\ OwnerInv /\ AnswerInv
                  /\ EscapeInv /\ ReachedInv /\ LeaseInv
<1>1. Init => Inv
  BY InitTypes, InitGate, InitCompleted, InitOwner, InitAnswer, InitEscape, InitReached,
     InitLease
<1>2. Inv /\ [Next]_vars => Inv'
  <2> SUFFICES ASSUME Inv, [Next]_vars PROVE Inv'
    OBVIOUS
  <2>1. TypeInv' /\ GateInv' /\ CompletedFirst' /\ OwnerInv' /\ AnswerInv' /\ EscapeInv'
        /\ ReachedInv'
    BY TypesStep, GateStep, CompletedStep, OwnerStep, AnswersStep, EscapeStep, ReachedStep
  <2> QED BY <2>1, LeaseStep
<1>3. Inv => LeaseIsReturned
  BY DEF LeaseInv, Orderly, SourceGuarded, LeaseFirst, LeaseIsReturned, Has, Lease, TypeInv,
         BindingTypes, Binding
<1> QED BY <1>1, <1>2, <1>3, PTL DEF Spec
=============================================================================
