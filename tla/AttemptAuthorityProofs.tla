------------------------ MODULE AttemptAuthorityProofs ------------------------
(***************************************************************************)
(* Proofs about AttemptAuthority, for any number of sources, attempts and  *)
(* generations: its types, the one run of the Room, the finality of a      *)
(* loss, and that no completed source is at work.                          *)
(***************************************************************************)
EXTENDS AttemptAuthority, TLAPS, WellFoundedInduction

-----------------------------------------------------------------------------
(***************************************************************************)
(* The first source of a queue                                             *)
(***************************************************************************)
Less == {ss \in Nat \X Nat : ss[1] < ss[2]}

LEMMA NatHasLess == IsWellFoundedOn(Less, Nat)
<1>1. OpToRel(<, Nat) = Less
  BY Zenon DEF OpToRel, Less
<1> QED BY <1>1, NatLessThanWellFounded

\* First chooses a member.
LEMMA FirstIsMember ==
  ASSUME NEW S, S \subseteq Nat, S # {} PROVE First(S) \in S
<1>1. PICK i \in S : \A j \in S : ~ (<<j, i>> \in Less)
  BY NatHasLess, WFMin
<1>2. \A j \in S : i <= j
  <2>1. \A j, k \in Nat : j < k => <<j, k>> \in Less
    BY DEF Less
  <2>2. ASSUME NEW j \in S PROVE ~ (j < i)
    BY <1>1, <2>1
  <2> QED BY <2>2
<1> QED BY <1>2 DEF First

-----------------------------------------------------------------------------
(***************************************************************************)
(* Types                                                                   *)
(***************************************************************************)
Gen ==
  [at : {"idle", "over"} \cup SendSteps, source : 0 .. N, attempt : 0 .. MaxAttempts,
   answer : Answers, model : BOOLEAN, again : BOOLEAN]
Renewing ==
  [at : {"asleep", "claim"}, attempt : Attempts, answer : Answers]
Receiving ==
  [at : {"claim"}, source : Sources, attempt : Nat, answer : Answers,
   model : BOOLEAN, again : BOOLEAN]
  \cup [at : {"recovers"}, source : Sources, attempt : Runs, answer : Answers,
        model : BOOLEAN, again : BOOLEAN]
Gate ==
  [queue : SUBSET Sources, active : 0 .. MaxDispatch, inflight : [Sources -> 0 .. MaxDispatch]]
Working(g) == send[g].at \in SendSteps

BindingTypes == file \in Binding /\ mem \in Binding /\ upsets \in 0 .. MaxUpsets
SendTypes ==
  /\ send \in [Runs -> Gen]
  /\ \A g \in Runs : IF Working(g) THEN send[g].source \in Sources
                                   ELSE send[g].answer = None
RenewalTypes ==
  /\ renewal \in [Sources -> Renewing \cup {NoRenewal}]
  /\ held \in [Sources -> 0 .. MaxAttempts] /\ marked \subseteq Sources
ReceiveTypes == receive \in Receiving \cup {Idle}
GateTypes == dispatch \in Gate /\ watch \in {"running", "dead"}
RoomTypes == room \in [attempt : 0 .. MaxAttempts, open : BOOLEAN]
HistoryTypes ==
  freed \subseteq Runs /\ late \subseteq Sources /\ left \subseteq Sources /\ torn \in BOOLEAN

\* TypeOK by parts, with the whole record of every task.
TypeInv ==
  /\ BindingTypes /\ SendTypes /\ RenewalTypes /\ ReceiveTypes
  /\ GateTypes /\ RoomTypes /\ HistoryTypes

LEMMA SmallNumbers ==
  /\ 0 \in 0 .. N /\ Sources \subseteq 0 .. N /\ Sources \subseteq Nat
  /\ None \in 0 .. MaxAttempts /\ Attempts \subseteq 0 .. MaxAttempts
  /\ 0 .. MaxAttempts \subseteq Answers /\ Waiting \in Answers
  /\ Waiting \notin 0 .. MaxAttempts /\ None \notin Attempts
  /\ 0 \in 0 .. MaxDispatch /\ Runs \subseteq 0 .. MaxDispatch
  /\ Runs \subseteq Nat /\ 0 \notin Runs
  /\ 0 \in Nat
  /\ \A x \in 0 .. MaxAttempts : x # None => x \in Attempts
BY AuthorityAssumption DEF Sources, Attempts, Runs, None, Waiting, Answers

LEMMA IdleTypes == Idle \in Gen /\ Idle \notin Receiving /\ NoRenewal \notin Renewing
BY SmallNumbers DEF Idle, Gen, Receiving, NoRenewal, Renewing

LEMMA TypesHold == TypeInv => TypeOK
<1>1. ASSUME TypeInv PROVE TypeOK
  <2>1. \A s \in Sources :
          \/ renewal[s] = NoRenewal
          \/ /\ renewal[s].at \in {"asleep", "claim"} /\ renewal[s].attempt \in Attempts
             /\ renewal[s].answer \in Answers
    BY <1>1 DEF TypeInv, RenewalTypes, Renewing
  <2>2. \/ receive = Idle
        \/ receive.at = "claim" /\ receive.source \in Sources /\ receive.answer \in Answers
        \/ receive.at = "recovers" /\ receive.source \in Sources /\ receive.attempt \in Runs
    BY <1>1 DEF TypeInv, ReceiveTypes, Receiving
  <2>3. \A g \in Runs :
          \/ send[g].at \in {"idle", "over"}
          \/ /\ send[g].at \in SendSteps /\ send[g].source \in Sources
             /\ send[g].attempt \in 0 .. MaxAttempts /\ send[g].answer \in Answers
    BY <1>1 DEF TypeInv, SendTypes, Gen, Working
  <2> QED
    BY <1>1, <2>1, <2>2, <2>3
    DEF TypeInv, TypeOK, BindingTypes, RenewalTypes, GateTypes, Gate, RoomTypes, HistoryTypes
<1> QED BY <1>1

LEMMA InitTypes == Init => TypeInv
<1> SUFFICES ASSUME Init PROVE TypeInv
  OBVIOUS
<1>1. BindingTypes
  BY SmallNumbers, AuthorityAssumption DEF Init, BindingTypes, Binding
<1>2. SendTypes
  BY IdleTypes DEF Init, SendTypes, Working, Idle, SendSteps
<1>3. RenewalTypes /\ ReceiveTypes
  BY SmallNumbers DEF Init, RenewalTypes, ReceiveTypes
<1>4. GateTypes
  BY SmallNumbers DEF Init, GateTypes, Gate, NoDispatch
<1>5. RoomTypes /\ HistoryTypes
  BY SmallNumbers DEF Init, RoomTypes, HistoryTypes, None
<1> QED BY <1>1, <1>2, <1>3, <1>4, <1>5 DEF TypeInv

\* The binding after a write, saved or not.
LEMMA MergedType ==
  ASSUME BindingTypes, NEW m \in Binding
  PROVE  /\ Merged(m) \in Binding
         /\ Merged(m).owner = m.owner /\ Merged(m).intent = m.intent
         /\ Merged(m).cycle = m.cycle /\ Merged(m).settled = m.settled
         /\ \A s \in Sources, a \in Attempts :
              Merged(m).authority[s][a] =
                IF file.authority[s][a] = "superseded" THEN "superseded" ELSE m.authority[s][a]
<1> DEFINE authority ==
             [s \in Sources |-> [a \in Attempts |->
                IF file.authority[s][a] = "superseded" THEN "superseded" ELSE m.authority[s][a]]]
<1>1. authority \in [Sources -> [Attempts -> {"none", "active", "superseded"}]]
  BY DEF BindingTypes, Binding
<1>2. Merged(m) = [m EXCEPT !.authority = authority]
  BY DEF Merged
<1>3. \A s \in Sources, a \in Attempts :
        authority[s][a] = IF file.authority[s][a] = "superseded" THEN "superseded"
                          ELSE m.authority[s][a]
  OBVIOUS
<1> HIDE DEF authority
<1>4. Merged(m) \in Binding
  BY <1>1, <1>2 DEF Binding
<1>5. /\ Merged(m).owner = m.owner /\ Merged(m).intent = m.intent
      /\ Merged(m).cycle = m.cycle /\ Merged(m).settled = m.settled
      /\ Merged(m).authority = authority
  BY <1>2 DEF Binding
<1> QED BY <1>3, <1>4, <1>5

LEMMA PersistTypes ==
  ASSUME BindingTypes, NEW m \in Binding, NEW o, Persist(m, o)
  PROVE  /\ BindingTypes'
         /\ mem'.owner = m.owner /\ mem'.intent = m.intent /\ mem'.cycle = m.cycle
         /\ mem'.settled = m.settled
         /\ o = "ok" => mem' = Merged(m) /\ file' = Merged(m)
         /\ o # "ok" => mem' = m /\ file' = file
BY MergedType, AuthorityAssumption DEF Persist, BindingTypes

LEMMA SettledType ==
  ASSUME BindingTypes, NEW s \in Sources
  PROVE  /\ Settled(s) \in Binding
         /\ Settled(s).settled = mem.settled \cup {s}
         /\ Settled(s).owner = GivenUp(s) /\ Settled(s).authority = mem.authority
         /\ Settled(s).intent = [mem.intent EXCEPT ![s] = "none"]
         /\ Settled(s).cycle = [mem.cycle EXCEPT ![s] = None]
<1>1. GivenUp(s) \in [Attempts -> 0 .. N]
  BY SmallNumbers DEF GivenUp, BindingTypes, Binding
<1> DEFINE m1 == [mem EXCEPT !.settled = @ \cup {s}]
           m2 == [m1 EXCEPT !.owner = GivenUp(s)]
           m3 == [m2 EXCEPT !.intent[s] = "none"]
           m4 == [m3 EXCEPT !.cycle[s] = None]
<1>2. m1 \in Binding /\ m1.settled = mem.settled \cup {s} /\ m1.authority = mem.authority
      /\ m1.intent = mem.intent /\ m1.cycle = mem.cycle
  <2>1. mem.settled \cup {s} \in SUBSET Sources
    BY DEF BindingTypes, Binding
  <2> QED BY <2>1 DEF BindingTypes, Binding
<1>3. m2 \in Binding /\ m2.settled = m1.settled /\ m2.authority = m1.authority
      /\ m2.intent = m1.intent /\ m2.cycle = m1.cycle /\ m2.owner = GivenUp(s)
  <2> HIDE DEF m1
  <2> QED BY <1>1, <1>2 DEF Binding
<1>4. m3 \in Binding /\ m3.settled = m2.settled /\ m3.authority = m2.authority
      /\ m3.intent = [m2.intent EXCEPT ![s] = "none"] /\ m3.cycle = m2.cycle
      /\ m3.owner = m2.owner
  <2> HIDE DEF m2
  <2> QED BY <1>3 DEF Binding
<1>5. m4 \in Binding /\ m4.settled = m3.settled /\ m4.authority = m3.authority
      /\ m4.intent = m3.intent /\ m4.cycle = [m3.cycle EXCEPT ![s] = None]
      /\ m4.owner = m3.owner
  <2> HIDE DEF m3
  <2> QED BY <1>4, SmallNumbers DEF Binding
<1>6. Settled(s) = m4
  BY DEF Settled
<1> HIDE DEF m1, m2, m3, m4
<1> QED BY <1>2, <1>3, <1>4, <1>5, <1>6

LEMMA BindingUpdates ==
  ASSUME BindingTypes, NEW m \in Binding, NEW s \in Sources
  PROVE  /\ \A a \in Attempts, v \in {"none", "active", "superseded"} :
              /\ With(m, s, a, v) \in Binding
              /\ With(m, s, a, v).authority[s][a] = v
              /\ \A t \in Sources, b \in Attempts : t # s \/ b # a =>
                   With(m, s, a, v).authority[t][b] = m.authority[t][b]
              /\ With(m, s, a, v).owner = m.owner /\ With(m, s, a, v).intent = m.intent
              /\ With(m, s, a, v).cycle = m.cycle /\ With(m, s, a, v).settled = m.settled
         /\ Settled(s) \in Binding
         /\ Quarantined(m, s) \in Binding
         /\ \A a \in Attempts : [m EXCEPT !.owner[a] = s] \in Binding
         /\ \A i \in {"skip", "selected", "frozen", "posted", "quarantined"},
               a \in 0 .. MaxAttempts : [m EXCEPT !.intent[s] = i, !.cycle[s] = a] \in Binding
<1>1. ASSUME NEW a \in Attempts, NEW v \in {"none", "active", "superseded"}
      PROVE  /\ With(m, s, a, v) \in Binding
             /\ With(m, s, a, v).authority[s][a] = v
             /\ \A t \in Sources, b \in Attempts : t # s \/ b # a =>
                  With(m, s, a, v).authority[t][b] = m.authority[t][b]
             /\ With(m, s, a, v).owner = m.owner /\ With(m, s, a, v).intent = m.intent
             /\ With(m, s, a, v).cycle = m.cycle /\ With(m, s, a, v).settled = m.settled
  BY DEF With, Binding
<1>2. Settled(s) \in Binding
  BY SettledType
<1>3. Quarantined(m, s) \in Binding
  BY DEF Quarantined, Binding
<1>4. \A a \in Attempts : [m EXCEPT !.owner[a] = s] \in Binding
  BY SmallNumbers DEF Binding
<1>5. \A i \in {"skip", "selected", "frozen", "posted", "quarantined"},
         a \in 0 .. MaxAttempts : [m EXCEPT !.intent[s] = i, !.cycle[s] = a] \in Binding
  BY DEF Binding
<1> QED BY <1>1, <1>2, <1>3, <1>4, <1>5

-----------------------------------------------------------------------------
(***************************************************************************)
(* A generation moves, the next one starts                                 *)
(***************************************************************************)
LEMMA SendUpdate ==
  ASSUME SendTypes, NEW g \in Runs, NEW x \in Gen, x.at \in SendSteps, x.source \in Sources,
         send' = [send EXCEPT ![g] = x]
  PROVE  SendTypes' /\ send'[g] = x /\ \A h \in Runs : h # g => send'[h] = send[h]
BY DEF SendTypes, Working

\* A generation at work that moves keeps its source and all but its answer.
LEMMA MovesTypes ==
  ASSUME SendTypes, NEW g \in Runs, Working(g), NEW at \in SendSteps,
         Moves(g, at) \/ Claims(g, at)
  PROVE  /\ SendTypes' /\ \A h \in Runs : h # g => send'[h] = send[h]
         /\ send'[g].at = at /\ send'[g].source = send[g].source
         /\ send'[g].attempt = send[g].attempt /\ send'[g].model = send[g].model
         /\ send'[g].again = send[g].again
         /\ send'[g].answer = IF Moves(g, at) THEN None ELSE Waiting
<1>1. CASE Moves(g, at)
  <2> DEFINE x == [send[g] EXCEPT !.at = at, !.answer = None]
  <2>1. x \in Gen /\ x.at = at /\ x.source = send[g].source /\ x.attempt = send[g].attempt
        /\ x.model = send[g].model /\ x.again = send[g].again /\ x.answer = None
    BY SmallNumbers DEF SendTypes, Gen
  <2>2. send' = [send EXCEPT ![g] = x]
    BY <1>1 DEF Moves, SendTypes
  <2> HIDE DEF x
  <2> QED BY <1>1, <2>1, <2>2, SendUpdate DEF SendTypes, Working
<1>2. CASE Claims(g, at) /\ ~ Moves(g, at)
  <2> DEFINE x == [send[g] EXCEPT !.at = at, !.answer = Waiting]
  <2>1. x \in Gen /\ x.at = at /\ x.source = send[g].source /\ x.attempt = send[g].attempt
        /\ x.model = send[g].model /\ x.again = send[g].again /\ x.answer = Waiting
    BY SmallNumbers DEF SendTypes, Gen
  <2>2. send' = [send EXCEPT ![g] = x]
    BY <1>2 DEF Claims, SendTypes
  <2> HIDE DEF x
  <2> QED BY <1>2, <2>1, <2>2, SendUpdate DEF SendTypes, Working
<1> QED BY <1>1, <1>2

LEMMA StartedType ==
  ASSUME NEW s \in Sources
  PROVE  /\ Started(s) \in Gen /\ Started(s).at = "running" /\ Started(s).source = s
         /\ Started(s).attempt = None /\ Started(s).again = FALSE
         /\ Started(s).model = (mem'.intent[s] = "none")
         /\ Started(s).answer = None
BY SmallNumbers DEF Started, Gen, SendSteps

\* What a dispatch does, for the gate d and the generations gs it starts from.
Starts(d, gs, g, s) ==
  /\ send[g] = Idle /\ s \in d.queue /\ s \notin mem'.settled
  /\ send' = [gs EXCEPT ![g] = Started(s)]
  /\ dispatch' = [queue |-> dispatch'.queue, active |-> g,
                  inflight |-> [d.inflight EXCEPT ![s] = g]]
  /\ dispatch'.queue \subseteq d.queue
  /\ send'[g].model => s \notin dispatch'.queue
StartsNone(d, gs) ==
  send' = gs /\ dispatch' = [d EXCEPT !.queue = dispatch'.queue]
  /\ dispatch'.queue \subseteq d.queue

\* No claim of the receive boundary begins; one that waited is over.
ClaimsNot(waits) ==
  (receive' = receive /\ ~ waits) \/ receive'.at # "claim"

LEMMA StartsNextCases ==
  ASSUME NEW d \in Gate, NEW gs \in [Runs -> Gen], NEW waits \in BOOLEAN, ReceiveTypes,
         StartsNext(d, gs, waits)
  PROVE  /\ StartsNone(d, gs) \/ \E g \in Runs, s \in Sources : Starts(d, gs, g, s)
         /\ ReceiveTypes' /\ ClaimsNot(waits)
<1> DEFINE ready == Ready(d.queue)
           s == First(ready)
           g == First(Free)
<1>1. ready \subseteq d.queue /\ ready \subseteq Sources /\ Free \subseteq Runs
      /\ \A t \in ready : t \notin mem'.settled
  BY DEF Ready, Gate, Free
<1>2. CASE ready = {} \/ Free = {}
  <2>1. dispatch' = [d EXCEPT !.queue = ready] /\ send' = gs
        /\ receive' = IF waits THEN Idle ELSE receive
    BY <1>2 DEF StartsNext
  <2>2. dispatch'.queue = ready
    BY <2>1 DEF Gate
  <2> QED BY <1>1, <2>1, <2>2 DEF StartsNone, ReceiveTypes, ClaimsNot, Idle
<1>3. CASE ready # {} /\ Free # {}
  <2>1. s \in ready /\ g \in Free
    BY <1>1, <1>3, FirstIsMember, SmallNumbers
  <2>2. s \in Sources /\ g \in Runs /\ send[g] = Idle
    BY <1>1, <2>1 DEF Free
  <2>3. /\ send' = [gs EXCEPT ![g] = Started(s)]
        /\ dispatch' = [queue |-> IF send'[g].model THEN ready \ {s} ELSE ready,
                        active |-> g, inflight |-> [d.inflight EXCEPT ![s] = g]]
        /\ receive' = IF ~ waits THEN receive
                      ELSE IF send'[g].model THEN Idle
                      ELSE [Idle EXCEPT !.at = "recovers", !.source = s, !.attempt = g]
    BY <1>3 DEF StartsNext
  <2> HIDE DEF s, g, ready
  <2>4. dispatch'.queue \subseteq ready
    BY <2>3
  <2>5. Starts(d, gs, g, s)
    <3>1. send'[g].model => s \notin dispatch'.queue
      BY <2>3
    <3> QED BY <1>1, <2>1, <2>2, <2>3, <2>4, <3>1 DEF Starts
  <2>6. [Idle EXCEPT !.at = "recovers", !.source = s, !.attempt = g] \in Receiving
    BY <2>2, SmallNumbers DEF Idle, Receiving
  <2>7. [Idle EXCEPT !.at = "recovers", !.source = s, !.attempt = g].at # "claim"
        /\ Idle.at # "claim"
    BY DEF Idle
  <2> QED BY <2>2, <2>3, <2>5, <2>6, <2>7 DEF ReceiveTypes, ClaimsNot
<1> QED BY <1>2, <1>3

LEMMA DispatchNextCases ==
  ASSUME NEW d \in Gate, NEW gs \in [Runs -> Gen], NEW waits \in BOOLEAN, ReceiveTypes,
         DispatchNext(d, gs, waits)
  PROVE  /\ StartsNone(d, gs) \/ (d.active = 0 /\ \E g \in Runs, s \in Sources :
                                                      Starts(d, gs, g, s))
         /\ ReceiveTypes' /\ ClaimsNot(waits)
<1>1. CASE d.active = 0
  BY <1>1, StartsNextCases DEF DispatchNext
<1>2. CASE d.active # 0
  <2>1. dispatch' = d /\ send' = gs /\ receive' = IF waits THEN Idle ELSE receive
    BY <1>2 DEF DispatchNext
  <2>2. d = [d EXCEPT !.queue = d.queue]
    BY DEF Gate
  <2> QED BY <2>1, <2>2 DEF StartsNone, ReceiveTypes, ClaimsNot, Idle
<1> QED BY <1>1, <1>2

LEMMA StartsTypes ==
  ASSUME NEW d \in Gate, NEW gs \in [Runs -> Gen],
         \A g \in Runs : IF gs[g].at \in SendSteps THEN gs[g].source \in Sources
                                                   ELSE gs[g].answer = None,
         StartsNone(d, gs) \/ \E g \in Runs, s \in Sources : Starts(d, gs, g, s)
  PROVE  dispatch' \in Gate /\ SendTypes'
<1>1. CASE StartsNone(d, gs)
  BY <1>1 DEF StartsNone, Gate, SendTypes, Working
<1>2. ASSUME NEW g \in Runs, NEW s \in Sources, Starts(d, gs, g, s)
      PROVE  dispatch' \in Gate /\ SendTypes'
  <2>1. dispatch' \in Gate
    <3>1. [d.inflight EXCEPT ![s] = g] \in [Sources -> 0 .. MaxDispatch]
      BY SmallNumbers DEF Gate
    <3>2. dispatch'.queue \in SUBSET Sources
      BY <1>2 DEF Starts, Gate
    <3>3. g \in 0 .. MaxDispatch
      BY SmallNumbers
    <3> QED BY <1>2, <3>1, <3>2, <3>3 DEF Starts, Gate
  <2>2. SendTypes'
    <3>1. send' = [gs EXCEPT ![g] = Started(s)]
      BY <1>2 DEF Starts
    <3> QED BY <3>1, StartedType DEF SendTypes, Working
  <2> QED BY <2>1, <2>2
<1> QED BY <1>1, <1>2

-----------------------------------------------------------------------------
(***************************************************************************)
(* The steps of a generation at work                                       *)
(***************************************************************************)
\* What a step leaves alone keeps its types.
LEMMA SameTypes ==
  ASSUME TypeInv
  PROVE  /\ UNCHANGED others => ReceiveTypes' /\ GateTypes' /\ RoomTypes' /\ HistoryTypes'
         /\ UNCHANGED binding => BindingTypes'
         /\ UNCHANGED <<held, marked, renewal>> => RenewalTypes'
         /\ UNCHANGED <<receive, dispatch, watch, history>> =>
              ReceiveTypes' /\ GateTypes' /\ HistoryTypes'
         /\ UNCHANGED <<receive, dispatch, watch, room>> =>
              ReceiveTypes' /\ GateTypes' /\ RoomTypes'
BY DEF TypeInv, others, binding, history, BindingTypes, RenewalTypes, ReceiveTypes, GateTypes,
       RoomTypes, HistoryTypes

\* A renewal is stopped, or its marker consumed.
LEMMA StopsTypes ==
  ASSUME RenewalTypes, NEW s \in Sources
  PROVE  /\ Stopped(s) \in [Sources -> Renewing \cup {NoRenewal}]
         /\ Stopped(s)[s] = NoRenewal /\ \A t \in Sources : t # s => Stopped(s)[t] = renewal[t]
         /\ Stops(s) /\ marked' = marked => RenewalTypes'
BY SmallNumbers DEF RenewalTypes, Stops, Stopped

LEMMA CompletedType ==
  ASSUME RoomTypes, NEW a
  PROVE  /\ Completed(a) \in [attempt : 0 .. MaxAttempts, open : BOOLEAN]
         /\ Completed(a).attempt = room.attempt
         /\ Completed(a).open = (room.open /\ room.attempt # a)
<1>1. (room.open /\ room.attempt # a) \in BOOLEAN
  OBVIOUS
<1> QED BY <1>1 DEF Completed, RoomTypes

\* Generation g goes on under the same source; no other moves, and neither the gate
\* nor an outcome changes.
Works(g) ==
  /\ Working(g) /\ Working(g)'
  /\ send'[g].source = send[g].source /\ send'[g].model = send[g].model
  /\ \A h \in Runs : h # g => send'[h] = send[h]
  /\ UNCHANGED <<dispatch, freed, late, receive>> /\ mem'.settled = mem.settled

LEMMA StepsAreSteps ==
  {"running", "state", "claim", "alone", "freeze", "replay", "first", "second", "sent",
   "pass", "receipt", "ended", "failed"} = SendSteps
BY DEF SendSteps

LEMMA BeginsStep ==
  ASSUME TypeInv, NEW g \in Runs, SendBegins(g) PROVE TypeInv' /\ Works(g)
<1> DEFINE x == [send[g] EXCEPT !.at = "state", !.attempt = held[send[g].source]]
<1>1. Working(g) /\ send[g].source \in Sources /\ send[g] \in Gen
  BY DEF SendBegins, At, SendSteps, Working, TypeInv, SendTypes
<1>2. held[send[g].source] \in 0 .. MaxAttempts
  BY <1>1 DEF TypeInv, RenewalTypes
<1>3. x \in Gen /\ x.at = "state" /\ x.source = send[g].source /\ x.model = send[g].model
  BY <1>1, <1>2, StepsAreSteps DEF Gen
<1>4. send' = [send EXCEPT ![g] = x]
  BY DEF SendBegins, TypeInv, SendTypes
<1> HIDE DEF x
<1>5. SendTypes' /\ send'[g] = x /\ \A h \in Runs : h # g => send'[h] = send[h]
  BY <1>1, <1>3, <1>4, SendUpdate, StepsAreSteps DEF TypeInv
<1>6. UNCHANGED <<binding, held, marked, renewal, others>>
  BY DEF SendBegins
<1>7. BindingTypes' /\ RenewalTypes' /\ ReceiveTypes' /\ GateTypes' /\ RoomTypes' /\ HistoryTypes'
  BY <1>6, SameTypes
<1> QED
  BY <1>1, <1>3, <1>5, <1>6, <1>7, StepsAreSteps
  DEF TypeInv, Works, Working, others, binding, history

LEMMA ResumesStep ==
  ASSUME TypeInv, NEW g \in Runs, SendResumes(g) PROVE TypeInv' /\ Works(g)
<1> DEFINE s == send[g].source
           x == [send[g] EXCEPT !.at = "receipt", !.attempt = mem.cycle[s], !.again = TRUE]
<1>1. Working(g) /\ s \in Sources /\ send[g] \in Gen
  BY DEF SendResumes, At, SendSteps, Working, TypeInv, SendTypes
<1>2. mem.cycle[s] \in 0 .. MaxAttempts
  BY <1>1 DEF TypeInv, BindingTypes, Binding
<1>3. x \in Gen /\ x.at = "receipt" /\ x.source = send[g].source /\ x.model = send[g].model
  BY <1>1, <1>2, StepsAreSteps DEF Gen
<1>4. send' = [send EXCEPT ![g] = x]
  BY DEF SendResumes, TypeInv, SendTypes
<1> HIDE DEF x
<1>5. SendTypes' /\ send'[g] = x /\ \A h \in Runs : h # g => send'[h] = send[h]
  BY <1>1, <1>3, <1>4, SendUpdate, StepsAreSteps DEF TypeInv
<1>6. UNCHANGED <<binding, held, others>>
  BY DEF SendResumes
<1>7. BindingTypes' /\ ReceiveTypes' /\ GateTypes' /\ RoomTypes' /\ HistoryTypes'
  BY <1>6, SameTypes
<1>8. RenewalTypes'
  BY <1>1, <1>6, StopsTypes DEF SendResumes, TypeInv, RenewalTypes
<1> QED
  BY <1>1, <1>3, <1>5, <1>6, <1>7, <1>8, StepsAreSteps
  DEF TypeInv, Works, Working, others, binding, history

\* Steps that only move, and may stop the renewal or consume its marker.
LEMMA MovingStep ==
  ASSUME TypeInv, NEW g \in Runs,
         \/ SendSuperseded(g) \/ SendFenced(g) \/ SendClaimed(g) \/ Checks(g)
         \/ SubmitsAlone(g) \/ SendRetries(g) \/ SendFails(g)
  PROVE  TypeInv' /\ Works(g)
<1> DEFINE s == send[g].source
<1>1. Working(g) /\ s \in Sources /\ send[g] \in Gen
  <2>1. send[g].answer = Waiting => Working(g)
    BY SmallNumbers DEF TypeInv, SendTypes
  <2>2. Working(g)
    BY <2>1
    DEF SendSuperseded, SendFenced, SendClaimed, Checks, SubmitsAlone, SendRetries, SendFails,
        SendAnswered, At, SendSteps, Working
  <2> QED BY <2>2 DEF TypeInv, SendTypes
<1>2. \E at \in SendSteps : Moves(g, at) \/ Claims(g, at)
  BY DEF SendSuperseded, SendFenced, SendClaimed, Checks, SubmitsAlone, SendRetries, SendFails,
         SendSteps
<1>3. SendTypes' /\ Working(g)' /\ send'[g].source = s /\ send'[g].model = send[g].model
      /\ \A h \in Runs : h # g => send'[h] = send[h]
  BY <1>1, <1>2, MovesTypes DEF TypeInv, Working
<1>4. UNCHANGED <<binding, others>>
  BY DEF SendSuperseded, SendFenced, SendClaimed, Checks, SubmitsAlone, SendRetries, SendFails
<1>5. BindingTypes' /\ ReceiveTypes' /\ GateTypes' /\ RoomTypes' /\ HistoryTypes'
  BY <1>4, SameTypes
<1>6. RenewalTypes'
  <2>1. CASE SendSuperseded(g)
    BY <1>1, <2>1, StopsTypes DEF SendSuperseded, TypeInv, RenewalTypes
  <2>2. CASE SendFenced(g)
    BY <1>1, <2>2, StopsTypes DEF SendFenced, TypeInv
  <2>3. CASE SendClaimed(g)
    BY <1>1, <2>3 DEF SendClaimed, TypeInv, RenewalTypes, Gen
  <2>4. CASE UNCHANGED <<held, marked, renewal>>
    BY <2>4, SameTypes
  <2> QED
    BY <2>1, <2>2, <2>3, <2>4 DEF Checks, SubmitsAlone, SendRetries, SendFails
<1> QED
  BY <1>1, <1>3, <1>4, <1>5, <1>6 DEF TypeInv, Works, others, binding, history

\* An outcome that leaves the renewal running.
LEMMA LeavingStep ==
  ASSUME TypeInv, NEW g \in Runs, SendStale(g) \/ PostRefused(g) PROVE TypeInv' /\ Works(g)
<1> DEFINE s == send[g].source
<1>1. Working(g) /\ s \in Sources /\ send[g] \in Gen
  <2>1. send[g].answer = Waiting => Working(g)
    BY SmallNumbers DEF TypeInv, SendTypes
  <2>2. Working(g)
    BY <2>1 DEF SendStale, PostRefused, At, SendSteps, Working
  <2> QED BY <2>2 DEF TypeInv, SendTypes
<1>2. Moves(g, "ended") /\ left' = left \cup {s}
      /\ UNCHANGED <<binding, held, marked, renewal, receive, dispatch, watch, room, leaving>>
  BY DEF SendStale, PostRefused, Leaving
<1>3. SendTypes' /\ Working(g)' /\ send'[g].source = s /\ send'[g].model = send[g].model
      /\ \A h \in Runs : h # g => send'[h] = send[h]
  BY <1>1, <1>2, MovesTypes, StepsAreSteps DEF TypeInv, Working
<1>4. BindingTypes' /\ RenewalTypes' /\ ReceiveTypes' /\ GateTypes' /\ RoomTypes'
  BY <1>2, SameTypes
<1>5. HistoryTypes'
  BY <1>1, <1>2 DEF TypeInv, HistoryTypes, leaving
<1> QED
  BY <1>1, <1>2, <1>3, <1>4, <1>5 DEF TypeInv, Works, binding, leaving

\* What the sender does in its own record.
Advances(g) ==
  /\ SendTypes' /\ Working(g)'
  /\ send'[g].source = send[g].source /\ send'[g].model = send[g].model
  /\ \A h \in Runs : h # g => send'[h] = send[h]

LEMMA MovesAdvance ==
  ASSUME TypeInv, NEW g \in Runs, Working(g), NEW at \in SendSteps,
         Moves(g, at) \/ Claims(g, at)
  PROVE  Advances(g)
BY MovesTypes DEF TypeInv, Working, Advances

LEMMA UpdateAdvances ==
  ASSUME TypeInv, NEW g \in Runs, Working(g), NEW x \in Gen, x.at \in SendSteps,
         x.source = send[g].source, x.model = send[g].model, send' = [send EXCEPT ![g] = x]
  PROVE  Advances(g)
<1>1. send[g].source \in Sources
  BY DEF TypeInv, SendTypes
<1> QED BY <1>1, SendUpdate DEF TypeInv, Working, Advances

\* Steps of the sender that write the binding.
LEMMA WritingStep ==
  ASSUME TypeInv, NEW g \in Runs, Working(g), Advances(g), NEW m \in Binding, NEW o,
         m.settled = mem.settled, Persist(m, o) \/ UNCHANGED binding,
         UNCHANGED <<held, marked, renewal, others>>
  PROVE  TypeInv' /\ Works(g)
<1>1. BindingTypes' /\ mem'.settled = mem.settled
  BY PersistTypes, SameTypes DEF TypeInv, binding
<1>2. RenewalTypes' /\ ReceiveTypes' /\ GateTypes' /\ RoomTypes' /\ HistoryTypes'
  BY SameTypes
<1> QED
  BY <1>1, <1>2 DEF TypeInv, Advances, Works, others, history

LEMMA SelectsPostStep ==
  ASSUME TypeInv, NEW g \in Runs, NEW o \in Saves, SelectsPost(g, o)
  PROVE  TypeInv' /\ Works(g)
<1> DEFINE s == send[g].source
           m == [mem EXCEPT !.intent[s] = "selected", !.cycle[s] = send[g].attempt]
           c == Chosen(g)
<1>1. Working(g) /\ s \in Sources /\ send[g] \in Gen /\ send[g].attempt \in 0 .. MaxAttempts
  BY DEF SelectsPost, At, SendSteps, Working, TypeInv, SendTypes, Gen
<1>2. mem.cycle[s] \in 0 .. MaxAttempts /\ mem \in Binding
  BY <1>1 DEF TypeInv, BindingTypes, Binding
<1>3. c \in 0 .. MaxAttempts
  BY <1>1, <1>2 DEF Chosen
<1>4. \E x \in Gen : /\ x.at \in SendSteps /\ x.source = s /\ x.model = send[g].model
                     /\ send' = [send EXCEPT ![g] = x]
  <2> DEFINE x == IF o # "ok" THEN [send[g] EXCEPT !.at = "failed"]
                  ELSE IF mem.intent[s] = "frozen"
                  THEN [send[g] EXCEPT !.at = "replay", !.attempt = mem.cycle[s], !.again = TRUE]
                  ELSE IF c = None THEN [send[g] EXCEPT !.at = "alone"]
                  ELSE [send[g] EXCEPT !.at = "claim", !.attempt = c, !.answer = Waiting]
  <2>1. send' = [send EXCEPT ![g] = x]
    BY DEF SelectsPost, TypeInv, SendTypes
  <2> HIDE DEF c
  <2>2. x \in Gen /\ x.at \in SendSteps /\ x.source = s /\ x.model = send[g].model
    BY <1>1, <1>2, <1>3, SmallNumbers, StepsAreSteps DEF Gen
  <2> QED BY <2>1, <2>2
<1>5. Advances(g)
  BY <1>1, <1>4, UpdateAdvances
<1>6. m \in Binding /\ m.settled = mem.settled
  BY <1>1, <1>2, BindingUpdates DEF TypeInv, Binding
<1>7. Persist(m, o) \/ UNCHANGED binding
  BY DEF SelectsPost, Selects
<1> QED
  BY <1>1, <1>5, <1>6, <1>7, WritingStep DEF SelectsPost

LEMMA SelectsSkipStep ==
  ASSUME TypeInv, NEW g \in Runs, NEW o \in Saves, SelectsSkip(g, o)
  PROVE  TypeInv' /\ Works(g)
<1> DEFINE s == send[g].source
           m == [mem EXCEPT !.intent[s] = "skip", !.cycle[s] = send[g].attempt]
           c == Chosen(g)
<1>1. Working(g) /\ s \in Sources /\ send[g] \in Gen /\ send[g].attempt \in 0 .. MaxAttempts
  BY DEF SelectsSkip, At, SendSteps, Working, TypeInv, SendTypes, Gen
<1>2. mem.cycle[s] \in 0 .. MaxAttempts /\ mem \in Binding
  BY <1>1 DEF TypeInv, BindingTypes, Binding
<1>3. c \in 0 .. MaxAttempts
  BY <1>1, <1>2 DEF Chosen
<1>4. \E x \in Gen : /\ x.at \in SendSteps /\ x.source = s /\ x.model = send[g].model
                     /\ send' = [send EXCEPT ![g] = x]
  <2> DEFINE x == IF o # "ok" THEN [send[g] EXCEPT !.at = "failed"]
                  ELSE IF c = None THEN [send[g] EXCEPT !.at = "ended"]
                  ELSE [send[g] EXCEPT !.at = "pass", !.attempt = c]
  <2>1. send' = [send EXCEPT ![g] = x]
    BY DEF SelectsSkip, TypeInv, SendTypes
  <2> HIDE DEF c
  <2>2. x \in Gen /\ x.at \in SendSteps /\ x.source = s /\ x.model = send[g].model
    BY <1>1, <1>2, <1>3, SmallNumbers, StepsAreSteps DEF Gen
  <2> QED BY <2>1, <2>2
<1>5. Advances(g)
  BY <1>1, <1>4, UpdateAdvances
<1>6. m \in Binding /\ m.settled = mem.settled
  BY <1>1, <1>2, BindingUpdates DEF TypeInv, Binding
<1>7. Persist(m, o) \/ UNCHANGED binding
  BY DEF SelectsSkip, Selects
<1> QED
  BY <1>1, <1>5, <1>6, <1>7, WritingStep DEF SelectsSkip

LEMMA FreezesStep ==
  ASSUME TypeInv, NEW g \in Runs, NEW o \in Saves, Freezes(g, o) \/ SendReceives(g, o)
  PROVE  TypeInv' /\ Works(g)
<1> DEFINE s == send[g].source
           m1 == [mem EXCEPT !.intent[s] = "frozen", !.cycle[s] = send[g].attempt]
           m2 == [mem EXCEPT !.intent[s] = "posted", !.cycle[s] = send[g].attempt]
<1>1. Working(g) /\ s \in Sources /\ send[g].attempt \in 0 .. MaxAttempts
  BY DEF Freezes, SendReceives, At, SendSteps, Working, TypeInv, SendTypes, Gen
<1>2. mem \in Binding /\ BindingTypes
  BY DEF TypeInv, BindingTypes
<1>3. /\ m1 \in Binding /\ m1.settled = mem.settled
      /\ m2 \in Binding /\ m2.settled = mem.settled
  BY <1>1, <1>2, BindingUpdates DEF Binding
<1>4. Persist(m1, o) \/ Persist(m2, o)
  BY DEF Freezes, SendReceives, Frozen
<1>5. \E at \in SendSteps : Moves(g, at)
  BY DEF Freezes, SendReceives, SendSteps
<1>6. Advances(g)
  BY <1>1, <1>5, MovesAdvance
<1>7. UNCHANGED <<held, marked, renewal, others>>
  BY DEF Freezes, SendReceives
<1> HIDE DEF m1, m2
<1> QED
  BY <1>1, <1>3, <1>4, <1>6, <1>7, WritingStep

LEMMA WithType ==
  ASSUME NEW m \in Binding, NEW s, NEW a, NEW v \in {"none", "active", "superseded"}
  PROVE  /\ With(m, s, a, v) \in Binding
         /\ With(m, s, a, v).owner = m.owner /\ With(m, s, a, v).intent = m.intent
         /\ With(m, s, a, v).cycle = m.cycle /\ With(m, s, a, v).settled = m.settled
<1> DEFINE authority == [m.authority EXCEPT ![s][a] = v]
<1>1. authority \in [Sources -> [Attempts -> {"none", "active", "superseded"}]]
  BY DEF Binding
<1>2. With(m, s, a, v) = [m EXCEPT !.authority = authority]
  BY DEF With, Binding
<1> HIDE DEF authority
<1> QED BY <1>1, <1>2 DEF Binding

LEMMA RefreshStep ==
  ASSUME TypeInv, NEW g \in Runs, NEW o \in Saves,
         \/ RefreshLoses(g, o) \/ RefreshDenied(g, o) \/ Refreshes(g, o)
         \/ ReplayStops(g, o)
  PROVE  TypeInv' /\ Works(g)
<1> DEFINE s == send[g].source
           a == send[g].attempt
           lost == With(mem, s, a, "superseded")
           kept == With(mem, s, a, "active")
<1>1. Working(g) /\ s \in Sources
  BY DEF RefreshLoses, RefreshDenied, Refreshes, ReplayStops, Refreshing, SendAnswered, At,
         SendSteps, Working, TypeInv, SendTypes
<1>2. mem \in Binding /\ BindingTypes
  BY DEF TypeInv, BindingTypes
<1>3. lost \in Binding /\ kept \in Binding /\ lost.settled = mem.settled
      /\ kept.settled = mem.settled
  BY <1>2, WithType
<1> HIDE DEF lost, kept
<1>4. \A m \in Binding :
        Quarantined(m, s) \in Binding /\ Quarantined(m, s).settled = m.settled
  BY <1>1, <1>2, BindingUpdates DEF Quarantined, Binding
<1>5. UNCHANGED binding \/ \E m \in Binding : m.settled = mem.settled /\ Persist(m, o)
  <2>1. \/ UNCHANGED binding
        \/ Persist(Quarantined(lost, s), o) \/ Persist(Quarantined(mem, s), o)
        \/ Persist(Quarantined(kept, s), o) \/ Persist(kept, o) \/ Persist(lost, o)
    BY DEF RefreshLoses, RefreshDenied, Refreshes, ReplayStops, Failed, lost, kept
  <2> QED BY <1>2, <1>3, <1>4, <2>1
<1>6. \E at \in SendSteps : Moves(g, at) \/ Claims(g, at)
  BY DEF RefreshLoses, RefreshDenied, Refreshes, ReplayStops, SendSteps
<1>7. Advances(g)
  BY <1>1, <1>6, MovesAdvance
<1>8. CASE UNCHANGED <<held, marked, renewal, others>>
  BY <1>1, <1>2, <1>5, <1>7, <1>8, WritingStep
<1>9. CASE Stops(s) /\ UNCHANGED <<marked, others>>
  <2>1. BindingTypes' /\ mem'.settled = mem.settled
    BY <1>2, <1>5, PersistTypes, SameTypes DEF binding
  <2>2. RenewalTypes'
    BY <1>1, <1>9, StopsTypes DEF TypeInv
  <2>3. ReceiveTypes' /\ GateTypes' /\ RoomTypes' /\ HistoryTypes'
    BY <1>9, SameTypes
  <2> QED BY <1>1, <1>7, <1>9, <2>1, <2>2, <2>3 DEF TypeInv, Advances, Works, others, history
<1> QED
  BY <1>8, <1>9 DEF RefreshLoses, RefreshDenied, Refreshes, ReplayStops

\* Steps that tell the Room of an attempt.
LEMMA CompletingStep ==
  ASSUME TypeInv, NEW g \in Runs, NEW o \in Saves,
         SendPasses(g) \/ PassFails(g) \/ SendCompletes(g) \/ CompletionFails(g, o)
  PROVE  TypeInv' /\ Works(g)
<1> DEFINE s == send[g].source
           given == [mem EXCEPT !.owner = GivenUp(s)]
<1>1. Working(g) /\ s \in Sources
  BY DEF SendPasses, PassFails, SendCompletes, CompletionFails, At, SendSteps, Working,
         TypeInv, SendTypes
<1>2. \E at \in SendSteps : Moves(g, at)
  BY DEF SendPasses, PassFails, SendCompletes, CompletionFails, SendSteps
<1>3. Advances(g)
  BY <1>1, <1>2, MovesAdvance
<1>4. UNCHANGED <<receive, dispatch, watch, history>>
  BY DEF SendPasses, PassFails, SendCompletes, CompletionFails
<1>5. ReceiveTypes' /\ GateTypes' /\ HistoryTypes'
  BY <1>4, SameTypes
<1>8. BindingTypes' /\ mem'.settled = mem.settled
  <2>1. UNCHANGED binding \/ Persist(given, o) \/ Persist(mem, o)
    BY DEF SendPasses, PassFails, SendCompletes, CompletionFails
  <2>2. GivenUp(s) \in [Attempts -> 0 .. N]
    BY SmallNumbers DEF GivenUp, TypeInv, BindingTypes, Binding
  <2>3. given \in Binding /\ given.settled = mem.settled /\ mem \in Binding
    BY <2>2 DEF TypeInv, BindingTypes, Binding
  <2> HIDE DEF given
  <2> QED BY <2>1, <2>3, PersistTypes, SameTypes DEF TypeInv, binding
<1>6. RoomTypes'
  <2>1. room' \in {room, Completed(send[g].attempt)}
    BY DEF SendPasses, PassFails, SendCompletes, CompletionFails
  <2> QED BY <2>1, CompletedType DEF TypeInv, RoomTypes
<1>7. RenewalTypes'
  <2>1. marked' = marked /\ (Stops(s) \/ UNCHANGED <<held, renewal>>)
    BY DEF SendPasses, PassFails, SendCompletes, CompletionFails
  <2> QED BY <1>1, <2>1, StopsTypes, SameTypes DEF TypeInv
<1> QED
  BY <1>1, <1>3, <1>4, <1>5, <1>6, <1>7, <1>8 DEF TypeInv, Advances, Works, history

-----------------------------------------------------------------------------
(***************************************************************************)
(* The steps of the other tasks                                            *)
(***************************************************************************)
\* No generation moves, and neither the gate nor an outcome changes.
NoRunMoves ==
  UNCHANGED <<dispatch, freed, late, watch>> /\ mem'.settled = mem.settled

LEMMA RoomStep ==
  ASSUME TypeInv, RoomOpens \/ RoomEnds PROVE TypeInv' /\ NoRunMoves /\ UNCHANGED <<send, receive>>
<1>1. room' \in [attempt : 0 .. MaxAttempts, open : BOOLEAN]
  <2>1. CASE RoomOpens
    <3>1. room.attempt + 1 \in 0 .. MaxAttempts
      BY <2>1, AuthorityAssumption DEF RoomOpens, TypeInv, RoomTypes
    <3> QED BY <2>1, <3>1 DEF RoomOpens, TypeInv, RoomTypes
  <2>2. CASE RoomEnds
    BY <2>2 DEF RoomEnds, TypeInv, RoomTypes
  <2> QED BY <2>1, <2>2
<1>2. UNCHANGED <<binding, process, history>>
  BY DEF RoomOpens, RoomEnds
<1> QED
  BY <1>1, <1>2, SameTypes
  DEF TypeInv, RoomTypes, SendTypes, Working, GateTypes, NoRunMoves, binding, process, history

LEMMA OpenIsAnAnswer == ASSUME RoomTypes PROVE Open \in 0 .. MaxAttempts
BY SmallNumbers DEF RoomTypes, Open

\* An answer reaches its task.
LEMMA AnswerStep ==
  ASSUME TypeInv, ClaimAnswered
  PROVE  /\ TypeInv' /\ NoRunMoves
         /\ \A g \in Runs : /\ send'[g].at = send[g].at /\ send'[g].source = send[g].source
                            /\ send'[g].model = send[g].model
                            /\ send'[g].attempt = send[g].attempt
         /\ receive'.at = receive.at /\ receive'.source = receive.source
         /\ receive'.attempt = receive.attempt
<1>1. Open \in 0 .. MaxAttempts /\ Open \in Answers
  BY OpenIsAnAnswer, SmallNumbers DEF TypeInv
<1>2. UNCHANGED <<binding, held, marked, dispatch, watch, room, history>>
  BY DEF ClaimAnswered
<1>3. BindingTypes' /\ GateTypes' /\ RoomTypes' /\ HistoryTypes' /\ NoRunMoves
  BY <1>2 DEF TypeInv, BindingTypes, GateTypes, RoomTypes, HistoryTypes, NoRunMoves,
              binding, history
<1>4. CASE receive.answer = Waiting /\ receive' = [receive EXCEPT !.answer = Open]
           /\ UNCHANGED <<renewal, send>>
  <2>1. receive \in Receiving
    BY <1>4, SmallNumbers DEF TypeInv, ReceiveTypes, Idle
  <2>2. receive' \in Receiving /\ receive'.at = receive.at /\ receive'.source = receive.source
        /\ receive'.attempt = receive.attempt
    BY <1>1, <1>4, <2>1 DEF Receiving
  <2> QED
    BY <1>2, <1>3, <1>4, <2>2 DEF TypeInv, ReceiveTypes, RenewalTypes, SendTypes, Working
<1>5. ASSUME NEW s \in Sources, renewal[s].answer = Waiting,
             renewal' = [renewal EXCEPT ![s].answer = Open], UNCHANGED <<receive, send>>
      PROVE  TypeInv'
  <2>1. renewal[s] \in Renewing
    BY <1>5, SmallNumbers DEF TypeInv, RenewalTypes, NoRenewal
  <2>2. [renewal[s] EXCEPT !.answer = Open] \in Renewing
    BY <1>1, <2>1 DEF Renewing
  <2>3. RenewalTypes'
    BY <1>2, <1>5, <2>2 DEF TypeInv, RenewalTypes
  <2> QED
    BY <1>3, <1>5, <2>3 DEF TypeInv, ReceiveTypes, SendTypes, Working
<1>6. ASSUME NEW g \in Runs, send[g].answer = Waiting,
             send' = [send EXCEPT ![g].answer = Open], UNCHANGED <<receive, renewal>>
      PROVE  /\ TypeInv'
             /\ \A h \in Runs : /\ send'[h].at = send[h].at /\ send'[h].source = send[h].source
                                /\ send'[h].model = send[h].model
                                /\ send'[h].attempt = send[h].attempt
  <2> DEFINE x == [send[g] EXCEPT !.answer = Open]
  <2>1. Working(g) /\ send[g] \in Gen /\ send[g].source \in Sources
    BY <1>6, SmallNumbers DEF TypeInv, SendTypes
  <2>2. x \in Gen /\ x.at = send[g].at /\ x.source = send[g].source
        /\ x.model = send[g].model /\ x.attempt = send[g].attempt
    BY <1>1, <2>1 DEF Gen
  <2>3. send' = [send EXCEPT ![g] = x]
    BY <1>6 DEF TypeInv, SendTypes
  <2> HIDE DEF x
  <2>4. SendTypes' /\ send'[g] = x /\ \A h \in Runs : h # g => send'[h] = send[h]
    BY <2>1, <2>2, <2>3, SendUpdate DEF TypeInv, Working
  <2> QED
    BY <1>2, <1>3, <1>6, <2>2, <2>4 DEF TypeInv, ReceiveTypes, RenewalTypes
<1>7. \/ /\ receive.answer = Waiting /\ receive' = [receive EXCEPT !.answer = Open]
         /\ UNCHANGED <<renewal, send>>
      \/ /\ \E s \in Sources :
              renewal[s].answer = Waiting /\ renewal' = [renewal EXCEPT ![s].answer = Open]
         /\ UNCHANGED <<receive, send>>
      \/ /\ \E g \in Runs :
              send[g].answer = Waiting /\ send' = [send EXCEPT ![g].answer = Open]
         /\ UNCHANGED <<receive, renewal>>
  BY DEF ClaimAnswered
<1>8. CASE UNCHANGED <<receive, send>>
  BY <1>3, <1>5, <1>7, <1>8, <1>4, <1>6
<1>9. CASE ~ UNCHANGED <<receive, send>>
  BY <1>3, <1>4, <1>6, <1>7, <1>9
<1> QED BY <1>8, <1>9

LEMMA RenewalStep ==
  ASSUME TypeInv, NEW s \in Sources, RenewalNext(s)
  PROVE  TypeInv' /\ NoRunMoves /\ UNCHANGED <<send, receive>>
<1>1. UNCHANGED <<receive, send, dispatch, watch, room, freed, late, left>>
  BY DEF RenewalNext, RenewalAsks, RenewalDenied, RenewalKeeps, RenewalLoses, history
<1>2. SendTypes' /\ ReceiveTypes' /\ GateTypes' /\ RoomTypes'
  BY <1>1 DEF TypeInv, SendTypes, Working, ReceiveTypes, GateTypes, RoomTypes
<1>3. HistoryTypes'
  BY <1>1 DEF TypeInv, HistoryTypes, RenewalNext, RenewalAsks, RenewalDenied, RenewalKeeps,
              RenewalLoses, history
<1>4. mem \in Binding /\ BindingTypes
  BY DEF TypeInv, BindingTypes
<1>5. BindingTypes' /\ mem'.settled = mem.settled
  <2> DEFINE kept == With(mem, s, renewal[s].attempt, "active")
             lost == With(mem, s, renewal[s].attempt, "superseded")
  <2>1. kept \in Binding /\ kept.settled = mem.settled
        /\ lost \in Binding /\ lost.settled = mem.settled
    BY <1>4, WithType
  <2>2. UNCHANGED binding \/ \E o : Persist(kept, o) \/ Persist(lost, o)
    BY DEF RenewalNext, RenewalAsks, RenewalDenied, RenewalKeeps, RenewalLoses
  <2> HIDE DEF kept, lost
  <2> QED BY <1>4, <2>1, <2>2, PersistTypes DEF binding, BindingTypes
<1>6. RenewalTypes'
  <2>1. ASSUME NEW marks \in BOOLEAN, RenewalEnds(s, marks) PROVE RenewalTypes'
    BY <2>1, SmallNumbers DEF RenewalEnds, TypeInv, RenewalTypes
  <2>2. CASE RenewalAsks(s)
    <3>1. renewal[s] \in Renewing
      BY <2>2 DEF RenewalAsks, NoRenewal, TypeInv, RenewalTypes
    <3> DEFINE x == [renewal[s] EXCEPT !.at = "claim", !.answer = Waiting]
    <3>2. x \in Renewing
      BY <3>1, SmallNumbers DEF Renewing
    <3>3. renewal' = [renewal EXCEPT ![s] = x]
      BY <2>2 DEF RenewalAsks, TypeInv, RenewalTypes
    <3> HIDE DEF x
    <3> QED BY <2>2, <3>2, <3>3 DEF RenewalAsks, TypeInv, RenewalTypes
  <2>3. CASE RenewalDenied(s)
    BY <2>1, <2>3 DEF RenewalDenied
  <2>4. CASE \E o \in Saves : RenewalLoses(s, o)
    BY <2>1, <2>4 DEF RenewalLoses
  <2>5. CASE RenewalKeeps(s)
    <3>1. RenewalEnds(s, TRUE)
          \/ /\ renewal' = [renewal EXCEPT ![s] = Asleep(renewal[s].attempt)]
             /\ held' = [held EXCEPT ![s] = renewal[s].attempt] /\ marked' = marked
      BY <2>5 DEF RenewalKeeps
    <3>2. renewal[s] \in Renewing
      BY <2>5 DEF RenewalKeeps, Answered, NoRenewal, TypeInv, RenewalTypes
    <3>3. Asleep(renewal[s].attempt) \in Renewing /\ renewal[s].attempt \in 0 .. MaxAttempts
      BY <3>2, SmallNumbers DEF Asleep, Renewing
    <3> QED BY <2>1, <3>1, <3>3 DEF TypeInv, RenewalTypes
  <2> QED BY <2>2, <2>3, <2>4, <2>5 DEF RenewalNext
<1> QED
  BY <1>1, <1>2, <1>3, <1>5, <1>6 DEF TypeInv, NoRunMoves

-----------------------------------------------------------------------------
(***************************************************************************)
(* The receive boundary, the sweep and the crash                           *)
(***************************************************************************)
\* A claim starts, is lost, or supersedes its source.
LEMMA ReceiveStep ==
  ASSUME TypeInv,
         \/ ReceiveLost \/ \E s \in Sources : Receive(s)
         \/ \E o \in Saves : ReceiveSupersedes(o) \/ ReceiveIgnores(o)
  PROVE  /\ TypeInv' /\ UNCHANGED <<dispatch, freed, send>>
         /\ \/ UNCHANGED <<binding, late>>
            \/ /\ receive.at = "claim" /\ receive.source \in Sources /\ Notes(receive.source)
               /\ mem'.settled = mem.settled \cup {receive.source}
<1>1. UNCHANGED <<held, marked, renewal, send, dispatch, room, freed, torn>>
  BY DEF ReceiveLost, Receive, ReceiveSupersedes, ReceiveIgnores, history
<1>2. SendTypes' /\ RenewalTypes' /\ RoomTypes'
  BY <1>1 DEF TypeInv, SendTypes, Working, RenewalTypes, RoomTypes
<1>3. CASE ReceiveLost \/ \E s \in Sources : Receive(s)
  <2>1. UNCHANGED <<binding, dispatch, watch, history>>
    BY <1>3 DEF ReceiveLost, Receive
  <2>2. ReceiveTypes'
    <3>1. ASSUME NEW s \in Sources PROVE [Idle EXCEPT !.at = "claim", !.source = s,
                                                  !.answer = Waiting] \in Receiving
      BY SmallNumbers DEF Idle, Receiving, None
    <3> QED BY <1>3, <3>1 DEF ReceiveLost, Receive, ReceiveTypes
  <2> QED
    BY <1>1, <1>2, <2>1, <2>2
    DEF TypeInv, BindingTypes, GateTypes, HistoryTypes, binding, history
<1>4. ASSUME NEW o \in Saves, ReceiveSupersedes(o) \/ ReceiveIgnores(o)
      PROVE  /\ TypeInv' /\ receive.at = "claim" /\ receive.source \in Sources
             /\ Notes(receive.source) /\ mem'.settled = mem.settled \cup {receive.source}
  <2> DEFINE s == receive.source
  <2>1. receive.at = "claim" /\ s \in Sources
    BY <1>4 DEF ReceiveSupersedes, ReceiveIgnores, Answered, TypeInv, ReceiveTypes, Receiving, Idle
  <2>2. Settled(s) \in Binding /\ Settled(s).settled = mem.settled \cup {s}
    BY <2>1, SettledType DEF TypeInv
  <2>3. BindingTypes' /\ mem'.settled = mem.settled \cup {s}
    BY <1>4, <2>2, PersistTypes DEF ReceiveSupersedes, ReceiveIgnores, TypeInv
  <2>4. Notes(s)
    BY <1>4 DEF ReceiveSupersedes, ReceiveIgnores
  <2>5. GateTypes' /\ ReceiveTypes' /\ HistoryTypes'
    BY <1>1, <1>4, <2>1, <2>4
    DEF ReceiveSupersedes, ReceiveIgnores, WatchEnds, Notes, TypeInv, GateTypes, ReceiveTypes, HistoryTypes
  <2> QED BY <1>2, <2>1, <2>3, <2>4, <2>5 DEF TypeInv
<1> QED
  BY <1>1, <1>3, <1>4 DEF ReceiveLost, Receive, binding, history

\* The receive boundary queues source s, and starts a run when none has the Room.
Queues(s) ==
  /\ UNCHANGED freed /\ mem'.settled = mem.settled /\ receive'.at # "claim"
  /\ LET d == [dispatch EXCEPT !.queue = @ \cup {s}]
     IN \/ StartsNone(d, send)
        \/ d.active = 0 /\ \E g \in Runs, t \in Sources : Starts(d, send, g, t)

LEMMA QueuedGate ==
  ASSUME TypeInv, NEW s \in Sources
  PROVE  /\ [dispatch EXCEPT !.queue = @ \cup {s}] \in Gate
         /\ [dispatch EXCEPT !.queue = @ \cup {s}].queue = dispatch.queue \cup {s}
         /\ [dispatch EXCEPT !.queue = @ \cup {s}].active = dispatch.active
         /\ [dispatch EXCEPT !.queue = @ \cup {s}].inflight = dispatch.inflight
<1>1. dispatch.queue \cup {s} \in SUBSET Sources
  BY DEF TypeInv, GateTypes, Gate
<1> QED BY <1>1 DEF TypeInv, GateTypes, Gate

LEMMA QueuesTypes ==
  ASSUME TypeInv, NEW s \in Sources,
         DispatchNext([dispatch EXCEPT !.queue = @ \cup {s}], send, TRUE),
         UNCHANGED freed, mem'.settled = mem.settled
  PROVE  Queues(s) /\ dispatch' \in Gate /\ SendTypes' /\ ReceiveTypes'
<1> DEFINE d == [dispatch EXCEPT !.queue = @ \cup {s}]
<1>1. d \in Gate /\ send \in [Runs -> Gen]
  BY QueuedGate DEF TypeInv, SendTypes
<1>2. \A g \in Runs : IF send[g].at \in SendSteps THEN send[g].source \in Sources
                                                  ELSE send[g].answer = None
  BY DEF TypeInv, SendTypes, Working
<1> HIDE DEF d
<1>3. DispatchNext(d, send, TRUE)
  BY DEF d
<1>4. /\ StartsNone(d, send)
         \/ (d.active = 0 /\ \E g \in Runs, t \in Sources : Starts(d, send, g, t))
      /\ ReceiveTypes' /\ receive'.at # "claim"
  BY <1>1, <1>3, DispatchNextCases DEF TypeInv, ClaimsNot
<1>5. dispatch' \in Gate /\ SendTypes'
  BY <1>1, <1>2, <1>4, StartsTypes
<1> QED BY <1>4, <1>5 DEF Queues, d

LEMMA RecoversStep ==
  ASSUME TypeInv, NEW s \in Sources, Recovers(s)
  PROVE  TypeInv' /\ Queues(s) /\ UNCHANGED late
<1>1. UNCHANGED <<file, mem, upsets, held, marked, renewal, watch, room, history>>
  BY DEF Recovers
<1>2. DispatchNext([dispatch EXCEPT !.queue = @ \cup {s}], send, TRUE)
  BY DEF Recovers
<1>3. Queues(s) /\ dispatch' \in Gate /\ SendTypes' /\ ReceiveTypes'
  BY <1>1, <1>2, QueuesTypes DEF history
<1> QED
  BY <1>1, <1>3
  DEF TypeInv, BindingTypes, RenewalTypes, GateTypes, RoomTypes, HistoryTypes, history

LEMMA ReceiveDispatchesStep ==
  ASSUME TypeInv, NEW o \in Saves, ReceiveDispatches(o)
  PROVE  /\ TypeInv' /\ receive.at = "claim" /\ receive.source \in Sources
         /\ Notes(receive.source)
         /\ \/ Queues(receive.source)
            \/ /\ UNCHANGED <<send, dispatch, freed>> /\ mem'.settled = mem.settled
               /\ o # "ok"
<1> DEFINE s == receive.source
           a == receive.answer
           m == [With(mem, s, a, "active") EXCEPT !.owner[a] = s]
<1>1. receive.at = "claim" /\ s \in Sources /\ a \in Attempts
  BY DEF ReceiveDispatches, Answered, TypeInv, ReceiveTypes, Receiving, Idle
<1>2. m \in Binding /\ m.settled = mem.settled
  <2>1. BindingTypes /\ mem \in Binding
    BY DEF TypeInv, BindingTypes
  <2>2. With(mem, s, a, "active") \in Binding /\ With(mem, s, a, "active").settled = mem.settled
    BY <2>1, WithType
  <2> DEFINE m0 == With(mem, s, a, "active")
  <2>3. m0 \in Binding /\ m0.settled = mem.settled
    BY <2>2
  <2> HIDE DEF m0
  <2>4. [m0 EXCEPT !.owner[a] = s] \in Binding
    BY <1>1, <2>3, SmallNumbers DEF Binding
  <2>5. [m0 EXCEPT !.owner[a] = s].settled = m0.settled
    BY <2>3 DEF Binding
  <2> QED BY <2>3, <2>4, <2>5 DEF m0
<1>3. BindingTypes' /\ mem'.settled = mem.settled
  BY <1>2, PersistTypes DEF ReceiveDispatches, TypeInv
<1>4. Notes(s) /\ WatchEnds(o) /\ UNCHANGED <<marked, room, freed, left, torn>>
  BY DEF ReceiveDispatches
<1>5. RoomTypes' /\ HistoryTypes' /\ watch' \in {"running", "dead"}
  BY <1>1, <1>4 DEF Notes, WatchEnds, TypeInv, RoomTypes, HistoryTypes, GateTypes
<1>6. CASE o # "ok"
  <2>1. receive' = Idle /\ UNCHANGED <<held, renewal, send, dispatch>>
    BY <1>6 DEF ReceiveDispatches
  <2> QED
    BY <1>1, <1>3, <1>4, <1>5, <1>6, <2>1
    DEF TypeInv, ReceiveTypes, RenewalTypes, SendTypes, Working, GateTypes
<1>7. CASE o = "ok"
  <2>1. /\ held' = [held EXCEPT ![s] = a]
        /\ renewal' = [renewal EXCEPT ![s] = IF @ = NoRenewal THEN Asleep(a) ELSE @]
        /\ DispatchNext([dispatch EXCEPT !.queue = @ \cup {s}], send, TRUE)
    BY <1>7 DEF ReceiveDispatches
  <2>2. Queues(s) /\ dispatch' \in Gate /\ SendTypes' /\ ReceiveTypes'
    BY <1>1, <1>3, <1>4, <2>1, QueuesTypes
  <2>3. RenewalTypes'
    <3>1. Asleep(a) \in Renewing
      BY <1>1, SmallNumbers DEF Asleep, Renewing
    <3>2. held' \in [Sources -> 0 .. MaxAttempts]
      BY <1>1, <2>1, SmallNumbers DEF TypeInv, RenewalTypes
    <3> QED BY <1>4, <2>1, <3>1, <3>2 DEF TypeInv, RenewalTypes
  <2> QED BY <1>1, <1>3, <1>4, <1>5, <2>2, <2>3 DEF TypeInv, GateTypes
<1> QED BY <1>6, <1>7

-----------------------------------------------------------------------------
(***************************************************************************)
(* The end of a generation                                                 *)
(***************************************************************************)
\* A source whose run does not start goes back into the queue.
Requeued(g) == IF At(g, "running") THEN {send[g].source} ELSE {}
\* The gate d that generation g leaves: it is in no place of it, and a model run the
\* sweep has freed takes nothing of another one with it.
Gives(d, g) ==
  /\ d \in Gate /\ d.active \in {0, dispatch.active} /\ d.active # g
  /\ d.queue \subseteq dispatch.queue \cup Requeued(g)
  /\ \A s \in Sources : d.inflight[s] \in {0, dispatch.inflight[s]} /\ d.inflight[s] # g
  /\ g \in freed /\ send[g].model =>
       /\ dispatch.active # g => d.active = dispatch.active
       /\ \A s \in Sources :
            dispatch.inflight[s] # g => d.inflight[s] = dispatch.inflight[s]

\* Generation g is over, and may have passed the Room on.
Finishes(g) ==
  /\ Working(g) /\ UNCHANGED freed /\ ClaimsNot(FALSE)
  /\ \E d \in Gate :
       /\ Gives(d, g)
       /\ \/ StartsNone(d, Ended(g))
          \/ /\ g \in freed /\ send[g].model => d.active = 0
             /\ \E h \in Runs, s \in Sources : Starts(d, Ended(g), h, s)

LEMMA EndedType ==
  ASSUME SendTypes, NEW g \in Runs, Working(g)
  PROVE  /\ Ended(g) \in [Runs -> Gen] /\ Ended(g)[g] = Over(g)
         /\ Over(g).at = "over" /\ Over(g).model = send[g].model /\ Over(g).answer = None
         /\ \A h \in Runs : h # g => Ended(g)[h] = send[h]
         /\ \A h \in Runs : IF Ended(g)[h].at \in SendSteps THEN Ended(g)[h].source \in Sources
                                                            ELSE Ended(g)[h].answer = None
<1>1. Over(g) \in Gen /\ Over(g).at = "over" /\ Over(g).answer = None
      /\ Over(g).model = send[g].model /\ Over(g).at \notin SendSteps
  <2>1. send[g].model \in BOOLEAN
    BY DEF SendTypes, Gen
  <2> QED BY <2>1, SmallNumbers DEF Over, Idle, Gen, SendSteps
<1> QED BY <1>1 DEF Ended, SendTypes, Working

LEMMA ReleasedType ==
  ASSUME TypeInv, NEW g \in Runs
  PROVE  /\ Released(g) \in Gate /\ Released(g).queue = dispatch.queue
         /\ Released(g).active = IF dispatch.active = g THEN 0 ELSE dispatch.active
         /\ \A s \in Sources : Released(g).inflight[s] =
              IF dispatch.inflight[s] = g THEN 0 ELSE dispatch.inflight[s]
<1> DEFINE inflight == [s \in Sources |-> IF dispatch.inflight[s] = g THEN 0
                                                                 ELSE dispatch.inflight[s]]
           active == IF dispatch.active = g THEN 0 ELSE dispatch.active
<1>1. inflight \in [Sources -> 0 .. MaxDispatch] /\ active \in 0 .. MaxDispatch
  BY SmallNumbers DEF TypeInv, GateTypes, Gate
<1>2. Released(g) = [dispatch EXCEPT !.active = active, !.inflight = inflight]
  BY DEF Released, TypeInv, GateTypes, Gate
<1>3. \A s \in Sources : inflight[s] = IF dispatch.inflight[s] = g THEN 0
                                                                 ELSE dispatch.inflight[s]
  OBVIOUS
<1>4. active = IF dispatch.active = g THEN 0 ELSE dispatch.active
  OBVIOUS
<1> HIDE DEF inflight, active
<1> QED BY <1>1, <1>2, <1>3, <1>4 DEF TypeInv, GateTypes, Gate

\* The gate a recovery gives up, and what becomes of the queue.
LEMMA GivesTypes ==
  ASSUME TypeInv, NEW g \in Runs, Working(g)
  PROVE  /\ Gives(Released(g), g)
         /\ \A q \in SUBSET Sources :
              /\ (g \notin freed \/ ~ send[g].model)
                   /\ q \subseteq dispatch.queue \cup Requeued(g) =>
                   Gives([Discarded(g) EXCEPT !.queue = q], g)
              /\ [Discarded(g) EXCEPT !.queue = q] \in Gate
              /\ [Discarded(g) EXCEPT !.queue = q].queue = q
         /\ Discarded(g) \in Gate /\ Discarded(g).queue = dispatch.queue
<1> DEFINE r == Released(g)
           s == send[g].source
<1>1. /\ r \in Gate /\ r.queue = dispatch.queue
      /\ r.active = IF dispatch.active = g THEN 0 ELSE dispatch.active
      /\ \A t \in Sources : r.inflight[t] = IF dispatch.inflight[t] = g THEN 0
                                                                 ELSE dispatch.inflight[t]
  BY ReleasedType
<1>2. s \in Sources
  BY DEF TypeInv, SendTypes
<1>3. g # 0
  BY SmallNumbers
<1>4. Gives(r, g)
  BY <1>1, <1>3 DEF Gives
<1> DEFINE d == [r EXCEPT !.inflight[s] = 0]
<1>5. Discarded(g) = d
  BY DEF Discarded
<1> HIDE DEF r
<1>6. /\ d \in Gate /\ d.queue = dispatch.queue /\ d.active = r.active
      /\ \A t \in Sources : d.inflight[t] = IF t = s THEN 0 ELSE r.inflight[t]
  BY <1>1, <1>2, SmallNumbers DEF Gate
<1> HIDE DEF d
<1>7. ASSUME NEW q \in SUBSET Sources
      PROVE  /\ [d EXCEPT !.queue = q] \in Gate /\ [d EXCEPT !.queue = q].queue = q
             /\ [d EXCEPT !.queue = q].active = d.active
             /\ [d EXCEPT !.queue = q].inflight = d.inflight
  BY <1>6 DEF Gate
<1>8. ASSUME NEW q \in SUBSET Sources, g \notin freed \/ ~ send[g].model,
             q \subseteq dispatch.queue \cup Requeued(g)
      PROVE  Gives([d EXCEPT !.queue = q], g)
  BY <1>1, <1>3, <1>6, <1>7, <1>8 DEF Gives
<1> QED BY <1>4, <1>5, <1>6, <1>7, <1>8 DEF r

LEMMA PassesOnStep ==
  ASSUME TypeInv, NEW g \in Runs, Working(g), PassesOn(g), UNCHANGED freed
  PROVE  Finishes(g) /\ dispatch' \in Gate /\ SendTypes' /\ ReceiveTypes'
<1>1. /\ Ended(g) \in [Runs -> Gen]
      /\ \A h \in Runs : IF Ended(g)[h].at \in SendSteps THEN Ended(g)[h].source \in Sources
                                                         ELSE Ended(g)[h].answer = None
  BY EndedType DEF TypeInv
<1>2. CASE send[g].model
  <2>1. DispatchNext(Released(g), Ended(g), FALSE)
    BY <1>2 DEF PassesOn
  <2>2. Released(g) \in Gate /\ Gives(Released(g), g)
    BY ReleasedType, GivesTypes
  <2>3. /\ \/ StartsNone(Released(g), Ended(g))
           \/ /\ Released(g).active = 0
              /\ \E h \in Runs, s \in Sources : Starts(Released(g), Ended(g), h, s)
        /\ ReceiveTypes' /\ ClaimsNot(FALSE)
    BY <1>1, <2>1, <2>2, DispatchNextCases DEF TypeInv
  <2>4. dispatch' \in Gate /\ SendTypes'
    BY <1>1, <2>2, <2>3, StartsTypes
  <2> QED BY <2>2, <2>3, <2>4 DEF Finishes
<1>3. CASE ~ send[g].model
  <2> DEFINE q == dispatch.queue \ {send[g].source}
             d == [Discarded(g) EXCEPT !.queue = q]
  <2>1. q \in SUBSET Sources
    BY DEF TypeInv, GateTypes, Gate
  <2>2. d \in Gate /\ Gives(d, g)
    BY <1>3, <2>1, GivesTypes
  <2>3. [Discarded(g) EXCEPT !.queue = @ \ {send[g].source}] = d
    BY GivesTypes
  <2>4. StartsNext(d, Ended(g), InReceive(g)) /\ InReceive(g) \in BOOLEAN
    BY <1>3, <2>3 DEF PassesOn, InReceive
  <2> HIDE DEF d
  <2>5. /\ StartsNone(d, Ended(g)) \/ \E h \in Runs, s \in Sources : Starts(d, Ended(g), h, s)
        /\ ReceiveTypes' /\ ClaimsNot(FALSE)
    BY <1>1, <2>2, <2>4, StartsNextCases DEF TypeInv, ClaimsNot
  <2>6. dispatch' \in Gate /\ SendTypes'
    BY <1>1, <2>2, <2>5, StartsTypes
  <2> QED BY <1>3, <2>2, <2>5, <2>6 DEF Finishes
<1> QED BY <1>2, <1>3

LEMMA LeavesStep ==
  ASSUME TypeInv, NEW g \in Runs, Working(g), NEW d \in Gate, Leaves(g, d), Gives(d, g),
         UNCHANGED freed
  PROVE  Finishes(g) /\ dispatch' \in Gate /\ SendTypes' /\ ReceiveTypes'
<1>1. d = [d EXCEPT !.queue = d.queue]
  BY DEF Gate
<1>2. StartsNone(d, Ended(g))
  BY <1>1 DEF Leaves, StartsNone
<1>3. SendTypes'
  BY EndedType DEF TypeInv, SendTypes, Working, Leaves
<1> QED BY <1>2, <1>3 DEF Finishes, Leaves, ReceiveTypes, TypeInv, ClaimsNot, Idle

LEMMA EndStep ==
  ASSUME TypeInv, NEW g \in Runs,
         \/ ProcessingEnds(g) \/ RecoveryFails(g) \/ DispatchFails(g)
         \/ \E o \in Saves : \/ ProcessingSettles(g, o) \/ ProcessingPasses(g, o)
                            \/ DispatchIgnored(g, o)
  PROVE  /\ TypeInv' /\ Finishes(g) /\ UNCHANGED late
         /\ mem'.settled \in {mem.settled, mem.settled \cup {send[g].source}}
<1> DEFINE s == send[g].source
<1>1. Working(g) /\ s \in Sources
  BY DEF ProcessingEnds, RecoveryFails, DispatchFails, ProcessingSettles, ProcessingPasses,
         DispatchIgnored, At, SendSteps, Working, TypeInv, SendTypes
<1>2. UNCHANGED <<marked, renewal, leaving>> /\ left' \in {left, left \cup {s}}
  BY DEF ProcessingEnds, RecoveryFails, DispatchFails, ProcessingSettles, ProcessingPasses,
         DispatchIgnored, Leaving, history, leaving
<1>3. BindingTypes' /\ mem'.settled \in {mem.settled, mem.settled \cup {s}}
  <2>1. CASE \E o \in Saves : Persist(Settled(s), o)
    BY <1>1, <2>1, SettledType, PersistTypes DEF TypeInv
  <2>2. CASE UNCHANGED <<file, mem, upsets>>
    BY <2>2 DEF TypeInv, BindingTypes
  <2> QED
    BY <2>1, <2>2
    DEF ProcessingEnds, RecoveryFails, DispatchFails, ProcessingSettles, ProcessingPasses,
        DispatchIgnored, binding
<1>4. RenewalTypes'
  <2>1. held' = held \/ held' = [held EXCEPT ![s] = None]
    BY DEF ProcessingEnds, RecoveryFails, DispatchFails, ProcessingSettles, ProcessingPasses,
           DispatchIgnored
  <2> QED BY <1>1, <1>2, <2>1, SmallNumbers DEF TypeInv, RenewalTypes
<1>5. RoomTypes'
  <2>1. room' \in {room, Completed(held[s])}
    BY DEF ProcessingEnds, RecoveryFails, DispatchFails, ProcessingSettles, ProcessingPasses,
           DispatchIgnored
  <2> QED BY <2>1, CompletedType DEF TypeInv, RoomTypes
<1>6. HistoryTypes'
  BY <1>1, <1>2 DEF TypeInv, HistoryTypes, leaving
<1>7. watch' \in {"running", "dead"}
  BY DEF ProcessingEnds, RecoveryFails, DispatchFails, ProcessingSettles, ProcessingPasses,
         DispatchIgnored, TypeInv, GateTypes
<1>8. Finishes(g) /\ dispatch' \in Gate /\ SendTypes' /\ ReceiveTypes'
  <2>1. CASE PassesOn(g)
    BY <1>1, <1>2, <2>1, PassesOnStep DEF leaving
  <2>2. CASE Leaves(g, Released(g))
    BY <1>1, <1>2, <2>2, LeavesStep, GivesTypes, ReleasedType DEF leaving
  <2>3. CASE ~ send[g].model /\ Leaves(g, Discarded(g))
    <3>1. dispatch.queue \in SUBSET Sources
      BY DEF TypeInv, GateTypes, Gate
    <3>2. Discarded(g) = [Discarded(g) EXCEPT !.queue = dispatch.queue]
      BY <1>1, GivesTypes DEF Gate
    <3>3. Gives(Discarded(g), g) /\ Discarded(g) \in Gate
      BY <1>1, <2>3, <3>1, <3>2, GivesTypes
    <3> QED BY <1>1, <1>2, <2>3, <3>3, LeavesStep DEF leaving
  <2>4. CASE DispatchFails(g) \/ \E o \in Saves : DispatchIgnored(g, o) /\ o = "error"
    <3> DEFINE q == dispatch.queue \cup {s}
               d == [Discarded(g) EXCEPT !.queue = q]
    <3>1. q \in SUBSET Sources
      BY <1>1 DEF TypeInv, GateTypes, Gate
    <3>2. g \notin freed /\ Leaves(g, [Discarded(g) EXCEPT !.queue = @ \cup {s}])
      BY <2>4 DEF DispatchFails, DispatchIgnored
    <3>3. [Discarded(g) EXCEPT !.queue = @ \cup {s}] = d
      BY <1>1, GivesTypes
    <3>4. d \in Gate /\ Gives(d, g)
      <4>1. q \subseteq dispatch.queue \cup Requeued(g)
        BY <2>4 DEF DispatchFails, DispatchIgnored, Requeued
      <4> QED BY <1>1, <3>1, <3>2, <4>1, GivesTypes
    <3> HIDE DEF d
    <3> QED BY <1>1, <1>2, <3>2, <3>3, <3>4, LeavesStep DEF leaving
  <2>5. ASSUME NEW o \in Saves, DispatchIgnored(g, o), o # "error"
        PROVE  Finishes(g) /\ dispatch' \in Gate /\ SendTypes' /\ ReceiveTypes'
    <3> DEFINE q == dispatch.queue \ {s}
               d == [Discarded(g) EXCEPT !.queue = q]
    <3>1. q \in SUBSET Sources
      BY DEF TypeInv, GateTypes, Gate
    <3>2. g \notin freed
          /\ StartsNext([Discarded(g) EXCEPT !.queue = @ \ {s}], Ended(g), InReceive(g))
      BY <2>5 DEF DispatchIgnored
    <3>3. [Discarded(g) EXCEPT !.queue = @ \ {s}] = d
      BY <1>1, GivesTypes
    <3>4. d \in Gate /\ Gives(d, g)
      BY <1>1, <3>1, <3>2, GivesTypes
    <3>5. StartsNext(d, Ended(g), InReceive(g)) /\ InReceive(g) \in BOOLEAN
      BY <3>2, <3>3 DEF InReceive
    <3> HIDE DEF d
    <3>6. /\ Ended(g) \in [Runs -> Gen]
          /\ \A h \in Runs : IF Ended(g)[h].at \in SendSteps
                             THEN Ended(g)[h].source \in Sources
                             ELSE Ended(g)[h].answer = None
      BY <1>1, EndedType DEF TypeInv
    <3>7. /\ StartsNone(d, Ended(g)) \/ \E h \in Runs, x \in Sources : Starts(d, Ended(g), h, x)
          /\ ReceiveTypes' /\ ClaimsNot(FALSE)
      BY <3>4, <3>5, <3>6, StartsNextCases DEF TypeInv, ClaimsNot
    <3>8. dispatch' \in Gate /\ SendTypes'
      BY <3>4, <3>6, <3>7, StartsTypes
    <3> QED BY <1>1, <1>2, <3>2, <3>4, <3>7, <3>8 DEF Finishes, leaving
  <2> QED
    BY <2>1, <2>2, <2>3, <2>4, <2>5
    DEF ProcessingEnds, RecoveryFails, ProcessingSettles, ProcessingPasses
<1> QED
  BY <1>2, <1>3, <1>4, <1>5, <1>6, <1>7, <1>8 DEF TypeInv, GateTypes, leaving

\* The sweep frees the source of a generation, which goes on.
Sweeps(s) ==
  LET g == dispatch.inflight[s]
  IN /\ g # 0 /\ dispatch' = Released(g) /\ freed' = freed \cup {g}
     /\ UNCHANGED <<mem, send, late>>

LEMMA SweepStep ==
  ASSUME TypeInv, NEW s \in Sources, Sweep(s) PROVE TypeInv' /\ Sweeps(s)
<1> DEFINE g == dispatch.inflight[s]
<1>1. g \in Runs
  BY DEF Sweep, TypeInv, GateTypes, Gate, Runs
<1>2. /\ dispatch' = Released(g) /\ freed' = freed \cup {g}
      /\ upsets < MaxUpsets /\ upsets' = upsets + 1
      /\ UNCHANGED <<file, mem, held, marked, renewal, receive, send, watch, room, late, left, torn>>
  BY DEF Sweep
<1>3. upsets' \in 0 .. MaxUpsets
  BY <1>2, AuthorityAssumption DEF TypeInv, BindingTypes
<1>4. Released(g) \in Gate
  BY <1>1, ReleasedType
<1>5. Sweeps(s)
  BY <1>2 DEF Sweeps, Sweep
<1> HIDE DEF g
<1>6. BindingTypes' /\ SendTypes' /\ RenewalTypes' /\ ReceiveTypes' /\ GateTypes'
  BY <1>2, <1>3, <1>4
  DEF TypeInv, BindingTypes, SendTypes, Working, RenewalTypes, ReceiveTypes, GateTypes
<1>7. RoomTypes' /\ HistoryTypes'
  BY <1>1, <1>2 DEF TypeInv, RoomTypes, HistoryTypes
<1> QED BY <1>5, <1>6, <1>7 DEF TypeInv

LEMMA CrashStep ==
  ASSUME TypeInv, Crash
  PROVE  /\ TypeInv' /\ dispatch' = NoDispatch /\ UNCHANGED <<freed, late>>
         /\ \A g \in Runs : send'[g].at \in {"idle", "over"}
         /\ \A g \in Runs : send[g] # Idle => send'[g].at = "over"
<1>1. upsets' \in 0 .. MaxUpsets
  BY AuthorityAssumption DEF Crash, TypeInv, BindingTypes
<1>2. BindingTypes' /\ RoomTypes' /\ HistoryTypes'
  BY <1>1 DEF Crash, TypeInv, BindingTypes, RoomTypes, HistoryTypes, leaving
<1>3. RenewalTypes' /\ ReceiveTypes'
  BY SmallNumbers DEF Crash, RenewalTypes, ReceiveTypes
<1>4. GateTypes'
  BY SmallNumbers DEF Crash, NoDispatch, GateTypes, Gate
<1>5. ASSUME NEW g \in Runs
      PROVE  /\ Over(g) \in Gen /\ Over(g).at = "over" /\ Over(g).answer = None
             /\ Over(g).model = send[g].model
  <2>1. send[g].model \in BOOLEAN
    BY DEF TypeInv, SendTypes, Gen
  <2> QED BY <2>1, SmallNumbers DEF Over, Idle, Gen
<1>6. send' = [g \in Runs |-> IF send[g] = Idle THEN Idle ELSE Over(g)]
  BY DEF Crash
<1>7. Idle.at = "idle" /\ Idle.answer = None /\ Idle \in Gen
  BY IdleTypes DEF Idle
<1>8. SendTypes'
  BY <1>5, <1>6, <1>7 DEF SendTypes, Working, SendSteps
<1> QED
  BY <1>2, <1>3, <1>4, <1>5, <1>6, <1>7, <1>8
  DEF TypeInv, Crash, Working, SendSteps, leaving

-----------------------------------------------------------------------------
(***************************************************************************)
(* Every step, by what it does to the runs and the gate                    *)
(***************************************************************************)
\* The steps of generation g that leave it at work.
WorkNext(g) ==
  \/ SendBegins(g) \/ SendSuperseded(g) \/ SendFenced(g) \/ SendClaimed(g) \/ Checks(g)
  \/ SubmitsAlone(g) \/ SendRetries(g) \/ SendFails(g) \/ SendResumes(g)
  \/ SendPasses(g) \/ PassFails(g) \/ SendCompletes(g) \/ SendStale(g) \/ PostRefused(g)
  \/ \E o \in Saves :
       \/ SelectsPost(g, o) \/ SelectsSkip(g, o) \/ Freezes(g, o) \/ SendReceives(g, o)
       \/ RefreshLoses(g, o) \/ RefreshDenied(g, o) \/ Refreshes(g, o)
       \/ ReplayStops(g, o) \/ CompletionFails(g, o)
EndNext(g) ==
  \/ ProcessingEnds(g) \/ RecoveryFails(g) \/ DispatchFails(g)
  \/ \E o \in Saves :
       ProcessingSettles(g, o) \/ ProcessingPasses(g, o) \/ DispatchIgnored(g, o)

LEMMA WorkStep ==
  ASSUME TypeInv, NEW g \in Runs, WorkNext(g) PROVE TypeInv' /\ Works(g)
BY BeginsStep, ResumesStep, MovingStep, LeavingStep, CompletingStep, SelectsPostStep, SelectsSkipStep,
   FreezesStep, RefreshStep DEF WorkNext, Saves

\* The steps that neither move a run nor queue a source.
QuietNext ==
  \/ RoomOpens \/ RoomEnds \/ ClaimAnswered \/ \E s \in Sources : RenewalNext(s)
Quiet ==
  /\ NoRunMoves
  /\ \A g \in Runs : /\ send'[g].at = send[g].at /\ send'[g].source = send[g].source
                     /\ send'[g].model = send[g].model

LEMMA QuietStep == ASSUME TypeInv, QuietNext PROVE TypeInv' /\ Quiet
BY RoomStep, AnswerStep, RenewalStep DEF QuietNext, Quiet

LEMMA NextByKind ==
  ASSUME Next
  PROVE  \/ QuietNext \/ \E g \in Runs : WorkNext(g) \/ EndNext(g)
         \/ ReceiveLost \/ \E s \in Sources : Receive(s) \/ Recovers(s) \/ Sweep(s)
         \/ \E o \in Saves : ReceiveSupersedes(o) \/ ReceiveIgnores(o) \/ ReceiveDispatches(o)
         \/ Crash
BY DEF Next, ReceiveNext, SendNext, QuietNext, WorkNext, EndNext

LEMMA TypesStep == ASSUME TypeInv, [Next]_vars PROVE TypeInv'
<1>1. CASE UNCHANGED vars
  BY <1>1
  DEF vars, TypeInv, BindingTypes, SendTypes, Working, RenewalTypes, ReceiveTypes, GateTypes,
      RoomTypes, HistoryTypes
<1>2. CASE Next
  BY <1>2, NextByKind, QuietStep, WorkStep, EndStep, ReceiveStep, RecoversStep, SweepStep,
     ReceiveDispatchesStep, CrashStep DEF EndNext
<1> QED BY <1>1, <1>2

\* Every variable has its type.
THEOREM AuthorityTypes == Spec => []TypeOK
<1>1. Init => TypeInv
  BY InitTypes
<1>2. TypeInv /\ [Next]_vars => TypeInv'
  BY TypesStep
<1>3. TypeInv => TypeOK
  BY TypesHold
<1> QED BY <1>1, <1>2, <1>3, PTL DEF Spec

-----------------------------------------------------------------------------
(***************************************************************************)
(* One run                                                                 *)
(***************************************************************************)
\* The places of the gate belong to runs at work that the sweep has not freed, and
\* what it has freed has begun.
PlacesInv ==
  /\ \A g \in freed : /\ Working(g) \/ send[g].at = "over"
                      /\ dispatch.active # g
                      /\ \A s \in Sources : dispatch.inflight[s] # g
  /\ \A s \in Sources : dispatch.inflight[s] # 0 =>
       Working(dispatch.inflight[s]) /\ send[dispatch.inflight[s]].source = s
  /\ dispatch.active # 0 => Working(dispatch.active)
GateInv == PlacesInv /\ OneRunPerRoom

LEMMA InitGate == Init => GateInv
BY DEF Init, GateInv, PlacesInv, OneRunPerRoom, Working, Idle, SendSteps, NoDispatch

\* A step after which the same runs are at work at the same places.
LEMMA SameRunsGate ==
  ASSUME TypeInv, GateInv, UNCHANGED <<dispatch, freed>>,
         \A g \in Runs : /\ Working(g)' <=> Working(g)
                         /\ send'[g].source = send[g].source
                         /\ send'[g].model = send[g].model
                         /\ send'[g].at = "over" <=> send[g].at = "over"
  PROVE  GateInv'
<1>1. freed \subseteq Runs
  BY DEF TypeInv, HistoryTypes
<1>2. dispatch.active # 0 => dispatch.active \in Runs
  BY DEF TypeInv, GateTypes, Gate, Runs
<1>3. \A s \in Sources : dispatch.inflight[s] # 0 => dispatch.inflight[s] \in Runs
  BY DEF TypeInv, GateTypes, Gate, Runs
<1>4. PlacesInv'
  BY <1>1, <1>2, <1>3 DEF GateInv, PlacesInv
<1>5. OneRunPerRoom'
  BY <1>1 DEF GateInv, OneRunPerRoom, Working
<1> QED BY <1>4, <1>5 DEF GateInv

LEMMA WorksGate ==
  ASSUME TypeInv, GateInv, NEW g \in Runs, Works(g) PROVE GateInv'
<1>1. send[g].at # "over" /\ send'[g].at # "over"
  BY DEF Works, Working, SendSteps
<1> QED BY <1>1, SameRunsGate DEF Works, Working

LEMMA SweepGate ==
  ASSUME TypeInv, GateInv, NEW s \in Sources, Sweeps(s) PROVE GateInv'
<1> DEFINE g == dispatch.inflight[s]
<1>1. g \in Runs /\ Working(g)
  BY DEF Sweeps, TypeInv, GateTypes, Gate, Runs, GateInv, PlacesInv
<1>2. /\ dispatch'.active = IF dispatch.active = g THEN 0 ELSE dispatch.active
      /\ \A t \in Sources : dispatch'.inflight[t] =
           IF dispatch.inflight[t] = g THEN 0 ELSE dispatch.inflight[t]
  BY <1>1, ReleasedType DEF Sweeps
<1>3. freed' = freed \cup {g} /\ send' = send
  BY DEF Sweeps
<1> HIDE DEF g
<1>4. g # 0
  BY <1>1, SmallNumbers
<1>5. PlacesInv'
  <2>1. \A h \in freed' : /\ send'[h].at \in SendSteps \/ send'[h].at = "over"
                          /\ dispatch'.active # h
                          /\ \A t \in Sources : dispatch'.inflight[t] # h
    <3> TAKE h \in freed'
    <3>1. h \in Runs /\ h # 0
      BY <1>1, <1>3, SmallNumbers DEF TypeInv, HistoryTypes
    <3>2. CASE h = g
      BY <1>1, <1>2, <1>3, <3>1, <3>2 DEF Working
    <3>3. CASE h # g
      BY <1>2, <1>3, <3>1, <3>3 DEF GateInv, PlacesInv, Working
    <3> QED BY <3>2, <3>3
  <2>2. \A t \in Sources : dispatch'.inflight[t] # 0 =>
          /\ send'[dispatch'.inflight[t]].at \in SendSteps
          /\ send'[dispatch'.inflight[t]].source = t
    BY <1>2, <1>3 DEF GateInv, PlacesInv, Working
  <2>3. dispatch'.active # 0 => send'[dispatch'.active].at \in SendSteps
    BY <1>2, <1>3 DEF GateInv, PlacesInv, Working
  <2> QED BY <2>1, <2>2, <2>3 DEF PlacesInv, Working
<1>6. OneRunPerRoom'
  <2>1. SUFFICES ASSUME (\A h \in freed : send[h].model), NEW h \in Runs \ freed, h # g,
                        send[h].at \in SendSteps
                 PROVE  dispatch'.active = h /\ dispatch'.inflight[send[h].source] = h
    BY <1>3 DEF OneRunPerRoom
  <2>2. dispatch.active = h /\ dispatch.inflight[send[h].source] = h /\ send[h].source \in Sources
    BY <2>1 DEF GateInv, OneRunPerRoom, TypeInv, SendTypes, Working
  <2> QED BY <1>2, <2>1, <2>2
<1> QED BY <1>5, <1>6 DEF GateInv

LEMMA CrashGate ==
  ASSUME TypeInv, GateInv, Crash PROVE GateInv'
<1>1. PlacesInv'
  <2>1. \A g \in freed : g \in Runs /\ send[g] # Idle
    BY DEF GateInv, PlacesInv, TypeInv, HistoryTypes, Idle, Working, SendSteps
  <2>2. \A g \in freed : g # 0
    BY <2>1, SmallNumbers
  <2>3. dispatch'.active = 0 /\ \A s \in Sources : dispatch'.inflight[s] = 0
    BY CrashStep DEF NoDispatch
  <2> QED BY CrashStep, <2>1, <2>2, <2>3 DEF PlacesInv
<1>2. OneRunPerRoom'
  BY CrashStep DEF OneRunPerRoom, SendSteps
<1> QED BY <1>1, <1>2 DEF GateInv

\* A run starts, or none, from a gate d and the generations gs.
StartedRun(d, gs, h, s) ==
  /\ send[h] = Idle /\ send'[h] = Started(s) /\ s \in d.queue /\ s \notin mem'.settled
  /\ send'[h].at = "running" /\ send'[h].source = s
  /\ dispatch'.queue \subseteq d.queue
  /\ send'[h].model => s \notin dispatch'.queue
  /\ \A g \in Runs : g # h => send'[g] = gs[g]
  /\ dispatch'.active = h /\ dispatch'.inflight = [d.inflight EXCEPT ![s] = h]

LEMMA StartsRun ==
  ASSUME NEW d \in Gate, NEW gs \in [Runs -> Gen], NEW h \in Runs, NEW s \in Sources,
         Starts(d, gs, h, s)
  PROVE  StartedRun(d, gs, h, s)
<1>1. /\ send[h] = Idle /\ send' = [gs EXCEPT ![h] = Started(s)]
      /\ dispatch' = [queue |-> dispatch'.queue, active |-> h,
                      inflight |-> [d.inflight EXCEPT ![s] = h]]
  BY DEF Starts
<1>2. dispatch'.active = h /\ dispatch'.inflight = [d.inflight EXCEPT ![s] = h]
  BY <1>1
<1>3. /\ s \in d.queue /\ s \notin mem'.settled /\ dispatch'.queue \subseteq d.queue
      /\ send'[h].model => s \notin dispatch'.queue
  BY DEF Starts
<1>4. send'[h] = Started(s) /\ \A g \in Runs : g # h => send'[g] = gs[g]
  BY <1>1
<1>5. Started(s).at = "running" /\ Started(s).source = s
  BY StartedType
<1> QED BY <1>1, <1>2, <1>3, <1>4, <1>5 DEF StartedRun

LEMMA QueuesGate ==
  ASSUME TypeInv, GateInv, NEW s \in Sources, Queues(s) PROVE GateInv'
<1> DEFINE d == [dispatch EXCEPT !.queue = @ \cup {s}]
<1>1. d \in Gate /\ d.active = dispatch.active /\ d.inflight = dispatch.inflight
      /\ freed' = freed
  BY QueuedGate DEF Queues
<1> HIDE DEF d
<1>2. CASE StartsNone(d, send)
  <2>1. send' = send /\ dispatch'.active = d.active /\ dispatch'.inflight = d.inflight
    BY <1>1, <1>2 DEF StartsNone, Gate
  <2> QED BY <1>1, <2>1 DEF GateInv, PlacesInv, OneRunPerRoom, Working
<1>3. ASSUME d.active = 0, NEW h \in Runs, NEW t \in Sources, Starts(d, send, h, t)
      PROVE  GateInv'
  <2>1. StartedRun(d, send, h, t)
    BY <1>1, <1>3, StartsRun DEF TypeInv, SendTypes
  <2>2. h \notin freed /\ ~ Working(h) /\ Working(h)' /\ h # 0
    BY <2>1, SmallNumbers DEF StartedRun, GateInv, PlacesInv, Working, Idle, SendSteps
  <2>3. \A x \in Sources : dispatch'.inflight[x] = IF x = t THEN h ELSE dispatch.inflight[x]
    BY <1>1, <2>1 DEF StartedRun, Gate
  <2>4. PlacesInv'
    BY <1>1, <2>1, <2>2, <2>3
    DEF StartedRun, GateInv, PlacesInv, Working, TypeInv, HistoryTypes, GateTypes, Gate, Runs
  <2>5. OneRunPerRoom'
    <3>1. SUFFICES ASSUME (\A g \in freed : send'[g].model), NEW g \in Runs \ freed,
                          send'[g].at \in SendSteps
                   PROVE  dispatch'.active = g /\ dispatch'.inflight[send'[g].source] = g
      BY <1>1 DEF OneRunPerRoom
    <3>2. \A k \in freed : send[k].model
      BY <2>1, <2>2, <3>1 DEF StartedRun, TypeInv, HistoryTypes
    <3>3. g = h
      BY <1>1, <1>3, <2>1, <3>1, <3>2, SmallNumbers
      DEF StartedRun, GateInv, OneRunPerRoom
    <3> QED BY <2>1, <2>3, <3>3 DEF StartedRun
  <2> QED BY <2>4, <2>5 DEF GateInv
<1> QED BY <1>2, <1>3 DEF Queues, d

LEMMA FinishesGate ==
  ASSUME TypeInv, GateInv, NEW g \in Runs, Finishes(g) PROVE GateInv'
<1>1. Working(g) /\ freed' = freed
  BY DEF Finishes
<1>2. /\ Ended(g) \in [Runs -> Gen] /\ Ended(g)[g].at = "over"
      /\ Ended(g)[g].model = send[g].model /\ \A h \in Runs : h # g => Ended(g)[h] = send[h]
  BY <1>1, EndedType DEF TypeInv
<1>3. PICK d \in Gate :
        /\ Gives(d, g)
        /\ \/ StartsNone(d, Ended(g))
           \/ /\ g \in freed /\ send[g].model => d.active = 0
              /\ \E h \in Runs, s \in Sources : Starts(d, Ended(g), h, s)
  BY DEF Finishes
<1>4. \A k \in freed : /\ d.active # k /\ \A s \in Sources : d.inflight[s] # k
  BY <1>3, SmallNumbers DEF Gives, GateInv, PlacesInv, TypeInv, HistoryTypes
<1>5. \A s \in Sources : d.inflight[s] # 0 =>
        /\ d.inflight[s] \in Runs \ {g} /\ Working(d.inflight[s])
        /\ send[d.inflight[s]].source = s
  BY <1>3 DEF Gives, GateInv, PlacesInv, Gate, Runs
<1>6. d.active # 0 => d.active \in Runs \ {g} /\ Working(d.active)
  BY <1>3 DEF Gives, GateInv, PlacesInv, Gate, Runs
\* While no recovery is freed, another unfreed run keeps its places.
<1>7. ASSUME \A k \in freed : send[k].model, NEW h \in Runs \ freed, h # g,
             send[h].at \in SendSteps
      PROVE  /\ d.active = h /\ d.inflight[send[h].source] = h
             /\ g \in freed /\ send[g].model
  <2>1. dispatch.active = h /\ dispatch.inflight[send[h].source] = h /\ send[h].source \in Sources
    BY <1>7 DEF GateInv, OneRunPerRoom, TypeInv, SendTypes, Working
  <2>2. g \in freed
    BY <1>1, <1>7, <2>1 DEF GateInv, OneRunPerRoom, Working
  <2> QED BY <1>3, <1>7, <2>1, <2>2 DEF Gives
<1>8. \A k \in freed : Ended(g)[k].at = "over" \/ Ended(g)[k].at \in SendSteps
  BY <1>2 DEF GateInv, PlacesInv, Working, TypeInv, HistoryTypes
<1>9. CASE StartsNone(d, Ended(g))
  <2>1. send' = Ended(g) /\ dispatch'.active = d.active /\ dispatch'.inflight = d.inflight
    BY <1>9 DEF StartsNone, Gate
  <2>2. PlacesInv'
    BY <1>1, <1>2, <1>4, <1>5, <1>6, <1>8, <2>1 DEF PlacesInv, Working
  <2>3. OneRunPerRoom'
    <3>1. SUFFICES ASSUME (\A k \in freed : send'[k].model), NEW h \in Runs \ freed,
                          send'[h].at \in SendSteps
                   PROVE  dispatch'.active = h /\ dispatch'.inflight[send'[h].source] = h
      BY <1>1 DEF OneRunPerRoom
    <3>2. h # g
      BY <1>2, <2>1, <3>1 DEF SendSteps
    <3>3. \A k \in freed : send[k].model
      BY <1>2, <2>1, <3>1 DEF TypeInv, HistoryTypes
    <3> QED BY <1>2, <1>7, <2>1, <3>1, <3>2, <3>3
  <2> QED BY <2>2, <2>3 DEF GateInv
<1>10. ASSUME g \in freed /\ send[g].model => d.active = 0, NEW n \in Runs, NEW t \in Sources,
              Starts(d, Ended(g), n, t)
       PROVE  GateInv'
  <2>1. StartedRun(d, Ended(g), n, t)
    BY <1>2, <1>10, StartsRun
  <2>2. n \notin freed /\ ~ Working(n) /\ Working(n)' /\ n # 0 /\ n # g
    BY <1>1, <2>1, SmallNumbers DEF StartedRun, GateInv, PlacesInv, Working, Idle, SendSteps
  <2>3. \A x \in Sources : dispatch'.inflight[x] = IF x = t THEN n ELSE d.inflight[x]
    BY <2>1 DEF StartedRun, Gate
  <2>4. PlacesInv'
    <3>1. \A k \in freed : /\ Working(k)' \/ send'[k].at = "over"
                           /\ dispatch'.active # k
                           /\ \A s \in Sources : dispatch'.inflight[s] # k
      BY <1>4, <1>8, <2>1, <2>2, <2>3 DEF StartedRun, Working, TypeInv, HistoryTypes
    <3>2. \A s \in Sources : dispatch'.inflight[s] # 0 =>
            /\ send'[dispatch'.inflight[s]].at \in SendSteps
            /\ send'[dispatch'.inflight[s]].source = s
      <4> TAKE s \in Sources
      <4>1. CASE s = t
        BY <2>1, <2>2, <2>3, <4>1 DEF StartedRun, Working
      <4>2. CASE s # t
        BY <1>2, <1>5, <2>1, <2>2, <2>3, <4>2 DEF StartedRun, Working
      <4> QED BY <4>1, <4>2
    <3> QED BY <1>1, <2>1, <2>2, <3>1, <3>2 DEF PlacesInv, StartedRun, Working
  <2>5. OneRunPerRoom'
    <3>1. SUFFICES ASSUME (\A k \in freed : send'[k].model), NEW h \in Runs \ freed,
                          send'[h].at \in SendSteps
                   PROVE  dispatch'.active = h /\ dispatch'.inflight[send'[h].source] = h
      BY <1>1 DEF OneRunPerRoom
    <3>2. \A k \in freed : send[k].model
      BY <1>2, <2>1, <2>2, <3>1 DEF StartedRun, TypeInv, HistoryTypes
    <3>3. h # g
      BY <1>2, <2>1, <2>2, <3>1 DEF StartedRun, SendSteps
    <3>4. h = n
      <4>1. SUFFICES ASSUME h # n PROVE FALSE
        OBVIOUS
      <4>2. send[h].at \in SendSteps
        BY <1>2, <2>1, <3>1, <3>3, <4>1 DEF StartedRun
      <4> QED BY <1>7, <1>10, <3>1, <3>2, <3>3, <4>2, SmallNumbers
    <3> QED BY <2>1, <2>3, <3>4 DEF StartedRun
  <2> QED BY <2>4, <2>5 DEF GateInv
<1> QED BY <1>3, <1>9, <1>10

LEMMA GateStep == ASSUME TypeInv, GateInv, [Next]_vars PROVE GateInv'
<1>1. CASE UNCHANGED vars
  BY <1>1 DEF vars, GateInv, PlacesInv, OneRunPerRoom, Working
<1>2. CASE Next
  <2>1. CASE QuietNext
    BY <2>1, QuietStep, SameRunsGate DEF Quiet, NoRunMoves, Working
  <2>2. CASE \E g \in Runs : WorkNext(g) \/ EndNext(g)
    BY <2>2, WorkStep, WorksGate, EndStep, FinishesGate DEF EndNext
  <2>3. CASE UNCHANGED <<dispatch, freed, send>>
    BY <2>3 DEF GateInv, PlacesInv, OneRunPerRoom, Working
  <2>4. CASE \/ ReceiveLost \/ \E s \in Sources : Receive(s)
             \/ \E o \in Saves : ReceiveSupersedes(o) \/ ReceiveIgnores(o)
    BY <2>3, <2>4, ReceiveStep
  <2>5. CASE \E s \in Sources : Recovers(s) \/ Sweep(s)
    BY <2>5, RecoversStep, QueuesGate, SweepStep, SweepGate
  <2>6. CASE \E o \in Saves : ReceiveDispatches(o)
    BY <2>3, <2>6, ReceiveDispatchesStep, QueuesGate
  <2>7. CASE Crash
    BY <2>7, CrashGate
  <2> QED BY <1>2, <2>1, <2>2, <2>4, <2>5, <2>6, <2>7, NextByKind
<1> QED BY <1>1, <1>2

\* A Room has one run at a time and a source one owner, whatever late callbacks of
\* runs freed by the sweep do.
THEOREM OneRun == Spec => []OneRunPerRoom
<1>1. Init => TypeInv /\ GateInv
  BY InitTypes, InitGate
<1>2. TypeInv /\ GateInv /\ [Next]_vars => TypeInv' /\ GateInv'
  BY TypesStep, GateStep
<1>3. GateInv => OneRunPerRoom
  BY DEF GateInv
<1> QED BY <1>1, <1>2, <1>3, PTL DEF Spec

-----------------------------------------------------------------------------
(***************************************************************************)
(* A loss stands                                                           *)
(***************************************************************************)
LEMMA PersistSaves == ASSUME NEW m, NEW o, Persist(m, o) PROVE file' = file \/ file' = Merged(m)
BY DEF Persist

\* A step leaves the file alone or saves what it merges with it.
LEMMA StepSaves == ASSUME Next PROVE file' = file \/ \E m : file' = Merged(m)
<1>1. CASE QuietNext
  BY <1>1, PersistSaves
  DEF QuietNext, RoomOpens, RoomEnds, ClaimAnswered, RenewalNext, RenewalAsks, RenewalLoses,
      RenewalDenied, RenewalKeeps, binding
<1>2. ASSUME NEW g \in Runs, WorkNext(g) PROVE file' = file \/ \E m : file' = Merged(m)
  BY <1>2, PersistSaves
  DEF WorkNext, SendBegins, SendSuperseded, SendFenced, SendClaimed, Checks, SubmitsAlone,
      SendRetries, SendFails, SendResumes, SendPasses, PassFails, SendCompletes,
      CompletionFails, SelectsPost, SelectsSkip, Selects, Freezes, SendReceives, RefreshLoses,
      RefreshDenied, Refreshes, ReplayStops, SendStale, PostRefused, binding
<1>3. ASSUME NEW g \in Runs, EndNext(g) PROVE file' = file \/ \E m : file' = Merged(m)
  BY <1>3, PersistSaves
  DEF EndNext, ProcessingEnds, RecoveryFails, DispatchFails, ProcessingSettles,
      ProcessingPasses, DispatchIgnored, binding
<1>4. CASE \/ ReceiveLost \/ \E s \in Sources : Receive(s) \/ Recovers(s) \/ Sweep(s)
           \/ \E o \in Saves : ReceiveSupersedes(o) \/ ReceiveIgnores(o) \/ ReceiveDispatches(o)
  BY <1>4, PersistSaves
  DEF ReceiveLost, Receive, Recovers, Sweep, ReceiveSupersedes, ReceiveIgnores,
      ReceiveDispatches, binding
<1>5. CASE Crash
  BY <1>5 DEF Crash
<1> QED BY <1>1, <1>2, <1>3, <1>4, <1>5, NextByKind

LEMMA MergedKeeps ==
  ASSUME NEW m, Merged(m) \in Binding, NEW s \in Sources, NEW a \in Attempts,
         file.authority[s][a] = "superseded"
  PROVE  Merged(m).authority[s][a] = "superseded"
<1> DEFINE x == [t \in Sources |-> [b \in Attempts |->
                   IF file.authority[t][b] = "superseded" THEN "superseded"
                   ELSE m.authority[t][b]]]
<1>1. Merged(m) = [m EXCEPT !.authority = x]
  BY DEF Merged
<1>2. x[s][a] = "superseded"
  OBVIOUS
<1> HIDE DEF x
<1>3. "authority" \in DOMAIN [m EXCEPT !.authority = x]
  BY <1>1 DEF Binding
<1>4. [m EXCEPT !.authority = x].authority = x
  BY <1>3
<1> QED BY <1>1, <1>2, <1>4

\* What goes out has been confirmed, or names no attempt.
Sends(g) == send[g].at # "sent" /\ send'[g].at = "sent"

LEMMA SendsCases ==
  ASSUME TypeInv, Next, NEW g \in Runs, Sends(g)
  PROVE  /\ Works(g) /\ send'[g].attempt = send[g].attempt
         /\ \/ SubmitsAlone(g)
            \/ \E o \in Saves : Refreshes(g, o) /\ Confirmed(g, o) /\ At(g, "second")
<1>1. CASE QuietNext
  BY <1>1, QuietStep DEF Quiet, Sends
<1>2. ASSUME NEW h \in Runs, WorkNext(h), h # g PROVE FALSE
  BY <1>2, WorkStep DEF Works, Sends
<1>3. CASE WorkNext(g)
  <2>1. Works(g)
    BY <1>3, WorkStep
  <2>2. \/ SubmitsAlone(g)
        \/ \E o \in Saves : Refreshes(g, o) /\ Confirmed(g, o) /\ At(g, "second")
    <3>1. ASSUME NEW at, at # "sent", Moves(g, at) \/ Claims(g, at) PROVE FALSE
      BY <3>1 DEF Moves, Claims, Sends, TypeInv, SendTypes, Gen
    <3>2. ~ SendBegins(g) /\ ~ SendResumes(g)
      BY DEF SendBegins, SendResumes, Sends, TypeInv, SendTypes, Gen
    <3>3. ASSUME NEW o \in Saves PROVE ~ SelectsPost(g, o) /\ ~ SelectsSkip(g, o)
      <4> DEFINE x1 == [send[g] EXCEPT !.at = "failed"]
                 x2 == [send[g] EXCEPT !.at = "replay", !.attempt = mem.cycle[send[g].source],
                                       !.again = TRUE]
                 x3 == [send[g] EXCEPT !.at = "alone"]
                 x4 == [send[g] EXCEPT !.at = "claim", !.attempt = Chosen(g), !.answer = Waiting]
                 x5 == [send[g] EXCEPT !.at = "ended"]
                 x6 == [send[g] EXCEPT !.at = "pass", !.attempt = Chosen(g)]
      <4>1. /\ x1.at # "sent" /\ x2.at # "sent" /\ x3.at # "sent"
            /\ x4.at # "sent" /\ x5.at # "sent" /\ x6.at # "sent"
        BY DEF TypeInv, SendTypes, Gen
      <4>2. SelectsPost(g, o) \/ SelectsSkip(g, o) => send'[g] \in {x1, x2, x3, x4, x5, x6}
        BY DEF SelectsPost, SelectsSkip, TypeInv, SendTypes
      <4> HIDE DEF x1, x2, x3, x4, x5, x6
      <4> QED BY <4>1, <4>2 DEF Sends
    <3>4. ASSUME NEW o \in Saves, RefreshLoses(g, o) \/ RefreshDenied(g, o) PROVE FALSE
      BY <3>1, <3>4 DEF RefreshLoses, RefreshDenied
    <3>5. ASSUME NEW o \in Saves, Freezes(g, o) \/ SendReceives(g, o) PROVE FALSE
      BY <3>1, <3>5 DEF Freezes, SendReceives
    <3>6. ASSUME NEW o \in Saves, Refreshes(g, o)
          PROVE  Confirmed(g, o) /\ At(g, "second")
      BY <3>1, <3>6 DEF Refreshes, Refreshing, SendAnswered, At
    <3>7. ~ SendSuperseded(g) /\ ~ SendFenced(g) /\ ~ SendClaimed(g) /\ ~ Checks(g)
      BY <3>1 DEF SendSuperseded, SendFenced, SendClaimed, Checks
    <3>8. ~ SendRetries(g) /\ ~ SendFails(g)
      BY <3>1 DEF SendRetries, SendFails
    <3>9. /\ ~ SendPasses(g) /\ ~ PassFails(g) /\ ~ SendCompletes(g)
          /\ ~ SendStale(g) /\ ~ PostRefused(g)
          /\ \A o \in Saves : ~ CompletionFails(g, o) /\ ~ ReplayStops(g, o)
      BY <3>1 DEF SendPasses, PassFails, SendCompletes, SendStale, PostRefused, CompletionFails,
                  ReplayStops
    <3> QED
      BY <1>3, <3>2, <3>3, <3>4, <3>5, <3>6, <3>7, <3>8, <3>9 DEF WorkNext
  <2>3. send'[g].attempt = send[g].attempt
    <3>1. Working(g)
      BY <2>1 DEF Works
    <3>2. \E at \in SendSteps : Moves(g, at) \/ Claims(g, at)
      BY <2>2 DEF SubmitsAlone, Refreshes, SendSteps
    <3> QED BY <3>1, <3>2, MovesTypes DEF TypeInv
  <2> QED BY <2>1, <2>2, <2>3
<1>4. ASSUME NEW h \in Runs, EndNext(h) PROVE FALSE
  <2>1. Finishes(h)
    BY <1>4, EndStep DEF EndNext
  <2>2. PICK d \in Gate :
          \/ StartsNone(d, Ended(h))
          \/ \E n \in Runs, s \in Sources : Starts(d, Ended(h), n, s)
    BY <2>1 DEF Finishes
  <2>3. Ended(h) \in [Runs -> Gen] /\ Ended(h)[g].at # "sent"
    BY <2>1, EndedType DEF Finishes, TypeInv, Sends
  <2>4. ~ StartsNone(d, Ended(h))
    BY <2>3 DEF StartsNone, Sends
  <2>5. ASSUME NEW n \in Runs, NEW s \in Sources, Starts(d, Ended(h), n, s) PROVE FALSE
    <3>1. StartedRun(d, Ended(h), n, s)
      BY <2>3, <2>5, StartsRun
    <3> QED BY <2>3, <3>1 DEF StartedRun, Sends
  <2> QED BY <2>2, <2>4, <2>5
<1>5. ASSUME NEW s \in Sources, Queues(s) PROVE FALSE
  <2> DEFINE d == [dispatch EXCEPT !.queue = @ \cup {s}]
  <2>1. d \in Gate /\ send \in [Runs -> Gen]
    BY QueuedGate DEF TypeInv, SendTypes
  <2>2. \/ StartsNone(d, send) \/ \E n \in Runs, t \in Sources : Starts(d, send, n, t)
    BY <1>5 DEF Queues
  <2> HIDE DEF d
  <2>3. ~ StartsNone(d, send)
    BY DEF StartsNone, Sends
  <2>4. ASSUME NEW n \in Runs, NEW t \in Sources, Starts(d, send, n, t) PROVE FALSE
    <3>1. StartedRun(d, send, n, t)
      BY <2>1, <2>4, StartsRun
    <3> QED BY <3>1 DEF StartedRun, Sends
  <2> QED BY <2>2, <2>3, <2>4
<1>6. CASE \/ ReceiveLost \/ \E s \in Sources : Receive(s) \/ Recovers(s) \/ Sweep(s)
           \/ \E o \in Saves : ReceiveSupersedes(o) \/ ReceiveIgnores(o) \/ ReceiveDispatches(o)
  BY <1>5, <1>6, ReceiveStep, RecoversStep, SweepStep, ReceiveDispatchesStep DEF Sweeps, Sends
<1>7. CASE Crash
  BY <1>7, CrashStep DEF Sends
<1> QED BY <1>1, <1>2, <1>3, <1>4, <1>6, <1>7, NextByKind

\* A loss that was saved stands, and nothing is submitted under it.
THEOREM LossesStand == Spec => DenialStands
<1>1. TypeInv /\ Next =>
        \A s \in Sources, a \in Attempts :
          file.authority[s][a] = "superseded" =>
            file'.authority[s][a] = "superseded" /\ ~ Submits(s, a)
  <2> SUFFICES ASSUME TypeInv, Next, NEW s \in Sources, NEW a \in Attempts,
                      file.authority[s][a] = "superseded"
               PROVE  file'.authority[s][a] = "superseded" /\ ~ Submits(s, a)
    OBVIOUS
  <2>1. file'.authority[s][a] = "superseded"
    <3>1. file' \in Binding
      BY TypesStep DEF TypeInv, BindingTypes
    <3> QED BY <3>1, StepSaves, MergedKeeps
  <2>2. ASSUME NEW g \in Runs, Sends(g), send'[g].source = s, send'[g].attempt = a
        PROVE  FALSE
    <3>1. /\ Works(g) /\ send'[g].attempt = send[g].attempt
          /\ \/ SubmitsAlone(g)
             \/ \E o \in Saves : Refreshes(g, o) /\ Confirmed(g, o)
      BY <2>2, SendsCases
    <3>2. send[g].source = s /\ send[g].attempt = a
      BY <2>2, <3>1 DEF Works
    <3>3. ~ SubmitsAlone(g)
      BY <3>2, SmallNumbers DEF SubmitsAlone
    <3>4. Merged(With(mem, s, a, "active")).authority[s][a] = "active"
      BY <3>1, <3>2, <3>3 DEF Confirmed, Persisted
    <3>5. Merged(With(mem, s, a, "active")).authority[s][a] = "superseded"
      BY WithType, MergedType DEF TypeInv, BindingTypes
    <3> QED BY <3>4, <3>5
  <2> QED BY <2>1, <2>2 DEF Submits, Sends
<1>2. TypeInv /\ UNCHANGED vars => UNCHANGED file
  BY DEF vars
<1>3. Init => TypeInv
  BY InitTypes
<1>4. TypeInv /\ [Next]_vars => TypeInv'
  BY TypesStep
<1> QED BY <1>1, <1>3, <1>4, PTL DEF Spec, DenialStands

-----------------------------------------------------------------------------
(***************************************************************************)
(* No run of a completed source                                            *)
(***************************************************************************)
\* Without a sweep there is one run at work, and it has its places.
LEMMA OnlyRun ==
  ASSUME TypeInv, GateInv, freed = {}, NEW g \in Runs, Working(g)
  PROVE  /\ dispatch.active = g /\ dispatch.inflight[send[g].source] = g
         /\ send[g].source \in Sources
         /\ \A h \in Runs : Working(h) => h = g
BY DEF GateInv, OneRunPerRoom, Working, TypeInv, SendTypes

LEMMA NotedLate == ASSUME NEW s, Notes(s) PROVE late \subseteq late'
BY DEF Notes

\* A run that has just started, of a queued source without an outcome.
Fresh(h) ==
  /\ send[h] = Idle /\ send'[h].source \in Sources \ mem'.settled
  /\ send'[h] = Started(send'[h].source) /\ send'[h].at = "running"
  /\ send'[h].model => send'[h].source \notin dispatch'.queue
  /\ \A k \in Runs : Working(k)' => k = h

\* What is at work after the end of g, and what waits.
LEMMA AfterFinish ==
  ASSUME TypeInv, GateInv, freed = {}, NEW g \in Runs, Finishes(g)
  PROVE  /\ Working(g) /\ ClaimsNot(FALSE)
         /\ dispatch'.queue \subseteq dispatch.queue \cup Requeued(g)
         /\ \A h \in Runs : Working(h)' =>
              Fresh(h) /\ send'[h].source \in dispatch.queue \cup Requeued(g)
<1>1. Working(g) /\ ClaimsNot(FALSE)
  BY DEF Finishes
<1>2. /\ Ended(g) \in [Runs -> Gen] /\ Ended(g)[g].at = "over"
      /\ \A h \in Runs : h # g => Ended(g)[h] = send[h]
  BY <1>1, EndedType DEF TypeInv
<1>3. \A h \in Runs : Ended(g)[h].at \notin SendSteps
  BY <1>1, <1>2, OnlyRun DEF Working, SendSteps
<1>4. PICK d \in Gate :
        /\ Gives(d, g)
        /\ \/ StartsNone(d, Ended(g))
           \/ \E h \in Runs, s \in Sources : Starts(d, Ended(g), h, s)
  BY DEF Finishes
<1>5. d.queue \subseteq dispatch.queue \cup Requeued(g)
  BY <1>4 DEF Gives
<1>6. CASE StartsNone(d, Ended(g))
  BY <1>1, <1>3, <1>5, <1>6 DEF StartsNone, Working
<1>7. ASSUME NEW n \in Runs, NEW s \in Sources, Starts(d, Ended(g), n, s)
      PROVE  /\ dispatch'.queue \subseteq dispatch.queue \cup Requeued(g)
             /\ \A h \in Runs : Working(h)' =>
                  Fresh(h) /\ send'[h].source \in dispatch.queue \cup Requeued(g)
  <2>1. StartedRun(d, Ended(g), n, s)
    BY <1>2, <1>7, StartsRun
  <2>2. \A k \in Runs : Working(k)' => k = n
    BY <1>3, <2>1 DEF StartedRun, Working
  <2>3. Fresh(n) /\ send'[n].source \in dispatch.queue \cup Requeued(g)
    BY <1>5, <2>1, <2>2 DEF StartedRun, Fresh
  <2> QED BY <1>5, <2>1, <2>2, <2>3 DEF StartedRun
<1> QED BY <1>1, <1>4, <1>6, <1>7

\* What is at work after source s is queued.
LEMMA AfterQueue ==
  ASSUME TypeInv, GateInv, freed = {}, NEW s \in Sources, Queues(s)
  PROVE  /\ dispatch'.queue \subseteq dispatch.queue \cup {s}
         /\ \/ send' = send
            \/ /\ \A h \in Runs : ~ Working(h)
               /\ \A h \in Runs : Working(h)' =>
                    Fresh(h) /\ send'[h].source \in dispatch.queue \cup {s}
<1> DEFINE d == [dispatch EXCEPT !.queue = @ \cup {s}]
<1>1. d \in Gate /\ d.active = dispatch.active /\ d.queue = dispatch.queue \cup {s}
  BY QueuedGate
<1>2. \/ StartsNone(d, send)
      \/ d.active = 0 /\ \E h \in Runs, t \in Sources : Starts(d, send, h, t)
  BY DEF Queues
<1> HIDE DEF d
<1>3. CASE StartsNone(d, send)
  BY <1>1, <1>3 DEF StartsNone
<1>4. ASSUME d.active = 0, NEW n \in Runs, NEW t \in Sources, Starts(d, send, n, t)
      PROVE  /\ dispatch'.queue \subseteq dispatch.queue \cup {s}
             /\ \A h \in Runs : ~ Working(h)
             /\ \A h \in Runs : Working(h)' =>
                  Fresh(h) /\ send'[h].source \in dispatch.queue \cup {s}
  <2>1. StartedRun(d, send, n, t)
    BY <1>1, <1>4, StartsRun DEF TypeInv, SendTypes
  <2>2. \A h \in Runs : ~ Working(h)
    BY <1>1, <1>4, OnlyRun, SmallNumbers
  <2>3. \A k \in Runs : Working(k)' => k = n
    BY <2>1, <2>2 DEF StartedRun, Working
  <2>4. Fresh(n) /\ send'[n].source \in dispatch.queue \cup {s}
    BY <1>1, <2>1, <2>3 DEF StartedRun, Fresh
  <2> QED BY <1>1, <2>1, <2>2, <2>3, <2>4 DEF StartedRun
<1> QED BY <1>2, <1>3, <1>4

LEMMA InitCompleted == Init => CompletedFirst
BY DEF Init, CompletedFirst, Idle, SendSteps

LEMMA CompletedStep ==
  ASSUME TypeInv, GateInv, CompletedFirst, [Next]_vars PROVE CompletedFirst'
<1>1. CASE UNCHANGED vars
  BY <1>1 DEF vars, CompletedFirst
<1>2. CASE Next
  <2> SUFFICES ASSUME freed' = {}, NEW h \in Runs, Working(h)'
               PROVE  send'[h].source \notin mem'.settled \ late'
    BY DEF CompletedFirst, Working
  <2>1. CASE freed # {}
    <3>1. freed \subseteq freed'
      BY <1>2, NextByKind, QuietStep, WorkStep, EndStep, ReceiveStep, RecoversStep,
         SweepStep, ReceiveDispatchesStep, CrashStep
      DEF EndNext, Quiet, NoRunMoves, Works, Finishes, Queues, Sweeps
    <3> QED BY <2>1, <3>1
  <2>2. CASE freed = {}
    <3>1. ASSUME Working(h), send'[h].source = send[h].source, late \subseteq late',
                 mem'.settled = mem.settled
          PROVE  send'[h].source \notin mem'.settled \ late'
      BY <2>2, <3>1 DEF CompletedFirst, Working
    <3>2. CASE QuietNext
      BY <3>1, <3>2, QuietStep DEF Quiet, NoRunMoves, Working
    <3>3. ASSUME NEW g \in Runs, WorkNext(g)
          PROVE  send'[h].source \notin mem'.settled \ late'
      BY <3>1, <3>3, WorkStep DEF Works, Working
    <3>4. ASSUME NEW g \in Runs, EndNext(g)
          PROVE  send'[h].source \notin mem'.settled \ late'
      BY <2>2, <3>4, EndStep, AfterFinish DEF EndNext, Fresh
    <3>5. ASSUME NEW s \in Sources, Queues(s), late \subseteq late'
          PROVE  send'[h].source \notin mem'.settled \ late'
      BY <2>2, <3>1, <3>5, AfterQueue DEF Fresh, Queues, Working
    <3>6. CASE \/ ReceiveLost \/ \E s \in Sources : Receive(s)
               \/ \E o \in Saves : ReceiveSupersedes(o) \/ ReceiveIgnores(o)
      <4>1. send' = send /\ dispatch' = dispatch
        BY <3>6, ReceiveStep
      <4>2. CASE UNCHANGED <<binding, late>>
        BY <3>1, <4>1, <4>2 DEF binding, Working
      <4>3. CASE /\ Notes(receive.source)
                 /\ mem'.settled = mem.settled \cup {receive.source}
        <5>1. dispatch.inflight[send[h].source] # 0
          BY <2>2, <4>1, OnlyRun, SmallNumbers DEF Working
        <5>2. CASE send[h].source = receive.source
          BY <4>1, <4>3, <5>1, <5>2 DEF Notes
        <5>3. CASE send[h].source # receive.source
          <6>1. send[h].source \notin mem.settled \ late
            BY <2>2, <4>1 DEF CompletedFirst, Working
          <6> QED BY <4>1, <4>3, <5>3, <6>1, NotedLate
        <5> QED BY <5>2, <5>3
      <4> QED BY <3>6, <4>2, <4>3, ReceiveStep
    <3>7. CASE \E s \in Sources : Recovers(s) \/ Sweep(s)
      <4>1. ASSUME NEW s \in Sources, Sweep(s) PROVE FALSE
        BY <4>1, SweepStep DEF Sweeps
      <4> QED BY <3>5, <3>7, <4>1, RecoversStep
    <3>8. CASE \E o \in Saves : ReceiveDispatches(o)
      BY <3>1, <3>5, <3>8, ReceiveDispatchesStep, NotedLate DEF Working
    <3>9. CASE Crash
      BY <3>9, CrashStep DEF Working, SendSteps
    <3> QED BY <1>2, <3>2, <3>3, <3>4, <3>6, <3>7, <3>8, <3>9, NextByKind
  <2> QED BY <2>1, <2>2
<1> QED BY <1>1, <1>2

\* No source has its outcome while a run of it is at work.
THEOREM CompletesFirst == Spec => []CompletedFirst
<1>1. Init => TypeInv /\ GateInv /\ CompletedFirst
  BY InitTypes, InitGate, InitCompleted
<1>2. TypeInv /\ GateInv /\ CompletedFirst /\ [Next]_vars =>
        TypeInv' /\ GateInv' /\ CompletedFirst'
  BY TypesStep, GateStep, CompletedStep
<1> QED BY <1>1, <1>2, PTL DEF Spec
=============================================================================
