----------------------- MODULE CredentialRenewalProofs -----------------------
(***************************************************************************)
(* Proofs about CredentialRenewal: its types, and that no key of the       *)
(* membership is ever lost, however often a run is killed, in orderly runs *)
(* of any number and in runs one after another.                            *)
(***************************************************************************)
EXTENDS CredentialRenewal, TLAPS

\* The steps of a run that holds a copy of the journal.
Steps == Points \ {"prepare", "load"}
Views == (0 .. MaxSeq) \X (0 .. MaxSeq) \X Identities
Shown(at, answer) ==
  /\ at = "preflight" => answer \in Views
  /\ at \in {"request", "poll"} => answer[2] \in Identities
Holds(s) ==
  /\ DOMAIN s = {"at", "late", "j", "answer"}
  /\ s.at \in Steps /\ s.j \in Rotation
  /\ s.at = "preflight" => s.j.phase \in {"requesting_owner", "prepared"}
  /\ s.answer # NoAnswer => Shown(s.at, s.answer[1])

\* TypeOK in parts, with what it needs to be inductive: the shape of a run, the
\* preflight's journal, the answers that go into the journal, and the gateway's copy.
FileType ==
  [cred : Keys, enabled : BOOLEAN, revoked : BOOLEAN, ack : 0 .. MaxSeq,
   identity : Identities, rot : Rotation \cup {NoRotation}]
RoomType ==
  [active : Keys, pending : 0 .. MaxKeys, expired : BOOLEAN,
   delivered : 0 .. MaxSeq, acked : 0 .. MaxSeq, identity : Identities]
RunTypes ==
  DOMAIN run = Runs /\ \A r \in Runs : run[r] \in RunStates \/ Holds(run[r])
RequestType == [Keys -> RequestStates]
GatewayType == {NoGateway} \cup [cred : Keys, ack : 0 .. MaxSeq]
CountTypes == keys \in Keys /\ lapses \in 0 .. MaxLapses /\ deaths \in 0 .. MaxDeaths
TypeInv ==
  /\ file \in FileType /\ room \in RoomType /\ RunTypes
  /\ request \in RequestType /\ gateway \in GatewayType /\ CountTypes

-----------------------------------------------------------------------------
(***************************************************************************)
(* Lemmas about the operators of the model                                 *)
(***************************************************************************)
\* A journal is never mistaken for its absence.
LEMMA JournalIsThere == \A j \in Rotation : j # NoRotation
BY DEF Rotation, Phases, NoRotation

\* A run without a copy of the journal is at none of its steps.
LEMMA IdleRun == \A s \in RunStates : s.at \in {"off", "prepare", "load"}
BY DEF RunStates, Off

\* A run at a step that needs a copy of the journal has one.
LEMMA RunHolds ==
  ASSUME TypeInv, NEW r \in Runs, run[r].at \in Steps PROVE Holds(run[r])
BY IdleRun DEF TypeInv, RunTypes, Steps, Points

\* What the update of one run leaves alone, and what it sets.
LEMMA AnswerStep ==
  ASSUME TypeInv, NEW r \in Runs, run[r].at \in Steps, NEW j, NEW a, Answer(r, j, a)
  PROVE  /\ DOMAIN run' = Runs /\ \A q \in Runs : q # r => run'[q] = run[q]
         /\ run'[r].at = run[r].at /\ run'[r].j = j /\ run'[r].answer = <<a>>
         /\ DOMAIN run'[r] = {"at", "late", "j", "answer"}
BY RunHolds DEF Answer, TypeInv, RunTypes, Holds

LEMMA GoesOnStep ==
  ASSUME TypeInv, NEW r \in Runs, run[r].at \in Steps, NEW at, NEW j, GoesOn(r, at, j)
  PROVE  /\ DOMAIN run' = Runs /\ \A q \in Runs : q # r => run'[q] = run[q]
         /\ run'[r].at = at /\ run'[r].j = j /\ run'[r].answer = NoAnswer
         /\ DOMAIN run'[r] = {"at", "late", "j", "answer"}
BY RunHolds DEF GoesOn, TypeInv, RunTypes, Holds

LEMMA EndsStep ==
  ASSUME TypeInv, NEW r \in Runs, Ends(r)
  PROVE  DOMAIN run' = Runs /\ run'[r] = Off /\ \A q \in Runs : q # r => run'[q] = run[q]
BY DEF Ends, TypeInv, RunTypes

\* The step with which a journal is resumed needs a copy of it.
LEMMA ResumeIsStep ==
  ASSUME NEW j \in Rotation
  PROVE  /\ Resume(j) \in Steps
         /\ Resume(j) = "preflight" => j.phase \in {"requesting_owner", "prepared"}
         /\ Resume(j) = "prove" => j.phase = "confirmed"
BY DEF Resume, Rotation, Phases, Steps, Points

-----------------------------------------------------------------------------
(***************************************************************************)
(* Types                                                                   *)
(***************************************************************************)
LEMMA InitTypes == Init => TypeInv
BY RenewalAssumption DEF Init, Identities, RequestStates, TypeInv, FileType, RoomType, RunTypes, RequestType, GatewayType,
   CountTypes, RunStates, Off, Keys

\* A run that gets an answer, or goes on with a journal, keeps the types of the
\* runs; so does one that ends.
LEMMA AnswerTypes ==
  ASSUME TypeInv, NEW r \in Runs, run[r].at \in Steps, NEW j \in Rotation, NEW a,
         Answer(r, j, a), Shown(run[r].at, a), run[r].at = "preflight" => j = run[r].j
  PROVE  RunTypes'
<1>1. Holds(run'[r])
  BY AnswerStep, RunHolds DEF Holds
<1> QED BY <1>1, AnswerStep DEF TypeInv, RunTypes

LEMMA GoesOnTypes ==
  ASSUME TypeInv, NEW r \in Runs, run[r].at \in Steps, NEW at \in Steps \ {"preflight"},
         NEW j \in Rotation, GoesOn(r, at, j)
  PROVE  RunTypes'
<1>1. Holds(run'[r])
  BY GoesOnStep DEF Holds
<1> QED BY <1>1, GoesOnStep DEF TypeInv, RunTypes

LEMMA EndsTypes ==
  ASSUME TypeInv, NEW r \in Runs, Ends(r)
  PROVE  RunTypes'
<1>1. Off \in RunStates
  BY DEF RunStates
<1> QED BY <1>1, EndsStep DEF TypeInv, RunTypes

LEMMA TypesHold == TypeInv => TypeOK
<1>1. \A s : Holds(s) => s.at \in Points /\ s.j \in Rotation
  BY DEF Holds, Steps
<1> QED
  BY <1>1 DEF TypeInv, TypeOK, FileType, RoomType, RunTypes, RequestType, CountTypes

LEMMA BeginTypes ==
  ASSUME TypeInv, NEW r \in Runs, NEW owner \in BOOLEAN, Begin(r, owner) PROVE TypeInv'
<1> DEFINE late == Renewing /\ file.rot.phase = "confirmed"
           s == IF Renewing THEN [at |-> "load", late |-> late]
                ELSE [at |-> "prepare", late |-> late, owner |-> owner, new |-> keys + 1]
<1>1. CountTypes' /\ (~ Renewing => keys + 1 \in Keys)
  BY RenewalAssumption DEF TypeInv, CountTypes, Keys, Begin
<1>2. s \in RunStates
  BY <1>1 DEF RunStates
<1>3. run' = [run EXCEPT ![r] = s]
  BY DEF Begin
<1>4. RunTypes'
  BY <1>2, <1>3 DEF TypeInv, RunTypes
<1>5. request' \in RequestType
  BY <1>1 DEF TypeInv, RequestType, RequestStates, Begin
<1> QED BY <1>1, <1>4, <1>5 DEF TypeInv, Begin

LEMMA NewRotationType ==
  ASSUME TypeInv, NEW r \in Runs, run[r].at = "prepare"
  PROVE  /\ run[r] \in [at : {"prepare"}, late : BOOLEAN, owner : BOOLEAN, new : Keys]
         /\ NewRotation(r) \in Rotation
<1>1. run[r] \in [at : {"prepare"}, late : BOOLEAN, owner : BOOLEAN, new : Keys]
  BY DEF TypeInv, RunTypes, RunStates, Off, Holds, Steps
<1> QED
  BY <1>1 DEF TypeInv, NewRotation, FileType, Rotation, Phases, Cursors

LEMMA PrepareTypes == ASSUME TypeInv, NEW r \in Runs, Prepare(r) PROVE TypeInv'
<1>1. [at |-> "load", late |-> run[r].late] \in RunStates
  BY NewRotationType DEF Prepare, RunStates
<1>2. run' = [run EXCEPT ![r] = [at |-> "load", late |-> run[r].late]]
  BY DEF Prepare
<1>3. RunTypes'
  BY <1>1, <1>2 DEF TypeInv, RunTypes
<1>4. file' \in FileType
  BY NewRotationType DEF TypeInv, Prepare, FileType
<1> QED BY <1>3, <1>4 DEF TypeInv, Prepare, outside, CountTypes

LEMMA LoadTypes == ASSUME TypeInv, NEW r \in Runs, Load(r) PROVE TypeInv'
<1> DEFINE s == IF Renewing THEN [at |-> Resume(file.rot), late |-> run[r].late,
                                  j |-> file.rot, answer |-> NoAnswer]
                ELSE Off
<1>1. s \in RunStates \/ Holds(s)
  <2>1. CASE Renewing
    <3>1. file.rot \in Rotation
      BY <2>1 DEF TypeInv, Renewing, FileType
    <3>2. /\ Resume(file.rot) \in Steps
          /\ Resume(file.rot) = "preflight" =>
               file.rot.phase \in {"requesting_owner", "prepared"}
      BY <3>1, ResumeIsStep
    <3>3. s = [at |-> Resume(file.rot), late |-> run[r].late, j |-> file.rot,
               answer |-> NoAnswer]
      BY <2>1
    <3> HIDE DEF s
    <3> QED BY <3>1, <3>2, <3>3 DEF Holds
  <2>2. CASE ~ Renewing
    BY <2>2 DEF RunStates
  <2> QED BY <2>1, <2>2
<1>2. run' = [run EXCEPT ![r] = s]
  BY DEF Load
<1> HIDE DEF s
<1>3. RunTypes'
  BY <1>1, <1>2 DEF TypeInv, RunTypes
<1> QED BY <1>3 DEF TypeInv, Load, outside, CountTypes

\* The calls of a run.
LEMMA AsksStateTypes == ASSUME TypeInv, NEW r \in Runs, AsksState(r) PROVE TypeInv'
<1>1. CASE Calling(r, "preflight") /\ Answer(r, run[r].j, View)
  <2>1. run[r].at \in Steps /\ Holds(run[r])
    BY <1>1, RunHolds DEF Calling, Steps, Points
  <2>2. Shown(run[r].at, View)
    BY <1>1 DEF TypeInv, RoomType, View, Views, Shown, Calling
  <2>3. RunTypes'
    BY <1>1, <2>1, <2>2, AnswerTypes DEF Holds
  <2> QED BY <2>3 DEF TypeInv, AsksState, outside, CountTypes
<1>2. CASE Calling(r, "prove") /\ Renewing /\ Answer(r, file.rot, Append(View, file.ack))
  <2>1. run[r].at \in Steps /\ run[r].at # "preflight"
        /\ Shown(run[r].at, Append(View, file.ack))
    BY <1>2 DEF Calling, Steps, Points, Shown
  <2>2. file.rot \in Rotation
    BY <1>2 DEF TypeInv, FileType, Renewing
  <2>3. RunTypes'
    BY <1>2, <2>1, <2>2, AnswerTypes
  <2> QED BY <2>3 DEF TypeInv, AsksState, outside, CountTypes
<1> QED BY <1>1, <1>2 DEF AsksState

LEMMA AsksOwnerTypes == ASSUME TypeInv, NEW r \in Runs, AsksOwner(r) PROVE TypeInv'
<1> DEFINE k == run[r].j.new
<1>1. run[r].at \in Steps /\ run[r].at # "preflight" /\ Holds(run[r])
  BY RunHolds DEF AsksOwner, Calling, Steps, Points
<1>2. run[r].j \in Rotation /\ k \in Keys
  BY <1>1 DEF Holds, Rotation
<1>3. PICK now \in IF run[r].at = "request" THEN Presented(request[k]) ELSE {request[k]} :
        request' = [request EXCEPT ![k] = now] /\ Answer(r, run[r].j, <<now, room.identity>>)
  BY DEF AsksOwner
<1>4. now \in RequestStates
  BY <1>2 DEF Presented, RequestStates, TypeInv, RequestType
<1>5. Shown(run[r].at, <<now, room.identity>>)
  BY <1>1 DEF Shown, TypeInv, RoomType
<1>6. RunTypes'
  BY <1>1, <1>2, <1>3, <1>5, AnswerTypes
<1>7. request' \in RequestType
  BY <1>2, <1>3, <1>4 DEF TypeInv, RequestType
<1> QED BY <1>6, <1>7 DEF TypeInv, AsksOwner, CountTypes

LEMMA RedeemsTypes == ASSUME TypeInv, NEW r \in Runs, Redeems(r) PROVE TypeInv'
<1>1. run[r].at \in Steps /\ run[r].at = "redeem" /\ Holds(run[r])
  BY RunHolds DEF Redeems, Calling, Steps, Points
<1>2. run[r].j \in Rotation /\ run[r].j.new \in Keys
  BY <1>1 DEF Holds, Rotation
<1>3. RunTypes'
  BY <1>1, <1>2, AnswerTypes DEF Redeems, Shown
<1>4. request' \in RequestType
  BY <1>2 DEF TypeInv, RequestType, RequestStates, Redeems
<1>5. room' \in RoomType
  BY <1>2, RenewalAssumption DEF TypeInv, RoomType, Redeems, Redeemed, Keys
<1> QED BY <1>3, <1>4, <1>5 DEF TypeInv, Redeems, CountTypes

LEMMA VerifiesTypes == ASSUME TypeInv, NEW r \in Runs, Verifies(r) PROVE TypeInv'
<1>1. run[r].at \in Steps /\ run[r].at = "verify"
  BY DEF Verifies, Calling, Steps, Points
<1>2. file.rot \in Rotation
  BY DEF TypeInv, FileType, Renewing, Verifies
<1>3. RunTypes'
  BY <1>1, <1>2, AnswerTypes DEF Verifies, Shown
<1> QED BY <1>3 DEF TypeInv, Verifies, outside, CountTypes

LEMMA ConfirmsTypes == ASSUME TypeInv, NEW r \in Runs, Confirms(r) PROVE TypeInv'
<1>1. run[r].at \in Steps /\ run[r].at = "confirm"
  BY DEF Confirms, Calling, Steps, Points
<1>2. file.rot \in Rotation /\ file.rot.new \in Keys
  BY DEF TypeInv, FileType, Renewing, Confirms, Rotation
<1>3. RunTypes'
  BY <1>1, <1>2, AnswerTypes DEF Confirms, Shown
<1>4. room' \in RoomType
  <2>1. room' = Confirmed(file.rot.new)
    BY DEF Confirms
  <2> DEFINE expired == IF room.active = file.rot.new THEN room.expired ELSE FALSE
  <2>2. expired \in BOOLEAN
    BY DEF TypeInv, RoomType
  <2>3. room' = [room EXCEPT !.active = file.rot.new, !.pending = 0, !.expired = expired]
    BY <2>1 DEF Confirmed
  <2> HIDE DEF expired
  <2>4. ASSUME NEW k \in Keys, NEW b \in BOOLEAN
        PROVE  [room EXCEPT !.active = k, !.pending = 0, !.expired = b] \in RoomType
    <3>1. 0 \in 0 .. MaxKeys
      BY RenewalAssumption
    <3>2. [room EXCEPT !.active = k, !.pending = 0] \in RoomType
      BY <3>1 DEF TypeInv, RoomType
    <3> QED BY <3>2 DEF RoomType
  <2> QED BY <2>2, <2>3, <2>4, <1>2
<1> QED BY <1>3, <1>4 DEF TypeInv, Confirms, outside, CountTypes

\* Its transactions.
LEMMA SnapshotTypes == ASSUME TypeInv, NEW r \in Runs, RecordsSnapshot(r) PROVE TypeInv'
<1> DEFINE answer == run[r].answer[1]
           rot == [file.rot EXCEPT !.expected = <<answer[1], answer[2]>>, !.fixed = TRUE]
           at == CASE run[r].j.phase = "requesting_owner" -> "request"
                   [] run[r].j.phase = "prepared" -> IF rot.owner THEN "poll" ELSE "redeem"
<1>1. run[r].at \in Steps /\ Holds(run[r]) /\ run[r].at = "preflight"
  BY RunHolds DEF RecordsSnapshot, Answered, Steps, Points
<1>2. file.rot \in Rotation /\ answer \in Views
  BY <1>1 DEF TypeInv, FileType, Renewing, RecordsSnapshot, Accepted, SameRotation, Holds,
              Answered, Shown
<1>3. rot \in Rotation
  <2>1. <<answer[1], answer[2]>> \in Cursors
    BY <1>2 DEF Views, Cursors
  <2> HIDE DEF answer
  <2> QED BY <1>2, <2>1 DEF Rotation
<1>4. file' = [file EXCEPT !.rot = rot] /\ GoesOn(r, at, rot)
  BY DEF RecordsSnapshot
<1>5. run[r].j.phase \in {"requesting_owner", "prepared"}
  BY <1>1 DEF Holds
<1>6. at \in Steps \ {"preflight"}
  BY <1>5 DEF Steps, Points
<1> HIDE DEF rot, at
<1>7. RunTypes'
  BY <1>1, <1>3, <1>4, <1>6, GoesOnTypes
<1>8. file' \in FileType
  BY <1>3, <1>4 DEF TypeInv, FileType
<1> QED BY <1>7, <1>8 DEF TypeInv, RecordsSnapshot, outside, CountTypes

\* The journal with an owner's status recorded in it.
LEMMA RecordedType ==
  ASSUME TypeInv, Renewing, NEW at, NEW state, NEW identity \in Identities
  PROVE  LET rot == Recorded(at, state, identity) IN
         /\ rot \in Rotation /\ rot.new = file.rot.new /\ rot.base = file.rot.base
         /\ rot.phase = "confirmed" => file.rot.phase = "confirmed"
<1> DEFINE rot == [file.rot EXCEPT !.identity = identity, !.known = TRUE, !.grant = TRUE]
           prepared == [rot EXCEPT !.phase = "prepared"]
           waiting == [rot EXCEPT !.phase = "requesting_owner", !.grant = FALSE]
<1>1. file.rot \in Rotation
  BY DEF Renewing, TypeInv, FileType
<1>2. rot \in Rotation /\ rot.new = file.rot.new /\ rot.base = file.rot.base
      /\ rot.phase = file.rot.phase
  BY <1>1 DEF Rotation
<1>3. prepared \in Rotation /\ prepared.new = file.rot.new /\ prepared.base = file.rot.base
      /\ prepared.phase = "prepared"
  BY <1>2 DEF Rotation, Phases
<1>4. waiting \in Rotation /\ waiting.new = file.rot.new /\ waiting.base = file.rot.base
      /\ waiting.phase = "requesting_owner"
  BY <1>2 DEF Rotation, Phases
<1>5. Recorded(at, state, identity) \in {rot, prepared, waiting}
  BY DEF Recorded
<1> HIDE DEF rot, prepared, waiting
<1> QED BY <1>2, <1>3, <1>4, <1>5

\* What the recording of a status does to the file and to the run.
LEMMA StatusStep ==
  ASSUME TypeInv, NEW r \in Runs, RecordsStatus(r)
  PROVE  /\ run[r].at \in Steps
         /\ \/ file' = file /\ Ends(r)
            \/ \E rot \in Rotation :
                 /\ Renewing /\ file' = [file EXCEPT !.rot = rot]
                 /\ rot.new = file.rot.new /\ rot.base = file.rot.base
                 /\ rot.phase = "confirmed" => file.rot.phase = "confirmed"
                 /\ GoesOn(r, "poll", rot) \/ GoesOn(r, "redeem", rot) \/ Ends(r)
<1> DEFINE state == run[r].answer[1][1]
           identity == run[r].answer[1][2]
           next == Recorded(run[r].at, state, identity)
<1>1. run[r].at \in Steps /\ run[r].at \in {"request", "poll"} /\ run[r].answer # NoAnswer
  BY DEF RecordsStatus, Answered, Steps, Points
<1>2. identity \in Identities
  BY <1>1, RunHolds DEF Holds, Shown
<1>3. CASE /\ SameRequest(run[r].j) /\ file' = [file EXCEPT !.rot = next]
           /\ GoesOn(r, "poll", next) \/ GoesOn(r, "redeem", next) \/ Ends(r)
  <2>1. Renewing
    BY <1>3 DEF SameRequest
  <2>2. /\ next \in Rotation /\ next.new = file.rot.new /\ next.base = file.rot.base
        /\ next.phase = "confirmed" => file.rot.phase = "confirmed"
    BY <1>2, <2>1, RecordedType
  <2> HIDE DEF next
  <2> QED BY <1>1, <1>3, <2>1, <2>2
<1>4. CASE file' = file /\ Ends(r)
  BY <1>1, <1>4
<1> HIDE DEF next
<1>5. \/ /\ SameRequest(run[r].j) /\ file' = [file EXCEPT !.rot = next]
         /\ GoesOn(r, "poll", next) \/ GoesOn(r, "redeem", next) \/ Ends(r)
      \/ file' = file /\ Ends(r)
  BY DEF RecordsStatus, next
<1> QED BY <1>3, <1>4, <1>5

LEMMA StatusTypes == ASSUME TypeInv, NEW r \in Runs, RecordsStatus(r) PROVE TypeInv'
<1>1. run[r].at \in Steps
  BY StatusStep
<1>2. {"poll", "redeem"} \subseteq Steps \ {"preflight"}
  BY DEF Steps, Points
<1>3. RunTypes' /\ file' \in FileType
  <2>1. CASE file' = file /\ Ends(r)
    BY <2>1, EndsTypes DEF TypeInv
  <2>2. ASSUME NEW rot \in Rotation, file' = [file EXCEPT !.rot = rot],
               GoesOn(r, "poll", rot) \/ GoesOn(r, "redeem", rot) \/ Ends(r)
        PROVE  RunTypes' /\ file' \in FileType
    <3>1. RunTypes'
      BY <1>1, <1>2, <2>2, GoesOnTypes, EndsTypes
    <3> QED BY <2>2, <3>1 DEF TypeInv, FileType
  <2> QED BY <2>1, <2>2, StatusStep
<1> QED BY <1>3 DEF TypeInv, RecordsStatus, outside, CountTypes

\* A change of the journal's phase.
LEMMA JournaledType ==
  ASSUME TypeInv, Renewing, NEW phase \in Phases
  PROVE  Journaled(phase) \in FileType /\ Journaled(phase).rot \in Rotation
<1>1. file.rot \in Rotation
  BY DEF TypeInv, FileType, Renewing
<1>2. [file.rot EXCEPT !.phase = phase] \in Rotation
  BY <1>1 DEF Rotation
<1>3. Journaled(phase) = [file EXCEPT !.rot = [file.rot EXCEPT !.phase = phase]]
  BY DEF Journaled, TypeInv, FileType
<1> QED BY <1>2, <1>3 DEF TypeInv, FileType

LEMMA MarksRedeemedTypes == ASSUME TypeInv, NEW r \in Runs, MarksRedeemed(r) PROVE TypeInv'
<1>1. run[r].at \in Steps /\ Holds(run[r]) /\ Renewing
  BY RunHolds DEF MarksRedeemed, Answered, Accepted, SameRotation, Steps, Points
<1>2. RunTypes'
  BY <1>1, GoesOnTypes DEF MarksRedeemed, Holds, Steps, Points
<1>3. file' \in FileType
  BY <1>1, JournaledType DEF MarksRedeemed, Phases
<1> QED BY <1>2, <1>3 DEF TypeInv, MarksRedeemed, outside, CountTypes

LEMMA SwapsTypes == ASSUME TypeInv, NEW r \in Runs, Swaps(r) PROVE TypeInv'
<1>1. run[r].at \in Steps /\ Holds(run[r]) /\ Renewing
  BY RunHolds DEF Swaps, Answered, Accepted, SameRotation, Steps, Points
<1>2. RunTypes'
  BY <1>1, GoesOnTypes DEF Swaps, Holds, Steps, Points
<1>3. Journaled("swapped") \in FileType /\ run[r].j.new \in Keys
  BY <1>1, JournaledType DEF Phases, Holds, Rotation
<1>4. file' = [Journaled("swapped") EXCEPT !.cred = run[r].j.new]
  BY DEF Swaps, Swap
<1> HIDE DEF Journaled
<1>5. file' \in FileType
  BY <1>3, <1>4 DEF FileType
<1> QED BY <1>2, <1>5 DEF TypeInv, Swaps, outside, CountTypes

LEMMA MarksConfirmedTypes == ASSUME TypeInv, NEW r \in Runs, MarksConfirmed(r) PROVE TypeInv'
<1>1. run[r].at \in Steps /\ Holds(run[r]) /\ Renewing
  BY RunHolds DEF MarksConfirmed, Answered, Accepted, SameRotation, Steps, Points
<1>2. RunTypes'
  BY <1>1, GoesOnTypes DEF MarksConfirmed, Holds, Steps, Points
<1>3. file' \in FileType
  BY <1>1, JournaledType DEF MarksConfirmed, Phases
<1> QED BY <1>2, <1>3 DEF TypeInv, MarksConfirmed, outside, CountTypes

LEMMA FinishesTypes == ASSUME TypeInv, NEW r \in Runs, Finishes(r) PROVE TypeInv'
<1> DEFINE identity == IF run[r].j.known THEN run[r].j.identity ELSE file.identity
<1>1. Holds(run[r])
  BY RunHolds DEF Finishes, Answered, Steps, Points
<1>2. RunTypes'
  BY EndsTypes DEF Finishes
<1>3. ASSUME NEW name \in Identities, NEW revoked \in BOOLEAN, NEW enabled \in BOOLEAN
      PROVE  [file EXCEPT !.rot = NoRotation, !.identity = name, !.revoked = revoked,
                          !.enabled = enabled] \in FileType
  BY DEF TypeInv, FileType
<1>4. /\ identity \in Identities
      /\ (file.revoked /\ ~ run[r].j.recover) \in BOOLEAN
      /\ (file.enabled \/ run[r].j.recover) \in BOOLEAN
  BY <1>1 DEF Holds, Rotation, TypeInv, FileType
<1>5. file' = [file EXCEPT !.rot = NoRotation, !.identity = identity,
                           !.revoked = file.revoked /\ ~ run[r].j.recover,
                           !.enabled = file.enabled \/ run[r].j.recover]
  BY DEF Finishes
<1> HIDE DEF identity
<1>6. file' \in FileType
  BY <1>3, <1>4, <1>5
<1> QED BY <1>2, <1>6 DEF TypeInv, Finishes, outside, CountTypes

LEMMA StopTypes == ASSUME TypeInv, NEW r \in Runs, Raises(r) \/ Dies(r) PROVE TypeInv'
<1>1. RunTypes'
  BY EndsTypes DEF Raises, Dies
<1>2. CountTypes'
  BY RenewalAssumption DEF TypeInv, CountTypes, Raises, Dies, outside
<1> QED BY <1>1, <1>2 DEF TypeInv, Raises, Dies, outside

\* The owner, the Room and the gateway.
LEMMA EnvironmentTypes == ASSUME TypeInv, Environment PROVE TypeInv'
<1>1. ASSUME NEW k \in Keys, Approves(k) \/ Refuses(k) \/ Lapses(k) \/ Voids(k)
      PROVE  TypeInv'
  <2>1. request' \in RequestType
    BY <1>1 DEF Approves, Refuses, Lapses, Voids, TypeInv, RequestType, RequestStates
  <2>2. RunTypes'
    BY <1>1 DEF Approves, Refuses, Lapses, Voids, TypeInv, RunTypes, command
  <2>3. CountTypes'
    BY <1>1, RenewalAssumption
    DEF Approves, Refuses, Lapses, Voids, TypeInv, CountTypes, command
  <2>4. room' \in RoomType
    BY <1>1, RenewalAssumption DEF Approves, Refuses, Lapses, Voids, TypeInv, RoomType
  <2> QED
    BY <1>1, <2>1, <2>2, <2>3, <2>4 DEF Approves, Refuses, Lapses, Voids, TypeInv
<1>2. ASSUME RoomExpires \/ Renames \/ Enable \/ GatewayStarts \/ GatewayStops
      PROVE  TypeInv'
  <2>1. file' \in FileType
    BY <1>2
    DEF RoomExpires, Renames, Enable, GatewayStarts, GatewayStops, TypeInv, FileType
  <2>4. room' \in RoomType
    <3>1. Renames => room.identity + 1 \in Identities
      BY RenewalAssumption DEF Renames, TypeInv, RoomType, Identities
    <3>2. CASE Renames
      BY <3>1, <3>2 DEF Renames, TypeInv, RoomType
    <3>3. CASE ~ Renames
      BY <1>2, <3>3 DEF RoomExpires, Enable, GatewayStarts, GatewayStops, TypeInv, RoomType
    <3> QED BY <3>2, <3>3
  <2>2. gateway' \in GatewayType
    BY <1>2
    DEF RoomExpires, Renames, Enable, GatewayStarts, GatewayStops, TypeInv, FileType, GatewayType
  <2>3. UNCHANGED <<request, lapses, command>>
    BY <1>2 DEF RoomExpires, Renames, Enable, GatewayStarts, GatewayStops
  <2> QED BY <2>1, <2>2, <2>3, <2>4 DEF TypeInv, RunTypes, CountTypes, command
<1>3. ASSUME Polls PROVE TypeInv'
  <2>1. room' \in RoomType
    BY <1>3, RenewalAssumption DEF Polls, TypeInv, RoomType
  <2> QED BY <1>3, <2>1 DEF Polls, TypeInv, RunTypes, CountTypes, command
<1>4. ASSUME Acknowledges PROVE TypeInv'
  <2>1. gateway \in [cred : Keys, ack : 0 .. MaxSeq]
    BY <1>4 DEF Acknowledges, Connected, TypeInv, GatewayType
  <2>2. gateway.ack + 1 \in 0 .. MaxSeq
    BY <1>4, <2>1, RenewalAssumption DEF Acknowledges, TypeInv, RoomType
  <2>3. gateway' = [gateway EXCEPT !.ack = gateway.ack + 1]
    BY <1>4 DEF Acknowledges, NextCursor
  <2>4. gateway' \in [cred : Keys, ack : 0 .. MaxSeq]
    BY <2>1, <2>2, <2>3
  <2>5. Higher(room.acked, gateway'.ack) \in 0 .. MaxSeq
    BY <2>4 DEF TypeInv, RoomType, Higher
  <2>6. room' = [room EXCEPT !.acked = Higher(room.acked, gateway'.ack)]
    BY <1>4 DEF Acknowledges
  <2>7. room' \in RoomType
    BY <2>5, <2>6 DEF TypeInv, RoomType
  <2> QED
    BY <1>4, <2>4, <2>7
    DEF Acknowledges, TypeInv, GatewayType, RunTypes, CountTypes, command
<1>5. ASSUME Saves PROVE TypeInv'
  <2>1. file' \in FileType
    BY <1>5 DEF Saves, TypeInv, FileType, GatewayType
  <2> QED BY <1>5, <2>1 DEF Saves, TypeInv, RunTypes, CountTypes, command
<1>6. ASSUME Rejected PROVE TypeInv'
  <2>1. [file EXCEPT !.enabled = FALSE,
                     !.revoked = @ \/ ~ Expired(gateway.cred)] \in FileType
    BY DEF TypeInv, FileType
  <2>2. file' \in FileType
    BY <1>6, <2>1 DEF Rejected, TypeInv
  <2> QED
    BY <1>6, <2>2 DEF Rejected, TypeInv, GatewayType, RunTypes, CountTypes, command
<1> QED BY <1>1, <1>2, <1>3, <1>4, <1>5, <1>6 DEF Environment

LEMMA NextTypes == ASSUME TypeInv, [Next]_vars PROVE TypeInv'
<1>1. ASSUME NEW r \in Runs, RunNext(r) PROVE TypeInv'
  BY <1>1, BeginTypes, PrepareTypes, LoadTypes, AsksStateTypes, AsksOwnerTypes, RedeemsTypes,
     VerifiesTypes, ConfirmsTypes, SnapshotTypes, StatusTypes, MarksRedeemedTypes, SwapsTypes,
     MarksConfirmedTypes, FinishesTypes, StopTypes
  DEF RunNext
<1>2. ASSUME UNCHANGED vars PROVE TypeInv'
  BY <1>2 DEF vars, TypeInv, RunTypes, CountTypes
<1> QED BY <1>1, <1>2, StopTypes, EnvironmentTypes DEF Next

LEMMA TypesStay == Spec => []TypeInv
<1> QED BY InitTypes, NextTypes, PTL DEF Spec

\* Every variable has its type, however runs overlap (TypeOK).
THEOREM RenewalTypes == Spec => []TypeOK
<1> QED BY TypesStay, TypesHold, PTL

-----------------------------------------------------------------------------
(***************************************************************************)
(* New keys                                                                *)
(***************************************************************************)
\* A key that a run has generated and not yet journaled is in no journal, and no
\* other run has it: a key is journaled once.
At(r) == run[r].at \in Steps
FreshKeys ==
  /\ Renewing => file.rot.new <= keys
  /\ \A r \in Runs : At(r) => run[r].j.new <= keys
  /\ \A r \in Runs : run[r].at = "prepare" =>
       /\ run[r].new <= keys
       /\ Renewing => file.rot.new # run[r].new
       /\ \A q \in Runs : At(q) => run[q].j.new # run[r].new
       /\ \A q \in Runs : q # r /\ run[q].at = "prepare" => run[q].new # run[r].new

\* What every step does but the beginning of a run and the journaling of its key:
\* run r goes on with its own journal or with the one in the file.
Continues(r) ==
  /\ keys' = keys
  /\ Renewing' => Renewing /\ file'.rot.new = file.rot.new
  /\ \A q \in Runs \ {r} : run'[q] = run[q]
  /\ run'[r] = run[r]
     \/ /\ run'[r].at # "prepare"
        /\ run'[r].at \in Steps =>
             \/ run[r].at \in Steps /\ run'[r].j.new = run[r].j.new
             \/ Renewing /\ run'[r].j.new = file.rot.new

LEMMA ContinuesFresh ==
  ASSUME FreshKeys, NEW r \in Runs, Continues(r) PROVE FreshKeys'
<1>1. ASSUME NEW q \in Runs, run'[q].at = "prepare"
      PROVE  run[q].at = "prepare" /\ run'[q] = run[q]
  BY <1>1 DEF Continues
<1>2. ASSUME NEW q \in Runs, run'[q].at \in Steps
      PROVE  \/ run[q].at \in Steps /\ run'[q].j.new = run[q].j.new
             \/ Renewing /\ run'[q].j.new = file.rot.new
  BY <1>2 DEF Continues
<1>3. keys' = keys /\ (Renewing' => Renewing /\ file'.rot.new = file.rot.new)
  BY DEF Continues
<1> QED BY <1>1, <1>2, <1>3 DEF FreshKeys, At

LEMMA BeginFresh ==
  ASSUME TypeInv, FreshKeys, NEW r \in Runs, NEW owner \in BOOLEAN, Begin(r, owner)
  PROVE  FreshKeys'
<1>1. DOMAIN run = Runs /\ \A q \in Runs : q # r => run'[q] = run[q]
  BY DEF Begin, TypeInv, RunTypes
<1>2. file' = file /\ ~ (run'[r].at \in Steps)
  BY <1>1 DEF Begin, Steps
<1>3. CASE Renewing
  <2>1. keys' = keys /\ run'[r].at # "prepare"
    BY <1>1, <1>3 DEF Begin
  <2>2. Continues(r)
    BY <1>1, <1>2, <2>1 DEF Continues, Renewing
  <2> QED BY <2>2, ContinuesFresh
<1>4. CASE ~ Renewing
  <2>1. keys' = keys + 1 /\ run'[r].new = keys + 1 /\ run'[r].at = "prepare"
    BY <1>1, <1>4 DEF Begin
  <2>2. ~ Renewing'
    BY <1>2, <1>4 DEF Renewing
  <2>3. keys \in Nat
    BY RenewalAssumption DEF TypeInv, CountTypes, Keys
  <2>4. \A q \in Runs : At(q) => run[q].j.new \in Nat
    BY RunHolds, RenewalAssumption DEF At, Holds, Rotation, Keys
  <2>5. \A q \in Runs : run[q].at = "prepare" => run[q].new \in Nat
    BY NewRotationType, RenewalAssumption DEF Keys
  <2>6. \A q \in Runs : At(q)' => q # r /\ At(q) /\ run'[q].j.new = run[q].j.new
    BY <1>1, <1>2 DEF At
  <2> QED BY <1>1, <2>1, <2>2, <2>3, <2>4, <2>5, <2>6 DEF FreshKeys
<1> QED BY <1>3, <1>4

LEMMA PrepareFresh ==
  ASSUME TypeInv, FreshKeys, NEW r \in Runs, Prepare(r) PROVE FreshKeys'
<1>1. \A q \in Runs : q # r => run'[q] = run[q]
  BY DEF Prepare, TypeInv, RunTypes
<1>2. run'[r].at = "load" /\ "load" \notin Steps
  BY DEF Prepare, TypeInv, RunTypes, Steps
<1>3. CASE Renewing
  BY <1>1, <1>2, <1>3, ContinuesFresh DEF Continues, Prepare, Renewing
<1>4. CASE ~ Renewing
  <2>1. file'.rot.new = run[r].new /\ keys' = keys
    BY <1>4 DEF Prepare, NewRotation, TypeInv, FileType
  <2>2. \A q \in Runs : At(q)' => q # r /\ At(q)
    BY <1>1, <1>2 DEF At
  <2>3. \A q \in Runs : run'[q].at = "prepare" => q # r
    BY <1>2
  <2> QED BY <1>1, <2>1, <2>2, <2>3 DEF FreshKeys, Prepare
<1> QED BY <1>3, <1>4

LEMMA LoadContinues ==
  ASSUME TypeInv, NEW r \in Runs, Load(r) PROVE Continues(r)
<1>1. \A q \in Runs : q # r => run'[q] = run[q]
  BY DEF Load, TypeInv, RunTypes
<1>2. file' = file /\ keys' = keys
  BY DEF Load
<1>3. CASE Renewing
  <2>1. run'[r].at = Resume(file.rot) /\ run'[r].j = file.rot
    BY <1>3 DEF Load, TypeInv, RunTypes
  <2>2. Resume(file.rot) # "prepare"
    BY <1>3, ResumeIsStep DEF TypeInv, FileType, Renewing, Steps
  <2> QED BY <1>1, <1>2, <1>3, <2>1, <2>2 DEF Continues, Renewing
<1>4. CASE ~ Renewing
  <2>1. run'[r] = Off
    BY <1>4 DEF Load, TypeInv, RunTypes
  <2> QED BY <1>1, <1>2, <2>1 DEF Continues, Renewing, Off, Steps, Points
<1> QED BY <1>3, <1>4

\* A run that gets an answer, goes on, or ends, with its own journal or the file's.
LEMMA MovesContinue ==
  ASSUME TypeInv, NEW r \in Runs, run[r].at \in Steps, keys' = keys,
         Renewing' => Renewing /\ file'.rot.new = file.rot.new,
         NEW j, j.new = run[r].j.new \/ (Renewing /\ j.new = file.rot.new),
         \/ \E a : Answer(r, j, a)
         \/ \E at \in Steps : GoesOn(r, at, j)
         \/ Ends(r)
  PROVE  Continues(r)
<1>1. \A q \in Runs \ {r} : run'[q] = run[q]
  BY AnswerStep, GoesOnStep, EndsStep
<1>2. CASE Ends(r)
  BY <1>1, <1>2, EndsStep DEF Continues, Off, Steps, Points
<1>3. CASE (\E a : Answer(r, j, a)) \/ (\E at \in Steps : GoesOn(r, at, j))
  <2>1. run'[r].at \in Steps /\ run'[r].j = j
    BY <1>3, AnswerStep, GoesOnStep
  <2> QED BY <1>1, <2>1 DEF Continues, Steps
<1> QED BY <1>2, <1>3

LEMMA CallsContinue ==
  ASSUME TypeInv, NEW r \in Runs,
         AsksState(r) \/ AsksOwner(r) \/ Redeems(r) \/ Verifies(r) \/ Confirms(r)
  PROVE  Continues(r)
<1>1. run[r].at \in Steps /\ keys' = keys /\ file' = file
  BY DEF AsksState, AsksOwner, Redeems, Verifies, Confirms, Calling, Steps, Points
<1>2. Renewing' => Renewing /\ file'.rot.new = file.rot.new
  BY <1>1 DEF Renewing
<1>3. (\E a : Answer(r, run[r].j, a)) \/ (Renewing /\ \E a : Answer(r, file.rot, a))
  BY DEF AsksState, AsksOwner, Redeems, Verifies, Confirms
<1> QED BY <1>1, <1>2, <1>3, MovesContinue

\* The transactions of a run change neither key of the journal.
LEMMA TransactionsKeep ==
  ASSUME TypeInv, NEW r \in Runs,
         \/ RecordsSnapshot(r) \/ RecordsStatus(r) \/ MarksRedeemed(r) \/ Swaps(r)
         \/ MarksConfirmed(r)
  PROVE  /\ run[r].at \in Steps
         /\ Renewing' <=> Renewing
         /\ Renewing => /\ file'.rot.new = file.rot.new /\ file'.rot.base = file.rot.base
                        /\ file'.rot.phase = "confirmed" =>
                             file.rot.phase = "confirmed" \/ MarksConfirmed(r)
         /\ ~ Swaps(r) => file'.cred = file.cred
<1>1. run[r].at \in Steps
  BY DEF RecordsSnapshot, RecordsStatus, MarksRedeemed, Swaps, MarksConfirmed, Answered, Steps,
         Points
<1>2. CASE file' = file
  BY <1>1, <1>2 DEF Renewing
<1>3. ASSUME Renewing, NEW rot \in Rotation, file'.rot = rot, rot.new = file.rot.new,
             rot.base = file.rot.base
      PROVE  /\ Renewing' <=> Renewing
             /\ file'.rot.new = file.rot.new /\ file'.rot.base = file.rot.base
  BY <1>3, JournalIsThere DEF Renewing
<1>4. CASE RecordsSnapshot(r)
  <2> DEFINE answer == run[r].answer[1]
           rot == [file.rot EXCEPT !.expected = <<answer[1], answer[2]>>, !.fixed = TRUE]
  <2>1. Renewing /\ file' = [file EXCEPT !.rot = rot]
    BY <1>4 DEF RecordsSnapshot, Accepted, SameRotation
  <2>2. file.rot \in Rotation
    BY <2>1 DEF TypeInv, FileType, Renewing
  <2>3. answer \in Views
    BY <1>1, <1>4, RunHolds DEF RecordsSnapshot, Answered, Holds, Shown
  <2>4. <<answer[1], answer[2]>> \in Cursors
    BY <2>3 DEF Views, Cursors
  <2> HIDE DEF answer
  <2>6. rot \in Rotation /\ rot.new = file.rot.new /\ rot.base = file.rot.base
        /\ rot.phase = file.rot.phase
    BY <2>2, <2>4 DEF Rotation
  <2>5. file'.rot = rot /\ file'.cred = file.cred
    BY <2>1 DEF TypeInv, FileType
  <2> HIDE DEF rot
  <2> QED BY <1>1, <1>3, <2>1, <2>5, <2>6
<1>5. CASE RecordsStatus(r)
  <2>1. ASSUME NEW rot \in Rotation, Renewing, file' = [file EXCEPT !.rot = rot],
               rot.new = file.rot.new, rot.base = file.rot.base
        PROVE  file'.rot = rot /\ file'.cred = file.cred
    BY <2>1 DEF TypeInv, FileType
  <2> QED BY <1>1, <1>2, <1>3, <1>5, <2>1, StatusStep
<1>6. ASSUME NEW phase \in Phases, Renewing
      PROVE  LET f == Journaled(phase)
             IN  f.rot \in Rotation /\ f.rot.new = file.rot.new /\ f.rot.base = file.rot.base
                 /\ f.rot.phase = phase /\ f.cred = file.cred
  BY <1>6, JournaledType DEF Journaled, TypeInv, FileType, Rotation, Renewing
<1>7. CASE MarksRedeemed(r)
  <2>1. Renewing /\ file' = Journaled("redeemed")
    BY <1>7 DEF MarksRedeemed, Accepted, SameRotation
  <2> QED BY <1>1, <1>3, <1>6, <2>1 DEF Phases
<1>8. CASE MarksConfirmed(r)
  <2>1. Renewing /\ file' = Journaled("confirmed")
    BY <1>8 DEF MarksConfirmed, Accepted, SameRotation
  <2> QED BY <1>1, <1>3, <1>6, <1>8, <2>1 DEF Phases
<1>9. CASE Swaps(r)
  <2>1. Renewing /\ file' = [Journaled("swapped") EXCEPT !.cred = run[r].j.new]
    BY <1>9 DEF Swaps, Swap, Accepted, SameRotation
  <2>2. file'.rot = Journaled("swapped").rot
    BY <2>1, JournaledType DEF FileType, Phases
  <2> QED BY <1>1, <1>3, <1>6, <1>9, <2>1, <2>2 DEF Phases
<1> QED BY <1>4, <1>5, <1>7, <1>8, <1>9

LEMMA TransactionsContinue ==
  ASSUME TypeInv, NEW r \in Runs,
         \/ RecordsSnapshot(r) \/ RecordsStatus(r) \/ MarksRedeemed(r) \/ Swaps(r)
         \/ MarksConfirmed(r)
  PROVE  Continues(r)
<1>1. /\ run[r].at \in Steps /\ keys' = keys
      /\ Renewing' => Renewing /\ file'.rot.new = file.rot.new
  BY TransactionsKeep
  DEF RecordsSnapshot, RecordsStatus, MarksRedeemed, Swaps, MarksConfirmed
<1>2. {"request", "poll", "redeem", "verify", "confirm", "prove"} \subseteq Steps
  BY DEF Steps, Points
<1>3. CASE RecordsSnapshot(r)
  <2> DEFINE answer == run[r].answer[1]
           rot == [file.rot EXCEPT !.expected = <<answer[1], answer[2]>>, !.fixed = TRUE]
             at == CASE run[r].j.phase = "requesting_owner" -> "request"
                     [] run[r].j.phase = "prepared" ->
                          IF rot.owner THEN "poll" ELSE "redeem"
  <2>1. Holds(run[r]) /\ run[r].at = "preflight"
    BY <1>1, <1>3, RunHolds DEF RecordsSnapshot, Answered
  <2>2. GoesOn(r, at, rot) /\ Renewing
    BY <1>3 DEF RecordsSnapshot, Accepted, SameRotation
  <2>3. rot.new = file.rot.new
    BY <2>2 DEF TypeInv, FileType, Renewing, Rotation
  <2>4. at \in Steps
    BY <1>2, <2>1 DEF Holds
  <2> HIDE DEF at, rot
  <2> QED BY <1>1, <2>2, <2>3, <2>4, MovesContinue
<1>4. CASE RecordsStatus(r)
  <2>1. CASE Ends(r)
    BY <1>1, <2>1, MovesContinue
  <2>2. ASSUME NEW rot \in Rotation, Renewing, rot.new = file.rot.new,
               GoesOn(r, "poll", rot) \/ GoesOn(r, "redeem", rot)
        PROVE  Continues(r)
    BY <1>1, <1>2, <2>2, MovesContinue
  <2> QED BY <1>4, <2>1, <2>2, StatusStep
<1>5. CASE MarksRedeemed(r) \/ Swaps(r) \/ MarksConfirmed(r)
  <2>1. \E at \in Steps : GoesOn(r, at, run[r].j)
    BY <1>2, <1>5 DEF MarksRedeemed, Swaps, MarksConfirmed
  <2> QED BY <1>1, <2>1, MovesContinue
<1> QED BY <1>3, <1>4, <1>5

LEMMA EndsContinue ==
  ASSUME TypeInv, NEW r \in Runs, Finishes(r) \/ Raises(r) \/ Dies(r)
  PROVE  Continues(r)
<1>1. keys' = keys /\ Ends(r)
  BY DEF Finishes, Raises, Dies
<1>2. Renewing' => file' = file
  BY DEF Finishes, Raises, Dies, Renewing, TypeInv, FileType
<1>3. Renewing' => Renewing /\ file'.rot.new = file.rot.new
  BY <1>2 DEF Renewing
<1>4. \A q \in Runs \ {r} : run'[q] = run[q]
  BY <1>1, EndsStep
<1>5. run'[r].at \notin Steps \cup {"prepare"}
  BY <1>1, EndsStep DEF Off, Steps, Points
<1> QED BY <1>1, <1>3, <1>4, <1>5 DEF Continues

\* The Room knows a key, or has declared it expired for good.
There(k) == k \in {room.pending, room.active} \/ request[k] = "closed"

\* The rest of the world changes neither the journal nor a run, and of the keys it can
\* only void the pending one.
LEMMA EnvironmentKeeps ==
  ASSUME TypeInv, Environment
  PROVE  /\ UNCHANGED <<run, keys>>
         /\ file'.rot = file.rot /\ file'.cred = file.cred
         /\ room'.active = room.active /\ room'.pending \in {room.pending, 0}
         /\ \A k \in Keys : There(k) => There(k)'
         /\ (file.revoked /\ ~ file'.revoked => FALSE)
<1>1. UNCHANGED <<run, keys>>
  BY DEF Environment, Approves, Refuses, Lapses, Voids, RoomExpires, Renames, Enable,
         GatewayStarts, GatewayStops, Polls, Acknowledges, Saves, Rejected, command
<1>2. file'.rot = file.rot /\ file'.cred = file.cred /\ (file.revoked => file'.revoked)
  BY DEF Environment, Approves, Refuses, Lapses, Voids, RoomExpires, Renames, Enable,
         GatewayStarts, GatewayStops, Polls, Acknowledges, Saves, Rejected, TypeInv, FileType
<1>3. CASE \E q \in Keys : Approves(q) \/ Refuses(q) \/ Lapses(q) \/ Voids(q)
  <2>1. PICK q \in Keys : Approves(q) \/ Refuses(q) \/ Lapses(q) \/ Voids(q)
    BY <1>3
  <2>2. room'.active = room.active
        /\ (room'.pending = room.pending
            \/ (Voids(q) /\ room.pending = q /\ room'.pending = 0 /\ request'[q] = "closed"))
    BY <2>1 DEF Approves, Refuses, Lapses, Voids, TypeInv, RoomType, RequestType
  <2>3. \A k \in Keys : request[k] = "closed" => request'[k] = "closed"
    BY <2>1 DEF Approves, Refuses, Lapses, Voids, TypeInv, RequestType
  <2> QED BY <1>1, <1>2, <2>2, <2>3 DEF There
<1>4. CASE ~ \E q \in Keys : Approves(q) \/ Refuses(q) \/ Lapses(q) \/ Voids(q)
  <2>1. room'.active = room.active /\ room'.pending = room.pending /\ request' = request
    BY <1>4 DEF Environment, RoomExpires, Renames, Enable, GatewayStarts, GatewayStops,
                Polls, Acknowledges, Saves, Rejected, TypeInv, RoomType
  <2> QED BY <1>1, <1>2, <2>1 DEF There
<1> QED BY <1>3, <1>4

LEMMA NextFresh == ASSUME TypeInv, FreshKeys, [Next]_vars PROVE FreshKeys'
<1>1. ASSUME NEW r \in Runs, RunNext(r) \/ Dies(r) PROVE FreshKeys'
  BY <1>1, BeginFresh, PrepareFresh, LoadContinues, CallsContinue, TransactionsContinue,
     EndsContinue, ContinuesFresh
  DEF RunNext
<1>2. CASE Environment
  BY <1>2, EnvironmentKeeps DEF FreshKeys, At, Renewing
<1>3. CASE UNCHANGED vars
  BY <1>3 DEF vars, FreshKeys, At, Renewing
<1> QED BY <1>1, <1>2, <1>3 DEF Next

LEMMA InitFresh == Init => FreshKeys
BY DEF Init, FreshKeys, At, Renewing, Off, Steps, Points

-----------------------------------------------------------------------------
(***************************************************************************)
(* The keys of the membership                                              *)
(***************************************************************************)
\* What a run knows of the Room if it acts for the journal in the file: a key it
\* has verified is there, a key it has confirmed is the active one.
Grounded(r) ==
  /\ run[r].at = "verify" /\ run[r].answer # NoAnswer => There(file.rot.new)
  /\ run[r].at = "prove" \/ (run[r].at = "confirm" /\ run[r].answer # NoAnswer) =>
       room.active = file.rot.new

KeysInv ==
  /\ room.pending # 0 => Renewing /\ file.rot.new = room.pending
  /\ room.pending # room.active
  /\ file.cred # room.active => Renewing /\ file.rot.new = file.cred /\ There(file.cred)
  /\ Renewing /\ room.active # file.rot.new => file.rot.base = room.active
  /\ Renewing /\ file.rot.phase = "confirmed" => room.active = file.rot.new
  /\ \A r \in Runs : At(r) /\ Own(r) => Grounded(r)

LEMMA KeysInvImplies == ASSUME TypeInv, KeysInv PROVE KeysKept
BY DEF KeysInv, KeysKept, TypeInv, FileType, RoomType, Keys

\* The key of the journal is a key.
LEMMA JournalKey == ASSUME TypeInv, Renewing PROVE file.rot.new \in Keys
BY DEF TypeInv, FileType, Renewing, Rotation

LEMMA InitKeys == Init => KeysInv
BY DEF Init, KeysInv, At, Own, Renewing, NoRotation, Off, Steps, Points

\* A step that changes neither the keys of the Room nor those of the file.
LEMMA QuietStep ==
  ASSUME KeysInv, NEW r \in Runs,
         file'.cred = file.cred, room'.active = room.active, room'.pending = room.pending,
         Renewing' <=> Renewing,
         Renewing => /\ file'.rot.new = file.rot.new /\ file'.rot.base = file.rot.base
                     /\ file'.rot.phase = "confirmed" =>
                          file.rot.phase = "confirmed" \/ room.active = file.rot.new,
         Renewing /\ There(file.rot.new) => There(file.rot.new)',
         \A q \in Runs \ {r} : run'[q] = run[q],
         run'[r] = run[r] \/ (At(r)' /\ Own(r)' => Grounded(r)')
  PROVE  KeysInv'
<1>1. ASSUME NEW q \in Runs, At(q)', Own(q)' PROVE Grounded(q)'
  <2>1. CASE run'[q] = run[q]
    BY <1>1, <2>1 DEF KeysInv, At, Own, Grounded
  <2>2. CASE run'[q] # run[q]
    BY <1>1, <2>2
  <2> QED BY <2>1, <2>2
<1> QED BY <1>1 DEF KeysInv

LEMMA BeginKeys ==
  ASSUME TypeInv, KeysInv, NEW r \in Runs, NEW owner \in BOOLEAN, Begin(r, owner)
  PROVE  KeysInv'
<1>1. (\A q \in Runs \ {r} : run'[q] = run[q]) /\ ~ (run'[r].at \in Steps)
  BY DEF Begin, TypeInv, RunTypes, Steps
<1>2. file' = file /\ room' = room /\ (Renewing => request' = request)
  BY DEF Begin
<1> QED BY <1>1, <1>2, QuietStep DEF At, Renewing, There

LEMMA PrepareKeys ==
  ASSUME TypeInv, FreshKeys, KeysInv, NEW r \in Runs, Prepare(r) PROVE KeysInv'
<1>1. (\A q \in Runs \ {r} : run'[q] = run[q]) /\ ~ (run'[r].at \in Steps)
  BY DEF Prepare, TypeInv, RunTypes, Steps
<1>2. room' = room /\ request' = request
  BY DEF Prepare, outside
<1>3. CASE Renewing
  BY <1>1, <1>2, <1>3, QuietStep DEF At, Renewing, Prepare, There
<1>4. CASE ~ Renewing
  <2>1. /\ file'.rot = NewRotation(r) /\ file'.cred = file.cred
        /\ NewRotation(r) \in Rotation
    BY <1>4, NewRotationType DEF Prepare, TypeInv, FileType
  <2>2. /\ file'.rot.new = run[r].new /\ file'.rot.base = file.cred
        /\ file'.rot.phase # "confirmed"
    BY <2>1 DEF NewRotation
  <2>3. Renewing' /\ room.pending = 0 /\ file.cred = room.active
    BY <1>4, <2>1, JournalIsThere DEF KeysInv, Renewing
  <2>4. \A q \in Runs : ~ (At(q)' /\ Own(q)')
    BY <1>1, <2>2 DEF FreshKeys, Prepare, At, Own
  <2> QED BY <1>2, <2>1, <2>2, <2>3, <2>4 DEF KeysInv
<1> QED BY <1>3, <1>4

LEMMA LoadKeys ==
  ASSUME TypeInv, KeysInv, NEW r \in Runs, Load(r) PROVE KeysInv'
<1>1. \A q \in Runs \ {r} : run'[q] = run[q]
  BY DEF Load, TypeInv, RunTypes
<1>2. file' = file /\ room' = room /\ request' = request
  BY DEF Load, outside
<1>3. CASE Renewing
  <2>1. run'[r].at = Resume(file.rot) /\ run'[r].answer = NoAnswer
    BY <1>3 DEF Load, TypeInv, RunTypes
  <2>2. Resume(file.rot) = "prove" => room.active = file.rot.new
    BY <1>3, ResumeIsStep DEF TypeInv, FileType, Renewing, KeysInv
  <2>3. Grounded(r)'
    BY <1>2, <2>1, <2>2 DEF Grounded
  <2> QED BY <1>1, <1>2, <2>3, QuietStep DEF Renewing, There
<1>4. CASE ~ Renewing
  BY <1>1, <1>2, <1>4, QuietStep DEF Renewing, Own
<1> QED BY <1>3, <1>4

\* The calls: only a redemption and a confirmation change a key, and an orderly run
\* redeems only for the journal in the file.
LEMMA AsksKeys ==
  ASSUME TypeInv, KeysInv, NEW r \in Runs, AsksState(r) \/ AsksOwner(r) \/ Verifies(r),
         AsksState(r) /\ run[r].at = "prove" => Own(r)
  PROVE  KeysInv'
<1>1. run[r].at \in Steps
  BY DEF AsksState, AsksOwner, Verifies, Calling, Steps, Points
<1>2. \A q \in Runs \ {r} : run'[q] = run[q]
  BY <1>1, AnswerStep DEF AsksState, AsksOwner, Verifies
<1>3. file' = file /\ room' = room
  BY DEF AsksState, AsksOwner, Verifies, outside
<1>4. run'[r].at = run[r].at
  BY <1>1, AnswerStep DEF AsksState, AsksOwner, Verifies
<1>5. \A k \in Keys : There(k) => There(k)'
  <2>1. CASE request' = request
    BY <1>3, <2>1 DEF There
  <2>2. CASE AsksOwner(r)
    <3>1. \A k \in Keys : request[k] = "closed" => request'[k] = "closed"
      BY <2>2 DEF AsksOwner, Presented, TypeInv, RequestType
    <3> QED BY <1>3, <3>1 DEF There
  <2> QED BY <2>1, <2>2 DEF AsksState, Verifies, outside
<1>6. CASE AsksState(r)
  <2>1. run[r].at \in {"preflight", "prove"}
    BY <1>6 DEF AsksState, Calling
  <2>2. run[r].at = "prove" => room.active = file.rot.new
    BY <1>1, <1>6 DEF KeysInv, At, Own, Grounded
  <2>3. Grounded(r)'
    BY <1>3, <1>4, <2>1, <2>2 DEF Grounded
  <2> QED BY <1>2, <1>3, <1>5, <2>3, JournalKey, QuietStep DEF Renewing
<1>7. CASE AsksOwner(r)
  <2>1. run[r].at \in {"request", "poll"}
    BY <1>7 DEF AsksOwner, Calling
  <2>2. Grounded(r)'
    BY <1>4, <2>1 DEF Grounded
  <2> QED BY <1>2, <1>3, <1>5, <2>2, JournalKey, QuietStep DEF Renewing
<1>8. CASE Verifies(r)
  <2>1. run[r].at = "verify" /\ file.rot.new \in {room.pending, room.active}
    BY <1>8 DEF Verifies, Calling
  <2>2. Grounded(r)'
    BY <1>3, <1>4, <2>1 DEF Grounded, There
  <2> QED BY <1>2, <1>3, <1>5, <2>2, JournalKey, QuietStep DEF Renewing
<1> QED BY <1>6, <1>7, <1>8

LEMMA RedeemsKeys ==
  ASSUME TypeInv, KeysInv, NEW r \in Runs, Redeems(r), Own(r) PROVE KeysInv'
<1>1. run[r].at = "redeem" /\ run[r].at \in Steps /\ file' = file
      /\ room' = Redeemed(run[r].j.new)
  BY DEF Redeems, Calling, Steps, Points
<1>2. Renewing /\ file.rot.new = run[r].j.new /\ Renewing'
  BY <1>1 DEF Own, Renewing
<1>3. run'[r].at = "redeem" /\ \A q \in Runs \ {r} : run'[q] = run[q]
  BY <1>1, AnswerStep DEF Redeems
<1>4. /\ room'.active = room.active
      /\ room'.pending = IF room.active = file.rot.new THEN room.pending ELSE file.rot.new
  BY <1>1, <1>2 DEF Redeemed, TypeInv, RoomType
<1>5. There(file.rot.new)'
  BY <1>1, <1>4 DEF There
<1>6. ASSUME NEW q \in Runs, At(q)', Own(q)' PROVE Grounded(q)'
  <2>1. CASE q = r
    BY <1>3, <2>1 DEF Grounded
  <2>2. CASE q # r
    <3>1. At(q) /\ Own(q) /\ run'[q] = run[q]
      BY <1>1, <1>3, <1>6, <2>2 DEF At, Own, Renewing
    <3> QED BY <3>1, <1>1, <1>4, <1>5 DEF KeysInv, Grounded
  <2> QED BY <2>1, <2>2
<1> QED BY <1>1, <1>2, <1>4, <1>5, <1>6 DEF KeysInv

LEMMA ConfirmsKeys ==
  ASSUME TypeInv, KeysInv, NEW r \in Runs, Confirms(r) PROVE KeysInv'
<1>1. file' = file /\ Renewing /\ Renewing' /\ room' = Confirmed(file.rot.new)
      /\ file.cred = file.rot.new
  BY DEF Confirms, Renewing
<1>2. room'.active = file.rot.new /\ room'.pending = 0
  BY <1>1 DEF Confirmed, TypeInv, RoomType
<1>3. file.rot.new # 0
  BY <1>1, RenewalAssumption DEF TypeInv, FileType, Keys
<1>4. There(file.rot.new)'
  BY <1>1, <1>2 DEF There
<1> QED BY <1>1, <1>2, <1>3, <1>4 DEF KeysInv, Grounded

\* The transactions: a swap takes the verified key, a confirmation is recorded of
\* the key that was confirmed.
LEMMA TransactionsKeys ==
  ASSUME TypeInv, KeysInv, NEW r \in Runs,
         RecordsSnapshot(r) \/ RecordsStatus(r) \/ MarksRedeemed(r) \/ MarksConfirmed(r)
  PROVE  KeysInv'
<1>1. /\ run[r].at \in Steps
      /\ Renewing' <=> Renewing
      /\ Renewing => /\ file'.rot.new = file.rot.new /\ file'.rot.base = file.rot.base
                     /\ file'.rot.phase = "confirmed" =>
                          file.rot.phase = "confirmed" \/ MarksConfirmed(r)
  BY TransactionsKeep
<1>2. file'.cred = file.cred /\ room' = room /\ request' = request
  <2>1. ~ Swaps(r)
    BY DEF RecordsSnapshot, RecordsStatus, MarksRedeemed, MarksConfirmed, Swaps, Answered
  <2> QED BY <2>1, TransactionsKeep
          DEF RecordsSnapshot, RecordsStatus, MarksRedeemed, MarksConfirmed, outside
<1>3. MarksConfirmed(r) => room.active = file.rot.new /\ Own(r)
  BY <1>1 DEF MarksConfirmed, Answered, Accepted, SameRotation, KeysInv, At, Own, Grounded
<1>4. \A q \in Runs \ {r} : run'[q] = run[q]
  <2>1. Continues(r)
    BY TransactionsContinue
  <2> QED BY <2>1 DEF Continues
<1>5. Grounded(r)'
  <2>1. \/ run'[r].at \in {"off", "request", "poll", "redeem"}
        \/ run'[r].at = "verify" /\ run'[r].answer = NoAnswer
        \/ MarksConfirmed(r) /\ run'[r].at = "prove"
    <3>1. CASE RecordsSnapshot(r)
      <4>1. Holds(run[r]) /\ run[r].at = "preflight"
        BY <1>1, <3>1, RunHolds DEF RecordsSnapshot, Answered
      <4> DEFINE answer == run[r].answer[1]
           rot == [file.rot EXCEPT !.expected = <<answer[1], answer[2]>>, !.fixed = TRUE]
                 at == CASE run[r].j.phase = "requesting_owner" -> "request"
                         [] run[r].j.phase = "prepared" ->
                              IF rot.owner THEN "poll" ELSE "redeem"
      <4>2. GoesOn(r, at, rot)
        BY <3>1 DEF RecordsSnapshot
      <4>3. at \in {"request", "poll", "redeem"}
        BY <4>1 DEF Holds
      <4> HIDE DEF at, rot
      <4> QED BY <1>1, <4>2, <4>3, GoesOnStep
    <3>2. CASE RecordsStatus(r)
      <4>1. (\E j : GoesOn(r, "poll", j) \/ GoesOn(r, "redeem", j)) \/ Ends(r)
        BY <3>2, StatusStep
      <4> QED BY <1>1, <4>1, GoesOnStep, EndsStep DEF Off
    <3>3. CASE MarksRedeemed(r)
      BY <1>1, <3>3, GoesOnStep DEF MarksRedeemed
    <3>4. CASE MarksConfirmed(r)
      BY <1>1, <3>4, GoesOnStep DEF MarksConfirmed
    <3> QED BY <3>1, <3>2, <3>3, <3>4
  <2>2. MarksConfirmed(r) => room'.active = file'.rot.new
    BY <1>1, <1>2, <1>3 DEF Own
  <2> QED BY <2>1, <2>2 DEF Grounded
<1> QED BY <1>1, <1>2, <1>3, <1>4, <1>5, QuietStep DEF There

LEMMA SwapsKeys ==
  ASSUME TypeInv, KeysInv, NEW r \in Runs, Swaps(r) PROVE KeysInv'
<1>1. /\ run[r].at \in Steps /\ run[r].at = "verify" /\ run[r].answer # NoAnswer
      /\ Own(r) /\ Renewing /\ room' = room /\ request' = request
  BY TransactionsKeep DEF Swaps, Answered, Accepted, SameRotation, Own, outside
<1>2. There(file.rot.new)
  BY <1>1 DEF KeysInv, At, Grounded
<1>3. /\ Renewing' /\ file'.rot.new = file.rot.new /\ file'.rot.base = file.rot.base
      /\ file'.rot.phase = "confirmed" => file.rot.phase = "confirmed"
  BY <1>1, TransactionsKeep DEF Swaps, MarksConfirmed, Answered
<1>4. file'.cred = file.rot.new
  BY <1>1, JournaledType DEF Swaps, Swap, FileType, Own, Phases
<1>5. run'[r].at = "confirm" /\ run'[r].answer = NoAnswer
      /\ \A q \in Runs \ {r} : run'[q] = run[q]
  BY <1>1, GoesOnStep DEF Swaps
<1>6. There(file.rot.new)' /\ There(file.cred)'
  BY <1>1, <1>2, <1>3, <1>4 DEF There
<1>7. ASSUME NEW q \in Runs, At(q)', Own(q)' PROVE Grounded(q)'
  BY <1>1, <1>3, <1>5, <1>6, <1>7 DEF KeysInv, At, Own, Grounded
<1> QED BY <1>1, <1>3, <1>4, <1>6, <1>7 DEF KeysInv

\* A run ends a renewal only when its key is the active one.
LEMMA FinishesKeys ==
  ASSUME TypeInv, KeysInv, NEW r \in Runs, Finishes(r)
  PROVE  KeysInv' /\ file.cred = room.active /\ file.rot.new = file.cred
<1>1. /\ run[r].at \in Steps /\ run[r].at = "prove" /\ Own(r) /\ Renewing
      /\ file.cred = run[r].j.new /\ room' = room
  BY DEF Finishes, Answered, Accepted, SameRotation, Own, Steps, Points
<1>2. room.active = file.rot.new /\ file.cred = file.rot.new
  BY <1>1 DEF KeysInv, At, Own, Grounded
<1>3. room.pending = 0
  BY <1>2 DEF KeysInv
<1>4. ~ Renewing' /\ file'.cred = file.cred
  BY DEF Finishes, Renewing, TypeInv, FileType
<1>5. \A q \in Runs : ~ Own(q)'
  BY <1>4 DEF Own
<1> QED BY <1>1, <1>2, <1>3, <1>4, <1>5 DEF KeysInv

LEMMA StopKeys ==
  ASSUME TypeInv, KeysInv, NEW r \in Runs, Raises(r) \/ Dies(r) PROVE KeysInv'
<1>1. file' = file /\ room' = room /\ request' = request /\ Ends(r)
  BY DEF Raises, Dies, outside
<1>2. run'[r].at \notin Steps /\ \A q \in Runs \ {r} : run'[q] = run[q]
  BY <1>1, EndsStep DEF Off, Steps, Points
<1> QED BY <1>1, <1>2, QuietStep DEF At, Renewing, There

LEMMA NextKeys ==
  ASSUME TypeInv, FreshKeys, KeysInv, [Next /\ Orderly]_vars PROVE KeysInv'
<1>1. ASSUME NEW r \in Runs, RunNext(r) \/ Dies(r), Orderly PROVE KeysInv'
  <2>1. Redeems(r) \/ (AsksState(r) /\ run[r].at = "prove") => Own(r)
    BY <1>1 DEF Orderly
  <2> QED
    BY <1>1, <2>1, BeginKeys, PrepareKeys, LoadKeys, AsksKeys, RedeemsKeys, ConfirmsKeys,
       TransactionsKeys, SwapsKeys, FinishesKeys, StopKeys
    DEF RunNext
<1>2. CASE Environment
  <2>1. 0 # room.active
    BY DEF TypeInv, RoomType, Keys
  <2>2. /\ UNCHANGED <<run, keys>> /\ file'.rot = file.rot /\ file'.cred = file.cred
        /\ room'.active = room.active /\ room'.pending \in {room.pending, 0}
        /\ \A k \in Keys : There(k) => There(k)'
    BY <1>2, EnvironmentKeeps
  <2>3. There(file.cred) => There(file.cred)'
    BY <2>2 DEF TypeInv, FileType, There
  <2>4. Renewing /\ There(file.rot.new) => There(file.rot.new)'
    BY <2>2, JournalKey DEF There
  <2> QED BY <2>1, <2>2, <2>3, <2>4 DEF KeysInv, At, Own, Grounded, Renewing
<1>3. CASE UNCHANGED vars
  BY <1>3 DEF vars, KeysInv, At, Own, Grounded, Renewing, There
<1> QED BY <1>1, <1>2, <1>3 DEF Next

\* The mark of a revocation changes when a renewal finishes, and no other step of a
\* run touches it.
LEMMA MarkStays ==
  ASSUME TypeInv, NEW r \in Runs, RunNext(r) \/ Dies(r)
  PROVE  Finishes(r) \/ file'.revoked = file.revoked
<1>1. CASE UNCHANGED file
  BY <1>1
<1>2. CASE Prepare(r)
  BY <1>2 DEF Prepare, TypeInv, FileType
<1>3. CASE RecordsSnapshot(r) \/ RecordsStatus(r)
  BY <1>3, StatusStep DEF RecordsSnapshot, TypeInv, FileType
<1>4. CASE MarksRedeemed(r) \/ Swaps(r) \/ MarksConfirmed(r)
  BY <1>4 DEF MarksRedeemed, Swaps, Swap, MarksConfirmed, Journaled, TypeInv, FileType
<1>5. \/ UNCHANGED file \/ Prepare(r) \/ RecordsSnapshot(r) \/ RecordsStatus(r)
      \/ MarksRedeemed(r) \/ Swaps(r) \/ MarksConfirmed(r) \/ Finishes(r)
  BY DEF RunNext, Begin, Load, AsksState, AsksOwner, Redeems, Verifies, Confirms, Raises, Dies
<1> QED BY <1>1, <1>2, <1>3, <1>4, <1>5

LEMMA NoFalseMark ==
  ASSUME TypeInv, KeysInv, [Next]_vars PROVE file'.revoked => file.revoked
<1>1. ASSUME NEW r \in Runs, RunNext(r) \/ Dies(r) PROVE file'.revoked => file.revoked
  <2>1. Finishes(r) => (file'.revoked => file.revoked)
    BY DEF Finishes, TypeInv, FileType
  <2> QED BY <1>1, <2>1, MarkStays
<1>2. CASE Rejected
  BY <1>2 DEF Rejected, SameKey, Expired, KeysInv, There, TypeInv, FileType
<1>3. CASE Environment /\ ~ Rejected
  BY <1>3 DEF Environment, Approves, Refuses, Lapses, Voids, RoomExpires, Renames, Enable,
              GatewayStarts, GatewayStops, Polls, Acknowledges, Saves, TypeInv, FileType
<1>4. CASE UNCHANGED vars
  BY <1>4 DEF vars
<1> QED BY <1>1, <1>2, <1>3, <1>4 DEF Next

LEMMA MarkNeedsKey ==
  ASSUME TypeInv, KeysInv, [Next]_vars, file.revoked, ~ file'.revoked
  PROVE  file.cred = room.active /\ file.rot.new = file.cred
<1>1. ~ Environment /\ ~ UNCHANGED vars
  BY EnvironmentKeeps DEF vars
<1>2. PICK r \in Runs : RunNext(r) \/ Dies(r)
  BY <1>1 DEF Next
<1>3. Finishes(r)
  BY <1>2, MarkStays
<1> QED BY <1>3, FinishesKeys

LEMMA OrderlyInv == OrderlySpec => [](TypeInv /\ FreshKeys /\ KeysInv)
<1>1. Init => TypeInv /\ FreshKeys /\ KeysInv
  BY InitTypes, InitFresh, InitKeys
<1>2. TypeInv /\ FreshKeys /\ KeysInv /\ [Next /\ Orderly]_vars
        => (TypeInv /\ FreshKeys /\ KeysInv)'
  <2>1. [Next /\ Orderly]_vars => [Next]_vars
    OBVIOUS
  <2> QED BY <2>1, NextTypes, NextFresh, NextKeys
<1> QED BY <1>1, <1>2, PTL DEF OrderlySpec

\* However many orderly runs overlap and whichever of them are killed, no key the
\* Room accepts or is about to accept is lost from the profile (KeysKept).
THEOREM OrderlyRunsKeepKeys == OrderlySpec => []KeysKept
<1> QED BY OrderlyInv, KeysInvImplies, PTL

\* In orderly runs the refusal of the old key never marks the renewed binding as
\* revoked (NeverFalselyRevoked).
THEOREM OrderlyNeverFalselyRevoked == OrderlySpec => NeverFalselyRevoked
<1>1. TypeInv /\ KeysInv /\ [Next /\ Orderly]_vars => [file'.revoked => file.revoked]_vars
  BY NoFalseMark
<1> QED BY <1>1, OrderlyInv, PTL DEF OrderlySpec, NeverFalselyRevoked

\* In orderly runs a false revocation stays until the new key is the active one
\* (MarkerKept).
THEOREM OrderlyMarkerKept == OrderlySpec => MarkerKept
<1>1. TypeInv /\ KeysInv /\ [Next /\ Orderly]_vars =>
        [file.revoked /\ ~ file'.revoked =>
           file.cred = room.active /\ file.rot.new = file.cred]_vars
  BY MarkNeedsKey
<1> QED BY <1>1, OrderlyInv, PTL DEF OrderlySpec, MarkerKept

-----------------------------------------------------------------------------
(***************************************************************************)
(* Runs one after another                                                  *)
(***************************************************************************)
Serial == \A r, q \in Runs : r = q

\* A run that has a copy of the journal has the one that is in the file.
OwnJournal == \A r \in Runs : At(r) => Own(r)

LEMMA RunOwns ==
  ASSUME TypeInv, Serial, OwnJournal, NEW r \in Runs, RunNext(r) \/ Dies(r)
  PROVE  OwnJournal'
<1>1. CASE \E owner \in BOOLEAN : Begin(r, owner)
  <2>1. ~ At(r)'
    BY <1>1 DEF Begin, TypeInv, RunTypes, At, Steps
  <2> QED BY <2>1 DEF Serial, OwnJournal
<1>2. CASE Prepare(r)
  <2>1. ~ At(r)'
    BY <1>2 DEF Prepare, TypeInv, RunTypes, At, Steps
  <2> QED BY <2>1 DEF Serial, OwnJournal
<1>3. CASE Finishes(r) \/ Raises(r) \/ Dies(r)
  <2>1. ~ At(r)'
    BY <1>3, EndsStep DEF Finishes, Raises, Dies, At, Off, Steps, Points
  <2> QED BY <2>1 DEF Serial, OwnJournal
<1>4. ASSUME Continues(r), Renewing => Renewing' /\ file'.rot.new = file.rot.new
      PROVE  OwnJournal'
  BY <1>4 DEF Continues, Serial, OwnJournal, At, Own
<1>5. CASE \/ Load(r) \/ AsksState(r) \/ AsksOwner(r) \/ Redeems(r) \/ Verifies(r)
           \/ Confirms(r)
  <2>1. file' = file
    BY <1>5 DEF Load, AsksState, AsksOwner, Redeems, Verifies, Confirms
  <2> QED BY <1>4, <1>5, <2>1, LoadContinues, CallsContinue DEF Renewing
<1>6. CASE \/ RecordsSnapshot(r) \/ RecordsStatus(r) \/ MarksRedeemed(r) \/ Swaps(r)
           \/ MarksConfirmed(r)
  BY <1>4, <1>6, TransactionsKeep, TransactionsContinue
<1> QED BY <1>1, <1>2, <1>3, <1>5, <1>6 DEF RunNext

LEMMA NextOwns == ASSUME TypeInv, Serial, OwnJournal, [Next]_vars PROVE OwnJournal'
<1>1. CASE Environment
  BY <1>1, EnvironmentKeeps DEF OwnJournal, At, Own, Renewing
<1>2. CASE UNCHANGED vars
  BY <1>2 DEF vars, OwnJournal, At, Own, Renewing
<1> QED BY <1>1, <1>2, RunOwns DEF Next

\* Runs one after another are orderly.
THEOREM SerialRunsAreOrderly == ASSUME Serial PROVE Spec => OrderlySpec
<1>1. Init => OwnJournal
  BY DEF Init, OwnJournal, At, Off, Steps, Points
<1>2. TypeInv /\ OwnJournal /\ [Next]_vars => OwnJournal'
  BY NextOwns
<1>3. OwnJournal => Orderly
  <2>1. \A r \in Runs : Redeems(r) \/ (AsksState(r) /\ run[r].at = "prove") => At(r)
    BY DEF Redeems, Calling, At, Steps, Points
  <2> QED BY <2>1 DEF OwnJournal, Orderly
<1>4. OwnJournal /\ [Next]_vars => [Next /\ Orderly]_vars
  BY <1>3
<1> QED BY <1>1, <1>2, <1>4, TypesStay, PTL DEF Spec, OrderlySpec

\* So runs one after another, killed anywhere and resumed by the next, with a gateway
\* that holds the old key all the while, keep every key (KeysKept) and both promises
\* about the mark of a revocation (NeverFalselyRevoked, MarkerKept).
THEOREM SerialRunsKeepKeys ==
  ASSUME Serial PROVE Spec => []KeysKept /\ NeverFalselyRevoked /\ MarkerKept
<1> QED
  BY SerialRunsAreOrderly, OrderlyRunsKeepKeys, OrderlyNeverFalselyRevoked, OrderlyMarkerKept
=============================================================================
