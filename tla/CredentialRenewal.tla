-------------------------- MODULE CredentialRenewal --------------------------
(***************************************************************************)
(* Renewal of the credential of one membership (cli.py 720-981, 1035-1152). *)
(*                                                                         *)
(* `room renew` journals every phase in the state file before it goes on,  *)
(* so that any later run resumes where the last one ended: the request to  *)
(* the owner, the redemption of his grant, the verification of the new     *)
(* key, its swap into the binding, the confirmation, the final proof.  A   *)
(* call to the Room and the transaction that records its answer are two    *)
(* steps, and a run may end between them.  Runs may overlap each other,    *)
(* and a gateway that holds the old key may be up all the time.            *)
(***************************************************************************)
EXTENDS Naturals, FiniteSets, Sequences

CONSTANTS
  Runs,       \* runs of the command that may overlap
  MaxKeys,    \* bound: keys ever generated, the first one included
  MaxSeq,     \* bound: events of the Room
  MaxLapses,  \* bound: grants and pending keys that expire before they are used
  MaxRenames, \* bound: changes of the agent's name or identity version
  MaxDeaths,  \* bound: runs that are killed or lose an answer
  Again       \* may a renewal begin after an earlier one is confirmed?

Keys == 1 .. MaxKeys
Cursors == (0 .. MaxSeq) \X (0 .. MaxSeq)   \* delivered and acknowledged
Identities == 0 .. MaxRenames               \* display name and identity version
Phases == {"requesting_owner", "prepared", "redeemed", "swapped", "confirmed"}
Points == {"prepare", "load", "preflight", "request", "poll", "redeem",
           "verify", "confirm", "prove"}

ASSUME RenewalAssumption ==
  /\ IsFiniteSet(Runs)
  /\ MaxKeys \in Nat \ {0} /\ MaxSeq \in Nat
  /\ MaxLapses \in Nat /\ MaxRenames \in Nat /\ MaxDeaths \in Nat
  /\ Again \in BOOLEAN

VARIABLES
  file,     \* the binding in state.json, its renewal journal in rot
  run,      \* each run: where it stands, its copy of the journal, an answer
  gateway,  \* the binding as a running gateway holds it
  room,     \* the Room: keys, expiry, cursors and identity of the membership
  request,  \* the Room: the request and grant made for each key
  keys,     \* history: keys generated
  lapses,   \* history: grants and pending keys expired
  deaths    \* history: runs killed

vars == <<file, run, gateway, room, request, keys, lapses, deaths>>

-----------------------------------------------------------------------------
(***************************************************************************)
(* The journal                                                             *)
(***************************************************************************)
NoRotation == [phase |-> "none"]
\* base_credential, replacement_credential, the expected cursors and whether
\* the server_delivery_snapshot has replaced the local ones, the expected identity
\* and whether identity_reconciliation has replaced the local one, whether a grant
\* is known, whether an owner was asked for it, recover_false_revoked.
Rotation ==
  [phase : Phases, base : Keys, new : Keys, expected : Cursors, fixed : BOOLEAN,
   identity : Identities, known : BOOLEAN,
   grant : BOOLEAN, owner : BOOLEAN, recover : BOOLEAN]
NoAnswer == <<>>
NoGateway == [cred |-> 0]
Off == [at |-> "off"]

Renewing == file.rot # NoRotation

\* _same_rotation: the transaction still sees the journal the run has read.
SameRotation(j) ==
  Renewing /\ file.rot.base = j.base /\ file.rot.new = j.new /\ file.rot.grant = j.grant

\* The step with which a run resumes a journal.
Resume(j) ==
  CASE j.phase \in {"requesting_owner", "prepared"} /\ ~ j.fixed -> "preflight"
    [] j.phase = "requesting_owner" /\ j.fixed -> "request"
    [] j.phase = "prepared" /\ j.fixed -> IF j.owner THEN "poll" ELSE "redeem"
    [] j.phase = "redeemed" -> "verify"
    [] j.phase = "swapped" -> "confirm"
    [] j.phase = "confirmed" -> "prove"

\* The binding is active, or was expired, or was marked revoked by mistake.
Init ==
  /\ \E enabled, revoked \in BOOLEAN :
       /\ revoked => ~ enabled
       /\ file = [cred |-> 1, enabled |-> enabled, revoked |-> revoked,
                  ack |-> 0, identity |-> 0, rot |-> NoRotation]
       /\ room = [active |-> 1, pending |-> 0, expired |-> ~ enabled,
                  delivered |-> 0, acked |-> 0, identity |-> 0]
  /\ run = [r \in Runs |-> Off] /\ gateway = NoGateway
  /\ request = [k \in Keys |-> "none"]
  /\ keys = 1 /\ lapses = 0 /\ deaths = 0

-----------------------------------------------------------------------------
(***************************************************************************)
(* A run of the command                                                    *)
(***************************************************************************)
Cursor == <<room.delivered, room.acked>>
View == <<room.delivered, room.acked, room.identity>>
outside == <<gateway, request, lapses>>

\* The run begins by reading the binding once.  A grant that is entered by hand is
\* one the owner has created before.
Begin(r, owner) ==
  /\ run[r] = Off
  /\ file.revoked => IF Renewing THEN file.rot.recover ELSE owner
  /\ Renewing \/ (keys < MaxKeys /\ (Again \/ room.active = 1))
  /\ LET late == Renewing /\ file.rot.phase = "confirmed" IN
     run' = [run EXCEPT ![r] =
       IF Renewing THEN [at |-> "load", late |-> late]
       ELSE [at |-> "prepare", late |-> late, owner |-> owner, new |-> keys + 1]]
  /\ IF Renewing THEN UNCHANGED <<keys, request>>
     ELSE /\ keys' = keys + 1
          /\ request' = IF owner THEN request ELSE [request EXCEPT ![keys + 1] = "issued"]
  /\ UNCHANGED <<file, room, deaths, gateway, lapses>>

NewRotation(r) ==
  [phase |-> IF run[r].owner THEN "requesting_owner" ELSE "prepared",
   base |-> file.cred, new |-> run[r].new,
   expected |-> <<file.ack, file.ack>>, fixed |-> FALSE,
   identity |-> file.identity, known |-> FALSE,
   grant |-> ~ run[r].owner, owner |-> run[r].owner, recover |-> file.revoked]

\* prepare: the secrets are journaled before the first call, unless another run
\* has journaled its own.
Prepare(r) ==
  /\ run[r].at = "prepare"
  /\ file' = IF Renewing THEN file ELSE [file EXCEPT !.rot = NewRotation(r)]
  /\ run' = [run EXCEPT ![r] = [at |-> "load", late |-> @.late]]
  /\ UNCHANGED <<room, keys, deaths, outside>>

\* A copy of the journal, and the step its phase asks for.
Load(r) ==
  /\ run[r].at = "load"
  /\ run' = [run EXCEPT ![r] =
       IF Renewing THEN [at |-> Resume(file.rot), late |-> @.late, j |-> file.rot,
                         answer |-> NoAnswer]
       ELSE Off]
  /\ UNCHANGED <<file, room, keys, deaths, outside>>

Calling(r, at) == run[r].at = at /\ run[r].answer = NoAnswer
Answered(r, at) == run[r].at = at /\ run[r].answer # NoAnswer
Answer(r, j, answer) == run' = [run EXCEPT ![r].j = j, ![r].answer = <<answer>>]
GoesOn(r, at, j) == run' = [run EXCEPT ![r].at = at, ![r].j = j, ![r].answer = NoAnswer]
Ends(r) == run' = [run EXCEPT ![r] = Off]

-----------------------------------------------------------------------------
(***************************************************************************)
(* Its calls                                                               *)
(***************************************************************************)
\* The redemption of a grant the Room honours, and the pending key it makes.
Honoured(j) == request[j.new] \in {"issued", "redeemed"}
Redeemed(k) == [room EXCEPT !.pending = IF room.active = k THEN @ ELSE k]
Confirmed(k) ==
  [room EXCEPT !.active = k, !.pending = 0, !.expired = IF room.active = k THEN @ ELSE FALSE]

\* room_state before the request, and with the new key at the end.
AsksState(r) ==
  \/ /\ Calling(r, "preflight") /\ Answer(r, run[r].j, View)
     /\ UNCHANGED <<file, room, keys, deaths, outside>>
  \/ /\ Calling(r, "prove") /\ Renewing
     /\ file.cred = room.active
     /\ Answer(r, file.rot, Append(View, file.ack))
     /\ UNCHANGED <<file, room, keys, deaths, outside>>

\* request_credential_renewal presents the request, once more if its grant has
\* expired; credential_renewal_request only looks at it.  "closed" stands for every
\* answer the command can do nothing with: rejected, expired for good, a state it
\* does not know, another grant than the one it has recorded.
Presented(state) ==
  CASE state = "none" -> {"requested"}
    [] state = "expired" -> {"requested", "closed"}
    [] state \notin {"none", "expired"} -> {state}
AsksOwner(r) ==
  /\ Calling(r, "request") \/ Calling(r, "poll")
  /\ LET k == run[r].j.new IN
     \E now \in IF run[r].at = "request" THEN Presented(request[k]) ELSE {request[k]} :
       /\ request' = [request EXCEPT ![k] = now]
       /\ Answer(r, run[r].j, <<now, room.identity>>)
  /\ UNCHANGED <<file, room, gateway, keys, lapses, deaths>>

Redeems(r) ==
  /\ Calling(r, "redeem") /\ Honoured(run[r].j)
  /\ room' = Redeemed(run[r].j.new)
  /\ request' = [request EXCEPT ![run[r].j.new] = "redeemed"]
  /\ Answer(r, run[r].j, View)
  /\ UNCHANGED <<file, gateway, keys, lapses, deaths>>

\* The reload of the journal and the call that uses it.
Verifies(r) ==
  /\ Calling(r, "verify") /\ Renewing
  /\ file.rot.new \in {room.pending, room.active}
  /\ Answer(r, file.rot, View)
  /\ UNCHANGED <<file, room, keys, deaths, outside>>

Confirms(r) ==
  /\ Calling(r, "confirm") /\ Renewing /\ file.cred = file.rot.new
  /\ file.rot.new \in {room.pending, room.active}
  /\ room' = Confirmed(file.rot.new)
  /\ Answer(r, file.rot, "credential.renewed")
  /\ UNCHANGED <<file, keys, deaths, outside>>

\* A call that cannot be answered as hoped, and the errors the checks raise.
Refused(r) ==
  LET j == run[r].j IN
  \/ /\ run[r].at \in {"verify", "confirm", "prove"} /\ run[r].answer = NoAnswer
     /\ ~ Renewing
  \/ Calling(r, "prove") /\ file.cred # room.active
  \/ Calling(r, "redeem") /\ ~ Honoured(j)
  \/ Calling(r, "verify") /\ Renewing /\ file.rot.new \notin {room.pending, room.active}
  \/ /\ Calling(r, "confirm") /\ Renewing
     /\ file.cred # file.rot.new \/ file.rot.new \notin {room.pending, room.active}

-----------------------------------------------------------------------------
(***************************************************************************)
(* Its transactions                                                        *)
(***************************************************************************)
Journaled(phase) == [file EXCEPT !.rot.phase = phase]

\* What each transaction demands of the answer, besides the same journal.
InPlace(answer) ==
  /\ file.rot.recover \/ answer[3] = file.rot.identity
  /\ answer[2] = file.ack /\ answer[1] >= answer[2]
  /\ file.rot.fixed => file.rot.expected = <<answer[1], answer[2]>>
\* The final proof compares the Room's cursors with those of the binding the run
\* read before the call, if the journal was confirmed when the run began.
Proven(r, answer) ==
  LET expected == run[r].j.expected IN
  /\ answer[3] = run[r].j.identity
  /\ IF run[r].late
     THEN /\ answer[1] >= answer[4] /\ answer[2] = answer[4]
          /\ answer[1] >= expected[1] /\ answer[2] >= expected[2]
     ELSE <<answer[1], answer[2]>> = expected
Accepted(r) ==
  LET j == run[r].j
      answer == run[r].answer[1]
  IN SameRotation(j) /\ CASE run[r].at = "preflight" -> InPlace(answer)
                          [] run[r].at \in {"redeem", "verify"} ->
                               answer = Append(j.expected, j.identity)
                          [] run[r].at = "confirm" -> file.cred = j.new
                          [] run[r].at = "prove" ->
                               Proven(r, answer) /\ file.cred = j.new

\* _record_renewal_delivery_snapshot.
RecordsSnapshot(r) ==
  /\ Answered(r, "preflight") /\ Accepted(r)
  /\ LET answer == run[r].answer[1]
         rot == [file.rot EXCEPT !.expected = <<answer[1], answer[2]>>, !.fixed = TRUE]
     IN
     /\ file' = [file EXCEPT !.rot = rot]
     /\ GoesOn(r, CASE run[r].j.phase = "requesting_owner" -> "request"
                    [] run[r].j.phase = "prepared" -> IF rot.owner THEN "poll" ELSE "redeem",
               rot)
  /\ UNCHANGED <<room, keys, deaths, outside>>

\* _record_owner_identity_status, which keeps the grant and the identity the owner
\* sees and refuses any other later, and mark_prepared or await_reapproval: two
\* transactions, of which the first only adds what it keeps.
SameRequest(j) == Renewing /\ file.rot.base = j.base /\ file.rot.new = j.new
Reconciled(identity) == ~ file.rot.known \/ file.rot.identity = identity
Issued(at, state) == at = "request" /\ state = "issued"
Unapproved_Requested(at, state) == at = "poll" /\ state = "requested"
Unapproved(at, state) == at = "poll" /\ state \in {"requested", "expired"}
Recorded(at, state, identity) ==
  LET rot == [file.rot EXCEPT !.identity = identity, !.known = TRUE, !.grant = TRUE] IN
  CASE Issued(at, state) -> [rot EXCEPT !.phase = "prepared"]
    [] Unapproved(at, state) -> [rot EXCEPT !.phase = "requesting_owner", !.grant = FALSE]
    [] ~ Issued(at, state) /\ ~ Unapproved(at, state) -> rot
RecordsStatus(r) ==
  /\ Answered(r, "request") \/ Answered(r, "poll")
  /\ LET state == run[r].answer[1][1]
         identity == run[r].answer[1][2]
         next == Recorded(run[r].at, state, identity)
     IN \/ /\ SameRequest(run[r].j) /\ Reconciled(identity)
           /\ file' = [file EXCEPT !.rot = next]
           /\ IF Issued(run[r].at, state) THEN GoesOn(r, "poll", next)
              ELSE IF run[r].at = "poll" /\ state \in {"issued", "redeemed"}
              THEN GoesOn(r, "redeem", next)
              ELSE Ends(r)
        \/ /\ ~ (SameRequest(run[r].j) /\ Reconciled(identity)) \/ state = "closed"
           /\ file' = file /\ Ends(r)
  /\ UNCHANGED <<room, keys, deaths, outside>>

MarksRedeemed(r) ==
  /\ Answered(r, "redeem") /\ Accepted(r)
  /\ file' = Journaled("redeemed") /\ GoesOn(r, "verify", run[r].j)
  /\ UNCHANGED <<room, keys, deaths, outside>>

Swap_Cleared(r) ==
  [Journaled("swapped") EXCEPT !.cred = run[r].j.new,
                               !.revoked = @ /\ ~ run[r].j.recover,
                               !.enabled = @ \/ run[r].j.recover]
Swap_Finished(r) == [file EXCEPT !.cred = run[r].j.new, !.rot = NoRotation]
Swap(r) == [Journaled("swapped") EXCEPT !.cred = run[r].j.new]
Swaps(r) ==
  /\ Answered(r, "verify") /\ Accepted(r)
  /\ file' = Swap(r) /\ GoesOn(r, "confirm", run[r].j)
  /\ UNCHANGED <<room, keys, deaths, outside>>

MarksConfirmed(r) ==
  /\ Answered(r, "confirm") /\ Accepted(r)
  /\ file' = Journaled("confirmed") /\ GoesOn(r, "prove", run[r].j)
  /\ UNCHANGED <<room, keys, deaths, outside>>

\* finish_renewal: the journal and its secrets go, a false revocation with them, and
\* the binding takes the identity the owner has shown.
Finishes(r) ==
  /\ Answered(r, "prove") /\ Accepted(r)
  /\ file' = [file EXCEPT !.rot = NoRotation,
                          !.identity = IF run[r].j.known THEN run[r].j.identity ELSE @,
                          !.revoked = @ /\ ~ run[r].j.recover,
                          !.enabled = @ \/ run[r].j.recover]
  /\ Ends(r)
  /\ UNCHANGED <<room, keys, deaths, outside>>

\* An error ends the run; the journal stays as it is.
Raises(r) ==
  /\ \/ Refused(r)
     \/ /\ run[r].at \in {"preflight", "redeem", "verify", "confirm", "prove"}
        /\ run[r].answer # NoAnswer /\ ~ Accepted(r)
  /\ Ends(r)
  /\ UNCHANGED <<file, room, keys, deaths, outside>>

\* The run is killed, or the answer to its call is lost.
Dies(r) ==
  /\ run[r] # Off /\ deaths < MaxDeaths /\ deaths' = deaths + 1
  /\ Ends(r)
  /\ UNCHANGED <<file, room, keys, outside>>

RunNext(r) ==
  \/ \E owner \in BOOLEAN : Begin(r, owner)
  \/ Prepare(r) \/ Load(r)
  \/ AsksState(r) \/ AsksOwner(r) \/ Redeems(r) \/ Verifies(r) \/ Confirms(r)
  \/ RecordsSnapshot(r) \/ RecordsStatus(r) \/ MarksRedeemed(r) \/ Swaps(r)
  \/ MarksConfirmed(r) \/ Finishes(r) \/ Raises(r)

-----------------------------------------------------------------------------
(***************************************************************************)
(* The owner, the Room, and a gateway that may be running                  *)
(***************************************************************************)
command == <<run, keys, deaths>>

Approves(k) ==
  /\ request[k] = "requested" /\ request' = [request EXCEPT ![k] = "issued"]
  /\ UNCHANGED <<file, room, gateway, lapses, command>>
Refuses(k) ==
  /\ request[k] \in {"requested", "issued"} /\ request' = [request EXCEPT ![k] = "closed"]
  /\ UNCHANGED <<file, room, gateway, lapses, command>>

\* A grant expires before it is redeemed, a pending key before it is confirmed.
Lapses(k) ==
  /\ request[k] = "issued" /\ request' = [request EXCEPT ![k] = "expired"]
  /\ lapses < MaxLapses /\ lapses' = lapses + 1
  /\ UNCHANGED <<file, room, gateway, command>>
Voids(k) ==
  /\ room.pending = k /\ room' = [room EXCEPT !.pending = 0]
  /\ request' = [request EXCEPT ![k] = "closed"]
  /\ lapses < MaxLapses /\ lapses' = lapses + 1
  /\ UNCHANGED <<file, gateway, command>>
Renames ==
  /\ room.identity < MaxRenames /\ room' = [room EXCEPT !.identity = @ + 1]
  /\ UNCHANGED <<file, gateway, request, lapses, command>>
RoomExpires ==
  /\ ~ room.expired /\ room' = [room EXCEPT !.expired = TRUE]
  /\ UNCHANGED <<file, gateway, request, lapses, command>>

Usable == file.enabled /\ ~ file.revoked
Enable ==
  /\ ~ file.enabled /\ file' = [file EXCEPT !.enabled = TRUE]
  /\ UNCHANGED <<room, gateway, request, lapses, command>>

GatewayStarts ==
  /\ gateway = NoGateway /\ Usable
  /\ gateway' = [cred |-> file.cred, ack |-> file.ack]
  /\ UNCHANGED <<file, room, request, lapses, command>>
GatewayStops ==
  /\ gateway # NoGateway /\ gateway' = NoGateway
  /\ UNCHANGED <<file, room, request, lapses, command>>

Higher(a, b) == IF a > b THEN a ELSE b
Connected == gateway # NoGateway /\ gateway.cred = room.active /\ ~ room.expired

\* Reading events moves the delivered mark of the Room and nothing else; the
\* cursors of the gateway move with an acknowledgement, and are saved later.
Polls ==
  /\ Connected /\ room.delivered < MaxSeq
  /\ room' = [room EXCEPT !.delivered = @ + 1]
  /\ UNCHANGED <<file, gateway, request, lapses, command>>
NextCursor_Beyond(ack) == ack + 2
NextCursor(ack) == ack + 1
Acknowledges ==
  /\ Connected /\ gateway.ack < room.delivered
  /\ gateway' = [gateway EXCEPT !.ack = NextCursor(@)]
  /\ room' = [room EXCEPT !.acked = Higher(@, gateway'.ack)]
  /\ UNCHANGED <<file, request, lapses, command>>

\* _same_generation, as far as a renewal can change it.
SameKey_Membership == gateway # NoGateway
SameKey == gateway.cred = file.cred
Saves ==
  /\ gateway # NoGateway /\ SameKey /\ Usable
  /\ file' = [file EXCEPT !.ack = gateway.ack]
  /\ UNCHANGED <<room, gateway, request, lapses, command>>

\* A call with a key that has run out, active or pending, or that a confirmation has
\* replaced.
Expired(k) == k = room.active \/ request[k] = "closed"
Rejected ==
  /\ gateway # NoGateway /\ gateway.cred # room.pending /\ ~ Connected
  /\ file' = IF ~ SameKey THEN file
             ELSE [file EXCEPT !.enabled = FALSE,
                               !.revoked = @ \/ ~ Expired(gateway.cred)]
  /\ gateway' = NoGateway
  /\ UNCHANGED <<room, request, lapses, command>>

Environment ==
  \/ \E k \in Keys : Approves(k) \/ Refuses(k) \/ Lapses(k) \/ Voids(k)
  \/ RoomExpires \/ Renames \/ Enable \/ GatewayStarts \/ GatewayStops
  \/ Polls \/ Acknowledges \/ Saves \/ Rejected

Next == (\E r \in Runs : RunNext(r) \/ Dies(r)) \/ Environment
Spec == Init /\ [][Next]_vars

\* Someone runs the command again until the renewal is done, and the owner
\* answers a request that is put to him.
OwnerAnswers(k) == Approves(k) \/ (request[k] = "requested" /\ Refuses(k))
Fairness ==
  /\ \A r \in Runs : WF_vars(RunNext(r))
  /\ \A k \in Keys : WF_vars(OwnerAnswers(k))
FairSpec == Spec /\ Fairness

\* Runs that overlap are orderly if none redeems a grant, or proves a key, on
\* account of a journal that another run has meanwhile finished and replaced.
\* Runs one after another always are.
Own(r) == Renewing /\ file.rot.new = run[r].j.new
Orderly ==
  \A r \in Runs : Redeems(r) \/ (AsksState(r) /\ run[r].at = "prove") => Own(r)
OrderlySpec == Init /\ [][Next /\ Orderly]_vars

-----------------------------------------------------------------------------
(***************************************************************************)
(* Properties                                                              *)
(***************************************************************************)
RunStates ==
  {Off} \cup [at : {"prepare"}, late : BOOLEAN, owner : BOOLEAN, new : Keys]
        \cup [at : {"load"}, late : BOOLEAN]
RequestStates == {"none", "requested", "issued", "redeemed", "expired", "closed"}
TypeOK ==
  /\ file \in [cred : Keys, enabled : BOOLEAN, revoked : BOOLEAN, ack : 0 .. MaxSeq,
               identity : Identities, rot : Rotation \cup {NoRotation}]
  /\ room \in [active : Keys, pending : 0 .. MaxKeys, expired : BOOLEAN,
               delivered : 0 .. MaxSeq, acked : 0 .. MaxSeq, identity : Identities]
  /\ request \in [Keys -> RequestStates]
  /\ \A r \in Runs :
       run[r] \in RunStates \/ (run[r].at \in Points /\ run[r].j \in Rotation)
  /\ keys \in Keys /\ lapses \in 0 .. MaxLapses /\ deaths \in 0 .. MaxDeaths

\* Whatever is killed, and whatever expires, a key the Room accepts or is about to
\* accept is in the profile: a pending one in the journal, the active one in the
\* binding or as the base of the journal whose key has been swapped in.  It holds of
\* runs one after another and of orderly ones; a run that redeems the grant of a
\* finished journal makes a key nobody keeps.
KeysKept ==
  /\ room.pending # 0 => Renewing /\ file.rot.new = room.pending
  /\ file.cred # room.active =>
       Renewing /\ file.rot.base = room.active /\ file.rot.new = file.cred

\* A confirmation makes the old key worthless while a gateway still uses it;
\* the answer it then gets never marks the renewed binding as revoked.
NeverFalselyRevoked == [][ file'.revoked => file.revoked ]_vars

\* A false revocation stays until the new key is the active one (README.md:103).
MarkerKept == [][ file.revoked /\ ~ file'.revoked =>
                    file.cred = room.active /\ file.rot.new = file.cred ]_vars

\* The Room and the file agree, and nothing has moved since the preflight.  An
\* identity that has changed is taken from the owner's first status, if the run gets
\* that far (cli.py 1073-1079 and 1114 refuse it before and after).
Reconciles(j) == j.owner /\ ~ j.known /\ (j.fixed \/ j.recover)
InStep ==
  /\ room.acked = file.ack /\ room.delivered >= file.ack
  /\ Renewing => /\ file.rot.fixed => file.rot.expected = Cursor
                 /\ file.rot.identity = room.identity \/ Reconciles(file.rot)

\* The Room honours the grant no longer, nor the key made from it, and no command
\* can ask for another with this journal: a request that is closed (cli.py 815-818,
\* 829-830, 864-867, 1045-1046), a pending key past confirm_by (refused at 886 and 911),
\* a grant entered by hand that has expired (refused at 868).
NoGrant(j) ==
  request[j.new] = "closed" \/ (request[j.new] = "expired" /\ ~ j.owner)

\* A renewal in progress completes, unless cursors or identity have moved away from
\* what its journal expects or its grant is gone: no interruption, and no approval
\* that expires, leaves it stuck.
RenewalCompletes ==
  Renewing ~> ~ Renewing \/ ~ InStep \/ NoGrant(file.rot)

-----------------------------------------------------------------------------
\* README.md:58-59, "it resumes the recorded phase"; cli.py:727, "Every later run
\* resumes that exact journal".  Apart from a grant that is gone, and from an
\* acknowledgement the gateway has yet to save.
ClaimResumes ==
  Renewing ~> ~ Renewing \/ NoGrant(file.rot) \/ room.acked # file.ack
=============================================================================
