---------------------------- MODULE ExternalAction ----------------------------
(***************************************************************************)
(* One contribution that a user sends into a Room from another channel      *)
(* (room_tools.py 192-554).                                                 *)
(*                                                                         *)
(* A call of room_post reads the Room's policy, creates or resumes the      *)
(* journal of its origin (a file of its own, created under a lock, later    *)
(* replaced as a whole without one), asks for a speaking turn where the     *)
(* Room is coordinated, posts what the journal has frozen, and gives the    *)
(* turn back.  A call may fail at every step; the next call with the same   *)
(* requestId resumes the journal.  Calls of one origin may overlap, and a   *)
(* request that nobody waits for any more may still reach the Room.         *)
(***************************************************************************)
EXTENDS Naturals, FiniteSets

CONSTANTS
  Callers,      \* calls of one origin that may overlap
  MaxHead,      \* bound: the Room's head, by messages of others
  MaxEpoch,     \* bound: the epochs of the Room are 1..MaxEpoch
  MaxPolicies,  \* bound: changes of the Room's policy
  MaxFailures   \* bound: calls that are killed or run out of tries

ASSUME ActionAssumption ==
  /\ IsFiniteSet(Callers)
  /\ MaxHead \in Nat \ {0} /\ MaxEpoch \in Nat \ {0}
  /\ MaxPolicies \in Nat /\ MaxFailures \in Nat

Modes == {"open", "coordinated"}

VARIABLES
  action,    \* the journal of the origin, or NoAction
  call,      \* each caller: where it stands, and its copy of the journal
  room,      \* the Room: mode, epoch, head, and the turn of the origin
  posted,    \* the Room: the post it has committed for this origin, or NoPost
  wire,      \* posts handed to the network, which may arrive late and twice
  told,      \* history: answers the user has been given
  met,       \* history: two calls have been in progress at the same time
  policies,  \* history: changes of the policy
  failures   \* history: calls that failed

vars == <<action, call, room, posted, wire, told, met, policies, failures>>

-----------------------------------------------------------------------------
(***************************************************************************)
(* The journal                                                             *)
(***************************************************************************)
NoAction == [mode |-> "none"]
NoPost == [mode |-> "none"]
Off == [at |-> "off"]

\* postObserved and epochId are 0 until the post is frozen; turn stands for
\* turnId, receipt for canonicalEventId.  The recipients are named by the head
\* at which the @names of the body were resolved: the roster may be another one
\* at every head.
Action ==
  [mode : Modes, recipients : Nat, seen : Nat, epoch : 0 .. MaxEpoch,
   turn : BOOLEAN, receipt : BOOLEAN, superseded : BOOLEAN, finished : BOOLEAN]
Request == [mode : Modes, recipients : Nat, seen : Nat, epoch : 0 .. MaxEpoch]

NewAction(mode, head) ==
  [mode |-> mode, recipients |-> head, seen |-> 0, epoch |-> 0,
   turn |-> FALSE, receipt |-> FALSE, superseded |-> FALSE, finished |-> FALSE]
RequestOf(mem) ==
  [mode |-> mem.mode, recipients |-> mem.recipients, seen |-> mem.seen, epoch |-> mem.epoch]

\* Where a call goes on with a journal it has read or created.
Entry_Answers(mem, policy) ==
  CASE mem.mode # policy /\ ~ mem.receipt -> "policy"
    [] (mem.mode = policy \/ mem.receipt) /\ mem.superseded -> "resend"
    [] mem.receipt /\ ~ mem.superseded -> "delivered"
    [] mem.mode = policy /\ ~ mem.receipt /\ ~ mem.superseded ->
         IF mem.mode = "coordinated" THEN "ask" ELSE IF mem.seen = 0 THEN "freeze" ELSE "post"
Entry(mem, policy) ==
  CASE mem.mode # policy /\ ~ mem.receipt -> "policy"
    [] (mem.mode = policy \/ mem.receipt) /\ mem.superseded ->
         IF mem.turn /\ ~ mem.finished THEN "release" ELSE "resend"
    [] mem.receipt /\ ~ mem.superseded ->
         IF mem.turn /\ ~ mem.finished THEN "finish" ELSE "delivered"
    [] mem.mode = policy /\ ~ mem.receipt /\ ~ mem.superseded ->
         IF mem.mode = "coordinated" THEN "ask" ELSE IF mem.seen = 0 THEN "freeze" ELSE "post"

Verdicts == {"policy", "resend", "delivered"}

Init ==
  /\ action = NoAction /\ call = [c \in Callers |-> Off]
  /\ \E mode \in Modes :
       room = [mode |-> mode, epoch |-> 1, head |-> 1, turn |-> "none"]
  /\ posted = NoPost /\ wire = {} /\ told = {} /\ met = FALSE
  /\ policies = 0 /\ failures = 0

-----------------------------------------------------------------------------
(***************************************************************************)
(* A call of room_post                                                     *)
(***************************************************************************)
counts == <<met, policies, failures>>
outside == <<room, posted, wire>>

At(c, at) == call[c].at = at
Moves(c, at) == call' = [call EXCEPT ![c].at = at] /\ told' = told
\* The call goes on at a point, or tells the user its verdict and returns.
Goes(c, at, mem, again) ==
  IF at \in Verdicts
  THEN call' = [call EXCEPT ![c] = Off] /\ told' = told \cup {at}
  ELSE call' = [call EXCEPT ![c] = [at |-> at, mem |-> mem, again |-> again]] /\ told' = told
\* _write_action replaces the journal by what the call holds.
Writes(c, at, mem) == action' = mem /\ Goes(c, at, mem, call[c].again)

\* The state and the policy of the Room, read before anything else.
Calls(c) ==
  /\ At(c, "off")
  /\ call' = [call EXCEPT ![c] = [at |-> "read", policy |-> room.mode, head |-> room.head]]
  /\ met' = (met \/ \E d \in Callers \ {c} : ~ At(d, "off"))
  /\ UNCHANGED <<action, outside, told, policies, failures>>

Resumes(c, mem) == Goes(c, Entry(mem, call[c].policy), mem, FALSE)

Reads(c) ==
  /\ At(c, "read")
  /\ IF action = NoAction THEN Moves(c, "create") ELSE Resumes(c, action)
  /\ UNCHANGED <<action, outside, counts>>

\* Under the lock of the file the first call wins; the others take its journal.
Creates_Unchecked(c) ==
  /\ At(c, "create")
  /\ action' = NewAction(call[c].policy, call[c].head)
  /\ Resumes(c, action')
  /\ UNCHANGED <<outside, counts>>
Creates(c) ==
  /\ At(c, "create")
  /\ action' = IF action = NoAction THEN NewAction(call[c].policy, call[c].head) ELSE action
  /\ Resumes(c, action')
  /\ UNCHANGED <<outside, counts>>

\* request_turn, answered once the turn is granted or known to be finished.
AsksTurn(c) ==
  /\ At(c, "ask") /\ room.turn # "expired"
  /\ room' = [room EXCEPT !.turn = IF @ = "none" THEN "granted" ELSE @]
  /\ Moves(c, "granted")
  /\ UNCHANGED <<action, posted, wire, counts>>
KeepsTurn(c) ==
  /\ At(c, "granted")
  /\ LET mem == [call[c].mem EXCEPT !.turn = TRUE] IN
     Writes(c, IF mem.seen = 0 THEN "freeze" ELSE "post", mem)
  /\ UNCHANGED <<outside, counts>>

\* The head and the epoch the post will name, before it first goes out and again
\* after a stale context.
Fresh_Swapped(mem) == [mem EXCEPT !.seen = room.epoch, !.epoch = room.head]
Fresh(mem) == [mem EXCEPT !.seen = room.head, !.epoch = room.epoch]
Freezes(c) ==
  /\ At(c, "freeze") /\ Writes(c, "post", Fresh(call[c].mem))
  /\ UNCHANGED <<outside, counts>>

Posts(c) ==
  /\ At(c, "post") /\ wire' = wire \cup {RequestOf(call[c].mem)} /\ Moves(c, "sent")
  /\ UNCHANGED <<action, room, posted, counts>>

\* The answers of the Room.  The receipt of a coordinated post is saved before
\* the turn is given back.
Received(mem) == [mem EXCEPT !.receipt = TRUE, !.finished = (mem.mode = "open")]
Receipt(c) ==
  /\ At(c, "sent") /\ posted # NoPost
  /\ LET mem == Received(call[c].mem) IN
     Writes(c, IF mem.mode = "open" THEN "delivered" ELSE "finish", mem)
  /\ UNCHANGED <<outside, counts>>

\* The epoch has moved.  An open post is superseded at once; a coordinated one
\* after another look at the Room, when its turn is about to be given back.
EpochPassed(c) ==
  /\ At(c, "sent") /\ posted = NoPost /\ call[c].mem.epoch # room.epoch /\ ~ call[c].again
StaleTurn(c) ==
  /\ EpochPassed(c) /\ call[c].mem.mode = "coordinated" /\ Moves(c, "stale")
  /\ UNCHANGED <<action, outside, counts>>
StaleEpoch_Refreshed(c) ==
  /\ EpochPassed(c) \/ At(c, "stale")
  /\ Writes(c, "resend", Fresh(call[c].mem))
  /\ UNCHANGED <<outside, counts>>
StaleEpoch(c) ==
  /\ (EpochPassed(c) /\ call[c].mem.mode = "open") \/ At(c, "stale")
  /\ LET mem == [call[c].mem EXCEPT !.superseded = TRUE] IN
     Writes(c, IF mem.mode = "open" THEN "resend" ELSE "release", mem)
  /\ UNCHANGED <<outside, counts>>

\* A coordinated call tries once more, an open one as long as the head moves.
StaleContext(c) ==
  /\ At(c, "sent") /\ posted = NoPost
  /\ call[c].mem.epoch = room.epoch /\ call[c].mem.seen < room.head
  /\ ~ call[c].again
  /\ Moves(c, "refresh")
  /\ UNCHANGED <<action, outside, counts>>
Refreshes(c) ==
  /\ At(c, "refresh")
  /\ action' = Fresh(call[c].mem)
  /\ Goes(c, "post", action', action'.mode = "coordinated")
  /\ UNCHANGED <<outside, counts>>

\* _finish_action: the journal is written, the turn given back, and only then
\* the journal marked as finished.
Finishing(c) == At(c, "finish") \/ At(c, "release")
Releases_First(c) ==
  /\ Finishing(c)
  /\ Writes(c, IF At(c, "finish") THEN "finished" ELSE "released",
            [call[c].mem EXCEPT !.finished = TRUE])
  /\ UNCHANGED <<outside, counts>>
Releases(c) ==
  /\ Finishing(c)
  /\ room' = [room EXCEPT !.turn = IF @ = "granted" THEN "released" ELSE @]
  /\ Writes(c, IF At(c, "finish") THEN "finished" ELSE "released", call[c].mem)
  /\ UNCHANGED <<posted, wire, counts>>
MarksFinished(c) ==
  /\ At(c, "finished") \/ At(c, "released")
  /\ Writes(c, IF At(c, "finished") THEN "delivered" ELSE "resend",
            [call[c].mem EXCEPT !.finished = TRUE])
  /\ UNCHANGED <<outside, counts>>

\* The turn has expired, the post is refused, or stale once more after a refresh.
Refused(c) ==
  \/ At(c, "ask") /\ room.turn = "expired"
  \/ /\ At(c, "sent") /\ posted = NoPost
     /\ \/ call[c].mem.mode # room.mode
        \/ call[c].mem.mode = "coordinated" /\ room.turn # "granted"
        \/ /\ call[c].again
           /\ call[c].mem.seen < room.head \/ call[c].mem.epoch # room.epoch
Raises(c) ==
  /\ Refused(c)
  /\ call' = [call EXCEPT ![c] = Off]
  /\ UNCHANGED <<action, outside, told, counts>>

\* The process dies, or all tries of one request stay without an answer.
Fails(c) ==
  /\ ~ At(c, "off") /\ failures < MaxFailures /\ failures' = failures + 1
  /\ call' = [call EXCEPT ![c] = Off]
  /\ UNCHANGED <<action, outside, told, met, policies>>

Works(c) ==
  \/ Calls(c) \/ Reads(c) \/ Creates(c) \/ AsksTurn(c) \/ KeepsTurn(c) \/ Freezes(c)
  \/ Posts(c) \/ Receipt(c) \/ StaleTurn(c) \/ StaleEpoch(c) \/ StaleContext(c)
  \/ Refreshes(c)
  \/ Releases(c) \/ MarksFinished(c) \/ Raises(c)

-----------------------------------------------------------------------------
(***************************************************************************)
(* The Room                                                                *)
(***************************************************************************)
local == <<action, call, told, met, failures>>

\* The first admissible request of the origin becomes its one message; any later
\* one is answered with the same receipt.
Admits(p) ==
  /\ posted = NoPost /\ p.mode = room.mode
  /\ p.epoch = room.epoch /\ p.seen >= room.head
  /\ p.mode = "coordinated" => room.turn = "granted"
Commits(p) ==
  /\ Admits(p) /\ posted' = p /\ room' = [room EXCEPT !.head = @ + 1]
  /\ UNCHANGED <<local, wire, policies>>

OthersSpeak ==
  /\ room.head < MaxHead /\ room' = [room EXCEPT !.head = @ + 1]
  /\ UNCHANGED <<local, posted, wire, policies>>
EpochMoves ==
  /\ room.epoch < MaxEpoch /\ room' = [room EXCEPT !.epoch = @ + 1]
  /\ UNCHANGED <<local, posted, wire, policies>>
PolicyChanges ==
  /\ policies < MaxPolicies /\ policies' = policies + 1
  /\ room' = [room EXCEPT !.mode = IF @ = "open" THEN "coordinated" ELSE "open"]
  /\ UNCHANGED <<local, posted, wire>>
TurnExpires ==
  /\ room.turn = "granted" /\ room' = [room EXCEPT !.turn = "expired"]
  /\ UNCHANGED <<local, posted, wire, policies>>

RoomNext ==
  \/ \E p \in wire : Commits(p)
  \/ OthersSpeak \/ EpochMoves \/ PolicyChanges \/ TurnExpires

Next == (\E c \in Callers : Works(c) \/ Fails(c)) \/ RoomNext
Spec == Init /\ [][Next]_vars

\* A call that failed is made again, and the Room answers what it is asked.
Fairness ==
  /\ \A c \in Callers : WF_vars(Works(c))
  /\ WF_vars(\E p \in wire : Commits(p))
FairSpec == Spec /\ Fairness

-----------------------------------------------------------------------------
(***************************************************************************)
(* Properties                                                              *)
(***************************************************************************)
Points == {"ask", "granted", "freeze", "post", "sent", "refresh", "stale",
           "finish", "release", "finished", "released"}
Calling ==
  {Off} \cup [at : {"read", "create"}, policy : Modes, head : Nat]
        \cup [at : Points, mem : Action, again : BOOLEAN]
TypeOK ==
  /\ action \in Action \cup {NoAction}
  /\ call \in [Callers -> Calling]
  /\ room \in [mode : Modes, epoch : 1 .. MaxEpoch, head : Nat \ {0},
               turn : {"none", "granted", "released", "expired"}]
  /\ posted \in Request \cup {NoPost} /\ wire \subseteq Request
  /\ told \subseteq Verdicts /\ met \in BOOLEAN
  /\ policies \in 0 .. MaxPolicies /\ failures \in 0 .. MaxFailures

\* Every request that ever goes out addresses the recipients and follows the
\* policy that the first call froze, whoever sends it and whenever.
SameContent ==
  \A p \in wire : p.mode = action.mode /\ p.recipients = action.recipients

\* An answer is true for good: delivered means that the Room has the message,
\* send again that it has not and will never have it.  The second holds as long
\* as calls of the origin do not overlap.
AnswersTrue ==
  /\ "delivered" \in told => posted # NoPost
  /\ "resend" \in told /\ ~ met => posted = NoPost

\* A journal that calls its turn finished leaves no turn behind.
FinishedIsReleased ==
  action # NoAction /\ action.turn /\ action.finished => room.turn # "granted"

\* A turn that was granted is given back or runs out, if the call is repeated and
\* the Room keeps the policy the action was frozen under.
TurnReleased == room.turn = "granted" ~> room.turn # "granted" \/ room.mode = "open"

=============================================================================
