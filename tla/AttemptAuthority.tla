--------------------------- MODULE AttemptAuthority ---------------------------
(***************************************************************************)
(* Who may publish under an attempt of a discussion cycle, and whose run   *)
(* has the Room (adapter.py 1522-1642, 1801-1831, 1994-2068, 2096-2219,     *)
(* 3040-3099, 3190-3369, 3514-3660, 3926-3960).                             *)
(*                                                                         *)
(* In a cycle the Room hands each membership one attempt after another,    *)
(* each under a lease.  Three tasks claim it over and over: the receive    *)
(* boundary when an attempt is announced, a renewal task while the model   *)
(* runs, and the sender before every submission.  What they learn is kept  *)
(* per source and attempt in delivery_authority, in memory and in the      *)
(* state file, where a loss outlives every later save.  A claim and what   *)
(* the adapter makes of its answer are different steps: between them the   *)
(* lease may end, another attempt begin, and the other tasks run.          *)
(*                                                                         *)
(* Sources wait in a queue for the one run a Room may have; an outcome, a  *)
(* failed run or the pending sweep passes the Room on.                     *)
(*                                                                         *)
(* An attempt is its number; the event s announces attempt s.              *)
(***************************************************************************)
EXTENDS Naturals, FiniteSets

CONSTANTS
  N,            \* sources: the announcements of the attempts 1..N
  MaxAttempts,  \* bound: attempts the Room opens
  MaxDispatch,  \* bound: dispatch generations of all sources together
  MaxUpsets,    \* bound: crashes, sweeps and failed saves together
  Faults        \* what a state write may do besides succeed: refused, error

Sources == 1 .. N
Attempts == 1 .. MaxAttempts
Runs == 1 .. MaxDispatch

ASSUME AuthorityAssumption ==
  /\ N \in Nat /\ MaxAttempts \in Nat /\ N <= MaxAttempts
  /\ MaxDispatch \in Nat /\ MaxUpsets \in Nat
  /\ Faults \subseteq {"refused", "error"}

\* A claim is answered with the open attempt or with none; until then, and when
\* the answer is lost, its task is waiting.
None == 0
Waiting == MaxAttempts + 1
Answers == 0 .. Waiting

VARIABLES
  file,      \* the binding in the state file
  mem,       \* the binding in memory
  held,      \* _cycle_attempts: the attempt each source works under, or None
  marked,    \* _superseded_sources: sources whose renewal lost the lease
  renewal,   \* the renewal task of each source
  receive,   \* the event at the receive boundary, awaiting its claim
  send,      \* each generation: its source and where its run or send stands
  dispatch,  \* queue, the generation that has the Room, the owner of each source
  watch,     \* does the watch task run?
  room,      \* the Room: its latest attempt, and whether that is open
  freed,     \* history: generations whose source the sweep freed under them
  late,      \* history: sources claimed at the receive boundary too late
  left,      \* history: sources whose outcome left their renewal running
  torn,      \* history: a save of a renewal raised
  upsets     \* history: crashes, sweeps and failed saves

vars == <<file, mem, held, marked, renewal, receive, send, dispatch, watch, room,
          freed, late, left, torn, upsets>>

-----------------------------------------------------------------------------
(***************************************************************************)
(* The binding                                                             *)
(***************************************************************************)
\* delivery_authority by source and attempt, cycle_attempt_owners, the attempt
\* named by each intent (open: none was selected) and its state, and the
\* sources with terminal evidence.
Binding ==
  [authority : [Sources -> [Attempts -> {"none", "active", "superseded"}]],
   owner : [Attempts -> 0 .. N],
   intent : [Sources -> {"none", "skip", "selected", "frozen", "posted", "quarantined"}],
   cycle : [Sources -> 0 .. MaxAttempts],
   settled : SUBSET Sources]

Idle == [at |-> "idle", source |-> 0, attempt |-> None, answer |-> None,
         model |-> FALSE, again |-> FALSE]
Over(g) == [Idle EXCEPT !.at = "over", !.model = send[g].model]
NoDispatch == [queue |-> {}, active |-> 0, inflight |-> [s \in Sources |-> 0]]
Asleep_Anonymous(a) == [at |-> "asleep", attempt |-> None, answer |-> None]
Asleep(a) == [at |-> "asleep", attempt |-> a, answer |-> None]
NoRenewal == [at |-> "off", attempt |-> None, answer |-> None]

Init ==
  /\ file = [authority |-> [s \in Sources |-> [a \in Attempts |-> "none"]],
             owner |-> [a \in Attempts |-> 0],
             intent |-> [s \in Sources |-> "none"], cycle |-> [s \in Sources |-> None],
             settled |-> {}]
  /\ mem = file
  /\ held = [s \in Sources |-> None] /\ marked = {}
  /\ renewal = [s \in Sources |-> NoRenewal] /\ receive = Idle
  /\ send = [g \in Runs |-> Idle] /\ watch = "running"
  /\ dispatch = NoDispatch
  /\ room = [attempt |-> 0, open |-> FALSE]
  /\ freed = {} /\ late = {} /\ left = {} /\ torn = FALSE /\ upsets = 0

\* _persist_binding: a superseded record of the file outlives the merge, and the
\* memory takes the merged records over.
Merged_Memory(m) == m
Merged(m) ==
  [m EXCEPT !.authority = [s \in Sources |-> [a \in Attempts |->
     IF file.authority[s][a] = "superseded" THEN "superseded" ELSE m.authority[s][a]]]]

Saves == {"ok"} \cup Faults
Persist(m, o) ==
  /\ o \in Saves
  /\ IF o = "ok" THEN mem' = Merged(m) /\ file' = mem' /\ upsets' = upsets
     ELSE mem' = m /\ file' = file /\ upsets < MaxUpsets /\ upsets' = upsets + 1

\* The record a task finds after it has persisted m with the outcome "ok".
Persisted(m, s, a) == Merged(m).authority[s][a]

With(m, s, a, state) == [m EXCEPT !.authority[s][a] = state]
Record(s, a) == mem.authority[s][a]

\* _complete_event: the outcome is recorded, the attempt given up, the intent
\* dropped.
GivenUp(s) == [a \in Attempts |-> IF mem.owner[a] = s THEN 0 ELSE mem.owner[a]]
Settled(s) ==
  [mem EXCEPT !.settled = @ \cup {s}, !.owner = GivenUp(s),
              !.intent[s] = "none", !.cycle[s] = None]

-----------------------------------------------------------------------------
(***************************************************************************)
(* The Room                                                                *)
(***************************************************************************)
binding == <<file, mem, upsets>>
history == <<freed, late, left, torn>>
leaving == <<freed, late, torn>>
process == <<held, marked, renewal, receive, send, dispatch, watch>>

Open == IF room.open THEN room.attempt ELSE None
\* complete_discussion_attempt ends the attempt if it is the open one.
Completed(a) == [room EXCEPT !.open = @ /\ room.attempt # a]

RoomOpens ==
  /\ ~ room.open /\ room.attempt < MaxAttempts
  /\ room' = [room EXCEPT !.attempt = @ + 1, !.open = TRUE]
  /\ UNCHANGED <<binding, process, history>>
RoomEnds ==
  /\ room.open /\ room' = [room EXCEPT !.open = FALSE]
  /\ UNCHANGED <<binding, process, history>>

\* A claim of one of the three tasks is answered.
ClaimAnswered ==
  /\ \/ /\ receive.answer = Waiting /\ receive' = [receive EXCEPT !.answer = Open]
        /\ UNCHANGED <<renewal, send>>
     \/ /\ \E s \in Sources :
             renewal[s].answer = Waiting /\ renewal' = [renewal EXCEPT ![s].answer = Open]
        /\ UNCHANGED <<receive, send>>
     \/ /\ \E g \in Runs :
             send[g].answer = Waiting /\ send' = [send EXCEPT ![g].answer = Open]
        /\ UNCHANGED <<receive, renewal>>
  /\ UNCHANGED <<binding, held, marked, dispatch, watch, room, history>>

-----------------------------------------------------------------------------
(***************************************************************************)
(* The queue and the gate of the Room                                      *)
(***************************************************************************)
Free == {g \in Runs : send[g] = Idle}
First(S) == CHOOSE i \in S : \A j \in S : i <= j

\* A source with a selection is recovered without the model.
Started(s) ==
  [at |-> "running", source |-> s, attempt |-> None, answer |-> None,
   model |-> mem'.intent[s] = "none", again |-> FALSE]

\* Generation g gives up its source and the Room, if it still has them.
Released_Any(g) ==
  [dispatch EXCEPT !.active = 0,
                   !.inflight = [s \in Sources |-> IF @[s] = g THEN 0 ELSE @[s]]]
Released(g) ==
  [dispatch EXCEPT !.active = IF @ = g THEN 0 ELSE @,
                   !.inflight = [s \in Sources |-> IF @[s] = g THEN 0 ELSE @[s]]]

\* A queued source that has its outcome by now is dropped.
Ready_All(queue) == queue
Ready(queue) == queue \ mem'.settled

\* The loop of _dispatch_next_queued, from d and the generations gs: the first
\* source without an outcome gets the Room.  The receive boundary waits for a
\* recovery it starts itself (waits); a source that is recovered stays queued until
\* the end.
StartsNext(d, gs, waits) ==
  LET ready == Ready(d.queue)
      s == First(ready)
      g == First(Free)
  IN IF ready = {} \/ Free = {}
     THEN /\ dispatch' = [d EXCEPT !.queue = ready] /\ send' = gs
          /\ receive' = IF waits THEN Idle ELSE receive
     ELSE /\ send' = [gs EXCEPT ![g] = Started(s)]
          /\ dispatch' = [queue |-> IF send'[g].model THEN ready \ {s} ELSE ready,
                          active |-> g, inflight |-> [d.inflight EXCEPT ![s] = g]]
          /\ receive' = IF ~ waits THEN receive
                        ELSE IF send'[g].model THEN Idle
                        ELSE [Idle EXCEPT !.at = "recovers", !.source = s, !.attempt = g]
DispatchNext(d, gs, waits) ==
  IF d.active = 0 THEN StartsNext(d, gs, waits)
  ELSE dispatch' = d /\ send' = gs /\ receive' = IF waits THEN Idle ELSE receive

\* _expire_stale_pending frees a source under a run that goes on.
Sweep(s) ==
  LET g == dispatch.inflight[s] IN
  /\ watch = "running" /\ receive = Idle /\ g # 0
  /\ upsets < MaxUpsets /\ upsets' = upsets + 1
  /\ dispatch' = Released(g) /\ freed' = freed \cup {g}
  /\ UNCHANGED <<file, mem, held, marked, renewal, receive, send, watch, room, late, left, torn>>

-----------------------------------------------------------------------------
(***************************************************************************)
(* The receive boundary                                                    *)
(***************************************************************************)
Answered(t) == t.at = "claim" /\ t.answer # Waiting

\* An announcement without an outcome, whose source no generation owns.
Receivable(s) ==
  /\ watch = "running" /\ receive = Idle /\ Free # {}
  /\ s <= room.attempt /\ s \notin mem.settled /\ dispatch.inflight[s] = 0
  /\ mem.intent[s] # "quarantined"
Receive(s) ==
  /\ Receivable(s) /\ mem.intent[s] = "none"
  /\ receive' = [Idle EXCEPT !.at = "claim", !.source = s, !.answer = Waiting]
  /\ UNCHANGED <<binding, held, marked, renewal, send, dispatch, watch, room, history>>

\* A source with a selection is queued again without a claim.
Recovers(s) ==
  /\ Receivable(s) /\ mem.intent[s] # "none"
  /\ mem' = mem
  /\ DispatchNext([dispatch EXCEPT !.queue = @ \cup {s}], send, TRUE)
  /\ UNCHANGED <<file, upsets, held, marked, renewal, watch, room, history>>

\* A lost answer ends only this cycle of the watch task.
ReceiveLost ==
  /\ receive.answer = Waiting /\ receive' = Idle
  /\ UNCHANGED <<binding, held, marked, renewal, send, dispatch, watch, room, history>>

\* The claim is too late for a source that was queued before and has been
\* dispatched meanwhile; nothing looks.
Notes(s) ==
  late' = IF dispatch.inflight[s] # 0 \/ s \in mem.settled THEN late \cup {s} ELSE late

Taken_Never(s, a) == FALSE
Taken(s, a) == mem.owner[a] \notin {0, s}
\* No attempt, or one that another source has: the event is superseded.
WatchEnds(o) == watch' = IF o = "error" THEN "dead" ELSE watch
ReceiveSupersedes(o) ==
  /\ Answered(receive)
  /\ receive.answer # None => Taken(receive.source, receive.answer)
  /\ Persist(Settled(receive.source), o)
  /\ receive' = Idle /\ WatchEnds(o) /\ Notes(receive.source)
  /\ UNCHANGED <<held, marked, renewal, send, dispatch, room, freed, left, torn>>

\* The event is of an epoch that has passed: it is ignored without a claim, and a
\* renewal of an earlier run of its source goes on.
ReceiveIgnores(o) ==
  LET s == receive.source IN
  /\ receive.at = "claim" /\ receive.answer = Waiting /\ Persist(Settled(s), o)
  /\ receive' = Idle /\ WatchEnds(o) /\ Notes(s) /\ left' = left \cup {s}
  /\ UNCHANGED <<held, marked, renewal, send, dispatch, room, freed, torn>>

\* The attempt is owned, recorded and saved before its renewal starts and the
\* event is queued.  A renewal task that still runs is left as it is.
ReceiveDispatches(o) ==
  LET s == receive.source
      a == receive.answer
  IN /\ Answered(receive) /\ a \in Attempts /\ ~ Taken(s, a)
     /\ Persist([With(mem, s, a, "active") EXCEPT !.owner[a] = s], o)
     /\ WatchEnds(o)
     /\ IF o = "ok"
        THEN /\ held' = [held EXCEPT ![s] = a]
             /\ renewal' = [renewal EXCEPT ![s] = IF @ = NoRenewal THEN Asleep(a) ELSE @]
             /\ DispatchNext([dispatch EXCEPT !.queue = @ \cup {s}], send, TRUE)
        ELSE receive' = Idle /\ UNCHANGED <<held, renewal, send, dispatch>>
     /\ Notes(s) /\ UNCHANGED <<marked, room, freed, left, torn>>

-----------------------------------------------------------------------------
(***************************************************************************)
(* The renewal task                                                        *)
(***************************************************************************)
RenewalAsks(s) ==
  /\ renewal[s].at = "asleep"
  /\ renewal' = [renewal EXCEPT ![s].at = "claim", ![s].answer = Waiting]
  /\ UNCHANGED <<binding, held, marked, receive, send, dispatch, watch, room, history>>

\* The task ends with a marker in place of the attempt.
RenewalEnds(s, marks) ==
  /\ renewal' = [renewal EXCEPT ![s] = NoRenewal]
  /\ held' = [held EXCEPT ![s] = None]
  /\ marked' = IF marks THEN marked \cup {s} ELSE marked

\* The lease is gone, or an answer, or the save of a renewed lease failed.  Two
\* tries to save the loss count as their last; if that raises, no marker is set.
RenewalLoses(s, o) ==
  LET a == renewal[s].attempt IN
  /\ renewal[s].at = "claim"
  /\ renewal[s].answer # a \/ (o # "ok" /\ Record(s, a) # "superseded")
  /\ Persist(With(mem, s, a, "superseded"), o)
  /\ RenewalEnds(s, o # "error")
  /\ torn' = (torn \/ o = "error")
  /\ UNCHANGED <<receive, send, dispatch, watch, room, freed, late, left>>

\* Another task has found the loss before.
RenewalDenied(s) ==
  /\ Answered(renewal[s]) /\ renewal[s].answer = renewal[s].attempt
  /\ Record(s, renewal[s].attempt) = "superseded"
  /\ RenewalEnds(s, TRUE)
  /\ UNCHANGED <<binding, receive, send, dispatch, watch, room, history>>

RenewalKeeps(s) ==
  LET a == renewal[s].attempt
      kept == With(mem, s, a, "active")
  IN /\ Answered(renewal[s]) /\ renewal[s].answer = a
     /\ Record(s, a) # "superseded"
     /\ Persist(kept, "ok")
     /\ IF Persisted(kept, s, a) = "superseded" THEN RenewalEnds(s, TRUE)
        ELSE /\ renewal' = [renewal EXCEPT ![s] = Asleep(a)]
             /\ held' = [held EXCEPT ![s] = a] /\ marked' = marked
     /\ UNCHANGED <<receive, send, dispatch, watch, room, history>>

-----------------------------------------------------------------------------
(***************************************************************************)
(* The sender                                                              *)
(***************************************************************************)
At(g, at) == send[g].at = at
Moves(g, at) == send' = [send EXCEPT ![g].at = at, ![g].answer = None]
Claims(g, at) == send' = [send EXCEPT ![g].at = at, ![g].answer = Waiting]
SendAnswered(g, at) == At(g, at) /\ send[g].answer # Waiting
Stopped_Not(s) == renewal
Stopped(s) == [renewal EXCEPT ![s] = NoRenewal]
Stops(s) == held' = [held EXCEPT ![s] = None] /\ renewal' = Stopped(s)
others == <<receive, dispatch, watch, room, history>>

\* The output is there; the attempt is read before the Room's state is asked for.
SendBegins(g) ==
  /\ At(g, "running")
  /\ send' = [send EXCEPT ![g].at = "state", ![g].attempt = held[send[g].source]]
  /\ UNCHANGED <<binding, held, marked, renewal, others>>

\* A receipt outranks the marker of a lost lease.
HasReceipt(s) == mem.intent[s] = "posted"
SendResumes(g) ==
  LET s == send[g].source IN
  /\ At(g, "state") /\ HasReceipt(s)
  /\ marked' = marked \ {s} /\ renewal' = IF s \in marked THEN Stopped(s) ELSE renewal
  /\ send' = [send EXCEPT ![g].at = "receipt", ![g].attempt = mem.cycle[s],
                         ![g].again = TRUE]
  /\ UNCHANGED <<binding, held, others>>

\* A result of a passed epoch is superseded before the marker is looked at.
Leaving(g) == left' = left \cup {send[g].source}
SendStale(g) ==
  /\ At(g, "state") /\ ~ HasReceipt(send[g].source)
  /\ Moves(g, "ended") /\ Leaving(g)
  /\ UNCHANGED <<binding, held, marked, renewal, receive, dispatch, watch, room, leaving>>

\* A marker is consumed, whoever set it, and the result is superseded.
SendSuperseded(g) ==
  LET s == send[g].source IN
  /\ At(g, "state") /\ s \in marked /\ ~ HasReceipt(s)
  /\ marked' = marked \ {s} /\ renewal' = Stopped(s) /\ Moves(g, "ended")
  /\ UNCHANGED <<binding, held, others>>

\* The selection names the attempt; one made before is taken as it is.
Chosen(g) ==
  LET s == send[g].source
  IN IF mem.intent[s] # "none" /\ send[g].attempt = None THEN mem.cycle[s] ELSE send[g].attempt
Selects(g, action, o) ==
  LET s == send[g].source
  IN IF mem.intent[s] # "none" THEN o = "ok" /\ UNCHANGED binding
     ELSE Persist([mem EXCEPT !.intent[s] = action, !.cycle[s] = send[g].attempt], o)

Unmarked_Any(s) == TRUE
Unmarked(s) == s \notin marked
SelectsPost(g, o) ==
  LET s == send[g].source IN
  /\ At(g, "state") /\ Unmarked(s) /\ mem.intent[s] \in {"none", "selected", "frozen"}
  /\ Selects(g, "selected", o)
  /\ send' = [send EXCEPT ![g] =
       IF o # "ok" THEN [@ EXCEPT !.at = "failed"]
       ELSE IF mem.intent[s] = "frozen"
       THEN [@ EXCEPT !.at = "replay", !.attempt = mem.cycle[s], !.again = TRUE]
       ELSE IF Chosen(g) = None THEN [@ EXCEPT !.at = "alone"]
       ELSE [@ EXCEPT !.at = "claim", !.attempt = Chosen(g), !.answer = Waiting]]
  /\ UNCHANGED <<held, marked, renewal, others>>

\* Nothing to say: the attempt is passed without a claim of its own.
SelectsSkip(g, o) ==
  LET s == send[g].source IN
  /\ At(g, "state") /\ Unmarked(s) /\ mem.intent[s] \in {"none", "skip"}
  /\ Selects(g, "skip", o)
  /\ send' = [send EXCEPT ![g] =
       IF o # "ok" THEN [@ EXCEPT !.at = "failed"]
       ELSE IF Chosen(g) = None THEN [@ EXCEPT !.at = "ended"]
       ELSE [@ EXCEPT !.at = "pass", !.attempt = Chosen(g)]]
  /\ UNCHANGED <<held, marked, renewal, others>>
SendPasses(g) ==
  /\ At(g, "pass")
  /\ room' = Completed(send[g].attempt) /\ Stops(send[g].source) /\ Moves(g, "ended")
  /\ UNCHANGED <<binding, marked, receive, dispatch, watch, history>>

\* The result is fenced by a claim of its own before anything goes out.
SendFenced(g) ==
  /\ SendAnswered(g, "claim") /\ send[g].answer # send[g].attempt
  /\ Stops(send[g].source) /\ Moves(g, "ended")
  /\ UNCHANGED <<binding, marked, others>>
SendClaimed(g) ==
  /\ SendAnswered(g, "claim") /\ send[g].answer = send[g].attempt
  /\ held' = [held EXCEPT ![send[g].source] = send[g].attempt] /\ Moves(g, "freeze")
  /\ UNCHANGED <<binding, marked, renewal, others>>

\* The post is frozen under one identity, or fails; and the check with which the
\* authority is refreshed first.
SameIdentity(g) ==
  mem.intent[send[g].source] # "none" => mem.cycle[send[g].source] = send[g].attempt
Frozen(g) ==
  LET s == send[g].source
  IN [mem EXCEPT !.intent[s] = "frozen", !.cycle[s] = send[g].attempt]
Freezes(g, o) ==
  /\ At(g, "freeze") \/ At(g, "alone")
  /\ SameIdentity(g) /\ Persist(Frozen(g), o)
  /\ IF o = "ok" THEN Moves(g, "replay") ELSE Moves(g, "failed")
  /\ UNCHANGED <<held, marked, renewal, others>>

Checks(g) ==
  /\ At(g, "replay") /\ send[g].attempt # None
  /\ Record(send[g].source, send[g].attempt) = "active" /\ Claims(g, "first")
  /\ UNCHANGED <<binding, held, marked, renewal, others>>

\* A post that names no attempt goes out without any authority.
SubmitsAlone(g) ==
  /\ At(g, "replay") /\ send[g].attempt = None
  /\ Moves(g, "sent")
  /\ UNCHANGED <<binding, held, marked, renewal, others>>

\* _refresh_attempt_authority, twice: the answer, the record as the other tasks
\* have left it meanwhile, the save, and the record as the file has it.  A denied
\* delivery is quarantined; a save that raises leaves it for a retry.
Refreshing(g) == SendAnswered(g, "first") \/ SendAnswered(g, "second")
Quarantined(m, s) == [m EXCEPT !.intent[s] = "quarantined"]
Failed(m, s, o) == IF o = "error" THEN m ELSE Quarantined(m, s)
RefreshLoses(g, o) ==
  LET s == send[g].source
      lost == With(mem, s, send[g].attempt, "superseded")
  IN
  /\ Refreshing(g) /\ send[g].answer # send[g].attempt
  /\ Persist(Failed(lost, s, o), o)
  /\ Moves(g, "failed")
  /\ UNCHANGED <<held, marked, renewal, others>>
Denied(g) == Record(send[g].source, send[g].attempt) # "active"
RefreshDenied(g, o) ==
  /\ \/ Refreshing(g) /\ send[g].answer = send[g].attempt
     \/ At(g, "replay") /\ send[g].attempt # None
  /\ Denied(g) /\ Persist(Quarantined(mem, send[g].source), o) /\ Moves(g, "failed")
  /\ UNCHANGED <<held, marked, renewal, others>>

Confirmed(g, o) ==
  /\ o = "ok"
  /\ Persisted(With(mem, send[g].source, send[g].attempt, "active"),
               send[g].source, send[g].attempt) = "active"
Refreshes(g, o) ==
  LET s == send[g].source
      kept == With(mem, s, send[g].attempt, "active")
  IN /\ Refreshing(g) /\ send[g].answer = send[g].attempt /\ ~ Denied(g)
     /\ IF Confirmed(g, o)
        THEN /\ Persist(kept, o)
             /\ IF At(g, "first") THEN Claims(g, "second") ELSE Moves(g, "sent")
        ELSE Persist(Failed(kept, s, o), o) /\ Moves(g, "failed")
     /\ UNCHANGED <<held, marked, renewal, others>>

\* A lost answer is tried again with a new refresh, or is the last.
SendRetries(g) ==
  /\ (send[g].answer = Waiting /\ ~ At(g, "claim")) \/ At(g, "sent")
  /\ Moves(g, "replay")
  /\ UNCHANGED <<binding, held, marked, renewal, others>>
SendFails(g) ==
  /\ send[g].answer = Waiting \/ send[g].at \in {"state", "alone", "freeze", "sent"}
  /\ Moves(g, "failed")
  /\ UNCHANGED <<binding, held, marked, renewal, others>>
\* The Room answers that the epoch or the turn is over: an outcome of its own.
PostRefused(g) ==
  /\ send[g].answer = Waiting \/ At(g, "alone") \/ At(g, "sent")
  /\ Moves(g, "ended") /\ Leaving(g)
  /\ UNCHANGED <<binding, held, marked, renewal, receive, dispatch, watch, room, leaving>>

\* The policy has changed since a replayed post was frozen, and the Room or the
\* claim refuses it: the result is superseded.
ReplayStops(g, o) ==
  LET s == send[g].source IN
  /\ send[g].again
  /\ \/ At(g, "sent") /\ o = "ok" /\ UNCHANGED binding
     \/ /\ Refreshing(g) /\ send[g].answer # send[g].attempt /\ o = "ok"
        /\ Persist(With(mem, s, send[g].attempt, "superseded"), o)
  /\ Stops(s) /\ Moves(g, "ended")
  /\ UNCHANGED <<marked, others>>

\* The call that passes an attempt fails, with effect or without.
PassFails(g) ==
  /\ At(g, "pass") /\ room' \in {room, Completed(send[g].attempt)}
  /\ Moves(g, "failed")
  /\ UNCHANGED <<binding, held, marked, renewal, receive, dispatch, watch, history>>

\* The Room commits what is submitted without an attempt or under the open one,
\* and answers a repeated submission with what it has committed.  The receipt is
\* saved before the completion of the attempt.  That ends the renewal, also when
\* the call fails; a replay leaves the renewal to find out.
SendReceives(g, o) ==
  LET s == send[g].source IN
  /\ At(g, "sent")
  /\ Persist([mem EXCEPT !.intent[s] = "posted", !.cycle[s] = send[g].attempt], o)
  /\ IF o = "ok" THEN Moves(g, "receipt") ELSE Moves(g, "failed")
  /\ UNCHANGED <<held, marked, renewal, others>>
SendCompletes(g) ==
  /\ At(g, "receipt") /\ room' = Completed(send[g].attempt)
  /\ IF send[g].again \/ send[g].attempt = None THEN UNCHANGED <<held, renewal>>
                                                ELSE Stops(send[g].source)
  /\ Moves(g, "ended")
  /\ UNCHANGED <<binding, marked, receive, dispatch, watch, history>>
\* The debt is recorded and the attempt given up, or all of that undone.
CompletionFails(g, o) ==
  LET s == send[g].source IN
  /\ At(g, "receipt") /\ send[g].attempt # None
  /\ Persist(IF o = "ok" THEN [mem EXCEPT !.owner = GivenUp(s)] ELSE mem, o)
  /\ room' \in {room, Completed(send[g].attempt)}
  /\ Stops(s) /\ Moves(g, "ended")
  /\ UNCHANGED <<marked, receive, dispatch, watch, history>>

-----------------------------------------------------------------------------
(***************************************************************************)
(* The end of a generation                                                 *)
(***************************************************************************)
Ended(g) == [send EXCEPT ![g] = Over(g)]
InReceive(g) == receive.at = "recovers" /\ receive.attempt = g

\* on_processing_complete, or the loop of the dispatcher for a recovery, which
\* gives up the source and takes the Room for the next one whoever has them.
Discarded(g) == [Released(g) EXCEPT !.inflight[send[g].source] = 0]
PassesOn(g) ==
  IF send[g].model THEN DispatchNext(Released(g), Ended(g), FALSE)
  ELSE StartsNext([Discarded(g) EXCEPT !.queue = @ \ {send[g].source}], Ended(g), InReceive(g))
Leaves(g, d) ==
  /\ dispatch' = d /\ send' = Ended(g)
  /\ receive' = IF InReceive(g) THEN Idle ELSE receive

\* A result is recorded.
ProcessingSettles(g, o) ==
  /\ At(g, "ended") /\ Persist(Settled(send[g].source), o)
  /\ IF o = "error" /\ ~ send[g].model
     THEN Leaves(g, Discarded(g)) /\ watch' = IF InReceive(g) THEN "dead" ELSE watch
     ELSE PassesOn(g) /\ UNCHANGED watch
  /\ UNCHANGED <<held, marked, renewal, room, history>>

\* A failed model run passes the attempt that is held, and leaves the renewal to
\* find that out.
ProcessingPasses(g, o) ==
  LET s == send[g].source IN
  /\ At(g, "failed") \/ At(g, "running")
  /\ send[g].model /\ held[s] # None
  /\ room' = Completed(held[s]) /\ held' = [held EXCEPT ![s] = None]
  /\ Persist(Settled(s), o) /\ PassesOn(g)
  /\ UNCHANGED <<marked, renewal, watch, history>>

\* Nothing to pass, or the call that passes it fails: a source that is pending
\* stays so, and the queue waits for the next event.
ProcessingEnds(g) ==
  LET s == send[g].source IN
  /\ At(g, "failed") \/ At(g, "running")
  /\ send[g].model /\ mem' = mem
  /\ room' \in {room} \cup (IF held[s] = None THEN {} ELSE {Completed(held[s])})
  /\ Leaves(g, Released(g)) \/ (s \in mem.settled /\ PassesOn(g))
  /\ UNCHANGED <<file, upsets, held, marked, renewal, watch, history>>
RecoveryFails(g) ==
  /\ At(g, "failed") /\ ~ send[g].model
  /\ mem' = mem /\ PassesOn(g)
  /\ UNCHANGED <<file, upsets, held, marked, renewal, watch, room, history>>

\* The Room's state cannot be read before the run starts: the source stays queued.
\* (No sweep falls into a dispatch: it is short beside a run.)
DispatchFails(g) ==
  /\ At(g, "running") /\ g \notin freed
  /\ Leaves(g, [Discarded(g) EXCEPT !.queue = @ \cup {send[g].source}])
  /\ UNCHANGED <<binding, held, marked, renewal, watch, room, history>>

\* The epoch of the event has passed when its run is dispatched: it is ignored,
\* the queue goes on, and a renewal goes on too.
DispatchIgnored(g, o) ==
  LET s == send[g].source IN
  /\ At(g, "running") /\ g \notin freed
  /\ Persist(Settled(s), o) /\ Leaving(g)
  /\ IF o = "error"
     THEN /\ Leaves(g, [Discarded(g) EXCEPT !.queue = @ \cup {s}])
          /\ watch' \in IF InReceive(g) THEN {"dead"} ELSE {watch, "dead"}
     ELSE /\ StartsNext([Discarded(g) EXCEPT !.queue = @ \ {s}], Ended(g), InReceive(g))
          /\ UNCHANGED watch
  /\ UNCHANGED <<held, marked, renewal, room, leaving>>

Crash ==
  /\ upsets < MaxUpsets /\ upsets' = upsets + 1
  /\ mem' = file /\ held' = [s \in Sources |-> None] /\ marked' = {}
  /\ renewal' = [s \in Sources |-> NoRenewal] /\ receive' = Idle
  /\ send' = [g \in Runs |-> IF send[g] = Idle THEN Idle ELSE Over(g)]
  /\ dispatch' = NoDispatch /\ watch' = "running" /\ left' = {}
  /\ UNCHANGED <<file, room, leaving>>

-----------------------------------------------------------------------------
RenewalNext(s) ==
  RenewalAsks(s) \/ RenewalDenied(s) \/ RenewalKeeps(s) \/ \E o \in Saves : RenewalLoses(s, o)

SendNext(g) ==
  \/ SendBegins(g) \/ SendSuperseded(g) \/ SendFenced(g) \/ SendClaimed(g) \/ Checks(g)
  \/ SubmitsAlone(g) \/ SendRetries(g) \/ SendFails(g) \/ SendResumes(g)
  \/ SendPasses(g) \/ PassFails(g) \/ SendCompletes(g) \/ SendStale(g) \/ PostRefused(g)
  \/ ProcessingEnds(g) \/ RecoveryFails(g) \/ DispatchFails(g)
  \/ \E o \in Saves :
       \/ SelectsPost(g, o) \/ SelectsSkip(g, o) \/ Freezes(g, o) \/ SendReceives(g, o)
       \/ RefreshLoses(g, o) \/ RefreshDenied(g, o) \/ Refreshes(g, o)
       \/ ReplayStops(g, o) \/ CompletionFails(g, o)
       \/ ProcessingSettles(g, o) \/ ProcessingPasses(g, o) \/ DispatchIgnored(g, o)

ReceiveNext ==
  \/ ReceiveLost
  \/ \E s \in Sources : Receive(s) \/ Recovers(s) \/ Sweep(s)
  \/ \E o \in Saves : ReceiveSupersedes(o) \/ ReceiveIgnores(o) \/ ReceiveDispatches(o)

Next ==
  \/ RoomOpens \/ RoomEnds \/ ReceiveNext \/ Crash \/ ClaimAnswered
  \/ \E s \in Sources : RenewalNext(s)
  \/ \E g \in Runs : SendNext(g)
Spec == Init /\ [][Next]_vars

\* A bound of the run: nothing follows on a sweep together with an outcome that
\* leaves its renewal running.
SweepBound == freed # {} => left = {}

-----------------------------------------------------------------------------
(***************************************************************************)
(* Properties                                                              *)
(***************************************************************************)
SendSteps ==
  {"running", "state", "claim", "alone", "freeze", "replay", "first", "second", "sent",
   "pass", "receipt", "ended", "failed"}
TypeOK ==
  /\ file \in Binding /\ mem \in Binding
  /\ held \in [Sources -> 0 .. MaxAttempts] /\ marked \subseteq Sources
  /\ \A s \in Sources :
       \/ renewal[s] = NoRenewal
       \/ /\ renewal[s].at \in {"asleep", "claim"} /\ renewal[s].attempt \in Attempts
          /\ renewal[s].answer \in Answers
  /\ \/ receive = Idle
     \/ receive.at = "claim" /\ receive.source \in Sources /\ receive.answer \in Answers
     \/ receive.at = "recovers" /\ receive.source \in Sources /\ receive.attempt \in Runs
  /\ \A g \in Runs :
       \/ send[g].at \in {"idle", "over"}
       \/ /\ send[g].at \in SendSteps /\ send[g].source \in Sources
          /\ send[g].attempt \in 0 .. MaxAttempts /\ send[g].answer \in Answers
  /\ dispatch \in [queue : SUBSET Sources, active : 0 .. MaxDispatch,
                   inflight : [Sources -> 0 .. MaxDispatch]]
  /\ watch \in {"running", "dead"}
  /\ room \in [attempt : 0 .. MaxAttempts, open : BOOLEAN]
  /\ freed \subseteq Runs /\ late \subseteq Sources /\ left \subseteq Sources
  /\ torn \in BOOLEAN /\ upsets \in 0 .. MaxUpsets

\* What the sender hands to the network in a step.
Submits(s, a) ==
  \E g \in Runs : /\ send[g].at # "sent" /\ send'[g].at = "sent"
                  /\ send'[g].source = s /\ send'[g].attempt = a

\* A loss that was saved stands: no task, no redelivery and no restart makes the
\* record active again, and nothing is submitted under it any more.
DenialStands ==
  [][ \A s \in Sources, a \in Attempts :
        file.authority[s][a] = "superseded" =>
          file'.authority[s][a] = "superseded" /\ ~ Submits(s, a) ]_vars

\* Two sources never work their way to the Room under one attempt side by side:
\* who submits owns the attempt (while no run outlives the sweep, and except for
\* a source whose claim at the receive boundary came too late).
OwnerSubmits ==
  [][ \A s \in Sources \ late, a \in Attempts :
        freed = {} /\ Submits(s, a) => mem.owner[a] = s ]_vars

\* README.md:213-217: output whose lease was lost cannot escape through the path
\* of a post without an attempt.  It can when a run outlives the sweep, or when
\* the loss could not be saved.
NoEscape ==
  [][ freed = {} /\ ~ torn => \A s \in Sources : ~ Submits(s, None) ]_vars

\* No lease is kept alive for nobody: once a source has its outcome, a renewal
\* task that still runs for it works on an attempt the Room has ended, so that
\* its next claim finds that out and the Room may go on meanwhile.  The exceptions: a
\* source that was queued, delivered again and overtaken in the claim; a loss that
\* could not be saved, after which a source may be replayed without an attempt; and,
\* until a restart, the outcomes of an epoch or a turn that is over (left), whose code
\* neither stops the renewal nor ends the attempt (adapter.py 1547-1560, 1926-1962,
\* 2892-2911, 3383-3394): the renewal goes on until the Room ends the attempt.
LeaseIsReturned ==
  freed = {} /\ ~ torn =>
    \A s \in mem.settled \ (late \cup left) :
      renewal[s] # NoRenewal => Open # renewal[s].attempt

\* A Room has one run at a time, and a source one owner: a generation at work that
\* the sweep has not freed has both, whatever late callbacks of freed runs do
\* (a freed recovery excepted, whose loop takes the Room without a look).
OneRunPerRoom ==
  (\A h \in freed : send[h].model) =>
    \A g \in Runs \ freed :
      send[g].at \in SendSteps => /\ dispatch.active = g
                                  /\ dispatch.inflight[send[g].source] = g

\* README.md:134-135, an event is acknowledged only after Hermes completes it: no
\* source has its outcome while a run of it is at work, and none that was completed
\* in the queue is run after all.  It can when a run outlives the sweep, and for a
\* source whose claim at the receive boundary came too late.
CompletedFirst ==
  freed = {} =>
    \A g \in Runs : send[g].at \in SendSteps => send[g].source \notin mem.settled \ late
=============================================================================
