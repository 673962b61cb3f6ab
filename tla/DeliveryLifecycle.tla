------------------------- MODULE DeliveryLifecycle -------------------------
(***************************************************************************)
(* How one Room binding of the Hermes adapter turns addressed Room events  *)
(* into canonical messages: adapter.py, from the receive boundary          *)
(* (_consume_locked) through dispatch, the final send (_send_final_owned), *)
(* the post-delivery lifecycle and its repair, to the terminal evidence    *)
(* and the contiguous acknowledgement (_complete_event_locked).            *)
(*                                                                         *)
(* The gateway is one asyncio loop, so an action is the code between two   *)
(* awaits.  The binding exists twice: the object in memory, and the state  *)
(* file that _persist_binding overwrites with it.  A crash keeps only the  *)
(* file.  A source is named by its canonical sequence number, a dispatch   *)
(* generation by the order in which it was started, and the text a model   *)
(* run produced by the generation that produced it.                        *)
(***************************************************************************)
EXTENDS Integers, FiniteSets

CONSTANTS
  N,             \* the addressed events of the Room are the sequences 1..N
  KindOf,        \* KindOf[s]: the completion a post for s owes: open, cycle, turn
  MaxDispatch,   \* bound: dispatch generations started for one source
  MaxCrashes,    \* bound: crashes of the gateway process
  MaxRetries,    \* PENDING_EVENT_MAX_RETRIES
  Budget,        \* automatic lifecycle attempts a journal allows
  Faults,        \* what a state write may do besides succeed: refused, error
  LongRuns,      \* may the pending-event sweep find a source still running?
  EpochMoves     \* may an operator open a new discussion epoch?

Sources == 1 .. N
Runs == 1 .. MaxDispatch
Kinds == {"open", "cycle", "turn"}
NoRun == 0

ASSUME SizeAssumption ==
  /\ N \in Nat /\ MaxDispatch \in Nat /\ MaxCrashes \in Nat
  /\ MaxRetries \in Nat /\ Budget \in Nat
ASSUME ShapeAssumption ==
  /\ KindOf \in [Sources -> Kinds]
  /\ Faults \subseteq {"refused", "error"}
  /\ LongRuns \in BOOLEAN /\ EpochMoves \in BOOLEAN

VARIABLES
  intent,     \* delivery_intents: the frozen selection, the frozen post, the receipt
  journal,    \* delivery_lifecycle: the completion still owed after a receipt
  inbox,      \* status of every unacknowledged sequence
  evidence,   \* status named by the terminal evidence of a sequence
  retries,    \* pending_retries
  ack,        \* acknowledged_cursor
  disk,       \* the binding as the state file holds it
  run,        \* where each dispatch generation of each source stands
  text,       \* the body a generation is about to send
  result,     \* _terminal_results: how a generation ended
  owner,      \* _event_dispatch_generation: the generation in flight
  lost,       \* _superseded_sources: sources whose attempt lease was lost
  arrival,    \* the event the watch task consumes, the generation it recovers
  acking,     \* frontier of the acknowledgement in flight, or 0
  repair,     \* source whose lifecycle call the watch task awaits, or 0
  watch,      \* the watch task
  log,        \* Room server: body of the canonical message for a source
  closed,     \* Room server: the cycle attempt or turn has been completed
  sack,       \* Room server: acknowledged sequence
  epoch,      \* Room server: first sequence of the active epoch
  calls,      \* history: lifecycle completion requests issued for a source
  crashes     \* history: crashes so far

binding == <<intent, journal, inbox, evidence, retries, ack>>
tasks   == <<run, text, result, owner, lost, arrival, acking, repair, watch>>
server  == <<log, closed, sack, epoch>>
vars    == <<binding, disk, tasks, server, calls, crashes>>

(***************************************************************************)
(* Durable records                                                         *)
(***************************************************************************)
Terminal == {"posted", "skipped", "failed", "cancelled", "superseded", "ignored"}
Waiting  == {"absent", "pending", "failed-retryable", "quarantined"}

Intent == [action : {"none", "post", "skip"}, body : 0 .. MaxDispatch,
           frozen : BOOLEAN,
           state  : {"none", "selected", "pending", "posted", "quarantined"}]
NoIntent == [action |-> "none", body |-> 0, frozen |-> FALSE, state |-> "none"]

\* diagnosed: last_error and last_error_code are present.
\* sourced: the receipt carries a positive source sequence.
Journal == [life : {"absent", "pending", "blocked", "not_required"},
            attempts : Nat, diagnosed : BOOLEAN, sourced : BOOLEAN]
NoJournal == [life |-> "absent", attempts |-> 0, diagnosed |-> FALSE, sourced |-> FALSE]

Image == [intent |-> intent, journal |-> journal, inbox |-> inbox,
          evidence |-> evidence, retries |-> retries, ack |-> ack]

\* RoomBinding.from_dict: what the loader demands of a journal in the file.
Loadable ==
  \A s \in Sources :
    LET j == disk.journal[s] IN
    j.life # "absent" => /\ j.sourced
                         /\ j.attempts <= Budget
                         /\ j.life = "blocked" => j.diagnosed
                         /\ j.life # "not_required" => KindOf[s] # "open"

\* _persist_binding re-reads the file, merges the memory into it and replaces
\* it.  "refused": the durable binding is gone, disabled or replaced, the call
\* returns False.  "error": an exception, and always when the file is unloadable.
Writes == IF Loadable THEN {"ok"} \cup Faults ELSE {"error"}
Persist(o) == disk' = IF o = "ok" THEN Image' ELSE disk

(***************************************************************************)
(* Tasks of the loop                                                       *)
(***************************************************************************)
\* A final send between two awaits: nothing else of the loop runs meanwhile.
Midway == {"received", "replayed", "unsent-retry", "unsent-final", "debt-retry", "debt-final"}
Live == {"model", "resend", "fence", "skipping", "failing", "acquire",
         "policy", "posting", "reposting", "completing", "replaying", "settling", "settled",
         "unsent"} \cup Midway
Labels == {"idle", "done"} \cup Live
RepairSteps == {"idle", "calling", "debt-retry", "debt-final"}

LoopFree == /\ \A s \in Sources, g \in Runs : run[s][g] \notin Midway
            /\ repair.step \notin {"debt-retry", "debt-final"}
NoArrival == [at |-> 0, by |-> NoRun]
WatchFree == watch = "running" /\ arrival = NoArrival /\ repair.step = "idle"
At(s, g, l) == run[s][g] = l
Goto(s, g, l) == run' = [run EXCEPT ![s][g] = l]
\* Recovered output is sent by the watch task itself, inside its dispatch.
Recovering(s, g) == arrival = [at |-> s, by |-> g]
Arrived(s) == arrival = [at |-> s, by |-> NoRun]
LiveRun(s) == \E g \in Runs : run[s][g] \in Live
Posted(s) == intent[s].state = "posted"
\* _recoverable_selection: a frozen model result, or a frozen post.
Recoverable(s) == intent[s].action # "none" \/ intent[s].frozen

Init ==
  /\ intent = [s \in Sources |-> NoIntent] /\ journal = [s \in Sources |-> NoJournal]
  /\ inbox = [s \in Sources |-> "absent"] /\ evidence = [s \in Sources |-> "none"]
  /\ retries = [s \in Sources |-> 0] /\ ack = 0
  /\ disk = Image
  /\ run = [s \in Sources |-> [g \in Runs |-> "idle"]]
  /\ text = [s \in Sources |-> [g \in Runs |-> 0]]
  /\ result = [s \in Sources |-> [g \in Runs |-> "none"]]
  /\ owner = [s \in Sources |-> NoRun] /\ lost = {}
  /\ arrival = NoArrival /\ acking = 0 /\ watch = "running"
  /\ repair = [at |-> 0, step |-> "idle"]
  /\ log = [s \in Sources |-> 0] /\ closed = [s \in Sources |-> FALSE]
  /\ sack = 0 /\ epoch = 1
  /\ calls = [s \in Sources |-> 0] /\ crashes = 0

-----------------------------------------------------------------------------
(***************************************************************************)
(* Terminal evidence and the contiguous acknowledgement                    *)
(***************************************************************************)
Proven(s) == inbox[s] \in Terminal /\ evidence[s] = inbox[s]
Cleared_Debt(j) == NoJournal
Cleared(j) == IF j.life \in {"pending", "blocked"} THEN j ELSE NoJournal

\* The run of proven sequences after the cursor ends at c.
Frontier_OverGap(c) == c = ack \/ Proven(c)
Frontier(c) == (\A t \in (ack + 1) .. c : Proven(t)) /\ (c < N => ~ Proven(c + 1))

\* A failed save of the evidence ends the completion.
Unsaved_Refused(o) == o = "error"
Unsaved(o) == o # "ok"

\* The evidence for s reaches the file before the acknowledgement is called,
\* and the call names the end of the proven run that starts at ack + 1.
CompleteNew(s, status, o) ==
  /\ s > ack
  /\ inbox' = [inbox EXCEPT ![s] = status]
  /\ evidence' = [evidence EXCEPT ![s] = status]
  /\ retries' = [retries EXCEPT ![s] = 0]
  /\ intent' = [intent EXCEPT ![s] = NoIntent]
  /\ journal' = [journal EXCEPT ![s] = Cleared(@)]
  /\ UNCHANGED ack
  /\ o \in Writes /\ Persist(o)
  /\ IF Unsaved(o) THEN UNCHANGED acking
     ELSE \E c \in ack .. N : Frontier(c)' /\ acking' = IF c = ack THEN 0 ELSE c

\* A second callback, or a source the frontier has already passed.
CompleteOld(s, o) ==
  /\ s <= ack
  /\ UNCHANGED <<inbox, evidence, retries, ack, acking>>
  /\ IF intent[s] = NoIntent /\ journal[s] = NoJournal
     THEN o = "ok" /\ UNCHANGED <<intent, journal, disk>>
     ELSE /\ intent' = [intent EXCEPT ![s] = NoIntent]
          /\ journal' = [journal EXCEPT ![s] = Cleared(@)]
          /\ o \in Writes /\ Persist(o)

\* _complete_event_locked under the Room's ledger lock.
CompleteEvent(s, status, o) ==
  /\ acking = 0
  /\ CompleteNew(s, status, o) \/ CompleteOld(s, o)

\* Evidence for a posted source must repeat a receipt the binding still holds.
ReceiptHeld(s) == journal[s].life # "absent" \/ Posted(s)

\* Room server: acknowledge is a monotone maximum.
ServerAcknowledge ==
  /\ acking > sack /\ sack' = acking
  /\ UNCHANGED <<binding, disk, tasks, log, closed, epoch, calls, crashes>>

\* The answer names the frontier that was proven: advance and prune.
AcknowledgeReply(o) ==
  /\ LoopFree /\ acking # 0 /\ sack = acking
  /\ ack' = acking /\ acking' = 0
  /\ inbox' = [s \in Sources |-> IF s <= acking THEN "absent" ELSE inbox[s]]
  /\ evidence' = [s \in Sources |-> IF s <= acking THEN "none" ELSE evidence[s]]
  /\ retries' = [s \in Sources |-> IF s <= acking THEN 0 ELSE retries[s]]
  /\ UNCHANGED <<intent, journal>>
  /\ o \in Writes /\ Persist(o)
  /\ watch' \in IF o = "error" THEN {watch, "dead"} ELSE {watch}
  /\ UNCHANGED <<run, text, result, owner, lost, arrival, repair, server, calls, crashes>>

\* No answer, or one that names another frontier: nothing advances.
AcknowledgeFails ==
  /\ LoopFree /\ acking # 0 /\ acking' = 0
  /\ UNCHANGED <<binding, disk, run, text, result, owner, lost, arrival, repair,
                 watch, server, calls, crashes>>

-----------------------------------------------------------------------------
(***************************************************************************)
(* Receive boundary and dispatch (the watch task)                          *)
(***************************************************************************)
\* The status a delivered sequence is noted with, and whether that is all: it
\* is quarantined, or a run is at work on it.
Noted_Anew(s) == IF inbox[s] # "quarantined" THEN "pending" ELSE inbox[s]
Noted(s) == IF inbox[s] \in {"absent", "failed-retryable"} THEN "pending" ELSE inbox[s]
Idle_Terminal(s) == inbox[s] \in Terminal \cup {"quarantined"} \/ owner[s] # NoRun
Idle(s) == inbox[s] = "quarantined" \/ (inbox[s] \notin Terminal /\ owner[s] # NoRun)

\* Part of _consume_locked before its first await: note the event, save, and
\* decide whether it needs only its acknowledgement, nothing, or a dispatch.
Deliver(s, o) ==
  /\ LoopFree /\ WatchFree
  /\ s > ack /\ \A t \in (ack + 1) .. (s - 1) : inbox[t] # "absent"
  /\ UNCHANGED <<intent, journal, evidence, retries, ack>>
  /\ inbox' = [inbox EXCEPT ![s] = Noted(s)]
  /\ o \in Writes /\ Persist(o)
  /\ arrival' = IF o # "ok" \/ Idle(s) THEN NoArrival ELSE [at |-> s, by |-> NoRun]
  /\ watch' = IF o = "error" THEN "dead" ELSE watch
  /\ UNCHANGED <<run, text, result, owner, lost, acking, repair, server, calls, crashes>>

\* A sequence with durable evidence is only acknowledged again.
Reacknowledge(s, o) ==
  /\ LoopFree /\ Arrived(s) /\ inbox[s] \in Terminal
  /\ arrival' = NoArrival
  /\ IF evidence[s] = inbox[s]
     THEN /\ CompleteEvent(s, inbox[s], o)
          /\ watch' = IF o = "error" THEN "dead" ELSE watch
     ELSE watch' = "dead" /\ o = "ok" /\ UNCHANGED <<binding, disk, acking>>
  /\ UNCHANGED <<run, text, result, owner, lost, repair, server, calls, crashes>>

\* Self, unaddressed, context-only, policy-gated and historical events, and
\* attempts another source owns, end here without a dispatch.  A frozen
\* selection skips those gates and meets only the epoch fence of the dispatch.
Decline(s, status, o) ==
  /\ LoopFree /\ Arrived(s) /\ inbox[s] \notin Terminal /\ owner[s] = NoRun
  /\ IF Recoverable(s) THEN s < epoch /\ status = "ignored"
                       ELSE status \in {"ignored", "superseded"}
  /\ CompleteEvent(s, status, o)
  /\ arrival' = NoArrival
  /\ watch' = IF o = "error" THEN "dead" ELSE watch
  /\ UNCHANGED <<run, text, result, owner, lost, repair, server, calls, crashes>>

\* Network trouble before the dispatch (the watch loop retries from the
\* cursor), or a source the frontier has passed meanwhile.
ArrivalDropped(s) ==
  /\ LoopFree /\ Arrived(s) /\ inbox[s] \notin Terminal
  /\ arrival' = NoArrival
  /\ UNCHANGED <<binding, disk, run, text, result, owner, lost, acking, repair,
                 watch, server, calls, crashes>>

\* _dispatch_room_event in the source's epoch: recovered output goes straight
\* to the final send, anything else to a model run.
Dispatch(s, g) ==
  /\ LoopFree /\ Arrived(s) /\ inbox[s] \notin Terminal /\ owner[s] = NoRun
  /\ s > ack /\ s >= epoch
  /\ At(s, g, "idle") /\ \A h \in 1 .. (g - 1) : ~ At(s, h, "idle")
  /\ owner' = [owner EXCEPT ![s] = g]
  /\ IF Recoverable(s)
     THEN /\ Goto(s, g, "resend")
          /\ text' = [text EXCEPT ![s][g] = intent[s].body]
          /\ arrival' = [at |-> s, by |-> g]
     ELSE /\ Goto(s, g, "model")
          /\ text' = [text EXCEPT ![s][g] = g]
          /\ arrival' = NoArrival
  /\ UNCHANGED <<binding, disk, result, lost, acking, repair, watch, server, calls, crashes>>

-----------------------------------------------------------------------------
(***************************************************************************)
(* How a final send ends                                                   *)
(***************************************************************************)
\* _successful_terminal: the generation has an outcome to put in evidence.
Ends(s, g, status) ==
  /\ Goto(s, g, "settling")
  /\ result' = [result EXCEPT ![s][g] = status]

\* The send raises or reports failure without an outcome.  Recovered output
\* is sent inside the watch task, which survives a ProtocolError only.
Escapes(s, g, fatal) ==
  /\ result' = result
  /\ IF Recovering(s, g)
     THEN /\ Goto(s, g, "done") /\ arrival' = NoArrival
          /\ owner' = [owner EXCEPT ![s] = NoRun]
          /\ watch' = IF fatal THEN "dead" ELSE watch
     ELSE Goto(s, g, "unsent") /\ UNCHANGED <<arrival, owner, watch>>

\* The callbacks of the host: the final send completes the source, and so
\* does the end of processing (or the recovery dispatch) after it.  In the
\* watch task an exception of the first ends it before the second.
Settle(s, g, o) ==
  /\ LoopFree /\ run[s][g] \in {"settling", "settled"}
  /\ LET void == /\ result[s][g] = "posted" /\ ~ ReceiptHeld(s)
                 /\ s > ack \/ intent[s] # NoIntent \/ journal[s] # NoJournal
         fatal == Recovering(s, g) /\ (void \/ o = "error")
         last == At(s, g, "settled") \/ fatal
     IN /\ IF void THEN acking = 0 /\ o = "ok" /\ UNCHANGED <<binding, disk, acking>>
                   ELSE CompleteEvent(s, result[s][g], o)
        /\ Goto(s, g, IF last THEN "done" ELSE "settled")
        /\ owner' = IF last /\ owner[s] = g THEN [owner EXCEPT ![s] = NoRun] ELSE owner
        /\ arrival' = IF last /\ Recovering(s, g) THEN NoArrival ELSE arrival
        /\ watch' = IF fatal THEN "dead" ELSE watch
  /\ UNCHANGED <<text, result, lost, repair, server, calls, crashes>>

\* on_processing_complete without an outcome: the source stays as it is.
ProcessingEnds(s, g) ==
  /\ LoopFree /\ run[s][g] \in {"model", "unsent"}
  /\ Goto(s, g, "done")
  /\ owner' = IF owner[s] = g THEN [owner EXCEPT ![s] = NoRun] ELSE owner
  /\ UNCHANGED <<binding, disk, text, result, lost, arrival, acking, repair,
                 watch, server, calls, crashes>>

\* on_processing_complete reports a failed run that still holds a cycle
\* attempt: the attempt is passed and the source is skipped.
ProcessingPasses(s, g) ==
  /\ LoopFree /\ run[s][g] \in {"model", "unsent"}
  /\ KindOf[s] = "cycle" /\ s \notin lost
  /\ result' = [result EXCEPT ![s][g] = "skipped"]
  /\ Goto(s, g, "settled")
  /\ closed' = [closed EXCEPT ![s] = TRUE]
  /\ UNCHANGED <<binding, disk, text, owner, lost, arrival, acking, repair, watch,
                 log, sack, epoch, calls, crashes>>

-----------------------------------------------------------------------------
(***************************************************************************)
(* _send_final_owned up to the canonical message                           *)
(***************************************************************************)
\* Until a receipt is durable the send first reads the Room's active epoch.
SendFinal(s, g) ==
  /\ LoopFree /\ run[s][g] \in {"model", "resend"} /\ ~ Posted(s)
  /\ Goto(s, g, "fence")
  /\ UNCHANGED <<binding, disk, text, result, owner, lost, arrival, acking, repair,
                 watch, server, calls, crashes>>

\* The epoch moved on, or the attempt's lease was lost while the model ran.
SendSuperseded(s, g) ==
  /\ LoopFree /\ At(s, g, "fence")
  /\ s < epoch \/ s \in lost
  /\ Ends(s, g, "superseded")
  /\ lost' = IF s < epoch THEN lost ELSE lost \ {s}
  /\ UNCHANGED <<binding, disk, text, owner, arrival, acking, repair, watch, server,
                 calls, crashes>>

\* The Room cannot be read, or the binding was disabled, removed or replaced;
\* reading an unloadable state file raises.  A coordinated post looks at the
\* binding once more before it is frozen: none of this counts as a failed delivery.
SendRefused(s, g) ==
  /\ LoopFree
  /\ \/ run[s][g] \in {"model", "resend", "fence"}
     \/ At(s, g, "acquire") /\ KindOf[s] # "open" /\ Loadable
  /\ Escapes(s, g, ~ Loadable)
  /\ UNCHANGED <<binding, disk, text, lost, acking, repair, server, calls, crashes>>

\* _select_delivery_intent: freeze what the model said, unless an earlier
\* generation already did; a selection that was not saved stays in memory.
Select(s, g, action, o) ==
  /\ LoopFree
  /\ \/ At(s, g, "fence") /\ s >= epoch /\ s \notin lost
     \/ run[s][g] \in {"model", "resend"} /\ Posted(s)
  /\ action \in IF Recovering(s, g) THEN {"post", "skip"} ELSE {"post", "skip", "fail"}
  /\ UNCHANGED <<journal, inbox, evidence, retries, ack>>
  /\ LET fresh == intent[s].action = "none"
         chosen == IF ~ fresh THEN intent[s]
                   ELSE [intent[s] EXCEPT
                           !.action = IF action = "post" \/ intent[s].frozen
                                      THEN "post" ELSE "skip",
                           !.body = IF intent[s].frozen THEN @ ELSE text[s][g],
                           !.state = "selected"]
         held == chosen.action = "post" /\ chosen.state = "quarantined"
     IN /\ intent' = [intent EXCEPT ![s] = chosen]
        /\ IF fresh THEN o \in Writes /\ Persist(o) ELSE o = "ok" /\ UNCHANGED disk
        /\ text' = [text EXCEPT ![s][g] = chosen.body]
        /\ IF o # "ok" \/ held THEN Escapes(s, g, o = "error")
           ELSE /\ Goto(s, g, IF chosen.action = "skip"
                              THEN (IF action = "fail" THEN "failing" ELSE "skipping")
                              ELSE IF chosen.frozen THEN "policy" ELSE "acquire")
                /\ UNCHANGED <<result, owner, arrival, watch>>
  /\ lost' = IF Posted(s) THEN lost \ {s} ELSE lost
  /\ UNCHANGED <<acking, repair, server, calls, crashes>>

\* Nothing to say: a cycle attempt is passed or failed first.
FinishSkip(s, g) ==
  /\ LoopFree /\ run[s][g] \in {"skipping", "failing"}
  /\ Ends(s, g, IF At(s, g, "failing") THEN "failed" ELSE "skipped")
  /\ closed' = IF KindOf[s] = "cycle" THEN [closed EXCEPT ![s] = TRUE] ELSE closed
  /\ UNCHANGED <<binding, disk, text, owner, lost, arrival, acking, repair, watch,
                 log, sack, epoch, calls, crashes>>

SkipRefused(s, g) ==
  /\ LoopFree /\ run[s][g] \in {"skipping", "failing"} /\ KindOf[s] = "cycle"
  /\ Escapes(s, g, FALSE)
  /\ UNCHANGED <<binding, disk, text, lost, acking, repair, server, calls, crashes>>

\* The cycle attempt is no longer ours, or the turn ended while it was awaited.
AuthorityGone(s, g) ==
  /\ LoopFree /\ At(s, g, "acquire") /\ KindOf[s] # "open"
  /\ Ends(s, g, IF KindOf[s] = "cycle" THEN "superseded" ELSE "cancelled")
  /\ UNCHANGED <<binding, disk, text, owner, lost, arrival, acking, repair, watch,
                 server, calls, crashes>>

\* The Room head, the claim or the turn cannot be had now, or not at all.
AcquireFails(s, g, next) ==
  /\ LoopFree /\ At(s, g, "acquire") /\ next \in {"unsent-retry", "unsent-final"}
  /\ Goto(s, g, next)
  /\ UNCHANGED <<binding, disk, text, result, owner, lost, arrival, acking, repair,
                 watch, server, calls, crashes>>

\* Only a saved request is sent.
AfterFreeze_Refused(o) == IF o = "error" THEN "unsent-retry" ELSE "posting"
AfterFreeze(o) == CASE o = "ok" -> "posting" [] o = "refused" -> "unsent-final"
                    [] o = "error" -> "unsent-retry"

\* _post_with_fresh_context saves the exact request before it is sent.  It
\* takes a request frozen meanwhile, else the selection, else its argument.
Freeze(s, g, o) ==
  /\ LoopFree /\ At(s, g, "acquire")
  /\ UNCHANGED <<journal, inbox, evidence, retries, ack>>
  /\ LET body == IF intent[s].frozen \/ intent[s].action # "none"
                 THEN intent[s].body ELSE text[s][g]
     IN /\ intent' = [intent EXCEPT ![s].frozen = TRUE, ![s].body = body]
        /\ text' = [text EXCEPT ![s][g] = body]
  /\ IF intent[s].frozen THEN o = "ok" /\ UNCHANGED disk ELSE o \in Writes /\ Persist(o)
  /\ Goto(s, g, AfterFreeze(o))
  /\ UNCHANGED <<result, owner, lost, arrival, acking, repair, watch, server, calls, crashes>>

\* A request frozen earlier: the Room's policy is read, then a durable receipt
\* leaves only the lifecycle, and without one the same request is sent again.
Replay(s, g) ==
  /\ LoopFree /\ At(s, g, "policy")
  /\ IF ~ Posted(s) THEN Goto(s, g, "reposting") /\ UNCHANGED result
     ELSE IF journal[s].life # "absent" THEN Goto(s, g, "replayed") /\ UNCHANGED result
     ELSE Ends(s, g, "posted")
  /\ UNCHANGED <<binding, disk, text, owner, lost, arrival, acking, repair, watch,
                 server, calls, crashes>>

PolicyUnavailable(s, g) ==
  /\ LoopFree /\ At(s, g, "policy") /\ Goto(s, g, "unsent-retry")
  /\ UNCHANGED <<binding, disk, text, result, owner, lost, arrival, acking, repair,
                 watch, server, calls, crashes>>

-----------------------------------------------------------------------------
(***************************************************************************)
(* The canonical post: the Room commits one message per idempotency key,   *)
(* whose answer may be lost; a repeated request gets the same message.     *)
(***************************************************************************)
Sending(s, g) == run[s][g] \in {"posting", "reposting"}

ServerPost(s, g) ==
  /\ Sending(s, g) /\ log[s] = 0 /\ s >= epoch
  /\ log' = [log EXCEPT ![s] = text[s][g]]
  /\ UNCHANGED <<binding, disk, tasks, closed, sack, epoch, calls, crashes>>

\* _record_canonical_delivery: the receipt and the completion it owes, saved
\* together; neither stays in memory when the save fails.
Receipted(s) == [intent EXCEPT ![s].state = "posted"]
Owed_Complete(s) == [life |-> IF KindOf[s] = "open" THEN "not_required" ELSE "complete",
            attempts |-> 0, diagnosed |-> FALSE, sourced |-> intent[s].action # "none"]
Owed_CycleOnly(s) == [life |-> IF KindOf[s] = "cycle" THEN "pending" ELSE "not_required",
            attempts |-> 0, diagnosed |-> FALSE, sourced |-> intent[s].action # "none"]
Owed(s) == [life |-> IF KindOf[s] = "open" THEN "not_required" ELSE "pending",
            attempts |-> 0, diagnosed |-> FALSE, sourced |-> intent[s].action # "none"]

\* The answer carries the committed message with this body.
Answered_Assumed(s, g) == log[s] \in {0, text[s][g]}
Answered(s, g) == log[s] # 0 /\ log[s] = text[s][g]

RecordReceipt(s, g, o) ==
  /\ LoopFree /\ Sending(s, g) /\ Answered(s, g)
  /\ o \in Writes
  /\ IF o = "ok"
     THEN /\ intent' = Receipted(s)
          /\ journal' = [journal EXCEPT ![s] = Owed(s)]
          /\ Goto(s, g, IF At(s, g, "posting") THEN "received" ELSE "replayed")
     ELSE Goto(s, g, "unsent-retry") /\ UNCHANGED <<intent, journal>>
  /\ UNCHANGED <<inbox, evidence, retries, ack>>
  /\ Persist(o)
  /\ UNCHANGED <<text, result, owner, lost, arrival, acking, repair, watch, server,
                 calls, crashes>>

\* No usable answer in three tries, although the message may be there; or a
\* refusal: of the request, of a different body under the same key, of an
\* attempt that is no longer ours (checked before the message is looked up).
PostFails(s, g, next) ==
  /\ LoopFree /\ Sending(s, g) /\ next \in {"unsent-retry", "unsent-final"}
  /\ next = "unsent-final" => log[s] # text[s][g] \/ KindOf[s] = "cycle"
  /\ Goto(s, g, next)
  /\ UNCHANGED <<binding, disk, text, result, owner, lost, arrival, acking, repair,
                 watch, server, calls, crashes>>

\* The turn ended, or the epoch moved, before the message was committed.
PostTooLate(s, g) ==
  /\ LoopFree /\ Sending(s, g) /\ log[s] = 0
  /\ \/ KindOf[s] = "turn" /\ Ends(s, g, "cancelled")
     \/ s < epoch /\ Ends(s, g, "superseded")
  /\ UNCHANGED <<binding, disk, text, owner, lost, arrival, acking, repair, watch,
                 server, calls, crashes>>

\* The Room changed its coordination mode since the request was frozen, and
\* refuses the replay for it: a turn is finished and the source superseded.
PostModeChanged(s, g, o) ==
  /\ LoopFree /\ At(s, g, "reposting") /\ (log[s] = 0 \/ KindOf[s] = "cycle")
  /\ UNCHANGED binding /\ o \in Writes /\ Persist(o)
  /\ closed' \in IF KindOf[s] = "turn" THEN {closed, [closed EXCEPT ![s] = TRUE]} ELSE {closed}
  /\ IF o = "error" THEN Goto(s, g, "unsent-retry") /\ UNCHANGED result
     ELSE Ends(s, g, "superseded")
  /\ UNCHANGED <<text, owner, lost, arrival, acking, repair, watch, log, sack, epoch,
                 calls, crashes>>

\* _record_delivery_failure: no receipt, so the source is to be retried or is
\* quarantined; it raises for a delivery that already is canonical.
RecordDeliveryFailure(s, g, o) ==
  /\ run[s][g] \in {"unsent-retry", "unsent-final"}
  /\ IF Posted(s) THEN o = "ok" /\ Escapes(s, g, TRUE) /\ UNCHANGED <<binding, disk>>
     ELSE LET retry == At(s, g, "unsent-retry")
              spent == IF s > ack THEN retries[s] + 1 ELSE retries[s]
          IN /\ intent' = [intent EXCEPT ![s].state = IF retry THEN "pending" ELSE "quarantined"]
             /\ retries' = [retries EXCEPT ![s] = spent]
             /\ inbox' = [inbox EXCEPT ![s] =
                    IF s <= ack THEN @
                    ELSE IF retry /\ spent <= MaxRetries THEN "failed-retryable"
                    ELSE "quarantined"]
             /\ UNCHANGED <<journal, evidence, ack>>
             /\ o \in Writes /\ Persist(o)
             /\ Escapes(s, g, o = "error")
  /\ UNCHANGED <<text, lost, acking, repair, server, calls, crashes>>

-----------------------------------------------------------------------------
(***************************************************************************)
(* The completion a receipt owes, called by the sender or by the repair    *)
(***************************************************************************)
Counted_Not(s) == journal
Counted(s) == [journal EXCEPT ![s].attempts = @ + 1]
Completed(s) == [journal EXCEPT ![s] = NoJournal]
Called(s) == [calls EXCEPT ![s] = @ + 1]

\* _record_lifecycle_pending: a debt that is still within its budget stays
\* pending, any other is blocked; both carry their diagnosis.
Debt(s, retry) ==
  [journal EXCEPT ![s].life = IF retry /\ journal[s].attempts < Budget
                              THEN "pending" ELSE "blocked",
                  ![s].diagnosed = TRUE]
\* ... which it refuses for a journal or an intent without a receipt.
DebtSound(s) == journal[s].life # "absent" /\ (Posted(s) \/ intent[s] = NoIntent)

\* The open Room owes nothing: the first path saves once more, a replay drops
\* the journal.  Otherwise the attempt is saved before the call is made.
BeginLifecycle(s, g, o) ==
  /\ run[s][g] \in {"received", "replayed"}
  /\ UNCHANGED <<intent, inbox, evidence, retries, ack>>
  /\ IF KindOf[s] = "open"
     THEN LET dropped == At(s, g, "replayed") /\ o = "ok"
              clean == o = "ok" \/ (o = "refused" /\ At(s, g, "received"))
          IN /\ journal' = IF dropped THEN Completed(s) ELSE journal
             /\ o \in Writes /\ Persist(o)
             /\ IF clean THEN Ends(s, g, "posted") ELSE Goto(s, g, "debt-retry") /\ UNCHANGED result
             /\ UNCHANGED calls
     ELSE IF journal[s].attempts >= Budget
     THEN o = "ok" /\ Goto(s, g, "debt-retry") /\ UNCHANGED <<journal, disk, result, calls>>
     ELSE /\ journal' = Counted(s)
          /\ o \in Writes /\ Persist(o)
          /\ Goto(s, g, CASE o = "refused" -> "debt-final" [] o = "error" -> "debt-retry"
                           [] o = "ok" -> IF At(s, g, "received")
                                          THEN "completing" ELSE "replaying")
          /\ calls' = IF o = "ok" THEN Called(s) ELSE calls
          /\ UNCHANGED result
  /\ UNCHANGED <<text, owner, lost, arrival, acking, repair, watch, server, crashes>>

Completing(s, g) == run[s][g] \in {"completing", "replaying"}

\* Room server: complete the attempt or the turn while a call is on its way.
ServerComplete(s) ==
  /\ ~ closed[s]
  /\ (\E g \in Runs : Completing(s, g)) \/ repair = [at |-> s, step |-> "calling"]
  /\ closed' = [closed EXCEPT ![s] = TRUE]
  /\ UNCHANGED <<binding, disk, tasks, log, sack, epoch, calls, crashes>>

\* Room server: a human ends the turn, or the cycle drops the attempt.
ServerSupersedes(s) ==
  /\ ~ closed[s] /\ log[s] # 0 /\ KindOf[s] # "open"
  /\ closed' = [closed EXCEPT ![s] = TRUE]
  /\ UNCHANGED <<binding, disk, tasks, log, sack, epoch, calls, crashes>>

\* _record_lifecycle_complete drops the journal, or keeps it when the save
\* fails.  A replay also takes "already over" for an answer.
LifecycleDone(s, g, o) ==
  /\ LoopFree /\ Completing(s, g) /\ closed[s]
  /\ UNCHANGED <<intent, inbox, evidence, retries, ack>>
  /\ journal' = IF o = "ok" THEN Completed(s) ELSE journal
  /\ o \in Writes /\ Persist(o)
  /\ IF o = "ok" THEN Ends(s, g, "posted") ELSE Goto(s, g, "debt-retry") /\ UNCHANGED result
  /\ UNCHANGED <<text, owner, lost, arrival, acking, repair, watch, server, calls, crashes>>

LifecycleFails(s, g, next) ==
  /\ LoopFree /\ Completing(s, g) /\ next \in {"debt-retry", "debt-final"}
  /\ Goto(s, g, next)
  /\ UNCHANGED <<binding, disk, text, result, owner, lost, arrival, acking, repair,
                 watch, server, calls, crashes>>

\* _record_lifecycle_failure_after_receipt: whatever goes wrong here, the
\* delivery stays posted; a debt that cannot be saved is blocked in memory.
RecordLifecycleFailure(s, g, o) ==
  /\ run[s][g] \in {"debt-retry", "debt-final"}
  /\ UNCHANGED <<inbox, evidence, retries, ack>>
  /\ IF DebtSound(s) THEN o \in Writes ELSE o = "error"
  /\ IF o = "ok"
     THEN journal' = Debt(s, At(s, g, "debt-retry")) /\ UNCHANGED intent
     ELSE /\ intent' = IF intent[s] = NoIntent THEN intent ELSE Receipted(s)
          /\ journal' = IF journal[s].life = "absent" THEN journal
                        ELSE [journal EXCEPT ![s].life = "blocked"]
  /\ Persist(o)
  /\ Ends(s, g, "posted")
  /\ UNCHANGED <<text, owner, lost, arrival, acking, repair, watch, server, calls, crashes>>

\* _repair_pending_lifecycles, at the top of the watch loop.
RepairExhausted(s, o) ==
  /\ LoopFree /\ WatchFree
  /\ journal[s].life = "pending" /\ journal[s].attempts >= Budget
  /\ journal' = [journal EXCEPT ![s].life = "blocked"]
  /\ UNCHANGED <<intent, inbox, evidence, retries, ack>>
  /\ o \in Writes /\ Persist(o)
  /\ watch' = IF o = "error" THEN "dead" ELSE watch
  /\ UNCHANGED <<run, text, result, owner, lost, arrival, acking, repair, server, calls, crashes>>

RepairCall(s, o) ==
  /\ LoopFree /\ WatchFree
  /\ journal[s].life = "pending" /\ journal[s].attempts < Budget
  /\ UNCHANGED <<intent, inbox, evidence, retries, ack>>
  /\ IF KindOf[s] = "open"
     THEN /\ repair' = [at |-> s, step |-> "debt-final"]
          /\ o = "ok" /\ UNCHANGED <<journal, disk, calls>>
     ELSE /\ journal' = Counted(s)
          /\ o \in Writes /\ Persist(o)
          /\ repair' = [at |-> s, step |-> IF o = "ok" THEN "calling" ELSE "debt-final"]
          /\ calls' = IF o = "ok" THEN Called(s) ELSE calls
  /\ UNCHANGED <<run, text, result, owner, lost, arrival, acking, watch, server, crashes>>

NoRepair == [at |-> 0, step |-> "idle"]

RepairDone(s, o) ==
  /\ LoopFree /\ repair = [at |-> s, step |-> "calling"] /\ closed[s]
  /\ UNCHANGED <<intent, inbox, evidence, retries, ack>>
  /\ journal' = IF o = "ok" THEN Completed(s) ELSE journal
  /\ o \in Writes /\ Persist(o)
  /\ repair' = NoRepair
  /\ watch' = IF o = "error" THEN "dead" ELSE watch
  /\ UNCHANGED <<run, text, result, owner, lost, arrival, acking, server, calls, crashes>>

RepairFails(s, next) ==
  /\ LoopFree /\ repair = [at |-> s, step |-> "calling"]
  /\ next \in {"debt-retry", "debt-final"} /\ repair' = [at |-> s, step |-> next]
  /\ UNCHANGED <<binding, disk, run, text, result, owner, lost, arrival, acking, watch,
                 server, calls, crashes>>

\* Unlike the sender, the repair lets what it cannot record escape.
RepairDebt(s, o) ==
  /\ repair.at = s /\ repair.step \in {"debt-retry", "debt-final"}
  /\ UNCHANGED <<intent, inbox, evidence, retries, ack>>
  /\ IF DebtSound(s)
     THEN /\ journal' = IF o = "ok" THEN Debt(s, repair.step = "debt-retry") ELSE journal
          /\ o \in Writes /\ Persist(o)
     ELSE o = "error" /\ UNCHANGED <<journal, disk>>
  /\ watch' = IF o = "error" THEN "dead" ELSE watch
  /\ repair' = NoRepair
  /\ UNCHANGED <<run, text, result, owner, lost, arrival, acking, server, calls, crashes>>

-----------------------------------------------------------------------------
(***************************************************************************)
(* Time, other members of the Room, crashes                                *)
(***************************************************************************)
\* _expire_stale_pending, on the way into the watch loop: pending for too long,
\* whether or not a run of the host still works on it.
Sweep(s, o) ==
  /\ LoopFree /\ WatchFree
  /\ inbox[s] = "pending" /\ (LongRuns \/ ~ LiveRun(s))
  /\ retries' = [retries EXCEPT ![s] = @ + 1]
  /\ inbox' = [inbox EXCEPT ![s] = IF retries[s] < MaxRetries
                                    THEN "failed-retryable" ELSE "quarantined"]
  /\ owner' = [owner EXCEPT ![s] = NoRun]
  /\ UNCHANGED <<intent, journal, evidence, ack>>
  /\ o \in Writes /\ Persist(o)
  /\ watch' = IF o = "error" THEN "dead" ELSE watch
  /\ UNCHANGED <<run, text, result, lost, arrival, acking, repair, server, calls, crashes>>

\* A selection older than the acknowledgement, and no receipt: the watch ends.
Overtaken(s) == intent[s].action # "none" /\ s <= ack /\ journal[s].life = "absent"
WatchStops ==
  /\ LoopFree /\ WatchFree
  /\ \E s \in Sources : Overtaken(s)
  /\ watch' = "stopped"
  /\ UNCHANGED <<binding, disk, run, text, result, owner, lost, arrival, acking, repair,
                 server, calls, crashes>>

\* _start_attempt_renewal finds the attempt's lease gone.
LoseLease(s) ==
  /\ LoopFree /\ KindOf[s] = "cycle" /\ LiveRun(s) /\ s \notin lost
  /\ lost' = lost \cup {s}
  /\ UNCHANGED <<binding, disk, run, text, result, owner, arrival, acking, repair, watch,
                 server, calls, crashes>>

\* An operator starts a new discussion: older sources are history.
NewEpoch ==
  /\ EpochMoves /\ epoch <= N
  /\ epoch' \in (epoch + 1) .. (N + 1)
  /\ UNCHANGED <<binding, disk, tasks, log, closed, sack, calls, crashes>>

\* The gateway dies between two effects and starts again from the file.
Crash ==
  /\ crashes < MaxCrashes /\ crashes' = crashes + 1
  /\ intent' = disk.intent /\ journal' = disk.journal /\ inbox' = disk.inbox
  /\ evidence' = disk.evidence /\ retries' = disk.retries /\ ack' = disk.ack
  /\ run' = [s \in Sources |-> [g \in Runs |-> IF run[s][g] \in Live THEN "done" ELSE run[s][g]]]
  /\ owner' = [s \in Sources |-> NoRun] /\ lost' = {}
  /\ arrival' = NoArrival /\ acking' = 0 /\ repair' = NoRepair
  /\ watch' = IF Loadable THEN "running" ELSE "dead"
  /\ UNCHANGED <<disk, text, result, server, calls>>

-----------------------------------------------------------------------------
Outcomes == {"ok", "refused", "error"}
Verdicts == {"unsent-retry", "unsent-final", "debt-retry", "debt-final"}

LedgerNext ==
  \/ ServerAcknowledge \/ AcknowledgeFails
  \/ \E o \in Outcomes : AcknowledgeReply(o)

WatchNext(s) ==
  \/ \E o \in Outcomes :
       \/ Deliver(s, o) \/ Reacknowledge(s, o) \/ Sweep(s, o)
       \/ \E status \in {"ignored", "superseded"} : Decline(s, status, o)
       \/ RepairExhausted(s, o) \/ RepairCall(s, o) \/ RepairDone(s, o) \/ RepairDebt(s, o)
  \/ \E next \in Verdicts : RepairFails(s, next)
  \/ ArrivalDropped(s)
  \/ \E g \in Runs : Dispatch(s, g)

SendNext(s, g) ==
  \/ SendFinal(s, g) \/ SendSuperseded(s, g) \/ SendRefused(s, g)
  \/ FinishSkip(s, g) \/ SkipRefused(s, g)
  \/ AuthorityGone(s, g) \/ Replay(s, g) \/ PolicyUnavailable(s, g)
  \/ PostTooLate(s, g) \/ ProcessingEnds(s, g) \/ ProcessingPasses(s, g)
  \/ \E next \in Verdicts :
       AcquireFails(s, g, next) \/ PostFails(s, g, next) \/ LifecycleFails(s, g, next)
  \/ \E o \in Outcomes :
       \/ Freeze(s, g, o) \/ RecordReceipt(s, g, o) \/ PostModeChanged(s, g, o)
       \/ RecordDeliveryFailure(s, g, o) \/ BeginLifecycle(s, g, o)
       \/ LifecycleDone(s, g, o) \/ RecordLifecycleFailure(s, g, o) \/ Settle(s, g, o)
       \/ \E action \in {"post", "skip", "fail"} : Select(s, g, action, o)

RoomNext(s) == ServerComplete(s) \/ ServerSupersedes(s) \/ LoseLease(s)
               \/ \E g \in Runs : ServerPost(s, g)

Next ==
  \/ LedgerNext \/ WatchStops \/ NewEpoch \/ Crash
  \/ \E s \in Sources : WatchNext(s) \/ RoomNext(s) \/ \E g \in Runs : SendNext(s, g)

Spec == Init /\ [][Next]_vars

\* The loop runs every task it can run; the Room answers what it is asked or
\* the request fails; and the network, however often it fails, lets an event
\* be delivered again and an acknowledgement be made and answered.
Fairness ==
  /\ SF_vars(ServerAcknowledge) /\ SF_vars(\E o \in Outcomes : AcknowledgeReply(o))
  /\ WF_vars(LedgerNext)
  /\ \A s \in Sources :
       /\ SF_vars(\E o \in Outcomes : Deliver(s, o))
       /\ SF_vars(\E o \in Outcomes : Reacknowledge(s, o))
       /\ WF_vars(WatchNext(s))
       /\ \A g \in Runs : SF_vars(SendNext(s, g))

LiveSpec == Spec /\ Fairness
-----------------------------------------------------------------------------
(***************************************************************************)
(* Properties                                                              *)
(***************************************************************************)
Images == [intent : [Sources -> Intent], journal : [Sources -> Journal],
           inbox : [Sources -> Waiting \cup Terminal],
           evidence : [Sources -> Terminal \cup {"none"}],
           retries : [Sources -> Nat], ack : 0 .. N]

BindingTypes ==
  /\ intent \in [Sources -> Intent] /\ journal \in [Sources -> Journal]
  /\ inbox \in [Sources -> Waiting \cup Terminal]
  /\ evidence \in [Sources -> Terminal \cup {"none"}]
  /\ retries \in [Sources -> Nat] /\ ack \in 0 .. N
RunTypes ==
  /\ run \in [Sources -> [Runs -> Labels]]
  /\ text \in [Sources -> [Runs -> 0 .. MaxDispatch]]
  /\ result \in [Sources -> [Runs -> Terminal \cup {"none"}]]
  /\ owner \in [Sources -> 0 .. MaxDispatch] /\ lost \subseteq Sources
WatchTypes ==
  /\ arrival \in [at : 0 .. N, by : 0 .. MaxDispatch]
  /\ acking \in 0 .. N
  /\ repair \in [at : 0 .. N, step : RepairSteps]
  /\ watch \in {"running", "dead", "stopped"}
RoomTypes ==
  /\ log \in [Sources -> 0 .. MaxDispatch] /\ closed \in [Sources -> BOOLEAN]
  /\ sack \in 0 .. N /\ epoch \in 1 .. (N + 1)
  /\ calls \in [Sources -> Nat] /\ crashes \in 0 .. MaxCrashes

\* Every variable keeps its shape; what the binding holds, the file can hold.
TypeOK == BindingTypes /\ disk \in Images /\ RunTypes /\ WatchTypes /\ RoomTypes

\* What an image of the binding (memory or file) says was posted.
SaysPosted(image, s) ==
  \/ image.intent[s].state = "posted" \/ image.journal[s].life # "absent"
  \/ image.inbox[s] = "posted" \/ image.evidence[s] = "posted"

\* Neither the memory, nor the file, nor an outcome reported to the host calls
\* a source posted unless the Room holds its canonical message, whatever
\* crashes, failed saves, overtaken runs and lost answers lie in between.
ReceiptTruth ==
  \A s \in Sources :
    (\/ SaysPosted(Image, s) \/ SaysPosted(disk, s)
     \/ \E g \in Runs : result[s][g] = "posted") => log[s] # 0

\* What the Room was told, or is being told, is still in evidence on both
\* sides of a crash: the acknowledged frontier and the one in flight lie within
\* the evidence that memory and file hold beyond their own cursors.
EvidenceReach ==
  \A s \in Sources :
    (s <= sack \/ s <= acking) => /\ (s <= ack \/ evidence[s] \in Terminal)
                                 /\ (s <= disk.ack \/ disk.evidence[s] \in Terminal)

\* The Room's cursor for this participant never goes back, and it passes only
\* sources whose terminal evidence the state file already holds.
AckNeedsEvidence ==
  [][sack' # sack => /\ sack' > sack
                     /\ \A s \in (sack + 1) .. sack' : disk.evidence[s] \in Terminal]_vars

Owes(image, s) == image.journal[s].life \in {"pending", "blocked"}

\* A completion the file says is owed stays in the file until the Room has
\* seen it: neither the cleanup of the source, nor its acknowledgement, nor a
\* crash, nor a save that failed half way through may drop it.
NoDebtLost ==
  [][\A s \in Sources :
       KindOf[s] # "open" /\ Owes(disk, s) /\ ~ Owes(disk, s)' => closed[s]]_vars

\* A receipt never reaches the file without the completion it owes.
ReceiptCarriesDebt ==
  \A s \in Sources :
    KindOf[s] # "open" /\ (disk.intent[s].state = "posted" \/ disk.evidence[s] = "posted")
      => Owes(disk, s) \/ closed[s]

\* While no run outlives the sweep: a request on its way to the Room is the one
\* frozen in the file, and it repeats the message the Room may already hold.
PostIsFrozen ==
  \A s \in Sources, g \in Runs :
    Sending(s, g) => /\ disk.intent[s].frozen /\ disk.intent[s].body = text[s][g]
                     /\ log[s] \in {0, text[s][g]}

\* While no run outlives the sweep: sender and repair together never ask the
\* Room more often than the budget to complete one source, crashes included.
LifecycleBudget == \A s \in Sources : calls[s] <= Budget

\* Evidence without a gap behind it is acknowledged in the end, on both sides,
\* as long as the watch task lives: no lost answer, no crash between the two
\* cursors and no waiting for the ledger lock leaves it behind for good.
ProvenIsAcknowledged ==
  \A s \in Sources :
    (\A t \in (ack + 1) .. s : Proven(t)) ~> (s <= ack \/ watch # "running")
=============================================================================
