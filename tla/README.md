# A verification project for the Hermes Room adapter

The adapter connects a Hermes host to Synthetic Sociality Rooms: it receives the
events addressed to one Room membership, lets the model answer, and publishes the
answer as a canonical Room message. The hard part is to do this exactly once
while the gateway crashes, saves fail, answers are lost, runs outlive their
deadlines and callbacks of the host come in any order. These modules state what
the adapter promises about that, check it with TLC on small instances and prove
the most important parts with TLAPS for all instances.

Line numbers refer to `adapter.py` unless another file is named. "The contract"
is `docs/delivery-lifecycle-contract-v1.md`.

## Inventory

| part | state | operations | interacts with |
|---|---|---|---|
| Watch task (`_watch`, 2422) | is alive, back-off | sweep, overtaken check, connector, epoch routing, repair, transport, in this order | calls the ledger and the repair; every exception but `ProtocolError` ends it |
| Receive ledger (`_consume_locked`, `_complete_event_locked`, `_expire_stale_pending`) | `inbox`, `pending_since`, `pending_retries`, `terminal_evidence`, `acknowledged_cursor` | note an event, classify it, dispatch it; record evidence, walk the contiguous frontier, acknowledge, prune; sweep | Room server (acknowledge), dispatch |
| Dispatch (`_dispatch_next_queued`, `_dispatch_room_event`) | `_queued_events`, `_active_dispatch_rooms`, `_event_dispatch_generation` | start a generation, or send recovered output | host, final send |
| Delivery lifecycle (`_send_final` to 1992, 2070-2414) | `delivery_intents`, `delivery_lifecycle`, `_terminal_results` | select, freeze, post, record receipt, complete attempt or turn, repair, record failure | Room server, durable binding, ledger |
| Attempt authority (1994-2068, 3101-3361) | `_cycle_attempts`, `delivery_authority`, renewal tasks, `_superseded_sources` | start cycle, claim, renew, refresh before a post | Room server |
| Turn protocol (2242-2345, 4122) | `turn_observed`, `turn_sequences` | request, poll, finish, refresh stale context | Room server |
| Durable binding (`state.py`, `_persist_binding` 4068) | the state file | load with validation, locked merge and replace | gateway and command line write it |
| Epoch routing (2560), origin fence (`origin_context.py`) | epoch marker, context marker | rotate the session; refuse external actions from inside a Room run | host, `room_tools.py` |
| External actions (`room_tools.py`) | one action file per source | `room_post` and its resumption | Room server |
| Command line (`cli.py`) | renewal journal in the state file | join, leave, toggle, fence, audited recoveries, credential renewal | state file, Room server |
| Transport (2503-2716, `protocol.py`) | transport in effect, stream generation, heartbeat | SSE, long poll, heartbeat, error classes | Room server |
| Room server (external) | messages per idempotency key, cursor, attempts and turns, epoch | post, acknowledge, complete, supersede | everybody |
| Pure parts | none | body extraction, model context, packaging | |

What is hard, and what makes each part correct:

* **Concurrency.** One asyncio loop: the code between two `await`s is atomic and
  every `await` is a place where the watch task, final sends, callbacks and
  repair interleave. The ledger must come out right for every order of the two
  callbacks that complete a source; sender and repair must not lose or repeat a
  completion; a run freed by the sweep may still be at work beside its successor.
* **Failure of a save.** `_persist_binding` returns `False` (binding removed,
  replaced or disabled), or raises. Nothing that a crash would forget may have
  been told to the Room.
* **Crashes.** Memory is lost between any two effects. What the file says must be
  enough to resume without a second model run or a different message.
* **The network.** Every request may be lost before or after it took effect.
* **Ordering.** Sources finish out of order; the cursor follows the contiguous
  run of evidence only.
* **Limits.** Retries of a source, automatic attempts of a lifecycle; the loader
  rejects a file whose journal is out of form, so a bad write is fatal later.
* **Two writers.** The gateway saves from a copy it loaded at its start, the
  command line changes the file under it; a renewal of the credential crosses
  several such saves and two endpoints.

The file `PROJECT.json` lists each of these hazards at its line, with the
properties that cover it or the reason none does yet.

## Modules

| module | contents |
|---|---|
| `DeliveryLifecycle` | one Room binding from the receive boundary to the acknowledgement, with crashes, save failures and the Room |
| `CanonicalReceipts` | the abstract promise: messages, recorded outcomes, frontier |
| `MCDeliveryLifecycle` | instances for TLC and the refinement of the promise |
| `MCDocumentedClaims` | claims of documents and comments that the code does not keep |
| `AttemptAuthority` | leases: receive boundary, renewal task and sender claim an attempt; owners, denials, the queue and the gate of a Room |
| `StateFile` | gateway and command line as two writers of one binding in the state file |
| `CredentialRenewal` | `room renew`: its journal, the owner, the Room's keys, a gateway with the old key |
| `ExternalAction` | `room_post`: its journal, the speaking turn, overlapping and repeated calls |
| `DeliveryLifecycleTypes`, `DeliveryLifecycleProofs`, `DeliveryPromiseProofs` | proofs about `DeliveryLifecycle`: types; frontier, receipts and debts; the refinement, the frozen post and the budget |
| `AttemptAuthorityProofs`, `AttemptLeaseProofs` | proofs about `AttemptAuthority`: types, the gate, denials; owners, escape, leases |
| `StateFileProofs`, `CredentialRenewalProofs`, `ExternalActionProofs` | the proofs about these modules |

The modules share no variables. They meet in what one takes for granted of
another: `DeliveryLifecycle` loses a lease at any time (`LoseLease`), which
`AttemptAuthority` explains; it treats a save as atomic and its binding as its own,
which `StateFile` justifies as long as the gateway holds one object
(`OneCopyLosesNothing`); `StateFile` takes the swap of a credential as one step,
which is a phase of `CredentialRenewal`.

### `DeliveryLifecycle`

A source event is its sequence number `1..N`; a dispatch generation is a number;
a body is the number of the generation whose model run produced it, so two
different texts are two different numbers. `KindOf[s]` says which completion a
post for `s` owes: none (open room), a cycle attempt, or a turn.

| variable | code |
|---|---|
| `intent` | `delivery_intents`: `selected` is `action`, `post` is `frozen` and `body`, `delivery_state` is `state` |
| `journal` | `delivery_lifecycle`: `lifecycle_state`, `attempts`, presence of `last_error*`, positive `source_seq` |
| `inbox`, `evidence`, `retries`, `ack` | `inbox`, `terminal_evidence`, `pending_retries`, `acknowledged_cursor` |
| `disk` | the same binding as the state file holds it |
| `run`, `text` | where each generation's send stands: the program counter between two awaits, and its body |
| `result`, `owner`, `lost` | `_terminal_results`, `_inflight_events` with `_event_dispatch_generation`, `_superseded_sources` |
| `arrival` | the event that holds the receive lock, and the generation it recovers inside the watch task |
| `acking` | frontier of the acknowledgement in flight: the ledger lock is held |
| `repair`, `watch` | repair call in flight, and whether the watch task runs, died on an exception or stopped itself |
| `log`, `closed`, `sack`, `epoch` | Room server |
| `calls`, `crashes` | history |

The actions follow the code: `Deliver`, `Reacknowledge`, `Decline`, `Dispatch`
(receive boundary); `SendFinal`, `Select`, `Freeze`, `Replay`, `RecordReceipt`,
`RecordDeliveryFailure`, ... (`_send_final_owned`, in the order of its code);
`BeginLifecycle`, `LifecycleDone`, `RecordLifecycleFailure` (completion);
`RepairCall`, `RepairDone`, `RepairDebt`, `RepairExhausted` (repair);
`Settle`, `ProcessingEnds`, `ProcessingPasses` (callbacks); `Sweep`,
`WatchStops`; `Crash`; and the `Server*` actions. An action
is the code between two awaits, with every save it makes: an action that saves
takes the save's outcome `o` (`"ok"`, `"refused"`, `"error"`) and continues as
the code does for each. `Midway` labels are the points where a send goes on
without an await; `LoopFree` keeps every other task of the loop out of them.
Only `Crash`, the Room and a new epoch may step in there.

Abstractions, each named so that it can be argued about:

* The three tries of one request are one step that succeeds or fails with or
  without effect; the save of the finish request is merged with the save of the
  attempt, and the second save after a completion (1761, 1884) with the first.
* Classification in `_consume_locked` (2855-3064) is one nondeterministic choice
  between a dispatch and a decline; only what it records matters here.
* The gate that lets one source run per Room is left out: sources are dispatched
  in any order. One case of the code is not shown for it: a queued source that is
  delivered again and dispatched while its claim is in flight. It is the subject
  of `AttemptAuthority`. A refused save of the watch loop does not stop it.
* The repair reads the current journal where the code holds a snapshot of the
  dictionary (2349); a late repair of a journal recreated meanwhile is not shown.
* A request whose client has given up does not commit later.
* `connect` and `disconnect` of the host are not modelled: a watch task that
  ended stays ended until a crash restarts the gateway.
* `intent.lifecycle_state`, a copy of the journal's state, is left out, and so
  are observed sequences, recipients, reasons and timestamps.

### `AttemptAuthority`

An attempt of the cycle is its number, and the event `s` announces attempt `s`;
when the answer to a claim comes, the Room may have gone on to a later one.

| variable | code |
|---|---|
| `mem`, `file` | `delivery_authority` per source and attempt, `cycle_attempt_owners`, the state and the attempt of each intent, sources with an outcome; in memory and in the state file |
| `held`, `marked` | `_cycle_attempts`, `_superseded_sources` |
| `renewal` | `_attempt_renewal_tasks`: asleep or claiming, and for which attempt |
| `receive` | the event in `_consume_locked`: awaiting its claim, or the recovery it dispatched |
| `send` | each generation: where its run or send stands, the attempt it read, whether it is a model run or a recovery, whether it replays a frozen post |
| `dispatch` | `_queued_events`, `_active_dispatch_rooms`, `_inflight_events` with `_event_dispatch_generation` |
| `room`, `watch` | the Room's latest attempt and whether it is open; whether the watch task lives |
| `freed`, `late`, `left`, `torn`, `upsets` | history: runs freed by the sweep, sources claimed too late, sources whose outcome left their renewal running, a save of a renewal that raised, the bound |

A claim is asked for in one step, answered in another (`ClaimAnswered`) and used in
a third; in between the attempt may end and the other tasks run. `Receive...` is
3050-3099, `Renewal...` the task of 3236-3361, `Send...`, `Selects...` and
`Freezes` follow `_send_final_owned`, `Checks` and `Refresh...` are the two calls of
`_refresh_attempt_authority` before each submission, `Processing...` is
`on_processing_complete`, `DispatchNext` and `StartsNext` are
`_dispatch_next_queued`. `ReceiveIgnores`, `DispatchIgnored`, `SendStale` and
`PostRefused` are the outcomes of an epoch or a turn that is over, and `ReplayStops`
that of a frozen post whose policy changed (1672-1697). Abstractions: the fields that a
record, a claim and an intent are compared in are one attempt number; epoch, turn and
policy have no state of their own, so that the Room may answer at every read or call
that they are over; no sweep falls into the dispatch of a run.

### `StateFile`

`file` is the binding in `state.json`; `held` the binding as the watch task holds it
and as `self._state` holds it. They are one object until `_revoke` or `_expire`, of
any room of the profile, replace `self._state` by what they read from the file
(`split`). Every transaction under the file lock is one step: `Persist` is the merge
of 4068-4120 with its test of the generation, the commands are actions of
`OperatorNext`. An audited recovery reads the file and the Room first and commits in
a second step (`ReconcileReads`, `OrphanReads`, `RecoveryCommits`); `hot` remembers
that one was committed while a gateway was up. `lineage` names the membership
whose run produced the runtime fields. The loader's rule about archived lifecycles
is `Loadable`; a transaction on a file that fails it does nothing, as the code
raises. Fields that no property tells apart (transport, dialect, session ids) are
left out. A copy that has been overtaken ends the watch task (`WatchStops`).

### `CredentialRenewal`

`file.rot` is the journal with its phase; `run[r]` a run of the command between two
of its steps, with the copy of the journal it has read. A call to the Room and the
transaction that records its answer are two steps, and `Dies` may kill a run, or lose
an answer, between them. `room` holds the active and the pending key, the two cursors
and the identity (name and version as one number); `request` the request and grant made
for each key. A gateway with the old key polls, acknowledges, saves and is rejected
meanwhile. The ways in which a renewal gets stuck for good are in the model: the owner's
answer is `closed` (rejected, expired for good, unknown, or showing another grant than
the journal has recorded: `cli.py` 815-818, 829-830, 864-867, 1045-1046), a pending key
expires before it is confirmed (`Voids`; the command stores `confirm_by` and never looks
at it), a grant entered by hand expires (868), cursors move (1114, 1143), the identity
changes (1045, 1073-1079, 1114, 1130). A request whose approval has merely expired is
put to the owner again (850-858), and that is not one of them.

Assumed of the Room: `/state` answers the holder of an expired active key, as
README.md:53 promises the renewal of one; a pending key that has run out is expired,
not revoked. Not modelled: a binding without a cached identity (the checks are skipped
for it), answers out of form, and the two looks at a request after it was presented
(820) are one.

### `ExternalAction`

`action` is the journal of one origin, `call[c]` a call with its copy of it, `wire`
the posts handed to the network, which the Room may take late. Recipients are named
by the head at which the names of the body were resolved. The model has every
write of the journal (`_write_action`, created under a lock, then replaced as a
whole), the speaking turn, the freeze, stale answers, receipt and release.

## The runs

| run | instance | shows |
|---|---|---|
| `exchange` | 1 cycle source, 2 generations, 2 crashes, budget 2, all save failures, epoch moves | `TypeOK`, `PostIsFrozen`, `LifecycleBudget`, `ReceiptCarriesDebt`, `NoDebtLost` |
| `frontier` | 2 open sources, 1 generation each, 1 crash, all save failures | `EvidenceReach`, `AckNeedsEvidence`, and `KeepsPromise`: the adapter implements `CanonicalReceipts` |
| `overlap` | 1 turn source, 2 generations that may overlap (`LongRuns`), 1 crash, no save failures, budget 1 | `ReceiptTruth`, `ReceiptCarriesDebt`, `NoDebtLost` |
| `liveness` | 2 open sources, 1 crash, no save failures, fairness | `ProvenIsAcknowledged` |
| `authority` | 2 sources, 2 attempts, 2 generations, and one of: a crash, a sweep, a failed save | `TypeOK`, `DenialStands`, `OwnerSubmits`, `NoEscape`, `LeaseIsReturned`, `OneRunPerRoom`, `CompletedFirst` |
| `statefile` | 1 source, 2 memberships, 2 starts, 2 commands, a neighbour that expires, recoveries under a running gateway | `TypeOK`, `LoadableUnlessHot`, `RuntimeOfThisMember`, `OperatorsDecide`, `RotationHonoured`, `OneCopyLosesNothing` |
| `renewal` | runs one after another, 3 keys (two renewals), 1 event, 1 grant or pending key that expires, 1 change of identity, 2 killed runs, fairness | `TypeOK`, `KeysKept`, `NeverFalselyRevoked`, `MarkerKept`, `RenewalCompletes` |
| `external` | 2 overlapping calls, 2 epochs, 1 message of another, 1 policy change, 1 failed call, fairness | `TypeOK`, `SameContent`, `AnswersTrue`, `FinishedIsReleased`, `TurnReleased` |
| `claim_*` | the least instance that shows it | one documented claim each, violated; see below |

Bounds. In `DeliveryLifecycle`, `MaxDispatch` bounds generations of a source and so
sweeps and redispatches; two are enough for a first run and a recovery of it, or for
two runs side by side. Two crashes allow one between save and effect and one during
the recovery from it. Budget 2 (the code has 3) lets the budget be spent by one
sender and one repair, and `MaxRetries` 1 (the code has 2) reaches the quarantine
in two failures; both are constants of the module and the proofs hold for every
value. Two sources are the least for which the frontier can have a gap. The
instances use one kind of source each, because sources of different kinds meet
only in the frontier, which does not look at kinds.

In `AttemptAuthority` two attempts are the least for which a claim can be answered
with another attempt than the one announced, and two generations let a source be run
again, or a second one follow it. Crashes, sweeps and failed saves share
one bound of 1: every single one is met at every point. `SweepBound`, a constraint of the
run, does not follow a sweep any further once an outcome also left a renewal running
(`left`); it halves the states, and the proofs, which cover both together, do not use it.
In `StateFile` two memberships and
two starts let a late copy meet a replaced binding, and two commands let a recovery
follow a fence, a toggle or a swap. In `CredentialRenewal` three keys let a second
renewal begin on top of the first, and two killed runs interrupt a run and the one
that resumes it. Two overlapping runs over three keys without events, one of them
killed and one grant or key expired, were
searched under `OrderlySpec` to the end (2 791 860 states) without a violation of
`KeysKept`, `NeverFalselyRevoked` or `MarkerKept`; that is no part of the runs, and
the proofs cover it. In `ExternalAction` two calls are the least that overlap.

All models stop when their bounds are used up, so deadlock is not checked.

`PostIsFrozen` and `LifecycleBudget` are checked with `LongRuns = FALSE`: they
are promises about a source that is worked on by one generation at a time. When a
run outlives the pending sweep two generations share one intent, the second
receipt resets `attempts` (1339), and the budget holds per receipt only. For the same
reason most properties of `AttemptAuthority` hold while `freed` is empty.

Fairness. In `DeliveryLifecycle` the loop runs each task that can run: weak fairness
of the watch task and of the ledger, strong fairness of each send, which other
tasks of the loop can keep out for a moment again and again. The network may fail
any number of times but not for ever: strong fairness of an acknowledgement that
is made and answered and of the delivery of an event after the cursor, which the
transports repeat from the cursor as long as the watch task lives. Nothing is
assumed of crashes, failures, the sweep, the model, or the operator. The property
is conditional on a live watch task, because the findings below show how it ends.
In `CredentialRenewal` somebody runs the command again until it is done, as its
documentation tells him to, and the owner answers what he is asked; nobody is assumed
to bring the gateway up, so `RenewalCompletes` exempts a state in which the file lags
behind the Room's acknowledgement (the preflight refuses it) as well as the exits listed
under `CredentialRenewal`. An exemption counts only as long as it lasts: a renewal
whose exempt state passes must still complete. In
`ExternalAction` a failed call is made again and the Room answers what it is asked.
`AttemptAuthority` and `StateFile` state safety only and assume nothing.

### Disagreements between documents and code

| run | the text | the code |
|---|---|---|
| `claim_network` | README.md:117, "Network loss is transient" | a policy read that fails while a posted source is recovered raises `ValueError` (3973) through the watch task |
| `claim_loads` | contract:36, a persisted "`blocked` diagnosis" | 2358-2363 writes no diagnosis, and `state.py` 248-252 rejects the file |
| `claim_merge` | 4069, "without a cross-process lost-update window" | a lifecycle archived under a running gateway is written back by its next save (4095), and `state.py` 342 rejects the file |
| `claim_resumes` | README.md:57-59, a re-run "resumes the recorded phase" | an event received after the preflight moves the cursors that `cli.py` 1107-1143 demands; every later run raises |

Each run is a short counterexample; `claim_network`, `claim_loads` and `claim_merge`
are safety properties and need no save failure, `claim_resumes` is a liveness
property under the fairness stated above.

Also observed while modelling, and not standing runs:

* The replay after a crash calls the completion of a `blocked` lifecycle (1699-1759);
  contract:18 leaves that to the operator.
* A failed repair whose journal the sender dropped meanwhile raises (1420) through
  the watch task; the comment at 2408 says it does not crash it.
* A generation that outlives the acknowledgement selects anew (1212) for a source the
  cursor has passed; compare 930-932.
* A post with lost answers, then a failed run, is recorded as `skipped` (3606), by
  contract:11 an outcome without a post.
* `room_tools.py` 381-383 says "policy changed before delivery; retry with a new
  requestId" of a post that was committed without an answer; the retry publishes the
  body a second time, against README.md:217.
* After `_revoke` or `_expire` of any room (4251, 4270) the gateway holds a binding
  twice, and a frozen post can be lost from the file by the save of the other copy;
  `state.py` 112-115 names the file the only authority.
* A fence set under a running gateway (`cli.py` 311-335) takes effect after a restart.
* An expired binding is not enabled again by `renew`.
* A renewal whose pending key or hand-entered grant expires, or whose agent is renamed
  after the owner's status was recorded (or, without `--request-owner`, at any time)
  raises in every later run, and no command drops the journal. An agent renamed before
  the preflight cannot begin one (1073-1079 compare with the local name), except to
  recover from a false revocation.
* A refreshed call of `room_post` adopts the new epoch (`room_tools.py` 461, 529).
* A finished renewal may raise `identity_version` (`cli.py` 952-956), with which
  frozen intents no longer match their binding.
* An acknowledgement the gateway could not save before its key expired makes every
  preflight of a renewal refuse.
* Two overlapping runs of `renew` over three keys can lose a pending key
  (`KeysKept`), and with a grant that expires they can get stuck
  (`RenewalCompletes`). Two steps do it, and `Orderly` excludes just these: a run
  redeems the grant of a journal that another has finished and replaced, and a run
  that is to prove its key reads the journal again without a look at its phase
  (`cli.py` 936-937) and finishes the unconfirmed journal of another.
* `_consume_locked` tests whether a source is at work (2803) before its awaits. A
  source that waits in the queue is delivered again by the next poll; while its claim
  is in flight a callback dispatches it. The answer then records `superseded` for a
  source whose run is at work (against README.md:134-135), or starts a renewal for a
  source that has finished, which keeps the lease for nobody. The history `late`
  keeps such sources out of three properties.
* Output whose lease was lost can be posted without an attempt (README.md:213-217) if
  its run outlives the sweep, or if both saves of the renewal's loss raise (`torn`).
  The latter also keeps a lease for nobody: the source is run without an attempt,
  its replay after the next delivery leaves the new renewal alone, and the source has
  its outcome while the renewal claims an open attempt. The attempt to prove
  `LeaseIsReturned` without `~ torn` led to it; a directed TLC search (two sources,
  three attempts, one save that raises), not one of the runs, finds it after 27 steps.
* The outcomes of an epoch or a turn that is over are recorded without a stop of the
  renewal and without the completion of the attempt (1547-1560, 1926-1962, 2892-2911,
  3383-3394; compare 1568-1580). The renewal looks at nothing but its claim
  (3236-3361), so it keeps the lease for a source that has finished until the Room ends
  the attempt or the gateway restarts. The history `left` names these sources, and
  `LeaseIsReturned` exempts them: nothing in this repository says that the Room ends
  its attempts with an epoch.
* A marker of an earlier attempt may supersede a later generation that holds a lease
  (1568), and the renewal task of an earlier attempt is not replaced when the source
  is delivered again (3228-3230).
* If the completion of an attempt fails after the receipt, a second source can post
  under the same attempt one after the other; `OwnerSubmits` is about ownership at
  the time of a submission.
* The recovery loop of `_dispatch_next_queued` takes the Room without a look at who has
  it by then (3647), and gives up the source whoever owns it (3430); it needs a
  recovery that the sweep has freed.

## The proofs

All theorems hold for every value of the constants that satisfies the named
assumptions: any number of sources, generations, crashes, retries, memberships,
starts, commands, keys, attempts and calls, every budget and every set of save
failures. `tlapm` proves each leaf; induction over data, recursive operators and
liveness are not used. Besides the assumptions of the modules on the sizes of their
constants, three hypotheses occur: `~ LongRuns` (no run outlives the pending sweep, as in
the runs that check those two invariants), `OrderlySpec` (the steps of overlapping renewals
that "Also observed" describes are not taken) and `Serial` (one run of `renew` after
another).

| module | theorem | states |
|---|---|---|
| `DeliveryLifecycleTypes` | `TypeCorrect` | `Spec => []TypeOK` |
| `DeliveryLifecycleProofs` | `FrontierInEvidence` | `Spec => []EvidenceReach` |
| | `AcknowledgesEvidence` | `Spec => AckNeedsEvidence` |
| | `PostedIsTrue` | `Spec => []ReceiptTruth` |
| | `PostedCarriesDebt` | `Spec => []ReceiptCarriesDebt` |
| | `DebtsAreKept` | `Spec => NoDebtLost` |
| `DeliveryPromiseProofs` | `PromiseIsKept` | `Spec => KeepsPromise` |
| | `FrozenPost` | `ASSUME ~ LongRuns PROVE Spec => []PostIsFrozen` |
| | `CallsWithinBudget` | `ASSUME ~ LongRuns PROVE Spec => []LifecycleBudget` |
| `AttemptAuthorityProofs` | `AuthorityTypes` | `Spec => []TypeOK` |
| | `OneRun` | `Spec => []OneRunPerRoom` |
| | `LossesStand` | `Spec => DenialStands` |
| | `CompletesFirst` | `Spec => []CompletedFirst` |
| `AttemptLeaseProofs` | `SubmitsOwn` | `Spec => OwnerSubmits` |
| | `NothingEscapes` | `Spec => NoEscape` |
| | `LeasesReturn` | `Spec => []LeaseIsReturned` |
| `StateFileProofs` | `TypeCorrect` | `Spec => []TypeOK` |
| | `ColdRecoveriesLoad` | `Spec => []LoadableUnlessHot` |
| | `RuntimeIsOwn` | `Spec => []RuntimeOfThisMember` |
| | `OperatorWins` | `Spec => OperatorsDecide` |
| | `RotationIsHonoured` | `Spec => RotationHonoured` |
| | `OneCopyKeepsAll` | `Spec => OneCopyLosesNothing` |
| `CredentialRenewalProofs` | `RenewalTypes` | `Spec => []TypeOK` |
| | `OrderlyRunsKeepKeys` | `OrderlySpec => []KeysKept` |
| | `OrderlyNeverFalselyRevoked` | `OrderlySpec => NeverFalselyRevoked` |
| | `OrderlyMarkerKept` | `OrderlySpec => MarkerKept` |
| | `SerialRunsAreOrderly` | `ASSUME Serial PROVE Spec => OrderlySpec` |
| | `SerialRunsKeepKeys` | `ASSUME Serial PROVE Spec => []KeysKept /\ NeverFalselyRevoked /\ MarkerKept` |
| `ExternalActionProofs` | `TypeCorrect` | `Spec => []TypeOK` |
| | `ContentIsOne` | `Spec => []SameContent` |
| | `AnswersStayTrue` | `Spec => []AnswersTrue` |
| | `NoTurnLeftBehind` | `Spec => []FinishedIsReleased` |

*Delivery, types.* `TypeOK` is not inductive: `Settle` puts `result[s][g]` in the
evidence, which is a terminal outcome only because a generation that settles has one.
`TypeInv` adds that (`EndedHasResult`). One lemma per action, or per group of
actions that changes the same variables.

*Delivery, frontier.* `ReachInv` adds `CursorsBehind` to `EvidenceReach`: the cursor
of the file is behind that of the memory, which is behind the Room's and the frontier
in flight. The argument needs the file beside the memory: evidence is pruned from the
file only by a save that also holds the new cursor, so a crash may move both
back together and never one without the other. The facts used by all later
proofs are lemmas: a save changes the file to the image of the memory or not at
all (`DiskStep`), the Room only grows (`RoomGrows`), only the ledger moves
cursors and evidence (`LedgerStep`).

*Delivery, receipts and debts.* `TruthInv` strengthens `ReceiptTruth` with the program
points that stand behind a receipt: a generation that is `received`, `replayed` or
working on its lifecycle has a message in the Room. `DebtInv` relates journal and
completion on both sides: whatever counts as posted, in memory or in the file, owes
its completion there or the Room has seen it. Without the memory side it is not
inductive, since every save copies the memory over the file. `NoDebtLost` then follows
step by step.

*Delivery, promise.* Every step maps to one step of `CanonicalReceipts` or to none. The
outcome the promise speaks of is the one in the file, so what has to be known is that
none is taken back. `RememberedInv` says that what the file has recorded ahead of the
Room's cursor the memory has too; with it a save never removes an outcome, however many
generations work on a source. That an outcome does not change needs more, and is
promised only without `LongRuns`: `GenerationInv` says that a source then has one
generation at work, which owns it, and none once an outcome is recorded.

*Delivery, post and budget.* Without `LongRuns` the one generation of a source can be
followed step by step. `ExchangeInv` says of memory and file alike (`Kept`) that only a
post is frozen and only what was frozen is posted, that what the Room holds is what was
frozen, that a debt or a call for one follows a receipt, and that a journal has counted
every call; and of the generation (`Step`) what it relies on where it stands, above all that a request on
its way is frozen in the file. The memory alone would not do: a crash goes back
to the file after the call has gone out.

*State file.* `Inv` is `TypeOK`, `Placed` (a gateway that is down holds nothing, and
nobody holds a membership that was not accepted yet), `OwnRuntime` (the file and both
copies carry runtime fields of the membership they name: the merge compares the
generations of a copy and the file, so the copies must be right for the file to be),
`ArchiveRests` (a source archived while the gateway was down has no work left in any
copy and none in flight, which is why the merge cannot bring it back) and `CopyAhead`
(the one object a gateway holds is never behind the file, which is why a merge loses
nothing). The two action properties follow from the merge and `Inv`.

*Attempt authority, gate.* `GateInv` adds `PlacesInv` to `OneRunPerRoom`: the places of
the gate name runs at work that have not been freed, and a freed run has none.
Without it a late callback of a freed run could clear the place of its successor;
that `Released` looks at who has it is what the mutant drops. With `GateInv`,
`CompletedFirst` is inductive as it stands: without a sweep there is one run at work,
only its own end settles its source, and the next is not started for a settled one.
`DenialStands` rests on the merge: whatever is saved keeps each superseded record of
the file (`MergedKeeps`), and a submission is confirmed by the merged record.

*Attempt authority, leases.* The steps of a generation are first reduced to what they do
to its source (begin, resume, claim, freeze, close, ...; any other source is left alone).
`OwnerInv` says that every attempt a source works under, in its
selection, in its renewal and in its run, is its own, in memory and in the file; of a
run only until the receipt, since a failed completion gives the attempt up (1442).
`EscapeInv` says that a source without a selection that is queued or at work holds an
attempt or has a marker, or its run is about to record an outcome; a selection always
names its attempt.
`LeaseInv` uses that attempts are numbered in the order in which the Room opens them:
a renewal never works on a later attempt than those its source is under, so whatever
ends or passes these finds the renewal's attempt ended too, unless the renewal itself is
stopped. That a selection names an attempt the Room has opened (`ReachedInv`) is needed
for the restart, after which a source of `left` is like any other. The histories
`freed`, `late`, `left` and `torn` exempt what "Also observed" describes; none could be
left out.

*Credential renewal.* `FreshKeys` (a key is journaled once) lets a journal be known by its
new key. `KeysInv` strengthens `KeysKept`: a pending key in the Room is that of the journal
in the file, the credential in the file is one of the two the Room knows or has been
declared expired by it, and a run that
acts for the journal in the file has seen in the Room what its step relies on
(`Grounded`). It is not inductive for overlapping runs in general: a run that redeems the
grant, or proves the key, of a journal that another has finished and replaced is
grounded in nothing. `Orderly` excludes these two steps and no more, and a single run
always takes its steps for the journal in the file (`SerialRunsAreOrderly`).

*External action.* `Inv` is `TypeOK`, `Copied` (every copy of the journal, the journal
and every post on the wire agree in mode and recipients, and each point of a call says
what its copy and the turn look like there) and `Alone`: while calls have not
overlapped, the one copy is the journal, nothing on the wire has a later epoch than the
journal, and once a call has learned of a new epoch or the journal is superseded,
nothing on the wire is something the Room could still take. The last is what "send again" rests on; with overlapping calls it is false,
because the other call may hold a fresher epoch, so `AnswersTrue` says `~ met`.

Only model-checked: the liveness properties `ProvenIsAcknowledged`, `RenewalCompletes`
and `TurnReleased`, which are out of the prover's reach, and the counterexamples of the
`claim_*` runs. Every invariant and action property of the other runs is stated by a
theorem.

## Not modelled, and the plan

In order of importance:

1. A composition of the queue and the gate with `DeliveryLifecycle` in place of its
   free `Dispatch`; `OneRunPerRoom` and `GenerationInv` are its two halves.
2. What a caller may conclude from `CanonicalReceipts` alone, as theorems of the abstract
   specification.
3. `ReceiveLedger`: legacy receipts, the quarantine of a replaced binding's intent, the
   TTL clock, the snapshot of the repair loop.
4. `TurnProtocol` of the adapter: request, poll and finish with stale-context refresh
   and keys; for external actions it is in `ExternalAction`.
5. `OriginFence` and `Transport` with its fallback: the order of the host's hooks is
   not in this repository, and of the transport the models need only that an event
   after the cursor may be delivered again.
6. The recovery of an idempotency collision (`cli.py` 338-443), which needs the digest of
   the Room's answer.

Left out for good: HTTP and header handling (`protocol.py`), extraction of the
visible body (character-level parsing), model context (formatting), host
registration, packaging and installation.
