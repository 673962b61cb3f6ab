------------------------------ MODULE StateFile ------------------------------
(***************************************************************************)
(* The state file of one Room binding and everybody who writes it          *)
(* (state.py; adapter.py 4019-4120 and 4232-4270; cli.py 141-717).         *)
(*                                                                         *)
(* The gateway loads the file once, works on its copy, and merges the copy *)
(* back field by field (_persist_binding).  The command line changes the   *)
(* file under it.  Every write is one transaction under an exclusive lock  *)
(* on a file that is replaced atomically (state.update), so a transaction  *)
(* is one step here; what is not protected by the lock are the values a    *)
(* writer has read before.                                                 *)
(*                                                                         *)
(* The gateway may hold the binding twice.  The watch task keeps the       *)
(* object it was started with; sends and callbacks look the room up in     *)
(* self._state, which _revoke and _expire of any room replace by what they *)
(* have just read from the file.                                           *)
(*                                                                         *)
(* Bounds besides the constants: a rejection met by a send replaces        *)
(* self._state once in the life of a gateway, so there are two copies at   *)
(* most; a recovery is not retried within one command.                     *)
(***************************************************************************)
EXTENDS Naturals, FiniteSets

CONSTANTS
  N,           \* the addressed events are the sequences 1..N
  MaxJoins,    \* bound: memberships the operator accepts, one after another
  MaxStarts,   \* bound: starts of the gateway
  MaxOrders,   \* bound: commands of the operator
  Neighbours,  \* does the profile hold other rooms, whose bindings may expire?
  HotRecovery  \* may audited recoveries run while the gateway is up?

Sources == 1 .. N
Copies == {"watch", "state"}

ASSUME StateFileAssumption ==
  /\ N \in Nat /\ MaxJoins \in Nat \ {0} /\ MaxStarts \in Nat /\ MaxOrders \in Nat
  /\ Neighbours \in BOOLEAN /\ HotRecovery \in BOOLEAN

VARIABLES
  file,     \* the binding in state.json, or NoBinding
  gateway,  \* is the gateway process up?
  held,     \* the binding as the watch task holds it, and as self._state does
  split,    \* are these two different objects?
  watch,    \* the watch task: off, running, routing (awaits the epoch), stopped
  flying,   \* sources with a model run or a send in flight
  sent,     \* sources whose frozen post has been handed to the network
  console,  \* an audited recovery between its reads and its transaction
  hot,      \* history: a recovery was committed while the gateway was up
  joins,    \* history: memberships accepted so far
  starts,   \* history: starts of the gateway
  orders    \* history: commands of the operator

vars == <<file, gateway, held, split, watch, flying, sent, console,
          hot, joins, starts, orders>>

(***************************************************************************)
(* The binding                                                             *)
(***************************************************************************)
\* member and cred make up the generation; lineage names the membership whose
\* run produced the runtime fields ack, intent, journal, abandoned and denied.
Binding ==
  [member : 1 .. MaxJoins, cred : 0 .. 1, enabled : BOOLEAN, revoked : BOOLEAN,
   lineage : 1 .. MaxJoins, ack : 0 .. N,
   intent : [Sources -> {"none", "selected", "frozen", "posted"}],
   journal : [Sources -> {"none", "blocked"}],
   abandoned : SUBSET Sources, denied : SUBSET Sources,
   archived : SUBSET Sources, fence : 0 .. N,
   route : {"unset", "legacy", "scoped"}, rotate : BOOLEAN]
NoBinding == [member |-> 0]
\* An audited recovery under way, and the binding it has read.
Command ==
  [cmd : {"reconcile", "orphan"}, at : Sources, member : 1 .. MaxJoins, cred : 0 .. 1]
NoCommand == [cmd |-> "none"]

Joined(m) ==
  [member |-> m, cred |-> 0, enabled |-> TRUE, revoked |-> FALSE, lineage |-> m,
   ack |-> 0, intent |-> [s \in Sources |-> "none"],
   journal |-> [s \in Sources |-> "none"], abandoned |-> {}, denied |-> {},
   archived |-> {}, fence |-> 0, route |-> "unset", rotate |-> FALSE]

Present(b) == b # NoBinding
Usable(b) == Present(b) /\ b.enabled /\ ~ b.revoked
SameGeneration_MembershipLost(a, b) == a.cred = b.cred
SameGeneration(a, b) == a.member = b.member /\ a.cred = b.cred

\* RoomBinding.from_dict: an archived lifecycle overlaps no live work, and the
\* cursor has passed it.  A file that fails this can be loaded by nobody.
Loadable ==
  Present(file) =>
    \A s \in file.archived :
      file.journal[s] = "none" /\ file.intent[s] = "none" /\ file.ack >= s

Init ==
  /\ file = Joined(1)
  /\ gateway = "down" /\ held = [c \in Copies |-> NoBinding] /\ split = FALSE
  /\ watch = "off" /\ flying = {} /\ sent = {}
  /\ console = NoCommand /\ hot = FALSE
  /\ joins = 1 /\ starts = 0 /\ orders = 0

-----------------------------------------------------------------------------
(***************************************************************************)
(* The merge                                                               *)
(***************************************************************************)
\* The whole-object save that the merge replaces.
Merged_Whole(mine, consuming) == mine
\* The merge without its care for a rotation marker it has not read.
Merged_Unmarked(mine, consuming) ==
  [file EXCEPT !.lineage = mine.lineage, !.ack = mine.ack, !.intent = mine.intent,
               !.journal = mine.journal, !.abandoned = mine.abandoned,
               !.denied = mine.denied \cup @, !.route = mine.route, !.rotate = mine.rotate]
\* Runtime fields come from the copy, operator fields from the file; a durable
\* denial stays; a rotation marker is overwritten only by its consumer.
Merged(mine, consuming) ==
  [file EXCEPT !.lineage = mine.lineage, !.ack = mine.ack, !.intent = mine.intent,
               !.journal = mine.journal, !.abandoned = mine.abandoned,
               !.denied = mine.denied \cup @,
               !.route = IF file.rotate /\ ~ consuming THEN @ ELSE mine.route,
               !.rotate = IF file.rotate /\ ~ consuming THEN @ ELSE mine.rotate]

Accepts(mine) == Present(file) /\ SameGeneration(file, mine) /\ Usable(file)

\* While nothing has split them the two copies are one object.
Hold(c, mine) == held' = IF split THEN [held EXCEPT ![c] = mine]
                                  ELSE [k \in Copies |-> mine]

\* _persist_binding of copy c after it was changed to mine: merged, or refused
\* with the reason copied into the memory.
Persist(c, mine, consuming) ==
  /\ Loadable
  /\ IF Accepts(mine)
     THEN /\ file' = Merged(mine, consuming)
          /\ Hold(c, [mine EXCEPT !.denied = file'.denied])
     ELSE /\ file' = file
          /\ Hold(c, IF Present(file)
                     THEN [mine EXCEPT !.enabled = file.enabled, !.revoked = file.revoked]
                     ELSE mine)

-----------------------------------------------------------------------------
(***************************************************************************)
(* The gateway                                                             *)
(***************************************************************************)
mine(c) == held[c]
counts == <<joins, starts, orders>>
external == <<sent, console, hot, counts>>

\* __init__ and connect: one load, and a watch task if the binding is usable.
Start ==
  /\ gateway = "down" /\ Loadable
  /\ starts < MaxStarts /\ starts' = starts + 1
  /\ gateway' = "up" /\ held' = [c \in Copies |-> file] /\ split' = FALSE
  /\ watch' = IF Usable(file) THEN "running" ELSE "off"
  /\ UNCHANGED <<file, flying, sent, console, hot, joins, orders>>

\* The process ends, by disconnect or by a crash: neither writes the file.
Stop ==
  /\ gateway = "up"
  /\ gateway' = "down" /\ held' = [c \in Copies |-> NoBinding] /\ split' = FALSE
  /\ watch' = "off" /\ flying' = {}
  /\ UNCHANGED <<file, external>>

Watching == watch = "running"

\* _refresh_binding: the binding is gone, disabled, revoked or replaced, and the
\* copy is disabled with it; or the load raises.
FileStillMine(b) == Usable(file) /\ SameGeneration(file, b)
Refreshed(b) == [b EXCEPT !.enabled = @ /\ (Loadable => FileStillMine(b))]

\* An intent without a lifecycle receipt, for an event the cursor has passed.
Overtaken(b) ==
  \E s \in Sources : b.intent[s] # "none" /\ b.ack >= s /\ b.journal[s] = "none"

\* The head of the watch loop, when it does not begin another turn.
WatchStops ==
  /\ Watching /\ watch' = "stopped"
  /\ \/ ~ Usable(mine("watch")) \/ Overtaken(mine("watch"))
     \/ ~ (Loadable /\ FileStillMine(mine("watch")))
  /\ Hold("watch", IF Usable(mine("watch")) THEN Refreshed(mine("watch")) ELSE mine("watch"))
  /\ UNCHANGED <<file, gateway, split, flying, external>>

\* The heartbeat of a watch task in its transport cycle finds the same, and
\* leaves the cycle to end by itself.
HeartbeatStops ==
  /\ Watching /\ Usable(mine("watch")) /\ Loadable /\ ~ FileStillMine(mine("watch"))
  /\ Hold("watch", Refreshed(mine("watch")))
  /\ UNCHANGED <<file, gateway, split, watch, flying, external>>

\* Any save of the watch task that changes no field modelled here: a noted
\* event, the sweep, the end of a transport cycle.
WatchSaves ==
  /\ Watching /\ Persist("watch", mine("watch"), FALSE)
  /\ UNCHANGED <<gateway, split, watch, flying, external>>

\* A turn of the loop, from _refresh_binding to the await of the Room's state in
\* _ensure_epoch_session_routing.
RouteAsks ==
  /\ Watching /\ Usable(mine("watch")) /\ Loadable /\ FileStillMine(mine("watch"))
  /\ ~ Overtaken(mine("watch")) /\ mine("watch").route = "unset"
  /\ watch' = "routing"
  /\ UNCHANGED <<file, gateway, held, split, flying, external>>

Routed(b) == [b EXCEPT !.route = IF b.rotate THEN "scoped" ELSE "legacy", !.rotate = FALSE]

\* The answer: the route is saved, or restored in memory when it is refused.
RouteSaves ==
  /\ watch = "routing" /\ watch' = "running"
  /\ LET b == mine("watch") IN
     IF Accepts(b) THEN Persist("watch", Routed(b), b.rotate) ELSE Persist("watch", b, FALSE)
  /\ UNCHANGED <<gateway, split, flying, external>>

RouteFails ==
  /\ watch = "routing" /\ watch' = "running"
  /\ UNCHANGED <<file, gateway, held, split, flying, external>>

\* _consume_locked: an event after the cursor, beyond the fence of the copy, is
\* handed to a run; one within the fence is ignored and acknowledged.
Dispatch(s) ==
  /\ Watching /\ mine("watch").route # "unset"
  /\ s > mine("watch").ack /\ s > mine("watch").fence
  /\ Persist("watch", mine("watch"), FALSE)
  /\ flying' = IF Accepts(mine("watch")) THEN flying \cup {s} ELSE flying
  /\ UNCHANGED <<gateway, split, watch, external>>

Acknowledged_Next(b, s) == [b EXCEPT !.ack = s + 1, !.intent[s] = "none"]
Acknowledged(b, s) == [b EXCEPT !.ack = s, !.intent[s] = "none"]

FenceIgnores(s) ==
  /\ Watching /\ mine("watch").route # "unset"
  /\ s = mine("watch").ack + 1 /\ s <= mine("watch").fence
  /\ Persist("watch", Acknowledged(mine("watch"), s), FALSE)
  /\ UNCHANGED <<gateway, split, watch, flying, external>>

\* A run or a send of s, which looks the binding up in self._state.
Sending(s) == s \in flying /\ Present(mine("state"))

\* The renewal task of an attempt finds it lost.  It works on the copy of the
\* watch task, which started it.
Denied(s) ==
  /\ s \in flying /\ Present(mine("watch")) /\ s \notin mine("watch").denied
  /\ Persist("watch", [mine("watch") EXCEPT !.denied = @ \cup {s}], FALSE)
  /\ UNCHANGED <<gateway, split, watch, flying, external>>

\* _send_final: freeze the selection, freeze the post before it goes out, keep
\* the receipt with the completion it owes.
Selects_Anew(s) ==
  /\ Sending(s) /\ mine("state").journal[s] = "none"
  /\ Persist("state", [mine("state") EXCEPT !.intent[s] = "selected"], FALSE)
  /\ UNCHANGED <<gateway, split, watch, flying, external>>
Selects(s) ==
  /\ Sending(s) /\ mine("state").intent[s] = "none" /\ mine("state").journal[s] = "none"
  /\ Persist("state", [mine("state") EXCEPT !.intent[s] = "selected"], FALSE)
  /\ UNCHANGED <<gateway, split, watch, flying, external>>

Posts(s) ==
  /\ Sending(s) /\ mine("state").intent[s] = "selected"
  /\ Persist("state", [mine("state") EXCEPT !.intent[s] = "frozen"], FALSE)
  /\ sent' = IF Accepts(mine("state")) THEN sent \cup {s} ELSE sent
  /\ UNCHANGED <<gateway, split, watch, flying, console, hot, counts>>

\* The receipt, and what its completion came to: done, or refused for good.
Receives(s, life) ==
  /\ Sending(s) /\ s \in sent /\ mine("state").intent[s] = "frozen"
  /\ Persist("state", [mine("state") EXCEPT !.intent[s] = "posted", !.journal[s] = life],
             FALSE)
  /\ UNCHANGED <<gateway, split, watch, flying, external>>

\* on_processing_complete: posted, or ended without a post; in both cases the
\* source is acknowledged and its intent dropped.
Completes(s) ==
  /\ Sending(s) /\ s = mine("state").ack + 1
  /\ mine("state").intent[s] \in {"none", "posted"}
  /\ Persist("state", Acknowledged(mine("state"), s), FALSE)
  /\ UNCHANGED <<gateway, split, watch, flying, external>>

\* _revoke and _expire: the copy that met the answer is disabled in place, the
\* file is marked if it is still of that generation, and self._state becomes
\* what the transaction read.
Disabled(b, revoked) == [b EXCEPT !.enabled = FALSE, !.revoked = revoked]
Rejected(c, revoked) ==
  /\ gateway = "up" /\ Loadable /\ Present(mine(c)) /\ mine(c).enabled
  /\ IF c = "watch" THEN watch = "running" /\ watch' = "stopped"
                    ELSE flying # {} /\ ~ split /\ UNCHANGED watch
  /\ LET same == Present(file) /\ SameGeneration(file, mine(c))
         marked == revoked \/ IF same THEN file.revoked ELSE mine(c).revoked
     IN /\ file' = IF same THEN Disabled(file, marked) ELSE file
        /\ held' = [k \in Copies |-> IF k = "state" THEN file' ELSE Disabled(mine(c), marked)]
  /\ split' = TRUE
  /\ UNCHANGED <<gateway, flying, external>>

\* The same for the binding of another room of the profile.
NeighbourExpires ==
  /\ Neighbours /\ gateway = "up" /\ Loadable /\ ~ split
  /\ held' = [held EXCEPT !.state = file] /\ split' = TRUE
  /\ UNCHANGED <<file, gateway, watch, flying, external>>

GatewayNext ==
  \/ Start \/ Stop \/ WatchStops \/ HeartbeatStops \/ WatchSaves
  \/ RouteAsks \/ RouteSaves \/ RouteFails \/ NeighbourExpires
  \/ \E c \in Copies, r \in BOOLEAN : Rejected(c, r)
  \/ \E s \in Sources :
       \/ Dispatch(s) \/ FenceIgnores(s) \/ Selects(s) \/ Posts(s)
       \/ Completes(s) \/ Denied(s)
       \/ \E life \in {"none", "blocked"} : Receives(s, life)

-----------------------------------------------------------------------------
(***************************************************************************)
(* The command line                                                        *)
(***************************************************************************)
process == <<gateway, held, split, watch, flying>>
Commanded ==
  /\ Loadable /\ orders < MaxOrders /\ orders' = orders + 1
  /\ UNCHANGED <<process, starts>>
Configured == Present(file) /\ Commanded /\ UNCHANGED <<sent, joins, console, hot>>

\* _join replaces whatever binding the room had (upsert).
Join ==
  /\ Commanded /\ joins < MaxJoins /\ joins' = joins + 1
  /\ file' = Joined(joins') /\ sent' = {}
  /\ UNCHANGED <<console, hot>>
Leave == Configured /\ file' = NoBinding
Toggle(enabled) == Configured /\ file.enabled # enabled /\ file' = [file EXCEPT !.enabled = enabled]
Fence(until) == Configured /\ file.fence # until /\ file' = [file EXCEPT !.fence = until]
RotateCurrentEpochSession ==
  Configured /\ ~ file.rotate /\ file' = [file EXCEPT !.route = "unset", !.rotate = TRUE]

\* The two transactions of a credential renewal that change the binding
\* (module CredentialRenewal has the rest).
SwapCredential == Configured /\ file.cred = 0 /\ file' = [file EXCEPT !.cred = 1]
RecoverFalseRevoked ==
  /\ Configured /\ file.cred = 1 /\ file.revoked
  /\ file' = [file EXCEPT !.revoked = FALSE, !.enabled = TRUE]

\* An audited recovery reads the binding, proves its case at the Room, and
\* commits against what it finds in the file then.
MayRecover == Loadable /\ (HotRecovery \/ gateway = "down")

Reads(cmd, s) ==
  /\ MayRecover /\ console = NoCommand /\ Present(file)
  /\ Commanded
  /\ console' = [cmd |-> cmd, at |-> s, member |-> file.member, cred |-> file.cred]
  /\ UNCHANGED <<file, sent, hot, joins>>

ReconcileReads(s) ==
  /\ Reads("reconcile", s)
  /\ file.journal[s] = "blocked" /\ file.intent[s] = "none" /\ file.ack >= s

OrphanReads(s) == Reads("orphan", s) /\ s \notin sent

Archive_JournalKept(s) == [file EXCEPT !.archived = @ \cup {s}]
Archive(s) == [file EXCEPT !.archived = @ \cup {s}, !.journal[s] = "none"]
Abandon(s) == [file EXCEPT !.abandoned = @ \cup {s}, !.intent[s] = "none"]

\* What each recovery demands of the file it is about to change.
MayArchive(s, seen) ==
  /\ SameGeneration(file, seen) /\ file.ack >= s
  /\ file.journal[s] = "blocked" /\ file.intent[s] = "none" /\ s \notin file.archived
MayAbandon(s, seen) ==
  /\ file.member = seen.member /\ file.ack >= s
  /\ s \notin file.abandoned /\ file.intent[s] = "selected"

\* The transaction of the recovery, or its refusal.
RecoveryCommits ==
  /\ MayRecover /\ console # NoCommand
  /\ LET s == console.at
         archives == /\ console.cmd = "reconcile" /\ Present(file)
                     /\ MayArchive(s, console)
         abandons == /\ console.cmd = "orphan" /\ Present(file)
                     /\ MayAbandon(s, console)
     IN /\ file' = IF archives THEN Archive(s) ELSE IF abandons THEN Abandon(s) ELSE file
        /\ hot' = (hot \/ ((archives \/ abandons) /\ gateway = "up"))
  /\ console' = NoCommand
  /\ UNCHANGED <<process, sent, counts>>

OperatorNext ==
  \/ Join \/ Leave \/ RotateCurrentEpochSession \/ SwapCredential \/ RecoverFalseRevoked
  \/ RecoveryCommits
  \/ \E e \in BOOLEAN : Toggle(e)
  \/ \E u \in 0 .. N : Fence(u)
  \/ \E s \in Sources : ReconcileReads(s) \/ OrphanReads(s)

Next == GatewayNext \/ OperatorNext
Spec == Init /\ [][Next]_vars

-----------------------------------------------------------------------------
(***************************************************************************)
(* Properties                                                              *)
(***************************************************************************)
TypeOK ==
  /\ file \in Binding \cup {NoBinding}
  /\ held \in [Copies -> Binding \cup {NoBinding}]
  /\ split \in BOOLEAN
  /\ ~ split => held["watch"] = held["state"]
  /\ gateway \in {"up", "down"} /\ watch \in {"off", "running", "routing", "stopped"}
  /\ flying \subseteq Sources /\ sent \subseteq Sources /\ hot \in BOOLEAN
  /\ console \in Command \cup {NoCommand}
  /\ joins \in 1 .. MaxJoins /\ starts \in 0 .. MaxStarts /\ orders \in 0 .. MaxOrders

\* As long as recoveries are committed only while the gateway is down, whatever
\* the two writers do the file can be loaded again.
LoadableUnlessHot == ~ hot => Loadable

\* Runtime fields in the file were produced by a run of the membership the
\* file names, also after a leave and a new join under a running gateway.
RuntimeOfThisMember == Present(file) => file.lineage = file.member

SameBinding == Present(file) /\ Present(file') /\ file.member = file'.member

\* The gateway never brings back what was removed, disabled, revoked or
\* replaced, and undoes neither a fence nor an archived lifecycle; a denied
\* attempt stays denied.
OperatorsDecide ==
  [][ GatewayNext =>
        /\ Present(file) = Present(file)'
        /\ Present(file) =>
             /\ file'.enabled => file.enabled
             /\ file.revoked => file'.revoked
             /\ file'.cred = file.cred /\ file'.fence = file.fence
             /\ file'.archived = file.archived
             /\ file.denied \subseteq file'.denied ]_vars

\* An authorized rotation of the transcript is consumed by a gateway that has
\* read it, which then gives the current epoch a scoped session.
RotationHonoured ==
  [][ SameBinding /\ file.rotate /\ ~ file'.rotate =>
        held.watch.rotate /\ file'.route = "scoped" ]_vars

\* While the gateway holds one object, no save loses what another one recorded:
\* the cursor never falls back, a frozen post stays until it has a receipt, an
\* abandoned intent stays abandoned.
OneCopyLosesNothing ==
  [][ SameBinding /\ ~ split' /\ ~ hot' =>
        /\ file.ack <= file'.ack
        /\ file.abandoned \subseteq file'.abandoned
        /\ \A s \in Sources :
             file.intent[s] \in {"frozen", "posted"} =>
               file'.intent[s] \in {"frozen", "posted"} \/ file'.ack >= s ]_vars

-----------------------------------------------------------------------------
(***************************************************************************)
(* Claims of the repository that the code does not keep                    *)
(***************************************************************************)
\* adapter.py:4069, "without a cross-process lost-update window": a lifecycle
\* that an audited recovery has archived does not come back into the journal.
ClaimNoLostUpdate ==
  [][ SameBinding => \A s \in file.archived : file'.journal[s] = "none" ]_vars
=============================================================================
