--------------------------- MODULE StateFileProofs ---------------------------
(***************************************************************************)
(* Proofs about the state file, for any number of sources, joins, starts    *)
(* and commands.                                                           *)
(***************************************************************************)
EXTENDS StateFile, TLAPS

\* A process that is down holds nothing and runs nothing; a watch task has a
\* binding; memberships are numbered in the order they were accepted.
Placed ==
  /\ gateway = "down" => watch = "off" /\ flying = {} /\ \A c \in Copies : held[c] = NoBinding
  /\ watch # "off" => Present(held["watch"])
  /\ Present(file) => file.member <= joins
  /\ \A c \in Copies : Present(held[c]) => held[c].member <= joins

\* The runtime fields of a binding, in the file or held, are of its membership.
OwnRuntime ==
  /\ Present(file) => file.lineage = file.member
  /\ \A c \in Copies : Present(held[c]) => held[c].lineage = held[c].member

\* A source that was archived while the gateway was down has no work left
\* anywhere, and none is begun for it.
Clean(b, s) == b.journal[s] = "none" /\ b.intent[s] = "none" /\ b.ack >= s
ArchiveRests ==
  ~ hot /\ Present(file) =>
    \A s \in file.archived :
      /\ s \notin flying /\ Clean(file, s)
      /\ \A c \in Copies : Present(held[c]) => Clean(held[c], s)

\* The one object the gateway holds is never behind the file.
Kept(b, s) == b.intent[s] \in {"frozen", "posted"} \/ b.ack >= s
AheadOf(b, old) ==
  /\ old.ack <= b.ack /\ old.abandoned \subseteq b.abandoned
  /\ \A s \in Sources : Kept(old, s) => Kept(b, s)
CopyAhead ==
  ~ split /\ ~ hot /\ Present(file) /\ Present(held["watch"])
    /\ held["watch"].member = file.member => AheadOf(held["watch"], file)

Inv == TypeOK /\ Placed /\ OwnRuntime /\ ArchiveRests /\ CopyAhead

-----------------------------------------------------------------------------
(***************************************************************************)
(* Bindings                                                                *)
(***************************************************************************)
\* No binding is the absent one.
LEMMA BindingPresent == \A b \in Binding : Present(b)
BY DEF Binding, Present, NoBinding

\* Two bindings with the same runtime fields, of one generation.
Alike(a, b) ==
  /\ a.member = b.member /\ a.cred = b.cred /\ a.lineage = b.lineage
  /\ a.ack = b.ack /\ a.intent = b.intent /\ a.journal = b.journal
  /\ a.abandoned = b.abandoned

\* What a save may have made of the copy b: the same generation, not behind b,
\* and no work for a source that had none and is not in flight.
Derived(m, b) ==
  /\ m \in Binding /\ m.member = b.member /\ m.cred = b.cred /\ m.lineage = b.lineage
  /\ AheadOf(m, b)
  /\ \A s \in Sources : Clean(b, s) /\ s \notin flying => Clean(m, s)

\* The merge gives a binding with the runtime fields of the copy and the
\* operator's fields of the file.
LEMMA MergedFacts ==
  ASSUME NEW m \in Binding, NEW k \in BOOLEAN, file \in Binding, SameGeneration(file, m)
  PROVE  /\ Merged(m, k) \in Binding
         /\ Alike(Merged(m, k), m)
         /\ Merged(m, k).enabled = file.enabled /\ Merged(m, k).revoked = file.revoked
         /\ Merged(m, k).fence = file.fence /\ Merged(m, k).archived = file.archived
         /\ file.denied \subseteq Merged(m, k).denied
         /\ file.rotate /\ ~ k => Merged(m, k).rotate
         /\ k => Merged(m, k).route = m.route
<1>1. Merged(m, k) \in Binding
  BY DEF Merged, Binding
<1>2. QED
  BY <1>1 DEF Merged, Binding, Alike, SameGeneration

\* The same for the copy once the save has told it what the file holds.
LEMMA ToldFacts ==
  ASSUME NEW m \in Binding, NEW d \in SUBSET Sources, NEW e \in BOOLEAN, NEW r \in BOOLEAN
  PROVE  /\ [m EXCEPT !.denied = d] \in Binding /\ Alike([m EXCEPT !.denied = d], m)
         /\ [m EXCEPT !.enabled = e, !.revoked = r] \in Binding
         /\ Alike([m EXCEPT !.enabled = e, !.revoked = r], m)
BY DEF Binding, Alike

-----------------------------------------------------------------------------
(***************************************************************************)
(* Every save of the gateway has one shape                                 *)
(***************************************************************************)
Saving(c, m, k) ==
  /\ c \in Copies /\ k \in BOOLEAN /\ Present(held[c]) /\ Derived(m, held[c])
  /\ Persist(c, m, k)
  /\ k => held["watch"].rotate /\ m.route = "scoped"
  /\ \A s \in flying' :
       s \in flying \/ (s \in Sources /\ Present(held["watch"]) /\ held["watch"].ack < s)
  /\ watch' \in {"off", "running", "routing", "stopped"}
  /\ watch # "off" \/ watch' = watch
  /\ sent' \subseteq Sources
  /\ UNCHANGED <<gateway, split, console, hot, joins, starts, orders>>

Saves ==
  \/ WatchSaves \/ RouteSaves
  \/ \E s \in Sources :
       \/ Dispatch(s) \/ FenceIgnores(s) \/ Selects(s) \/ Posts(s)
       \/ Completes(s) \/ Denied(s)
       \/ \E life \in {"none", "blocked"} : Receives(s, life)

\* A copy is derived from itself.
LEMMA Itself == ASSUME NEW b \in Binding PROVE Derived(b, b)
BY DEF Derived, AheadOf, Kept, Clean, Binding

\* A copy whose cursor takes the next source.
LEMMA AcknowledgedDerived ==
  ASSUME NEW b \in Binding, NEW s \in Sources, s = b.ack + 1
  PROVE  Derived(Acknowledged(b, s), b)
<1> DEFINE m == Acknowledged(b, s)
<1>1. m \in Binding /\ m.ack = s /\ m.journal = b.journal /\ m.abandoned = b.abandoned
      /\ m.intent = [b.intent EXCEPT ![s] = "none"]
      /\ m.member = b.member /\ m.cred = b.cred /\ m.lineage = b.lineage
  <2>1. s \in 0 .. N
    BY StateFileAssumption DEF Sources
  <2>2. m \in Binding
    BY <2>1 DEF Acknowledged, Binding
  <2> QED BY <2>2 DEF Acknowledged, Binding
<1>2. b.ack \in Nat /\ s \in Nat /\ b.ack <= m.ack
  BY <1>1, StateFileAssumption DEF Binding, Sources
<1>3. \A t \in Sources : Kept(b, t) => Kept(m, t)
  BY <1>1, <1>2, StateFileAssumption DEF Kept, Sources, Binding
<1>4. \A t \in Sources : Clean(b, t) => Clean(m, t)
  BY <1>1, <1>2, StateFileAssumption DEF Clean, Sources, Binding
<1> QED BY <1>1, <1>2, <1>3, <1>4 DEF Derived, AheadOf

\* A copy whose intent for a source in flight moves on.
LEMMA IntentDerived ==
  ASSUME NEW b \in Binding, NEW s \in flying, s \in Sources,
         NEW i \in {"selected", "frozen", "posted"}, NEW life \in {"none", "blocked"},
         NEW m, \/ m = [b EXCEPT !.intent[s] = i]
                \/ m = [b EXCEPT !.intent[s] = i, !.journal[s] = life],
         Kept(b, s) => b.ack >= s \/ i = "posted"
  PROVE  Derived(m, b)
<1>1. m \in Binding /\ m.ack = b.ack /\ m.abandoned = b.abandoned
      /\ m.intent = [b.intent EXCEPT ![s] = i]
      /\ m.journal \in {b.journal, [b.journal EXCEPT ![s] = life]}
      /\ m.member = b.member /\ m.cred = b.cred /\ m.lineage = b.lineage
  <2>1. CASE m = [b EXCEPT !.intent[s] = i]
    BY <2>1 DEF Binding
  <2>2. CASE m = [b EXCEPT !.intent[s] = i, !.journal[s] = life]
    BY <2>2 DEF Binding
  <2> QED BY <2>1, <2>2
<1>2. b.ack \in Nat
  BY StateFileAssumption DEF Binding
<1>3. \A t \in Sources : Kept(b, t) => Kept(m, t)
  BY <1>1 DEF Kept, Binding
<1>4. \A t \in Sources : Clean(b, t) /\ t \notin flying => Clean(m, t)
  BY <1>1 DEF Clean, Binding
<1> QED BY <1>1, <1>2, <1>3, <1>4 DEF Derived, AheadOf

\* Each of the saves.
LEMMA SavesAreSavings ==
  ASSUME TypeOK, Placed, Saves
  PROVE  \E c \in Copies, m \in Binding, k \in BOOLEAN : Saving(c, m, k)
<1> USE DEF mine, counts, external, Copies
<1>1. \A c \in Copies : Present(held[c]) => held[c] \in Binding
  BY DEF TypeOK, Present
<1>2. watch # "off" => Present(held["watch"]) /\ held["watch"] \in Binding
  BY <1>1 DEF Placed
<1>3. sent \subseteq Sources /\ flying \subseteq Sources
  BY DEF TypeOK
<1>4. CASE WatchSaves
  <2>1. Saving("watch", held["watch"], FALSE)
    BY <1>2, <1>3, <1>4, Itself DEF WatchSaves, Watching, Saving, TypeOK
  <2> QED BY <2>1, <1>2, <1>4 DEF WatchSaves, Watching
<1>5. CASE RouteSaves
  <2> DEFINE b == held["watch"]
  <2>1. b \in Binding /\ Present(b)
    BY <1>2, <1>5 DEF RouteSaves
  <2>2. Routed(b) \in Binding /\ Derived(Routed(b), b) /\ b.rotate \in BOOLEAN
        /\ (b.rotate => Routed(b).route = "scoped")
    <3>1. Routed(b) \in Binding /\ b.rotate \in BOOLEAN
      BY <2>1 DEF Routed, Binding
    <3>2. Alike(Routed(b), b) /\ (b.rotate => Routed(b).route = "scoped")
      BY <2>1 DEF Routed, Binding, Alike
    <3>3. Derived(Routed(b), b)
      BY <2>1, <3>1, <3>2, Itself DEF Alike, Derived, AheadOf, Kept, Clean
    <3> QED BY <3>1, <3>2, <3>3
  <2>3. CASE Accepts(b)
    <3>1. Saving("watch", Routed(b), b.rotate)
      BY <2>1, <2>2, <2>3, <1>3, <1>5 DEF RouteSaves, Saving
    <3> QED BY <3>1, <2>2
  <2>4. CASE ~ Accepts(b)
    <3>1. Saving("watch", b, FALSE)
      BY <2>1, <2>4, <1>3, <1>5, Itself DEF RouteSaves, Saving
    <3> QED BY <3>1, <2>1
  <2> QED BY <2>3, <2>4
<1>6. ASSUME NEW s \in Sources, Dispatch(s)
      PROVE  \E c \in Copies, m \in Binding, k \in BOOLEAN : Saving(c, m, k)
  <2>1. held["watch"] \in Binding /\ Present(held["watch"])
    BY <1>2, <1>6 DEF Dispatch, Watching
  <2>2. flying' \subseteq flying \cup {s} /\ held["watch"].ack < s
    BY <2>1, <1>6, StateFileAssumption DEF Dispatch, Binding, Sources
  <2>3. Saving("watch", held["watch"], FALSE)
    BY <2>1, <2>2, <1>3, <1>6, Itself DEF Dispatch, Saving, Watching, TypeOK
  <2> QED BY <2>3, <2>1
<1>7. ASSUME NEW s \in Sources, FenceIgnores(s)
      PROVE  \E c \in Copies, m \in Binding, k \in BOOLEAN : Saving(c, m, k)
  <2> DEFINE b == held["watch"]
  <2>1. b \in Binding /\ Present(b)
    BY <1>2, <1>7 DEF FenceIgnores, Watching
  <2>2. Derived(Acknowledged(b, s), b)
    BY <2>1, <1>7, AcknowledgedDerived DEF FenceIgnores
  <2>3. Saving("watch", Acknowledged(b, s), FALSE)
    BY <2>1, <2>2, <1>3, <1>7 DEF FenceIgnores, Saving, Watching, TypeOK
  <2> QED BY <2>3, <2>2 DEF Derived
<1>8. ASSUME NEW s \in Sources, Selects(s)
      PROVE  \E c \in Copies, m \in Binding, k \in BOOLEAN : Saving(c, m, k)
  <2> DEFINE b == held["state"]
             m == [b EXCEPT !.intent[s] = "selected"]
  <2>1. b \in Binding /\ Present(b) /\ s \in flying
    BY <1>1, <1>8 DEF Selects, Sending
  <2>2. Derived(m, b)
    BY <2>1, <1>8, IntentDerived DEF Selects, Kept
  <2>3. Saving("state", m, FALSE)
    BY <2>1, <2>2, <1>3, <1>8 DEF Selects, Saving, TypeOK
  <2> QED BY <2>3, <2>2 DEF Derived
<1>9. ASSUME NEW s \in Sources, Posts(s)
      PROVE  \E c \in Copies, m \in Binding, k \in BOOLEAN : Saving(c, m, k)
  <2> DEFINE b == held["state"]
             m == [b EXCEPT !.intent[s] = "frozen"]
  <2>1. b \in Binding /\ Present(b) /\ s \in flying
    BY <1>1, <1>9 DEF Posts, Sending
  <2>2. Derived(m, b)
    BY <2>1, <1>9, IntentDerived DEF Posts, Kept
  <2>3. Saving("state", m, FALSE)
    BY <2>1, <2>2, <1>3, <1>9 DEF Posts, Saving, TypeOK
  <2> QED BY <2>3, <2>2 DEF Derived
<1>10. ASSUME NEW s \in Sources, NEW life \in {"none", "blocked"}, Receives(s, life)
       PROVE  \E c \in Copies, m \in Binding, k \in BOOLEAN : Saving(c, m, k)
  <2> DEFINE b == held["state"]
             m == [b EXCEPT !.intent[s] = "posted", !.journal[s] = life]
  <2>1. b \in Binding /\ Present(b) /\ s \in flying
    BY <1>1, <1>10 DEF Receives, Sending
  <2>2. Derived(m, b)
    BY <2>1, <1>10, IntentDerived DEF Receives, Kept
  <2>3. Saving("state", m, FALSE)
    BY <2>1, <2>2, <1>3, <1>10 DEF Receives, Saving, TypeOK
  <2> QED BY <2>3, <2>2 DEF Derived
<1>11. ASSUME NEW s \in Sources, Completes(s)
       PROVE  \E c \in Copies, m \in Binding, k \in BOOLEAN : Saving(c, m, k)
  <2> DEFINE b == held["state"]
  <2>1. b \in Binding /\ Present(b)
    BY <1>1, <1>11 DEF Completes, Sending
  <2>2. Derived(Acknowledged(b, s), b)
    BY <2>1, <1>11, AcknowledgedDerived DEF Completes
  <2>3. Saving("state", Acknowledged(b, s), FALSE)
    BY <2>1, <2>2, <1>3, <1>11 DEF Completes, Saving, TypeOK
  <2> QED BY <2>3, <2>2 DEF Derived
<1>12. ASSUME NEW s \in Sources, Denied(s)
       PROVE  \E c \in Copies, m \in Binding, k \in BOOLEAN : Saving(c, m, k)
  <2> DEFINE b == held["watch"]
             m == [b EXCEPT !.denied = @ \cup {s}]
  <2>1. b \in Binding /\ Present(b)
    BY <1>1, <1>12 DEF Denied
  <2>2. Derived(m, b)
    BY <2>1 DEF Derived, AheadOf, Kept, Clean, Binding
  <2>3. Saving("watch", m, FALSE)
    BY <2>1, <2>2, <1>3, <1>12 DEF Denied, Saving, TypeOK
  <2> QED BY <2>3, <2>2 DEF Derived
<1> QED
  BY <1>4, <1>5, <1>6, <1>7, <1>8, <1>9, <1>10, <1>11, <1>12 DEF Saves

\* What a save leaves behind: in the file the merge or nothing, in the memory a
\* copy that is like what was saved.
LEMMA SavingResult ==
  ASSUME TypeOK, NEW c, NEW m \in Binding, NEW k, Saving(c, m, k)
  PROVE  /\ \/ file' = file
            \/ /\ file \in Binding /\ SameGeneration(file, m) /\ file' = Merged(m, k)
         /\ \E h \in Binding :
              /\ Alike(h, m)
              /\ held' = IF split THEN [held EXCEPT ![c] = h] ELSE [x \in Copies |-> h]
<1>1. file \in Binding \/ ~ Present(file)
  BY DEF TypeOK, Present
<1>2. CASE Accepts(m)
  <2>1. file \in Binding /\ SameGeneration(file, m) /\ file' = Merged(m, k)
    BY <1>1, <1>2 DEF Accepts, Saving, Persist
  <2>2. file' \in Binding
    BY <2>1, MergedFacts DEF Saving
  <2>3. file'.denied \in SUBSET Sources
    BY <2>2 DEF Binding
  <2> DEFINE h == [m EXCEPT !.denied = file'.denied]
  <2>4. h \in Binding /\ Alike(h, m)
    BY <2>3, ToldFacts
  <2>5. Hold(c, h)
    BY <1>2 DEF Saving, Persist
  <2> QED BY <2>1, <2>4, <2>5 DEF Hold
<1>3. CASE ~ Accepts(m)
  <2> DEFINE h == IF Present(file)
                  THEN [m EXCEPT !.enabled = file.enabled, !.revoked = file.revoked] ELSE m
  <2>1. h \in Binding /\ Alike(h, m)
    <3>1. CASE Present(file)
      <4>1. file.enabled \in BOOLEAN /\ file.revoked \in BOOLEAN
        BY <1>1, <3>1 DEF Binding
      <4> QED BY <3>1, <4>1, ToldFacts
    <3>2. CASE ~ Present(file)
      BY <3>2 DEF Alike
    <3> QED BY <3>1, <3>2
  <2>2. file' = file /\ Hold(c, h)
    BY <1>3 DEF Saving, Persist
  <2> QED BY <2>1, <2>2 DEF Hold
<1> QED BY <1>2, <1>3

\* A save keeps the invariant.
LEMMA SavingKeeps ==
  ASSUME Inv, NEW c, NEW m \in Binding, NEW k, Saving(c, m, k)
  PROVE  Inv'
<1> DEFINE b == held[c]
<1>1. TypeOK /\ Placed /\ OwnRuntime /\ c \in Copies /\ k \in BOOLEAN
      /\ Present(b) /\ Derived(m, b)
  BY DEF Inv, Saving
<1>2. PICK h \in Binding :
        /\ Alike(h, m)
        /\ held' = IF split THEN [held EXCEPT ![c] = h] ELSE [x \in Copies |-> h]
  BY <1>1, SavingResult
<1>3. b \in Binding /\ \A x \in Copies : Present(held[x]) => held[x] \in Binding
  BY <1>1 DEF TypeOK, Present
<1>4. file' = file \/ (/\ file \in Binding /\ SameGeneration(file, m) /\ file' \in Binding
                       /\ Alike(file', m) /\ file'.archived = file.archived
                       /\ file'.member = file.member)
  <2>1. file' = file \/ (file \in Binding /\ SameGeneration(file, m) /\ file' = Merged(m, k))
    BY <1>1, SavingResult
  <2> QED BY <2>1, <1>1, MergedFacts DEF Alike, SameGeneration
<1>5. /\ \A x \in Copies : held'[x] = held[x] \/ held'[x] = h
      /\ DOMAIN held' = Copies
      /\ held' \in [Copies -> Binding \cup {NoBinding}]
      /\ ~ split' => held'["watch"] = h /\ held'["state"] = h /\ held["watch"] = b
      /\ split' = split
  <2>1. held \in [Copies -> Binding \cup {NoBinding}] /\ split' = split /\ split \in BOOLEAN
    BY <1>1 DEF TypeOK, Saving
  <2>2. ~ split => held["watch"] = b
    BY <1>1 DEF TypeOK, Copies
  <2>3. CASE split
    BY <1>1, <1>2, <2>1, <2>3
  <2>4. CASE ~ split
    <3>1. held' = [x \in Copies |-> h]
      BY <1>2, <2>4
    <3>2. held'["watch"] = h /\ held'["state"] = h
      BY <3>1 DEF Copies
    <3> QED BY <2>1, <2>2, <3>1, <3>2
  <2> QED BY <2>1, <2>3, <2>4
<1>6. gateway = "up" /\ gateway' = "up" /\ hot' = hot /\ joins' = joins
  BY <1>1 DEF Placed, Saving, TypeOK, Present
<1>7. h.member = b.member /\ h.lineage = b.lineage /\ Derived(h, b)
  BY <1>1, <1>2 DEF Alike, Derived, AheadOf, Kept, Clean
<1>8. TypeOK'
  <2>1. flying' \subseteq Sources /\ sent' \subseteq Sources
    BY <1>1 DEF Saving, TypeOK
  <2>2. file' \in Binding \cup {NoBinding}
    BY <1>1, <1>4 DEF TypeOK
  <2> QED BY <1>1, <1>5, <1>6, <2>1, <2>2 DEF Saving, TypeOK
<1>9. Placed'
  <2>1. watch' # "off" => Present(held'["watch"])
    BY <1>1, <1>5, BindingPresent DEF Saving, Placed, Copies
  <2>2. Present(file') => file'.member <= joins'
    BY <1>1, <1>4, <1>6, BindingPresent DEF Placed
  <2>3. \A x \in Copies : Present(held'[x]) => held'[x].member <= joins'
    BY <1>1, <1>5, <1>6, <1>7 DEF Placed
  <2> QED BY <1>6, <2>1, <2>2, <2>3 DEF Placed
<1>10. OwnRuntime'
  <2>1. \A x \in Copies : Present(held'[x]) => held'[x].lineage = held'[x].member
    BY <1>1, <1>5, <1>7 DEF OwnRuntime
  <2>2. m.lineage = m.member
    BY <1>1 DEF OwnRuntime, Derived
  <2>3. Present(file') => file'.lineage = file'.member
    BY <1>1, <1>4, <2>2 DEF OwnRuntime, Alike
  <2> QED BY <2>1, <2>3 DEF OwnRuntime
<1>11. ArchiveRests'
  <2> SUFFICES ASSUME ~ hot', Present(file'), NEW s \in file'.archived
               PROVE  /\ s \notin flying' /\ Clean(file', s)
                      /\ \A x \in Copies : Present(held'[x]) => Clean(held'[x], s)
    BY DEF ArchiveRests
  <2>1. Present(file) /\ s \in file.archived
    BY <1>4, BindingPresent
  <2>2. s \in Sources
    BY <1>1, <2>1 DEF TypeOK, Present, Binding
  <2>3. /\ s \notin flying /\ Clean(file, s)
        /\ \A x \in Copies : Present(held[x]) => Clean(held[x], s)
    BY <2>1, <1>6 DEF Inv, ArchiveRests
  <2>4. Clean(m, s) /\ Clean(h, s)
    BY <1>1, <1>7, <2>2, <2>3 DEF Derived
  <2>5. s \notin flying'
    <3> SUFFICES ASSUME s \in flying' PROVE FALSE
      OBVIOUS
    <3>1. Present(held["watch"]) /\ held["watch"].ack < s
      BY <2>3 DEF Saving
    <3>2. held["watch"].ack \in Nat /\ s \in Nat
      BY <1>3, <2>2, <3>1, StateFileAssumption DEF Binding, Copies, Sources
    <3>3. held["watch"].ack >= s
      BY <2>3, <3>1 DEF Clean, Copies
    <3> QED BY <3>1, <3>2, <3>3
  <2>6. Clean(file', s)
    BY <1>4, <2>3, <2>4 DEF Alike, Clean
  <2> QED BY <2>3, <2>4, <2>5, <2>6, <1>5
<1>12. CopyAhead'
  <2> SUFFICES ASSUME ~ split', ~ hot', Present(file'), held'["watch"].member = file'.member
               PROVE  AheadOf(held'["watch"], file')
    BY DEF CopyAhead
  <2>1. held'["watch"] = h /\ held["watch"] = b
    BY <1>5
  <2>2. CASE file' = file
    <3>1. AheadOf(b, file)
      BY <1>1, <1>5, <1>6, <1>7, <2>1, <2>2 DEF Inv, CopyAhead
    <3>2. file.ack \in Nat /\ b.ack \in Nat /\ h.ack \in Nat
      BY <1>1, <1>3, <2>2, StateFileAssumption DEF TypeOK, Present, Binding
    <3> QED BY <2>1, <2>2, <3>1, <3>2, <1>7 DEF Derived, AheadOf
  <2>3. CASE Alike(file', m)
    BY <2>1, <2>3, <1>2, StateFileAssumption DEF Alike, AheadOf, Kept, Binding
  <2> QED BY <2>2, <2>3, <1>4
<1> QED BY <1>8, <1>9, <1>10, <1>11, <1>12 DEF Inv

-----------------------------------------------------------------------------
(***************************************************************************)
(* The other steps of the gateway                                          *)
(***************************************************************************)
\* A step that leaves the file alone, begins no work, and changes of the copies
\* at most whether they are enabled and revoked.
Quiet ==
  /\ \E h \in [Copies -> Binding \cup {NoBinding}] :
       /\ held' = h
       /\ \A c \in Copies : h[c] = held[c]
                            \/ (Present(held[c]) /\ h[c] \in Binding /\ Alike(h[c], held[c]))
       /\ ~ split => h["watch"] = h["state"]
  /\ watch' \in {"off", "running", "routing", "stopped"}
  /\ watch # "off" \/ watch' = watch
  /\ UNCHANGED <<file, gateway, split, flying, sent, console, hot, joins, starts, orders>>

\* A step that leaves the file alone and only disables a copy keeps the invariant.
LEMMA QuietKeeps == ASSUME Inv, Quiet PROVE Inv'
<1>1. TypeOK /\ Placed /\ OwnRuntime /\ ArchiveRests /\ CopyAhead
  BY DEF Inv
<1>2. /\ held' \in [Copies -> Binding \cup {NoBinding}]
      /\ \A c \in Copies : held'[c] = held[c]
                           \/ (Present(held[c]) /\ held'[c] \in Binding
                               /\ Alike(held'[c], held[c]))
      /\ ~ split => held'["watch"] = held'["state"]
  BY DEF Quiet
<1>3. \A c \in Copies : Present(held'[c]) => Present(held[c])
  BY <1>2
<1>4. \A c \in Copies : Present(held[c]) => Present(held'[c])
  BY <1>2, BindingPresent
<1>5. TypeOK'
  BY <1>1, <1>2 DEF Quiet, TypeOK
<1>6. Placed'
  <2>1. gateway' = "down" => \A c \in Copies : held'[c] = NoBinding
    BY <1>1, <1>3 DEF Quiet, Placed, Present
  <2>2. watch' # "off" => Present(held'["watch"])
    BY <1>1, <1>4 DEF Quiet, Placed, Copies
  <2>3. \A c \in Copies : Present(held'[c]) => held'[c].member <= joins'
    BY <1>1, <1>2, <1>3 DEF Quiet, Placed, Alike
  <2>4. gateway' = "down" => watch' = "off" /\ flying' = {}
    BY <1>1 DEF Quiet, Placed
  <2>5. Present(file') => file'.member <= joins'
    BY <1>1 DEF Quiet, Placed
  <2> QED BY <2>1, <2>2, <2>3, <2>4, <2>5 DEF Placed
<1>7. OwnRuntime'
  BY <1>1, <1>2, <1>3 DEF Quiet, OwnRuntime, Alike
<1>8. ArchiveRests'
  BY <1>1, <1>2, <1>3 DEF Quiet, ArchiveRests, Alike, Clean
<1>9. CopyAhead'
  BY <1>1, <1>2, <1>3 DEF Quiet, CopyAhead, Copies, Alike, AheadOf, Kept
<1> QED BY <1>5, <1>6, <1>7, <1>8, <1>9 DEF Inv

\* A copy that is only enabled or revoked anew.
LEMMA EnabledAlike ==
  ASSUME NEW b \in Binding, NEW e \in BOOLEAN, NEW r \in BOOLEAN
  PROVE  /\ [b EXCEPT !.enabled = e] \in Binding /\ Alike([b EXCEPT !.enabled = e], b)
         /\ [b EXCEPT !.enabled = e, !.revoked = r] \in Binding
         /\ Alike([b EXCEPT !.enabled = e, !.revoked = r], b)
BY DEF Binding, Alike

\* Holding such a copy is quiet.
LEMMA HoldsQuietly ==
  ASSUME TypeOK, NEW h, Present(held["watch"]),
         h = held["watch"] \/ (h \in Binding /\ Alike(h, held["watch"])), Hold("watch", h)
  PROVE  \E g \in [Copies -> Binding \cup {NoBinding}] :
           /\ held' = g
           /\ \A c \in Copies : g[c] = held[c]
                                \/ (Present(held[c]) /\ g[c] \in Binding /\ Alike(g[c], held[c]))
           /\ ~ split => g["watch"] = g["state"]
<1>1. held \in [Copies -> Binding \cup {NoBinding}] /\ h \in Binding
      /\ (~ split => held["watch"] = held["state"])
  BY DEF TypeOK, Present, Copies
<1>2. Alike(h, held["watch"])
  BY DEF Alike
<1>3. CASE split
  <2>1. held' = [held EXCEPT !["watch"] = h]
    BY <1>3 DEF Hold
  <2> QED BY <1>1, <1>2, <1>3, <2>1 DEF Copies
<1>4. CASE ~ split
  <2>1. held' = [k \in Copies |-> h]
    BY <1>4 DEF Hold
  <2> QED BY <1>1, <1>2, <1>4, <2>1 DEF Copies
<1> QED BY <1>3, <1>4

\* The steps with which the watch task ends, or only waits, are such steps.
LEMMA StopsQuietly ==
  ASSUME Inv, WatchStops \/ HeartbeatStops \/ RouteAsks \/ RouteFails
  PROVE  Quiet
<1> USE DEF mine, counts, external
<1>1. TypeOK /\ Placed /\ held["watch"] \in Binding \cup {NoBinding}
  BY DEF Inv, TypeOK, Copies
<1> DEFINE b == held["watch"]
<1>2. ASSUME Present(b)
      PROVE  Refreshed(b) = b \/ (Refreshed(b) \in Binding /\ Alike(Refreshed(b), b))
  <2>1. b \in Binding
    BY <1>1, <1>2 DEF Present
  <2>2. (b.enabled /\ (Loadable => FileStillMine(b))) \in BOOLEAN
    BY <2>1 DEF Binding
  <2> QED BY <2>1, <2>2, EnabledAlike DEF Refreshed
<1>3. CASE WatchStops
  <2>1. Present(b)
    BY <1>1, <1>3 DEF WatchStops, Watching, Placed
  <2> DEFINE h == IF Usable(b) THEN Refreshed(b) ELSE b
  <2>2. h = b \/ (h \in Binding /\ Alike(h, b))
    BY <1>2, <2>1
  <2>3. Hold("watch", h)
    BY <1>3 DEF WatchStops
  <2> HIDE DEF h
  <2> QED BY <1>1, <1>3, <2>1, <2>2, <2>3, HoldsQuietly DEF WatchStops, Watching, Quiet
<1>4. CASE HeartbeatStops
  <2>1. Present(b)
    BY <1>4 DEF HeartbeatStops, Usable
  <2> DEFINE h == Refreshed(b)
  <2>2. h = b \/ (h \in Binding /\ Alike(h, b))
    BY <1>2, <2>1
  <2>3. Hold("watch", h)
    BY <1>4 DEF HeartbeatStops
  <2>4. watch' = watch /\ watch \in {"off", "running", "routing", "stopped"}
    BY <1>1, <1>4 DEF HeartbeatStops, TypeOK
  <2> HIDE DEF h
  <2> QED BY <1>1, <1>4, <2>1, <2>2, <2>3, <2>4, HoldsQuietly DEF HeartbeatStops, Quiet
<1>5. CASE RouteAsks \/ RouteFails
  BY <1>1, <1>5 DEF RouteAsks, RouteFails, Watching, Quiet, TypeOK
<1> QED BY <1>3, <1>4, <1>5

\* The gateway starts: both copies are the file.
LEMMA StartKeeps == ASSUME Inv, Start PROVE Inv'
<1>1. TypeOK /\ Placed /\ OwnRuntime /\ ArchiveRests
  BY DEF Inv
<1>2. /\ file' = file /\ held' = [c \in Copies |-> file] /\ flying' = {} /\ gateway' = "up"
      /\ joins' = joins /\ hot' = hot /\ watch' \in {"off", "running"}
      /\ watch' # "off" => Present(file)
  BY <1>1 DEF Start, Placed, Usable
<1>3. TypeOK'
  <2>1. starts' \in 0 .. MaxStarts
    BY <1>1, StateFileAssumption DEF Start, TypeOK
  <2> QED BY <1>1, <1>2, <2>1 DEF Start, TypeOK, Copies
<1>4. Placed' /\ OwnRuntime'
  BY <1>1, <1>2 DEF Placed, OwnRuntime, Copies
<1>5. ArchiveRests'
  BY <1>1, <1>2 DEF ArchiveRests
<1>6. CopyAhead'
  <2>1. Present(file) => file.ack \in Nat
    BY <1>1, StateFileAssumption DEF TypeOK, Present, Binding
  <2> QED BY <1>2, <2>1 DEF CopyAhead, AheadOf, Copies
<1> QED BY <1>3, <1>4, <1>5, <1>6 DEF Inv

\* The gateway ends: nothing is left but the file.
LEMMA StopKeeps == ASSUME Inv, Stop PROVE Inv'
<1> USE DEF counts, external
<1>1. TypeOK /\ Placed /\ OwnRuntime /\ ArchiveRests
  BY DEF Inv
<1>2. /\ held' = [c \in Copies |-> NoBinding] /\ ~ Present(NoBinding)
      /\ \A c \in Copies : held'[c] = NoBinding
  BY DEF Stop, Present
<1>3. TypeOK'
  BY <1>1, <1>2 DEF Stop, TypeOK, Copies
<1>4. Placed' /\ OwnRuntime'
  BY <1>1, <1>2 DEF Stop, Placed, OwnRuntime
<1>5. ArchiveRests' /\ CopyAhead'
  BY <1>1, <1>2 DEF Stop, ArchiveRests, CopyAhead, Copies
<1> QED BY <1>3, <1>4, <1>5 DEF Inv

\* A copy is replaced by what the file holds.
LEMMA NeighbourKeeps == ASSUME Inv, NeighbourExpires PROVE Inv'
<1> USE DEF counts, external
<1>1. TypeOK /\ Placed /\ OwnRuntime /\ ArchiveRests
  BY DEF Inv
<1>2. /\ held' \in [Copies -> Binding \cup {NoBinding}]
      /\ held'["watch"] = held["watch"] /\ held'["state"] = file
      /\ split' = TRUE
  BY <1>1 DEF NeighbourExpires, TypeOK, Copies
<1>3. TypeOK'
  BY <1>1, <1>2 DEF NeighbourExpires, TypeOK
<1>4. Placed' /\ OwnRuntime'
  BY <1>1, <1>2 DEF NeighbourExpires, Placed, OwnRuntime, Copies
<1>5. ArchiveRests'
  BY <1>1, <1>2 DEF NeighbourExpires, ArchiveRests, Copies
<1> QED BY <1>2, <1>3, <1>4, <1>5 DEF Inv, CopyAhead

\* A rejection marks the file, disables the copy that met it, and replaces the
\* other by the file.
LEMMA RejectedKeeps ==
  ASSUME Inv, NEW c \in Copies, NEW r \in BOOLEAN, Rejected(c, r)
  PROVE  Inv'
<1> USE DEF mine, counts, external
<1> DEFINE b == held[c]
           same == Present(file) /\ SameGeneration(file, b)
           marked == r \/ IF same THEN file.revoked ELSE b.revoked
           d == Disabled(b, marked)
<1>1. TypeOK /\ Placed /\ OwnRuntime /\ ArchiveRests
  BY DEF Inv
<1>2. Present(b) /\ b \in Binding /\ gateway = "up" /\ (Present(file) => file \in Binding)
  BY <1>1 DEF Rejected, TypeOK, Present
<1>3. marked \in BOOLEAN
  BY <1>2 DEF Binding
<1>4. d \in Binding /\ Alike(d, b)
  BY <1>2, <1>3, EnabledAlike DEF Disabled
<1>5. file' = IF same THEN Disabled(file, marked) ELSE file
  BY DEF Rejected
<1>6. \/ file' = file
      \/ /\ file \in Binding /\ file' \in Binding /\ Alike(file', file)
         /\ file'.archived = file.archived
  <2>1. CASE same
    <3>1. Disabled(file, marked) \in Binding /\ Alike(Disabled(file, marked), file)
      BY <1>2, <1>3, <2>1, EnabledAlike DEF Disabled
    <3>2. Disabled(file, marked).archived = file.archived
      BY <1>2, <2>1 DEF Disabled, Binding
    <3> QED BY <1>2, <1>5, <2>1, <3>1, <3>2
  <2>2. CASE ~ same
    BY <1>5, <2>2
  <2> QED BY <2>1, <2>2
<1>7. /\ held' = [k \in Copies |-> IF k = "state" THEN file' ELSE d]
      /\ held'["state"] = file' /\ held'["watch"] = d
  <2>1. held' = [k \in Copies |-> IF k = "state" THEN file' ELSE d]
    BY DEF Rejected
  <2> QED BY <2>1 DEF Copies
<1>8. /\ split' = TRUE /\ UNCHANGED <<gateway, flying, sent, console, hot, joins, starts, orders>>
      /\ watch' \in {watch, "stopped"}
  BY DEF Rejected
<1>9. TypeOK'
  BY <1>1, <1>4, <1>6, <1>7, <1>8 DEF TypeOK, Copies
<1>10. Present(file') => Present(file) /\ file'.member = file.member
  BY <1>6, BindingPresent DEF Alike
<1>11. Placed'
  <2>1. gateway' = "up" /\ Present(held'["watch"])
    BY <1>2, <1>4, <1>7, <1>8, BindingPresent
  <2>2. Present(file') => file'.member <= joins'
    BY <1>1, <1>8, <1>10 DEF Placed
  <2>3. d.member <= joins'
    BY <1>1, <1>2, <1>4, <1>8 DEF Placed, Alike
  <2> QED BY <2>1, <2>2, <2>3, <1>7 DEF Placed, Copies
<1>12. OwnRuntime'
  <2>1. d.lineage = d.member
    BY <1>1, <1>2, <1>4 DEF OwnRuntime, Alike
  <2>2. Present(file') => file'.lineage = file'.member
    BY <1>1, <1>6, <1>10 DEF OwnRuntime, Alike
  <2> QED BY <2>1, <2>2, <1>7 DEF OwnRuntime, Copies
<1>13. ArchiveRests'
  <2> SUFFICES ASSUME ~ hot', Present(file'), NEW s \in file'.archived
               PROVE  /\ s \notin flying' /\ Clean(file', s)
                      /\ \A x \in Copies : Present(held'[x]) => Clean(held'[x], s)
    BY DEF ArchiveRests
  <2>1. s \notin flying /\ Clean(file, s) /\ Clean(b, s)
    BY <1>1, <1>2, <1>6, <1>8, <1>10 DEF ArchiveRests
  <2>2. Clean(file', s) /\ Clean(d, s)
    BY <1>4, <1>6, <2>1 DEF Clean, Alike
  <2> QED BY <1>7, <1>8, <2>1, <2>2 DEF Copies
<1> QED BY <1>8, <1>9, <1>11, <1>12, <1>13 DEF Inv, CopyAhead

-----------------------------------------------------------------------------
(***************************************************************************)
(* The command line                                                        *)
(***************************************************************************)
\* A transaction of the command line: it changes the file and no process.
Transaction ==
  /\ orders' \in 0 .. MaxOrders /\ console' \in Command \cup {NoCommand}
  /\ UNCHANGED <<gateway, held, split, watch, flying, starts>>

\* A command on a present binding is one transaction of the operator.
LEMMA ConfiguredIsTransaction ==
  ASSUME TypeOK, Configured
  PROVE  /\ Transaction /\ Present(file) /\ file \in Binding
         /\ UNCHANGED <<sent, joins, hot>>
<1>1. orders' \in 0 .. MaxOrders
  BY StateFileAssumption DEF TypeOK, Configured, Commanded
<1> QED BY <1>1 DEF TypeOK, Configured, Commanded, Present, Transaction, process

\* A transaction that touches no runtime field and no archived lifecycle.
LEMMA AdministeredKeeps ==
  ASSUME Inv, Transaction, UNCHANGED <<sent, joins, hot>>,
         NEW f, file' = f, f \in Binding, file \in Binding,
         f.member = file.member, f.lineage = file.lineage, f.ack = file.ack,
         f.intent = file.intent, f.journal = file.journal, f.abandoned = file.abandoned,
         f.archived = file.archived
  PROVE  Inv'
<1>1. TypeOK /\ Placed /\ OwnRuntime /\ ArchiveRests /\ CopyAhead /\ Present(file)
  BY BindingPresent DEF Inv
<1>2. TypeOK'
  BY <1>1 DEF Transaction, TypeOK
<1>3. Placed'
  BY <1>1 DEF Transaction, Placed
<1>4. OwnRuntime'
  BY <1>1 DEF Transaction, OwnRuntime
<1>5. ArchiveRests'
  BY <1>1 DEF Transaction, ArchiveRests, Clean
<1>6. CopyAhead'
  BY <1>1 DEF Transaction, CopyAhead, AheadOf, Kept
<1> QED BY <1>2, <1>3, <1>4, <1>5, <1>6 DEF Inv

\* Enable and disable, fence, rotate, swap and recover.
Administers ==
  \/ RotateCurrentEpochSession \/ SwapCredential \/ RecoverFalseRevoked
  \/ \E e \in BOOLEAN : Toggle(e)
  \/ \E u \in 0 .. N : Fence(u)

\* Enable, disable, fence, rotate and the two renewal transactions keep it.
LEMMA AdministersKeep == ASSUME Inv, Administers PROVE Inv'
<1>1. TypeOK /\ Configured
  BY DEF Inv, Administers, RotateCurrentEpochSession, SwapCredential, RecoverFalseRevoked,
         Toggle, Fence
<1>2. Transaction /\ file \in Binding /\ UNCHANGED <<sent, joins, hot>>
  BY <1>1, ConfiguredIsTransaction
<1>3. PICK f : /\ file' = f
               /\ \/ f = [file EXCEPT !.route = "unset", !.rotate = TRUE]
                  \/ f = [file EXCEPT !.cred = 1]
                  \/ f = [file EXCEPT !.revoked = FALSE, !.enabled = TRUE]
                  \/ \E e \in BOOLEAN : f = [file EXCEPT !.enabled = e]
                  \/ \E u \in 0 .. N : f = [file EXCEPT !.fence = u]
  BY DEF Administers, RotateCurrentEpochSession, SwapCredential, RecoverFalseRevoked,
         Toggle, Fence
<1>4. /\ f \in Binding
      /\ f.member = file.member /\ f.lineage = file.lineage /\ f.ack = file.ack
      /\ f.intent = file.intent /\ f.journal = file.journal /\ f.abandoned = file.abandoned
      /\ f.archived = file.archived
  <2>1. CASE f = [file EXCEPT !.route = "unset", !.rotate = TRUE]
    BY <1>2, <2>1 DEF Binding
  <2>2. CASE f = [file EXCEPT !.cred = 1]
    BY <1>2, <2>2 DEF Binding
  <2>3. CASE f = [file EXCEPT !.revoked = FALSE, !.enabled = TRUE]
    BY <1>2, <2>3 DEF Binding
  <2>4. CASE \E e \in BOOLEAN : f = [file EXCEPT !.enabled = e]
    BY <1>2, <2>4 DEF Binding
  <2>5. CASE \E u \in 0 .. N : f = [file EXCEPT !.fence = u]
    BY <1>2, <2>5 DEF Binding
  <2> QED BY <1>3, <2>1, <2>2, <2>3, <2>4, <2>5
<1> QED BY <1>2, <1>3, <1>4, AdministeredKeeps

\* A new membership, later than every other one.
LEMMA JoinKeeps == ASSUME Inv, Join PROVE Inv'
<1> USE DEF process
<1>1. TypeOK /\ Placed /\ OwnRuntime
  BY DEF Inv
<1>2. joins' = joins + 1 /\ joins \in Nat /\ joins' \in 1 .. MaxJoins /\ file' = Joined(joins')
  BY <1>1, StateFileAssumption DEF Join, TypeOK
<1>3. Joined(joins') \in Binding
  BY <1>2, StateFileAssumption DEF Joined, Binding, Sources
<1>4. /\ Joined(joins').member = joins' /\ Joined(joins').lineage = joins'
      /\ Joined(joins').archived = {}
  BY DEF Joined
<1>5. TypeOK'
  <2>1. orders' \in 0 .. MaxOrders
    BY <1>1, StateFileAssumption DEF Join, Commanded, TypeOK
  <2>2. sent' \subseteq Sources
    BY DEF Join
  <2> QED BY <1>1, <1>2, <1>3, <2>1, <2>2 DEF Join, Commanded, TypeOK
<1>6. UNCHANGED <<gateway, held, split, watch, flying, starts>>
  BY DEF Join, Commanded
<1>7. \A c \in Copies : Present(held[c]) => held[c].member \in Nat /\ held[c].member <= joins
  BY <1>1, StateFileAssumption DEF TypeOK, Placed, Present, Binding
<1>8. Placed'
  <2>1. \A c \in Copies : Present(held'[c]) => held'[c].member <= joins'
    BY <1>2, <1>6, <1>7
  <2>2. Present(file') => file'.member <= joins'
    BY <1>2, <1>4
  <2> QED BY <1>1, <1>6, <2>1, <2>2 DEF Placed
<1>9. OwnRuntime'
  BY <1>1, <1>2, <1>4, <1>6 DEF OwnRuntime
<1>10. ArchiveRests'
  BY <1>2, <1>4 DEF ArchiveRests
<1>11. CopyAhead'
  BY <1>2, <1>4, <1>6, <1>7 DEF CopyAhead, Copies
<1> QED BY <1>5, <1>8, <1>9, <1>10, <1>11 DEF Inv

\* A removed binding keeps it.
LEMMA LeaveKeeps == ASSUME Inv, Leave PROVE Inv'
<1>1. TypeOK /\ Placed /\ OwnRuntime /\ Transaction /\ UNCHANGED <<sent, joins, hot>>
  BY ConfiguredIsTransaction DEF Inv, Leave
<1>2. ~ Present(file') /\ file' = NoBinding
  BY DEF Leave, Present
<1>3. TypeOK' /\ Placed' /\ OwnRuntime'
  BY <1>1, <1>2 DEF Transaction, TypeOK, Placed, OwnRuntime
<1> QED BY <1>2, <1>3 DEF Inv, ArchiveRests, CopyAhead

\* The reads of a recovery change nothing but the console.
LEMMA ReadsKeep ==
  ASSUME Inv, NEW s \in Sources, NEW cmd \in {"reconcile", "orphan"}, Reads(cmd, s)
  PROVE  Inv'
<1>1. TypeOK /\ Placed /\ OwnRuntime /\ ArchiveRests /\ CopyAhead
  BY DEF Inv
<1>2. file \in Binding /\ UNCHANGED <<file, sent, hot, joins>>
  BY <1>1 DEF Reads, TypeOK, Present
<1>3. console' \in Command
  BY <1>2 DEF Reads, Command, Binding
<1>4. Transaction
  <2>1. orders' \in 0 .. MaxOrders
    BY <1>1, StateFileAssumption DEF Reads, Commanded, TypeOK
  <2> QED BY <1>3, <2>1 DEF Reads, Commanded, process, Transaction
<1>5. TypeOK'
  BY <1>1, <1>2, <1>4 DEF Transaction, TypeOK
<1>6. Placed' /\ OwnRuntime' /\ ArchiveRests' /\ CopyAhead'
  BY <1>1, <1>2, <1>4 DEF Transaction, Placed, OwnRuntime, ArchiveRests, CopyAhead
<1> QED BY <1>5, <1>6 DEF Inv

\* The transaction of a recovery.  While the gateway is up it makes the case hot;
\* while it is down there is no copy to disagree.
LEMMA RecoveryKeeps == ASSUME Inv, RecoveryCommits PROVE Inv'
<1> DEFINE s == console.at
           archives == console.cmd = "reconcile" /\ Present(file) /\ MayArchive(s, console)
           abandons == console.cmd = "orphan" /\ Present(file) /\ MayAbandon(s, console)
<1>1. TypeOK /\ Placed /\ OwnRuntime /\ ArchiveRests /\ CopyAhead
  BY DEF Inv
<1>2. /\ file' = IF archives THEN Archive(s) ELSE IF abandons THEN Abandon(s) ELSE file
      /\ hot' = (hot \/ ((archives \/ abandons) /\ gateway = "up"))
  BY DEF RecoveryCommits
<1>3. s \in Sources
  BY <1>1 DEF RecoveryCommits, TypeOK, Command, NoCommand
<1>4. /\ UNCHANGED <<gateway, held, split, watch, flying, sent, joins, starts, orders>>
      /\ console' = NoCommand
  BY DEF RecoveryCommits, process, counts
<1>5. Present(file) => file \in Binding
  BY <1>1 DEF TypeOK, Present
<1>6. CASE ~ archives /\ ~ abandons
  <2>1. file' = file /\ hot' = hot
    BY <1>1, <1>2, <1>6 DEF TypeOK
  <2>2. TypeOK'
    BY <1>1, <1>4, <2>1 DEF TypeOK
  <2>3. Placed' /\ OwnRuntime' /\ ArchiveRests' /\ CopyAhead'
    BY <1>1, <1>4, <2>1 DEF Placed, OwnRuntime, ArchiveRests, CopyAhead
  <2> QED BY <2>2, <2>3 DEF Inv
<1>7. CASE archives \/ abandons
  <2>1. file \in Binding /\ Present(file)
    BY <1>5, <1>7
  <2>2. file' = Archive(s) \/ file' = Abandon(s)
    BY <1>2, <1>7
  <2>3. /\ file' \in Binding /\ file'.member = file.member /\ file'.lineage = file.lineage
        /\ file'.ack = file.ack
    <3>1. Archive(s) \in Binding /\ Abandon(s) \in Binding
      BY <1>3, <2>1 DEF Archive, Abandon, Binding
    <3>2. CASE file' = Archive(s)
      BY <2>1, <3>1, <3>2 DEF Archive, Binding
    <3>3. CASE file' = Abandon(s)
      BY <2>1, <3>1, <3>3 DEF Abandon, Binding
    <3> QED BY <2>2, <3>2, <3>3
  <2>4. hot' \in BOOLEAN /\ (~ hot' => ~ hot /\ gateway = "down")
    BY <1>1, <1>2, <1>7 DEF TypeOK
  <2>5. TypeOK'
    BY <1>1, <1>4, <2>3, <2>4 DEF TypeOK
  <2>6. Placed' /\ OwnRuntime'
    BY <1>1, <1>4, <2>1, <2>3 DEF Placed, OwnRuntime
  <2>7. ~ hot' => flying' = {} /\ \A c \in Copies : ~ Present(held'[c])
    BY <1>1, <1>4, <2>4 DEF Placed, Present
  <2>8. ArchiveRests'
    <3> SUFFICES ASSUME ~ hot', NEW t \in file'.archived
                 PROVE  Clean(file', t)
      BY <2>7 DEF ArchiveRests
    <3>1. \A u \in file.archived : Clean(file, u)
      BY <1>1, <2>1, <2>4 DEF ArchiveRests
    <3>2. CASE archives
      <4>1. file' = Archive(s) /\ file.ack >= s /\ file.intent[s] = "none"
        BY <1>2, <3>2 DEF MayArchive
      <4>2. /\ file'.archived = file.archived \cup {s} /\ file'.intent = file.intent
            /\ file'.journal = [file.journal EXCEPT ![s] = "none"]
            /\ file.journal \in [Sources -> {"none", "blocked"}]
        BY <4>1, <2>1 DEF Archive, Binding
      <4> QED BY <3>1, <4>1, <4>2, <2>3, <1>3 DEF Clean
    <3>3. CASE ~ archives
      <4>1. file' = Abandon(s)
        BY <1>2, <1>7, <3>3
      <4>2. /\ file'.archived = file.archived /\ file'.journal = file.journal
            /\ file'.intent = [file.intent EXCEPT ![s] = "none"]
            /\ file.intent \in [Sources -> {"none", "selected", "frozen", "posted"}]
        BY <4>1, <2>1 DEF Abandon, Binding
      <4> QED BY <3>1, <4>2, <2>3, <1>3 DEF Clean
    <3> QED BY <3>2, <3>3
  <2>9. CopyAhead'
    BY <2>7 DEF CopyAhead, Copies
  <2> QED BY <2>5, <2>6, <2>8, <2>9 DEF Inv
<1> QED BY <1>6, <1>7

-----------------------------------------------------------------------------
(***************************************************************************)
(* The invariant                                                           *)
(***************************************************************************)
\* A profile with its first membership and no gateway satisfies the invariant.
LEMMA InvInit == Init => Inv
<1> SUFFICES ASSUME Init PROVE Inv
  OBVIOUS
<1>1. Joined(1) \in Binding
  BY StateFileAssumption DEF Joined, Binding, Sources
<1>2. /\ file = Joined(1) /\ file.member = 1 /\ file.lineage = 1 /\ file.archived = {}
      /\ ~ Present(NoBinding) /\ \A c \in Copies : held[c] = NoBinding
  BY DEF Init, Joined, Present
<1>3. TypeOK
  <2>1. 1 \in 1 .. MaxJoins /\ 0 \in 0 .. MaxStarts /\ 0 \in 0 .. MaxOrders
    BY StateFileAssumption
  <2>2. /\ file \in Binding \cup {NoBinding} /\ console \in Command \cup {NoCommand}
        /\ held \in [Copies -> Binding \cup {NoBinding}]
    BY <1>1 DEF Init
  <2>3. held["watch"] = held["state"]
    BY DEF Init, Copies
  <2> QED BY <2>1, <2>2, <2>3 DEF Init, TypeOK
<1> QED
  BY <1>2, <1>3 DEF Init, Inv, Placed, OwnRuntime, ArchiveRests, CopyAhead, Copies

\* The steps of the gateway and of the operator, by the lemma that covers them.
LEMMA GatewaySteps ==
  ASSUME GatewayNext
  PROVE  \/ Saves \/ Start \/ Stop \/ NeighbourExpires
         \/ WatchStops \/ HeartbeatStops \/ RouteAsks \/ RouteFails
         \/ \E c \in Copies, r \in BOOLEAN : Rejected(c, r)
BY DEF GatewayNext, Saves

\* The same for the operator.
LEMMA OperatorSteps ==
  ASSUME OperatorNext
  PROVE  \/ Administers \/ Join \/ Leave \/ RecoveryCommits
         \/ \E s \in Sources, cmd \in {"reconcile", "orphan"} : Reads(cmd, s)
BY DEF OperatorNext, Administers, ReconcileReads, OrphanReads

\* Every step of either writer keeps it.
LEMMA InvNext == Inv /\ [Next]_vars => Inv'
<1> SUFFICES ASSUME Inv, [Next]_vars PROVE Inv'
  OBVIOUS
<1>1. TypeOK /\ Placed
  BY DEF Inv
<1>2. CASE Saves
  BY <1>1, <1>2, SavesAreSavings, SavingKeeps
<1>3. CASE WatchStops \/ HeartbeatStops \/ RouteAsks \/ RouteFails
  BY <1>3, StopsQuietly, QuietKeeps
<1>4. CASE GatewayNext
  BY <1>2, <1>3, <1>4, GatewaySteps, StartKeeps, StopKeeps, NeighbourKeeps, RejectedKeeps
<1>5. CASE OperatorNext
  BY <1>5, OperatorSteps, AdministersKeep, JoinKeeps, LeaveKeeps, ReadsKeep, RecoveryKeeps
<1>6. CASE UNCHANGED vars
  BY <1>6 DEF vars, Inv, TypeOK, Placed, OwnRuntime, ArchiveRests, CopyAhead
<1> QED BY <1>4, <1>5, <1>6 DEF Next

\* The file and the copies agree as far as Inv says, for ever: the strengthening
\* every theorem below follows from.
THEOREM InvHolds == Spec => []Inv
BY InvInit, InvNext, PTL DEF Spec

-----------------------------------------------------------------------------
(***************************************************************************)
(* The theorems                                                            *)
(***************************************************************************)
\* Every variable stays within its type, whatever is joined, started or ordered.
THEOREM TypeCorrect == Spec => []TypeOK
<1>1. Inv => TypeOK
  BY DEF Inv
<1> QED BY <1>1, InvHolds, PTL

\* The file can be loaded again after every write of the gateway and the command
\* line, if recoveries are committed only while the gateway is down.
THEOREM ColdRecoveriesLoad == Spec => []LoadableUnlessHot
<1>1. Inv => LoadableUnlessHot
  BY DEF Inv, ArchiveRests, Clean, LoadableUnlessHot, Loadable
<1> QED BY <1>1, InvHolds, PTL

\* A gateway that still holds an old membership never saves what it did under it
\* into the binding of a new one.
THEOREM RuntimeIsOwn == Spec => []RuntimeOfThisMember
<1>1. Inv => RuntimeOfThisMember
  BY DEF Inv, OwnRuntime, RuntimeOfThisMember
<1> QED BY <1>1, InvHolds, PTL

\* What a step of the gateway may do to the file, by kind of step.
LEMMA GatewayFile ==
  ASSUME Inv, GatewayNext
  PROVE  \/ file' = file
         \/ \E c \in Copies, m \in Binding, k \in BOOLEAN :
              /\ Saving(c, m, k) /\ file \in Binding /\ SameGeneration(file, m)
              /\ file' = Merged(m, k)
         \/ /\ file \in Binding /\ split' = TRUE
            /\ \E r \in BOOLEAN : (file.revoked => r) /\ file' = Disabled(file, r)
<1>1. TypeOK /\ Placed
  BY DEF Inv
<1>2. CASE Saves
  BY <1>1, <1>2, SavesAreSavings, SavingResult
<1>3. CASE Start \/ Stop \/ NeighbourExpires \/ WatchStops \/ HeartbeatStops
           \/ RouteAsks \/ RouteFails
  BY <1>3 DEF Start, Stop, NeighbourExpires, WatchStops, HeartbeatStops, RouteAsks, RouteFails
<1>4. ASSUME NEW c \in Copies, NEW r \in BOOLEAN, Rejected(c, r)
      PROVE  \/ file' = file
             \/ /\ file \in Binding /\ split' = TRUE
                /\ \E q \in BOOLEAN : (file.revoked => q) /\ file' = Disabled(file, q)
  <2> DEFINE same == Present(file) /\ SameGeneration(file, held[c])
             marked == r \/ IF same THEN file.revoked ELSE held[c].revoked
  <2>1. split' = TRUE /\ file' = IF same THEN Disabled(file, marked) ELSE file
    BY <1>4 DEF Rejected, mine
  <2>2. CASE same
    <3>1. file \in Binding
      BY <1>1, <2>2 DEF TypeOK, Present
    <3>2. marked \in BOOLEAN /\ (file.revoked => marked)
      BY <2>2, <3>1 DEF Binding
    <3> QED BY <2>1, <2>2, <3>1, <3>2
  <2>3. CASE ~ same
    BY <2>1, <2>3
  <2> QED BY <2>2, <2>3
<1> QED BY <1>2, <1>3, <1>4, GatewaySteps

\* What the disabling of a rejected binding leaves as it was.
LEMMA DisabledFacts ==
  ASSUME NEW b \in Binding, NEW r \in BOOLEAN
  PROVE  /\ Disabled(b, r) \in Binding /\ Alike(Disabled(b, r), b)
         /\ Disabled(b, r).enabled = FALSE /\ Disabled(b, r).revoked = r
         /\ Disabled(b, r).fence = b.fence /\ Disabled(b, r).archived = b.archived
         /\ Disabled(b, r).denied = b.denied /\ Disabled(b, r).rotate = b.rotate
BY DEF Disabled, Binding, Alike

\* No save, rejection or restart of the gateway undoes a decision of the operator
\* or a revocation of the Room.
THEOREM OperatorWins == Spec => OperatorsDecide
<1>1. ASSUME Inv, GatewayNext
      PROVE  /\ Present(file) = Present(file)'
             /\ Present(file) =>
                  /\ file'.enabled => file.enabled
                  /\ file.revoked => file'.revoked
                  /\ file'.cred = file.cred /\ file'.fence = file.fence
                  /\ file'.archived = file.archived
                  /\ file.denied \subseteq file'.denied
  <2>1. CASE file' = file
    BY <2>1 DEF Present
  <2>2. ASSUME NEW c \in Copies, NEW m \in Binding, NEW k \in BOOLEAN,
               file \in Binding, SameGeneration(file, m), file' = Merged(m, k)
        PROVE  /\ Present(file) /\ Present(file')
               /\ file'.enabled = file.enabled /\ file'.revoked = file.revoked
               /\ file'.cred = file.cred /\ file'.fence = file.fence
               /\ file'.archived = file.archived
               /\ file.denied \subseteq file'.denied
    BY <2>2, MergedFacts, BindingPresent DEF Alike, SameGeneration
  <2>3. ASSUME file \in Binding, NEW r \in BOOLEAN, file.revoked => r,
               file' = Disabled(file, r)
        PROVE  /\ Present(file) /\ Present(file')
               /\ file'.enabled => file.enabled
               /\ file.revoked => file'.revoked
               /\ file'.cred = file.cred /\ file'.fence = file.fence
               /\ file'.archived = file.archived
               /\ file.denied \subseteq file'.denied
    BY <2>3, DisabledFacts, BindingPresent DEF Alike
  <2> QED BY <1>1, <2>1, <2>2, <2>3, GatewayFile DEF Present
<1> QED BY <1>1, InvHolds, PTL DEF Spec, OperatorsDecide, Next

\* What a transaction of the command line leaves of the binding it finds, if it
\* is the same membership afterwards.
LEMMA OperatorFile ==
  ASSUME Inv, OperatorNext, SameBinding
  PROVE  /\ split' = split
         /\ file.rotate => file'.rotate
         /\ ~ hot' => AheadOf(file', file)
<1>1. TypeOK /\ Placed /\ file \in Binding /\ file.ack \in Nat
  BY StateFileAssumption DEF Inv, TypeOK, SameBinding, Present, Binding
<1>2. CASE Administers
  <2>1. TypeOK /\ Configured
    BY <1>1, <1>2 DEF Administers, RotateCurrentEpochSession, SwapCredential,
                      RecoverFalseRevoked, Toggle, Fence
  <2>2. split' = split
    BY <2>1, ConfiguredIsTransaction DEF Transaction
  <2>3. /\ file.rotate => file'.rotate
        /\ file'.ack = file.ack /\ file'.intent = file.intent
        /\ file'.abandoned = file.abandoned
    <3>1. CASE RotateCurrentEpochSession
      BY <1>1, <3>1 DEF RotateCurrentEpochSession, Binding
    <3>2. CASE SwapCredential
      BY <1>1, <3>2 DEF SwapCredential, Binding
    <3>3. CASE RecoverFalseRevoked
      BY <1>1, <3>3 DEF RecoverFalseRevoked, Binding
    <3>4. CASE \E e \in BOOLEAN : Toggle(e)
      BY <1>1, <3>4 DEF Toggle, Binding
    <3>5. CASE \E u \in 0 .. N : Fence(u)
      BY <1>1, <3>5 DEF Fence, Binding
    <3> QED BY <1>2, <3>1, <3>2, <3>3, <3>4, <3>5 DEF Administers
  <2> QED BY <1>1, <2>2, <2>3 DEF AheadOf, Kept
<1>3. CASE Join
  <2>1. file'.member = joins + 1 /\ joins \in Nat
    BY <1>1, <1>3, StateFileAssumption DEF Join, Joined, TypeOK
  <2>2. file.member <= joins /\ file.member \in Nat
    BY <1>1, StateFileAssumption DEF Placed, SameBinding, Binding
  <2> QED BY <2>1, <2>2 DEF SameBinding
<1>4. CASE Leave
  BY <1>4 DEF Leave, SameBinding, Present
<1>5. ASSUME NEW s \in Sources, NEW cmd \in {"reconcile", "orphan"}, Reads(cmd, s)
      PROVE  file' = file /\ split' = split
  BY <1>5 DEF Reads, Commanded, process
<1>6. CASE RecoveryCommits
  <2> DEFINE s == console.at
  <2>1. \/ file' = file
        \/ file' = Archive(s)
        \/ file' = Abandon(s) /\ file.intent[s] = "selected"
    BY <1>6 DEF RecoveryCommits, MayAbandon
  <2>2. split' = split
    BY <1>6 DEF RecoveryCommits, process
  <2>3. CASE file' = Archive(s)
    <3>1. /\ file'.rotate = file.rotate /\ file'.ack = file.ack
          /\ file'.intent = file.intent /\ file'.abandoned = file.abandoned
      BY <1>1, <2>3 DEF Archive, Binding
    <3> QED BY <1>1, <2>2, <3>1 DEF AheadOf, Kept
  <2>4. CASE file' = Abandon(s) /\ file.intent[s] = "selected"
    <3>1. /\ file'.rotate = file.rotate /\ file'.ack = file.ack
          /\ file'.intent = [file.intent EXCEPT ![s] = "none"]
          /\ file'.abandoned = file.abandoned \cup {s}
      BY <1>1, <2>4 DEF Abandon, Binding
    <3>2. \A t \in Sources : Kept(file, t) => Kept(file', t)
      BY <1>1, <2>4, <3>1 DEF Kept, Binding
    <3> QED BY <1>1, <2>2, <3>1, <3>2 DEF AheadOf
  <2> QED BY <1>1, <2>1, <2>2, <2>3, <2>4 DEF AheadOf
<1> QED BY <1>1, <1>2, <1>3, <1>4, <1>5, <1>6, OperatorSteps DEF AheadOf

\* A rotation of the transcript that the operator has authorized is consumed by
\* the watch task that has read the marker, and never by accident.
THEOREM RotationIsHonoured == Spec => RotationHonoured
<1>1. ASSUME Inv, [Next]_vars, SameBinding, file.rotate, ~ file'.rotate
      PROVE  held["watch"].rotate /\ file'.route = "scoped"
  <2>1. file' # file
    BY <1>1
  <2>2. GatewayNext
    BY <1>1, <2>1, OperatorFile DEF Next, vars
  <2>3. ASSUME NEW c \in Copies, NEW m \in Binding, NEW k \in BOOLEAN,
               Saving(c, m, k), file \in Binding, SameGeneration(file, m),
               file' = Merged(m, k)
        PROVE  held["watch"].rotate /\ file'.route = "scoped"
    <3>1. k
      BY <1>1, <2>3, MergedFacts
    <3> QED BY <2>3, <3>1, MergedFacts DEF Saving
  <2>4. ASSUME file \in Binding, NEW r \in BOOLEAN, file' = Disabled(file, r)
        PROVE  FALSE
    BY <1>1, <2>4, DisabledFacts
  <2> QED BY <1>1, <2>1, <2>2, <2>3, <2>4, GatewayFile
<1>2. Inv /\ [Next]_vars =>
        (SameBinding /\ file.rotate /\ ~ file'.rotate =>
           held.watch.rotate /\ file'.route = "scoped")
  BY <1>1
<1> QED BY <1>2, InvHolds, PTL DEF Spec, RotationHonoured

\* With one object in memory and no recovery under it, neither writer loses what
\* the other one recorded.
THEOREM OneCopyKeepsAll == Spec => OneCopyLosesNothing
<1>1. ASSUME Inv, [Next]_vars, SameBinding, ~ split', ~ hot'
      PROVE  AheadOf(file', file)
  <2>1. TypeOK /\ CopyAhead /\ file \in Binding /\ file.ack \in Nat
    BY <1>1, StateFileAssumption DEF Inv, TypeOK, SameBinding, Present, Binding
  <2>2. CASE file' = file
    BY <2>1, <2>2 DEF AheadOf
  <2>3. ASSUME NEW c \in Copies, NEW m \in Binding, NEW k \in BOOLEAN,
               Saving(c, m, k), SameGeneration(file, m), file' = Merged(m, k)
        PROVE  AheadOf(file', file)
    <3>1. ~ split /\ ~ hot /\ c \in Copies /\ Present(held[c])
          /\ Derived(m, held[c]) /\ k \in BOOLEAN
      BY <1>1, <2>3 DEF Saving
    <3>2. held[c] = held["watch"]
      BY <2>1, <3>1 DEF TypeOK, Copies
    <3>3. held["watch"].member = file.member /\ Present(file)
      BY <1>1, <2>3, <3>1, <3>2 DEF Derived, SameGeneration, SameBinding
    <3>4. AheadOf(held["watch"], file)
      BY <2>1, <3>1, <3>2, <3>3 DEF CopyAhead
    <3>5. AheadOf(m, held["watch"])
      BY <3>1, <3>2 DEF Derived
    <3>6. m.ack \in Nat /\ held["watch"].ack \in Nat
      BY <2>1, <3>1, <3>2, StateFileAssumption DEF TypeOK, Present, Binding, Copies
    <3>7. AheadOf(m, file)
      BY <2>1, <3>4, <3>5, <3>6 DEF AheadOf
    <3>8. Alike(file', m)
      BY <2>1, <2>3, <3>1, MergedFacts
    <3> QED BY <3>7, <3>8 DEF Alike, AheadOf, Kept
  <2>4. CASE GatewayNext
    BY <1>1, <2>2, <2>3, <2>4, GatewayFile
  <2>5. CASE OperatorNext
    BY <1>1, <2>5, OperatorFile
  <2> QED BY <1>1, <2>2, <2>4, <2>5 DEF Next, vars
<1>2. Inv /\ [Next]_vars =>
        (SameBinding /\ ~ split' /\ ~ hot' =>
           /\ file.ack <= file'.ack
           /\ file.abandoned \subseteq file'.abandoned
           /\ \A s \in Sources :
                file.intent[s] \in {"frozen", "posted"} =>
                  file'.intent[s] \in {"frozen", "posted"} \/ file'.ack >= s)
  BY <1>1 DEF AheadOf, Kept
<1> QED BY <1>2, InvHolds, PTL DEF Spec, OneCopyLosesNothing
=============================================================================
