------------------------- MODULE ExternalActionProofs -------------------------
(***************************************************************************)
(* Proofs about external contributions, for any number of overlapping       *)
(* calls, epochs, messages of others and failures.                         *)
(***************************************************************************)
EXTENDS ExternalAction, TLAPS

\* The call has a copy of the journal.
Has(c) == call[c].at \in Points

\* What holds of every copy of the journal, the file included, however old.
Held(mem) ==
  /\ action # NoAction /\ mem.mode = action.mode /\ mem.recipients = action.recipients
  /\ mem.epoch <= room.epoch
  /\ mem.turn => mem.mode = "coordinated" /\ room.turn # "none"
  /\ mem.finished => mem.mode = "open" \/ mem.turn
  /\ mem.turn /\ mem.finished => room.turn # "granted"
  /\ mem.receipt => posted # NoPost

\* What a call knows by where it stands, when its turn is in a given state.
Place(turn, at, mem) ==
  /\ at \in {"ask", "granted"} => mem.mode = "coordinated"
  /\ at = "granted" => turn # "none"
  /\ at \in {"freeze", "post", "sent", "refresh"} /\ mem.mode = "coordinated" => mem.turn
  /\ at = "stale" => mem.turn
  /\ at \in {"finish", "release", "finished", "released"} => mem.turn
  /\ at \in {"finished", "released"} => turn # "granted"
  /\ at \in {"finish", "finished"} => mem.receipt
  /\ at \in {"release", "released"} => mem.superseded

Copied ==
  /\ action # NoAction => Held(action)
  /\ \A c \in Callers : Has(c) => Held(call[c].mem) /\ Place(room.turn, call[c].at, call[c].mem)
  /\ \A p \in wire : action # NoAction /\ p.mode = action.mode
                     /\ p.recipients = action.recipients
  /\ "delivered" \in told => posted # NoPost

\* As long as the calls come one after another the copy is the journal, and a
\* superseded action has nothing on the wire that the Room could still take.
Dead == posted = NoPost /\ \A p \in wire : p.epoch < room.epoch
Alone ==
  ~ met =>
    /\ \A c, d \in Callers : call[c].at # "off" /\ call[d].at # "off" => c = d
    /\ \A c \in Callers : Has(c) => call[c].mem = action
    /\ \A p \in wire : p.epoch <= action.epoch
    /\ "resend" \in told => action # NoAction /\ action.superseded
    /\ \A c \in Callers : call[c].at = "stale" => Dead
    /\ action # NoAction /\ action.superseded =>
         Dead /\ \A c \in Callers : Has(c) => call[c].at \in {"release", "released"}

Inv == TypeOK /\ Copied /\ Alone

-----------------------------------------------------------------------------
(***************************************************************************)
(* Where a call goes on                                                    *)
(***************************************************************************)
\* The point at which a journal is taken up, and what the journal says then.
LEMMA EntryFacts ==
  ASSUME NEW mem \in Action, NEW policy \in Modes
  PROVE  /\ Entry(mem, policy) \in
              {"policy", "resend", "delivered", "release", "finish", "ask", "freeze", "post"}
         /\ Entry(mem, policy) \in {"resend", "release"} => mem.superseded
         /\ Entry(mem, policy) \in {"delivered", "finish"} => mem.receipt
         /\ Entry(mem, policy) \in {"release", "finish"} => mem.turn
         /\ Entry(mem, policy) \in {"delivered", "finish", "ask", "freeze", "post"} =>
              ~ mem.superseded
         /\ Entry(mem, policy) = "ask" => mem.mode = "coordinated"
         /\ Entry(mem, policy) \in {"freeze", "post"} => mem.mode = "open"
<1>1. mem.mode \in {"open", "coordinated"} /\ mem.receipt \in BOOLEAN
      /\ mem.superseded \in BOOLEAN
  BY DEF Action, Modes
<1>2. CASE mem.mode # policy /\ ~ mem.receipt
  BY <1>1, <1>2 DEF Entry
<1>3. CASE (mem.mode = policy \/ mem.receipt) /\ mem.superseded
  BY <1>1, <1>3 DEF Entry
<1>4. CASE mem.receipt /\ ~ mem.superseded
  BY <1>1, <1>4 DEF Entry
<1>5. CASE mem.mode = policy /\ ~ mem.receipt /\ ~ mem.superseded
  BY <1>1, <1>5 DEF Entry
<1> QED BY <1>1, <1>2, <1>3, <1>4, <1>5

\* A call that writes the journal and goes on, or only goes on with it.  The room
\* changes at most by a turn that is given back.
Going(c, at, mem, again) ==
  /\ call[c].at # "off" /\ mem \in Action /\ at \in (Points \ {"stale"}) \cup Verdicts
  /\ again \in BOOLEAN /\ action' = mem /\ Goes(c, at, mem, again)
  /\ room' \in {room, [room EXCEPT !.turn = IF @ = "granted" THEN "released" ELSE @]}
  /\ UNCHANGED <<posted, wire, met, policies, failures>>

\* A call that goes on to a point its copy of the journal allows keeps the invariant.
LEMMA GoingKeeps ==
  ASSUME Inv, NEW c \in Callers, NEW at, NEW mem, NEW again, Going(c, at, mem, again),
         action # NoAction => mem.mode = action.mode /\ mem.recipients = action.recipients,
         mem.epoch <= room.epoch,
         mem.turn => mem.mode = "coordinated" /\ room.turn # "none",
         mem.finished => mem.mode = "open" \/ mem.turn,
         mem.turn /\ mem.finished => room'.turn # "granted",
         mem.receipt => posted # NoPost,
         Place(room'.turn, at, mem),
         at = "delivered" => posted # NoPost,
         ~ met =>
           /\ \A p \in wire : p.epoch <= mem.epoch
           /\ "resend" \in told \/ at = "resend" => mem.superseded
           /\ mem.superseded => Dead /\ at \in Verdicts \cup {"release", "released"}
  PROVE  Inv'
<1>1. TypeOK /\ Copied /\ Alone
  BY DEF Inv
<1>2. /\ mem \in Action /\ at \in Points \cup Verdicts /\ again \in BOOLEAN
      /\ action' = mem /\ call[c].at # "off"
      /\ UNCHANGED <<posted, wire, met, policies, failures>>
  BY DEF Going
<1>3. /\ room'.mode = room.mode /\ room'.epoch = room.epoch /\ room'.head = room.head
      /\ room' \in [mode : Modes, epoch : 1 .. MaxEpoch, head : Nat \ {0},
                    turn : {"none", "granted", "released", "expired"}]
      /\ room.turn # "none" => room'.turn # "none"
      /\ room'.turn = "granted" => room.turn = "granted"
  BY <1>1 DEF Going, TypeOK
<1>4. mem # NoAction
  BY <1>2 DEF Action, NoAction, Modes
<1> DEFINE step == IF at \in Verdicts THEN Off ELSE [at |-> at, mem |-> mem, again |-> again]
<1>5. /\ call' = [call EXCEPT ![c] = step] /\ step \in Calling
      /\ told' = IF at \in Verdicts THEN told \cup {at} ELSE told
  BY <1>2 DEF Going, Goes, Calling, Off
<1>6. call \in [Callers -> Calling] /\ call'[c] = step
      /\ \A d \in Callers \ {c} : call'[d] = call[d]
  BY <1>1, <1>5 DEF TypeOK
<1>7. /\ step.at \in Points => at \in Points /\ step.at = at /\ step.mem = mem
      /\ step.at # "off" => step.at \in Points
  BY <1>2 DEF Points, Off
<1>8. TypeOK'
  BY <1>1, <1>2, <1>3, <1>5, <1>6 DEF TypeOK
<1>9. Held(mem)'
  BY <1>2, <1>3, <1>4 DEF Held
<1>10. ASSUME NEW d \in Callers, d # c, Has(d)
       PROVE  Held(call[d].mem)' /\ Place(room'.turn, call'[d].at, call'[d].mem)
  <2>1. Held(call[d].mem) /\ Place(room.turn, call[d].at, call[d].mem)
    BY <1>1, <1>10 DEF Copied
  <2>2. call'[d] = call[d]
    BY <1>6, <1>10
  <2> QED BY <2>1, <2>2, <1>2, <1>3, <1>4 DEF Held, Place
<1>11. Copied'
  <2>1. \A d \in Callers : Has(d)' =>
          Held(call[d].mem)' /\ Place(room'.turn, call'[d].at, call'[d].mem)
    <3> SUFFICES ASSUME NEW d \in Callers, Has(d)'
                 PROVE  Held(call[d].mem)' /\ Place(room'.turn, call'[d].at, call'[d].mem)
      OBVIOUS
    <3>1. CASE d = c
      <4>1. call'[d].mem = mem /\ call'[d].at = at
        BY <3>1, <1>6, <1>7 DEF Has
      <4> QED BY <4>1, <1>9 DEF Held, Place
    <3>2. CASE d # c
      BY <3>2, <1>6, <1>10 DEF Has
    <3> QED BY <3>1, <3>2
  <2>2. \A p \in wire' : action' # NoAction /\ p.mode = action'.mode
                         /\ p.recipients = action'.recipients
    BY <1>1, <1>2, <1>4 DEF Copied
  <2>3. "delivered" \in told' => posted' # NoPost
    BY <1>1, <1>2, <1>5 DEF Copied
  <2>4. action' # NoAction => Held(action)'
    BY <1>2, <1>9 DEF Held
  <2> QED BY <2>1, <2>2, <2>3, <2>4 DEF Copied
<1>12. Alone'
  <2> SUFFICES ASSUME ~ met'
               PROVE  /\ \A d, e \in Callers : call'[d].at # "off" /\ call'[e].at # "off" => d = e
                      /\ \A d \in Callers : Has(d)' => call'[d].mem = action'
                      /\ \A p \in wire' : p.epoch <= action'.epoch
                      /\ "resend" \in told' => action' # NoAction /\ action'.superseded
                      /\ \A d \in Callers : call'[d].at = "stale" => Dead'
                      /\ action' # NoAction /\ action'.superseded =>
                           /\ Dead'
                           /\ \A d \in Callers :
                                Has(d)' => call'[d].at \in {"release", "released"}
    BY DEF Alone
  <2>1. ~ met
    BY <1>2
  <2>2. \A d \in Callers \ {c} : call'[d].at = "off"
    BY <1>1, <1>2, <1>6, <2>1 DEF Alone
  <2>3. \A d \in Callers : Has(d)' => d = c /\ call'[d].mem = mem /\ call'[d].at = at
    BY <2>2, <1>6, <1>7 DEF Has, Points
  <2>4. Dead' = Dead
    BY <1>2, <1>3 DEF Dead
  <2>5. "resend" \in told' => mem.superseded
    BY <1>5, <2>1
  <2>6. \A d \in Callers : Has(d)' => at \in Points
    BY <2>3 DEF Has
  <2>7. \A d \in Callers : call'[d].at # "stale"
    BY <2>3 DEF Going, Has, Points, Verdicts
  <2> QED BY <1>2, <1>4, <2>1, <2>2, <2>3, <2>4, <2>5, <2>6, <2>7 DEF Verdicts, Points
<1> QED BY <1>8, <1>11, <1>12 DEF Inv

-----------------------------------------------------------------------------
(***************************************************************************)
(* The steps of a call that write the journal                              *)
(***************************************************************************)
\* What is known of a call that holds a copy.
LEMMA HasFacts ==
  ASSUME Inv, NEW c \in Callers, Has(c)
  PROVE  /\ call[c] \in [at : Points, mem : Action, again : BOOLEAN]
         /\ call[c].at # "off" /\ action # NoAction /\ action \in Action
         /\ Held(call[c].mem) /\ Place(room.turn, call[c].at, call[c].mem)
         /\ ~ met => call[c].mem = action
         /\ room.epoch \in 1 .. MaxEpoch /\ room.epoch \in Nat
<1>1. TypeOK /\ Copied /\ Alone
  BY DEF Inv
<1>2. call[c] \in [at : Points, mem : Action, again : BOOLEAN] /\ call[c].at # "off"
  BY <1>1 DEF Has, TypeOK, Calling, Off, Points
<1>3. action # NoAction /\ Held(call[c].mem) /\ Place(room.turn, call[c].at, call[c].mem)
  BY <1>1 DEF Has, Copied, Held
<1> QED BY <1>1, <1>2, <1>3, ActionAssumption DEF TypeOK, Alone

\* The call reads a journal, or creates one where there is none.
LEMMA ResumesKeep ==
  ASSUME Inv, NEW c \in Callers, call[c].at \in {"read", "create"},
         \/ action # NoAction /\ action' = action
         \/ action = NoAction /\ action' = NewAction(call[c].policy, call[c].head),
         Resumes(c, action'), UNCHANGED <<outside, counts>>
  PROVE  Inv'
<1> USE DEF outside, counts
<1>1. TypeOK /\ Copied /\ Alone
  BY DEF Inv
<1>2. call[c] \in [at : {"read", "create"}, policy : Modes, head : Nat]
  BY <1>1 DEF TypeOK, Calling, Off, Points
<1> DEFINE mem == action'
           at == Entry(mem, call[c].policy)
<1>3. /\ mem \in Action
      /\ action = NoAction =>
           /\ ~ mem.turn /\ ~ mem.receipt /\ ~ mem.superseded /\ ~ mem.finished
           /\ mem.epoch = 0
           /\ wire = {} /\ ("resend" \notin told \/ met)
  <2>1. CASE action # NoAction
    BY <1>1, <2>1 DEF TypeOK
  <2>2. CASE action = NoAction
    <3>1. mem = NewAction(call[c].policy, call[c].head)
      BY <2>2
    <3>2. NewAction(call[c].policy, call[c].head) \in Action
      BY <1>2, ActionAssumption DEF NewAction, Action
    <3> QED BY <1>1, <2>2, <3>1, <3>2 DEF NewAction, Copied, Alone
  <2> QED BY <2>1, <2>2
<1>4. /\ at \in {"policy", "resend", "delivered", "release", "finish", "ask", "freeze", "post"}
      /\ at \in {"resend", "release"} => mem.superseded
      /\ at \in {"delivered", "finish"} => mem.receipt
      /\ at \in {"release", "finish"} => mem.turn
      /\ at \in {"delivered", "finish", "ask", "freeze", "post"} => ~ mem.superseded
      /\ at = "ask" => mem.mode = "coordinated"
      /\ at \in {"freeze", "post"} => mem.mode = "open"
  BY <1>2, <1>3, EntryFacts
<1>5. Goes(c, at, mem, FALSE)
  BY DEF Resumes
<1>6. Going(c, at, mem, FALSE)
  BY <1>2, <1>3, <1>4, <1>5 DEF Going, Points, Verdicts
<1>7. /\ action # NoAction => mem.mode = action.mode /\ mem.recipients = action.recipients
      /\ mem.epoch <= room.epoch
      /\ mem.turn => mem.mode = "coordinated" /\ room.turn # "none"
      /\ mem.finished => mem.mode = "open" \/ mem.turn
      /\ mem.turn /\ mem.finished => room.turn # "granted"
      /\ mem.receipt => posted # NoPost
  <2>1. CASE action # NoAction
    BY <1>1, <2>1 DEF Copied, Held
  <2>2. CASE action = NoAction
    <3>1. room.epoch \in Nat
      BY <1>1, ActionAssumption DEF TypeOK
    <3> QED BY <1>3, <2>2, <3>1
  <2> QED BY <2>1, <2>2
<1>8. Place(room'.turn, at, mem)
  BY <1>4 DEF Place
<1>9. ~ met =>
        /\ \A p \in wire : p.epoch <= mem.epoch
        /\ "resend" \in told \/ at = "resend" => mem.superseded
        /\ mem.superseded => Dead /\ at \in Verdicts \cup {"release", "released"}
  BY <1>1, <1>3, <1>4 DEF Alone, Verdicts
<1> HIDE DEF mem, at
<1> QED BY <1>4, <1>6, <1>7, <1>8, <1>9, GoingKeeps

\* The turn is kept, the post is frozen or refreshed.
LEMMA FreshFacts ==
  ASSUME NEW m \in Action, room.head \in Nat, room.epoch \in 0 .. MaxEpoch
  PROVE  /\ Fresh(m) \in Action /\ Fresh(m).mode = m.mode /\ Fresh(m).recipients = m.recipients
         /\ Fresh(m).epoch = room.epoch /\ Fresh(m).turn = m.turn
         /\ Fresh(m).finished = m.finished /\ Fresh(m).receipt = m.receipt
         /\ Fresh(m).superseded = m.superseded
BY DEF Fresh, Action

\* Everything a call that writes has to show, in terms of what it changes.
LEMMA WritesKeep ==
  ASSUME Inv, NEW c \in Callers, Has(c), NEW at \in (Points \ {"stale"}) \cup Verdicts,
         NEW mem \in Action, NEW again \in BOOLEAN,
         action' = mem, Goes(c, at, mem, again), UNCHANGED counts,
         posted' = posted, wire' = wire,
         room' \in {room, [room EXCEPT !.turn = IF @ = "granted" THEN "released" ELSE @]},
         mem.mode = call[c].mem.mode, mem.recipients = call[c].mem.recipients,
         mem.epoch \in {call[c].mem.epoch, room.epoch},
         mem.turn => mem.mode = "coordinated" /\ room.turn # "none",
         mem.finished => mem.mode = "open" \/ mem.turn,
         mem.turn /\ mem.finished => room'.turn # "granted",
         mem.receipt => posted # NoPost,
         Place(room'.turn, at, mem), at = "delivered" => posted # NoPost,
         ~ met /\ (call[c].mem.superseded \/ at = "resend") => mem.superseded,
         ~ met /\ mem.superseded => Dead /\ at \in Verdicts \cup {"release", "released"}
  PROVE  Inv'
<1>1. /\ action # NoAction /\ Held(call[c].mem) /\ call[c].at # "off"
      /\ ~ met => call[c].mem = action
      /\ room.epoch \in Nat /\ call[c].mem \in Action
  BY HasFacts
<1>2. Going(c, at, mem, again)
  BY <1>1 DEF Going, counts
<1>3. mem.epoch <= room.epoch /\ mem.epoch >= call[c].mem.epoch
  <2>1. call[c].mem.epoch \in Nat /\ call[c].mem.epoch <= room.epoch
    BY <1>1, ActionAssumption DEF Held, Action
  <2> QED BY <1>1, <2>1
<1>4. ~ met => \A p \in wire : p.epoch <= mem.epoch
  <2> SUFFICES ASSUME ~ met, NEW p \in wire PROVE p.epoch <= mem.epoch
    OBVIOUS
  <2>1. p.epoch <= call[c].mem.epoch
    BY <1>1 DEF Inv, Alone
  <2>2. p.epoch \in Nat /\ call[c].mem.epoch \in Nat /\ mem.epoch \in Nat
    BY <1>1, ActionAssumption DEF Inv, TypeOK, Request, Action
  <2> QED BY <1>3, <2>1, <2>2
<1>5. ~ met /\ "resend" \in told => mem.superseded
  BY <1>1 DEF Inv, Alone
<1>6. mem.mode = action.mode /\ mem.recipients = action.recipients
  BY <1>1 DEF Held
<1> QED BY <1>2, <1>3, <1>4, <1>5, <1>6, GoingKeeps

\* A call alone that learns that the epoch has moved has nothing on the wire that
\* the Room could still take.
LEMMA DeadOnceStale ==
  ASSUME Inv, NEW c \in Callers, EpochPassed(c), ~ met
  PROVE  Dead
<1> SUFFICES ASSUME NEW p \in wire PROVE p.epoch < room.epoch
  BY DEF EpochPassed, Dead
<1> DEFINE m == call[c].mem
<1>1. Has(c) /\ m.epoch # room.epoch
  BY DEF EpochPassed, At, Has, Points
<1>2. m.epoch <= room.epoch /\ m \in Action /\ m = action
  BY <1>1, HasFacts DEF Held
<1>3. p.epoch <= m.epoch
  BY <1>2 DEF Inv, Alone
<1>4. p.epoch \in Nat /\ m.epoch \in Nat /\ room.epoch \in Nat
  BY <1>1, <1>2, HasFacts, ActionAssumption DEF Inv, TypeOK, Request, Action
<1> QED BY <1>1, <1>2, <1>3, <1>4

\* Each step of a call that writes the journal.
LEMMA WritingSteps ==
  ASSUME Inv, NEW c \in Callers,
         \/ KeepsTurn(c) \/ Freezes(c) \/ Receipt(c) \/ StaleEpoch(c) \/ Refreshes(c)
         \/ Releases(c) \/ MarksFinished(c)
  PROVE  Inv'
<1> USE DEF counts, outside, At
<1> DEFINE m == call[c].mem
<1>1. Has(c)
  BY DEF KeepsTurn, Freezes, Receipt, StaleEpoch, EpochPassed, Refreshes, Releases,
         MarksFinished, Finishing, Has, Points
<1>2. /\ m \in Action /\ call[c].again \in BOOLEAN
      /\ m.epoch <= room.epoch
      /\ m.turn => m.mode = "coordinated" /\ room.turn # "none"
      /\ m.finished => m.mode = "open" \/ m.turn
      /\ m.turn /\ m.finished => room.turn # "granted"
      /\ m.receipt => posted # NoPost
      /\ Place(room.turn, call[c].at, m)
  BY <1>1, HasFacts DEF Held
<1>3. /\ room.head \in Nat /\ room.epoch \in 0 .. MaxEpoch
      /\ room \in [mode : Modes, epoch : 1 .. MaxEpoch, head : Nat \ {0},
                   turn : {"none", "granted", "released", "expired"}]
  BY ActionAssumption DEF Inv, TypeOK
<1>4. ~ met /\ call[c].at \notin {"release", "released"} => ~ m.superseded
  BY <1>1, HasFacts DEF Inv, Alone
<1>5. ~ met /\ m.superseded => Dead
  BY <1>1, HasFacts DEF Inv, Alone
<1>6. m.mode \in {"open", "coordinated"}
  BY <1>2 DEF Action, Modes
<1>7. CASE KeepsTurn(c)
  <2> DEFINE mem == [m EXCEPT !.turn = TRUE]
             at == IF mem.seen = 0 THEN "freeze" ELSE "post"
  <2>1. /\ mem \in Action /\ mem.mode = m.mode /\ mem.recipients = m.recipients
        /\ mem.epoch = m.epoch /\ mem.turn = TRUE /\ mem.finished = m.finished
        /\ mem.receipt = m.receipt /\ mem.superseded = m.superseded
    BY <1>2 DEF Action
  <2>2. call[c].at = "granted" /\ at \in {"freeze", "post"}
    BY <1>7 DEF KeepsTurn
  <2>3. m.mode = "coordinated" /\ room.turn # "none"
    BY <1>2, <2>2 DEF Place
  <2>4. action' = mem /\ Goes(c, at, mem, call[c].again) /\ UNCHANGED <<outside, counts>>
    BY <1>7 DEF KeepsTurn, Writes
  <2>5. Place(room'.turn, at, mem)
    BY <2>1, <2>2 DEF Place
  <2> HIDE DEF mem, at
  <2> QED BY <1>1, <1>2, <1>4, <2>1, <2>2, <2>3, <2>4, <2>5, WritesKeep DEF Points
<1>8. CASE Freezes(c)
  <2> DEFINE mem == Fresh(m)
  <2>1. /\ mem \in Action /\ mem.mode = m.mode /\ mem.recipients = m.recipients
        /\ mem.epoch = room.epoch /\ mem.turn = m.turn /\ mem.finished = m.finished
        /\ mem.receipt = m.receipt /\ mem.superseded = m.superseded
    BY <1>2, <1>3, FreshFacts
  <2>2. call[c].at = "freeze" /\ action' = mem /\ Goes(c, "post", mem, call[c].again)
        /\ UNCHANGED <<outside, counts>>
    BY <1>8 DEF Freezes, Writes
  <2>3. Place(room'.turn, "post", mem)
    BY <1>2, <2>1, <2>2 DEF Place
  <2> HIDE DEF mem
  <2> QED BY <1>1, <1>2, <1>4, <2>1, <2>2, <2>3, WritesKeep DEF Points
<1>9. CASE Receipt(c)
  <2> DEFINE mem == Received(m)
             at == IF mem.mode = "open" THEN "delivered" ELSE "finish"
  <2>1. /\ mem \in Action /\ mem.mode = m.mode /\ mem.recipients = m.recipients
        /\ mem.epoch = m.epoch /\ mem.turn = m.turn
        /\ mem.finished = (m.mode = "open")
        /\ mem.receipt = TRUE /\ mem.superseded = m.superseded
    BY <1>2 DEF Received, Action
  <2>2. /\ call[c].at = "sent" /\ posted # NoPost
        /\ action' = mem /\ Goes(c, at, mem, call[c].again)
        /\ UNCHANGED <<outside, counts>>
    BY <1>9 DEF Receipt, Writes
  <2>3. Place(room'.turn, at, mem)
    BY <1>2, <1>6, <2>1, <2>2 DEF Place
  <2>4. at \in {"delivered", "finish"} /\ at \in (Points \ {"stale"}) \cup Verdicts
    BY DEF Points, Verdicts
  <2>5. /\ mem.finished => mem.mode = "open"
        /\ ~ (mem.turn /\ mem.finished)
    BY <1>2, <2>1
  <2>6. ~ met => ~ mem.superseded
    BY <1>4, <2>1, <2>2
  <2> HIDE DEF mem, at
  <2> QED BY <1>1, <1>2, <1>4, <2>1, <2>2, <2>3, <2>4, <2>5, <2>6, WritesKeep
<1>10. CASE StaleEpoch(c)
  <2> DEFINE mem == [m EXCEPT !.superseded = TRUE]
             at == IF mem.mode = "open" THEN "resend" ELSE "release"
  <2>1. /\ mem \in Action /\ mem.mode = m.mode /\ mem.recipients = m.recipients
        /\ mem.epoch = m.epoch /\ mem.turn = m.turn /\ mem.finished = m.finished
        /\ mem.receipt = m.receipt /\ mem.superseded = TRUE
    BY <1>2 DEF Action
  <2>2. /\ (EpochPassed(c) /\ m.mode = "open") \/ call[c].at = "stale"
        /\ action' = mem /\ Goes(c, at, mem, call[c].again)
        /\ UNCHANGED <<outside, counts>>
    BY <1>10 DEF StaleEpoch, Writes
  <2>3. Place(room'.turn, at, mem)
    BY <1>2, <1>6, <2>1, <2>2 DEF Place
  <2>4. at \in {"resend", "release"}
    OBVIOUS
  <2>5. ~ met => Dead
    BY <2>2, DeadOnceStale DEF Inv, Alone
  <2> HIDE DEF mem, at
  <2> QED BY <1>1, <1>2, <2>1, <2>2, <2>3, <2>4, <2>5, WritesKeep DEF Points, Verdicts
<1>11. CASE Refreshes(c)
  <2> DEFINE mem == Fresh(m)
  <2>1. /\ mem \in Action /\ mem.mode = m.mode /\ mem.recipients = m.recipients
        /\ mem.epoch = room.epoch /\ mem.turn = m.turn /\ mem.finished = m.finished
        /\ mem.receipt = m.receipt /\ mem.superseded = m.superseded
    BY <1>2, <1>3, FreshFacts
  <2>2. /\ call[c].at = "refresh" /\ action' = mem
        /\ Goes(c, "post", mem, mem.mode = "coordinated")
        /\ UNCHANGED <<outside, counts>>
    BY <1>11 DEF Refreshes
  <2>3. Place(room'.turn, "post", mem)
    BY <1>2, <2>1, <2>2 DEF Place
  <2>4. (mem.mode = "coordinated") \in BOOLEAN
    OBVIOUS
  <2> HIDE DEF mem
  <2> QED BY <1>1, <1>2, <1>4, <2>1, <2>2, <2>3, <2>4, WritesKeep DEF Points
<1>12. CASE Releases(c)
  <2> DEFINE at == IF call[c].at = "finish" THEN "finished" ELSE "released"
  <2>1. /\ call[c].at \in {"finish", "release"}
        /\ action' = m /\ Goes(c, at, m, call[c].again)
        /\ UNCHANGED <<posted, wire, counts>>
        /\ room' = [room EXCEPT !.turn = IF @ = "granted" THEN "released" ELSE @]
    BY <1>12 DEF Releases, Finishing, Writes
  <2>2. room'.turn # "granted"
    BY <1>3, <2>1
  <2>3. Place(room'.turn, at, m)
    BY <1>2, <2>1, <2>2 DEF Place
  <2>4. at \in {"finished", "released"}
        /\ (call[c].at = "release" => at = "released")
    BY <2>1
  <2>5. ~ met /\ m.superseded => at = "released"
    BY <1>4, <2>1, <2>4
  <2> HIDE DEF at
  <2> QED BY <1>1, <1>2, <1>5, <2>1, <2>2, <2>3, <2>4, <2>5, WritesKeep DEF Points, Verdicts
<1>13. CASE MarksFinished(c)
  <2> DEFINE mem == [m EXCEPT !.finished = TRUE]
             at == IF call[c].at = "finished" THEN "delivered" ELSE "resend"
  <2>1. /\ mem \in Action /\ mem.mode = m.mode /\ mem.recipients = m.recipients
        /\ mem.epoch = m.epoch /\ mem.turn = m.turn /\ mem.finished = TRUE
        /\ mem.receipt = m.receipt /\ mem.superseded = m.superseded
    BY <1>2 DEF Action
  <2>2. /\ call[c].at \in {"finished", "released"}
        /\ action' = mem /\ Goes(c, at, mem, call[c].again)
        /\ UNCHANGED <<outside, counts>>
    BY <1>13 DEF MarksFinished, Writes
  <2>3. m.turn /\ room.turn # "granted"
        /\ (call[c].at = "finished" => m.receipt) /\ (call[c].at = "released" => m.superseded)
    BY <1>2, <2>2 DEF Place
  <2>4. at \in Verdicts /\ (at = "delivered" => m.receipt) /\ (at = "resend" => m.superseded)
    BY <2>2, <2>3 DEF Verdicts
  <2>5. Place(room'.turn, at, mem)
    BY <2>4 DEF Place, Verdicts
  <2> HIDE DEF mem, at
  <2> QED BY <1>1, <1>2, <1>5, <2>1, <2>2, <2>3, <2>4, <2>5, WritesKeep
<1> QED BY <1>7, <1>8, <1>9, <1>10, <1>11, <1>12, <1>13

-----------------------------------------------------------------------------
(***************************************************************************)
(* The other steps of a call                                               *)
(***************************************************************************)
\* A call begins.  From now on it may overlap with another one.
LEMMA CallsKeep == ASSUME Inv, NEW c \in Callers, Calls(c) PROVE Inv'
<1> USE DEF outside, At
<1>1. TypeOK /\ Copied /\ Alone /\ call \in [Callers -> Calling]
  BY DEF Inv, TypeOK
<1> DEFINE step == [at |-> "read", policy |-> room.mode, head |-> room.head]
<1>2. /\ call[c].at = "off" /\ call' = [call EXCEPT ![c] = step]
      /\ met' = (met \/ \E d \in Callers \ {c} : call[d].at # "off")
      /\ UNCHANGED <<action, room, posted, wire, told, policies, failures>>
  BY DEF Calls
<1>3. step \in Calling /\ step.at = "read" /\ "read" \notin Points
  BY <1>1 DEF TypeOK, Calling, Points
<1> HIDE DEF step
<1>4. call'[c] = step /\ \A d \in Callers \ {c} : call'[d] = call[d]
  BY <1>1, <1>2
<1>5. \A d \in Callers : Has(d)' => Has(d) /\ call'[d] = call[d]
  BY <1>3, <1>4 DEF Has
<1>6. TypeOK'
  BY <1>1, <1>2, <1>3 DEF TypeOK
<1>7. Copied'
  BY <1>1, <1>2, <1>5 DEF Copied, Held
<1>8. Alone'
  <2> SUFFICES ASSUME ~ met' PROVE Alone'
    BY DEF Alone
  <2>1. ~ met /\ \A d \in Callers \ {c} : call'[d].at = "off"
    BY <1>2, <1>4
  <2>2. \A d \in Callers : call'[d].at = "stale" => call[d].at = "stale"
    BY <1>3, <1>4
  <2> QED BY <1>1, <1>2, <1>5, <2>1, <2>2 DEF Alone, Dead
<1> QED BY <1>6, <1>7, <1>8 DEF Inv

\* A step that only moves the call on, and may put its post on the wire.
Moving(c, at) ==
  /\ call' = [call EXCEPT ![c].at = at] /\ UNCHANGED <<action, posted, told, counts>>

\* The steps of a call that leave the journal alone.
LEMMA MovesKeep ==
  ASSUME Inv, NEW c \in Callers, NEW at, Moving(c, at),
         \/ /\ call[c].at = "ask" /\ at = "granted" /\ wire' = wire
            /\ room' = [room EXCEPT !.turn = IF @ = "none" THEN "granted" ELSE @]
         \/ /\ call[c].at = "post" /\ at = "sent" /\ room' = room
            /\ wire' = wire \cup {RequestOf(call[c].mem)}
         \/ call[c].at = "sent" /\ at = "refresh" /\ room' = room /\ wire' = wire
         \/ /\ EpochPassed(c) /\ call[c].mem.mode = "coordinated" /\ at = "stale"
            /\ room' = room /\ wire' = wire
  PROVE  Inv'
<1> USE DEF counts
<1> DEFINE m == call[c].mem
           step == [call[c] EXCEPT !.at = at]
<1>1. TypeOK /\ Copied /\ Alone /\ call \in [Callers -> Calling]
  BY DEF Inv, TypeOK
<1>2. Has(c)
  BY DEF EpochPassed, At, Has, Points
<1>3. /\ call[c] \in [at : Points, mem : Action, again : BOOLEAN]
      /\ m \in Action /\ action # NoAction /\ Held(m) /\ Place(room.turn, call[c].at, m)
      /\ ~ met => m = action
  BY <1>2, HasFacts
<1>4. /\ call' = [call EXCEPT ![c] = step]
      /\ UNCHANGED <<action, posted, told, met, policies, failures>>
  BY DEF Moving
<1>5. step \in Calling /\ step.at = at /\ step.mem = m /\ at \in Points
  BY <1>3 DEF Calling, Points
<1> HIDE DEF step
<1>6. call'[c] = step /\ \A d \in Callers \ {c} : call'[d] = call[d]
  BY <1>1, <1>4
<1>7. \A d \in Callers : Has(d)' => Has(d) /\ call'[d].mem = call[d].mem
  BY <1>2, <1>5, <1>6 DEF Has
<1>8. RequestOf(m) \in Request /\ RequestOf(m).mode = m.mode
      /\ RequestOf(m).recipients = m.recipients /\ RequestOf(m).epoch = m.epoch
  BY <1>3 DEF RequestOf, Request, Action
<1>9. /\ room'.mode = room.mode /\ room'.epoch = room.epoch /\ room'.head = room.head
      /\ room' \in [mode : Modes, epoch : 1 .. MaxEpoch, head : Nat \ {0},
                    turn : {"none", "granted", "released", "expired"}]
      /\ room'.turn # "none" \/ room'.turn = room.turn
      /\ room.turn = "none" \/ room'.turn = room.turn
      /\ at = "granted" => room'.turn # "none"
  <2>1. room \in [mode : Modes, epoch : 1 .. MaxEpoch, head : Nat \ {0},
                  turn : {"none", "granted", "released", "expired"}]
    BY <1>1 DEF TypeOK
  <2>2. CASE room' = room
    BY <2>1, <2>2
  <2>3. CASE room' = [room EXCEPT !.turn = IF @ = "none" THEN "granted" ELSE @]
    BY <2>1, <2>3
  <2> QED BY <2>2, <2>3
<1>10. wire' \subseteq wire \cup {RequestOf(m)} /\ wire \subseteq wire'
  OBVIOUS
<1>11. TypeOK'
  BY <1>1, <1>4, <1>5, <1>8, <1>9, <1>10 DEF TypeOK
<1>12. Copied'
  <2>1. \A d \in Callers : Has(d)' => Held(call[d].mem)'
    BY <1>1, <1>4, <1>7, <1>9 DEF Copied, Held
  <2>2. \A d \in Callers : Has(d)' => Place(room'.turn, call'[d].at, call'[d].mem)
    <3> SUFFICES ASSUME NEW d \in Callers, Has(d)'
                 PROVE  Place(room'.turn, call'[d].at, call'[d].mem)
      OBVIOUS
    <3>1. CASE d = c
      <4>1. call'[d].at = at /\ call'[d].mem = m /\ at \in {"granted", "sent", "refresh", "stale"}
        BY <3>1, <1>5, <1>6
      <4>2. /\ at = "granted" => m.mode = "coordinated" /\ room'.turn # "none"
            /\ at \in {"sent", "refresh"} /\ m.mode = "coordinated" => m.turn
            /\ at = "stale" => m.turn
        BY <1>3, <1>9 DEF Place, EpochPassed, At
      <4> QED BY <4>1, <4>2 DEF Place
    <3>2. CASE d # c
      <4>1. call'[d] = call[d] /\ Has(d)
        BY <3>2, <1>6, <1>7
      <4>2. Place(room.turn, call[d].at, call[d].mem) /\ Held(call[d].mem)
        BY <1>1, <4>1 DEF Copied
      <4> QED BY <4>1, <4>2, <1>9 DEF Place, Held
    <3> QED BY <3>1, <3>2
  <2>3. action' # NoAction => Held(action)'
    BY <1>1, <1>4, <1>9 DEF Copied, Held
  <2>4. \A p \in wire' : action' # NoAction /\ p.mode = action'.mode
                         /\ p.recipients = action'.recipients
    BY <1>1, <1>3, <1>4, <1>8, <1>10 DEF Copied, Held
  <2> QED BY <1>1, <1>4, <2>1, <2>2, <2>3, <2>4 DEF Copied
<1>13. Alone'
  <2> SUFFICES ASSUME ~ met'
               PROVE  /\ \A d, e \in Callers : call'[d].at # "off" /\ call'[e].at # "off" => d = e
                      /\ \A d \in Callers : Has(d)' => call'[d].mem = action'
                      /\ \A p \in wire' : p.epoch <= action'.epoch
                      /\ "resend" \in told' => action' # NoAction /\ action'.superseded
                      /\ \A d \in Callers : call'[d].at = "stale" => Dead'
                      /\ ~ (action' # NoAction /\ action'.superseded)
    BY DEF Alone
  <2>1. ~ met /\ m = action /\ call[c].at \notin {"off", "release", "released"}
    BY <1>3, <1>4 DEF EpochPassed, At
  <2>2. ~ action.superseded
    BY <1>1, <1>2, <1>3, <2>1 DEF Alone
  <2>3. \A d \in Callers \ {c} : call'[d].at = "off"
    BY <1>1, <1>6, <2>1 DEF Alone
  <2>4. \A p \in wire' : p.epoch <= action'.epoch
    <3>1. m.epoch \in Nat
      BY <1>3, ActionAssumption DEF Action
    <3> QED BY <1>1, <1>4, <1>8, <1>10, <2>1, <3>1 DEF Alone
  <2>5. at = "stale" => Dead'
    <3> SUFFICES ASSUME at = "stale" PROVE Dead'
      OBVIOUS
    <3>1. Dead /\ wire' = wire /\ room' = room /\ posted' = posted
      BY <1>4, <2>1, DeadOnceStale
    <3> QED BY <3>1 DEF Dead
  <2>6. \A d \in Callers : call'[d].at = "stale" => Dead'
    BY <1>5, <1>6, <2>3, <2>5
  <2> QED BY <1>1, <1>4, <1>7, <2>1, <2>2, <2>3, <2>4, <2>6 DEF Alone
<1> QED BY <1>11, <1>12, <1>13 DEF Inv

\* A call ends without an answer, or only asks whether there is a journal.
LEMMA EndsKeep ==
  ASSUME Inv, NEW c \in Callers,
         \/ call' = [call EXCEPT ![c] = Off]
         \/ call[c].at = "read" /\ call' = [call EXCEPT ![c].at = "create"],
         UNCHANGED <<action, outside, told, met, policies>>,
         failures' \in 0 .. MaxFailures
  PROVE  Inv'
<1> USE DEF outside
<1>1. TypeOK /\ Copied /\ Alone /\ call \in [Callers -> Calling]
  BY DEF Inv, TypeOK
<1>2. PICK step \in Calling :
        /\ call' = [call EXCEPT ![c] = step] /\ step.at \notin Points
        /\ step.at # "off" => call[c].at # "off"
  <2>1. CASE call' = [call EXCEPT ![c] = Off]
    BY <2>1 DEF Calling, Off, Points
  <2>2. CASE call[c].at = "read" /\ call' = [call EXCEPT ![c].at = "create"]
    <3>1. call[c] \in [at : {"read", "create"}, policy : Modes, head : Nat]
      BY <1>1, <2>2 DEF Calling, Off, Points
    <3>2. [call[c] EXCEPT !.at = "create"] \in Calling
          /\ [call[c] EXCEPT !.at = "create"].at = "create"
      BY <3>1 DEF Calling
    <3> QED BY <2>2, <3>2 DEF Points
  <2> QED BY <2>1, <2>2
<1>3. call'[c] = step /\ \A d \in Callers \ {c} : call'[d] = call[d]
  BY <1>1, <1>2
<1>4. \A d \in Callers : Has(d)' => Has(d) /\ call'[d] = call[d]
  BY <1>2, <1>3 DEF Has
<1>5. \A d \in Callers : call'[d].at # "off" => call[d].at # "off"
  BY <1>2, <1>3
<1>6. TypeOK'
  BY <1>1, <1>2 DEF TypeOK
<1>7. Copied'
  BY <1>1, <1>4 DEF Copied, Held
<1>8. Alone'
  <2>1. \A d \in Callers : call'[d].at = "stale" => call[d].at = "stale"
    BY <1>2, <1>3 DEF Points
  <2> QED BY <1>1, <1>4, <1>5, <2>1 DEF Alone, Dead
<1> QED BY <1>6, <1>7, <1>8 DEF Inv

\* Every step of a call.
LEMMA WorksKeeps == ASSUME Inv, NEW c \in Callers, Works(c) PROVE Inv'
<1> USE DEF outside, counts, At
<1>1. failures \in 0 .. MaxFailures
  BY DEF Inv, TypeOK
<1>2. CASE Calls(c)
  BY <1>2, CallsKeep
<1>3. CASE Reads(c)
  <2>1. CASE action = NoAction
    BY <1>1, <1>3, <2>1, EndsKeep DEF Reads, Moves
  <2>2. CASE action # NoAction
    BY <1>3, <2>2, ResumesKeep DEF Reads
  <2> QED BY <2>1, <2>2
<1>4. CASE Creates(c)
  BY <1>4, ResumesKeep DEF Creates
<1>5. CASE AsksTurn(c)
  BY <1>5, MovesKeep DEF AsksTurn, Moves, Moving
<1>6. CASE Posts(c)
  BY <1>6, MovesKeep DEF Posts, Moves, Moving
<1>7. CASE StaleContext(c)
  BY <1>7, MovesKeep DEF StaleContext, Moves, Moving
<1>8. CASE Raises(c)
  BY <1>1, <1>8, EndsKeep DEF Raises
<1>9. CASE StaleTurn(c)
  BY <1>9, MovesKeep DEF StaleTurn, Moves, Moving
<1> QED BY <1>2, <1>3, <1>4, <1>5, <1>6, <1>7, <1>8, <1>9, WritingSteps DEF Works

\* A call that dies.
LEMMA FailsKeep == ASSUME Inv, NEW c \in Callers, Fails(c) PROVE Inv'
<1>1. failures' \in 0 .. MaxFailures
  BY ActionAssumption DEF Inv, TypeOK, Fails
<1> QED BY <1>1, EndsKeep DEF Fails

-----------------------------------------------------------------------------
(***************************************************************************)
(* The Room                                                                *)
(***************************************************************************)
\* The Room changes by itself: its head, epoch and turn move on, and a request
\* of the current epoch is committed if there is no message yet.
LEMMA RoomKeeps == ASSUME Inv, RoomNext PROVE Inv'
<1> USE DEF local
<1>1. TypeOK /\ Copied /\ Alone
  BY DEF Inv
<1>2. /\ room \in [mode : Modes, epoch : 1 .. MaxEpoch, head : Nat \ {0},
                   turn : {"none", "granted", "released", "expired"}]
      /\ room.epoch \in Nat /\ room.head \in Nat
  BY <1>1, ActionAssumption DEF TypeOK
<1>3. UNCHANGED <<action, call, told, met, failures, wire>>
  BY DEF RoomNext, Commits, OthersSpeak, EpochMoves, PolicyChanges, TurnExpires
<1>4. policies' \in 0 .. MaxPolicies
  BY <1>1, ActionAssumption
     DEF TypeOK, RoomNext, Commits, OthersSpeak, EpochMoves, PolicyChanges, TurnExpires
<1>5. /\ room' \in [mode : Modes, epoch : 1 .. MaxEpoch, head : Nat \ {0},
                    turn : {"none", "granted", "released", "expired"}]
      /\ room'.epoch >= room.epoch
      /\ room'.turn = room.turn \/ (room.turn = "granted" /\ room'.turn = "expired")
  <2>1. ASSUME NEW p \in wire, Commits(p)
        PROVE  room' = [room EXCEPT !.head = @ + 1]
    BY <2>1 DEF Commits
  <2>2. CASE room' = [room EXCEPT !.head = @ + 1]
    BY <1>2, <2>2
  <2>3. CASE EpochMoves
    <3>1. room' = [room EXCEPT !.epoch = @ + 1] /\ room.epoch + 1 \in 1 .. MaxEpoch
      BY <1>2, <2>3, ActionAssumption DEF EpochMoves
    <3> QED BY <1>2, <3>1
  <2>4. CASE PolicyChanges
    <3>1. /\ room' = [room EXCEPT !.mode = IF @ = "open" THEN "coordinated" ELSE "open"]
          /\ (IF room.mode = "open" THEN "coordinated" ELSE "open") \in Modes
      BY <2>4 DEF PolicyChanges, Modes
    <3> QED BY <1>2, <3>1
  <2>5. CASE TurnExpires
    <3>1. room.turn = "granted" /\ room' = [room EXCEPT !.turn = "expired"]
      BY <2>5 DEF TurnExpires
    <3> QED BY <1>2, <3>1
  <2>6. CASE OthersSpeak
    BY <2>2, <2>6 DEF OthersSpeak
  <2> QED BY <2>1, <2>2, <2>3, <2>4, <2>5, <2>6 DEF RoomNext
<1>6. room'.epoch \in Nat
  BY <1>5, ActionAssumption
<1>7. \/ posted' = posted
      \/ /\ posted = NoPost /\ posted' \in wire /\ posted'.epoch = room.epoch
         /\ posted' # NoPost /\ posted' \in Request
  <2>1. ASSUME NEW p \in wire, Commits(p)
        PROVE  /\ posted = NoPost /\ posted' \in wire /\ posted'.epoch = room.epoch
               /\ posted' # NoPost /\ posted' \in Request
    <3>1. p \in Request /\ p # NoPost
      BY <1>1 DEF TypeOK, Request, NoPost, Modes
    <3> QED BY <2>1, <3>1 DEF Commits, Admits
  <2>2. CASE OthersSpeak \/ EpochMoves \/ PolicyChanges \/ TurnExpires
    BY <2>2 DEF OthersSpeak, EpochMoves, PolicyChanges, TurnExpires
  <2> QED BY <2>1, <2>2 DEF RoomNext
<1>8. TypeOK'
  BY <1>1, <1>3, <1>4, <1>5, <1>7 DEF TypeOK
<1>9. ASSUME NEW mem \in Action, Held(mem)
      PROVE  Held(mem)'
  <2>1. mem.epoch \in Nat /\ mem.epoch <= room'.epoch
    BY <1>2, <1>5, <1>6, <1>9, ActionAssumption DEF Held, Action
  <2>2. posted # NoPost => posted' # NoPost
    BY <1>7
  <2> QED BY <1>3, <1>5, <1>9, <2>1, <2>2 DEF Held
<1>10. Copied'
  <2>1. ASSUME NEW c \in Callers, Has(c)'
        PROVE  Held(call[c].mem)' /\ Place(room'.turn, call'[c].at, call'[c].mem)
    <3>1. Has(c) /\ call'[c] = call[c]
      BY <1>3, <2>1 DEF Has
    <3>2. Held(call[c].mem) /\ Place(room.turn, call[c].at, call[c].mem)
          /\ call[c].mem \in Action
      BY <3>1, HasFacts
    <3>3. Place(room'.turn, call[c].at, call[c].mem)
      BY <1>5, <3>2 DEF Place
    <3>4. Held(call[c].mem)'
      BY <1>3, <1>9, <3>2 DEF Held
    <3> QED BY <3>1, <3>3, <3>4
  <2>2. action' # NoAction => Held(action)'
    BY <1>1, <1>3, <1>9 DEF Copied, TypeOK, Held
  <2>3. "delivered" \in told' => posted' # NoPost
    BY <1>1, <1>3, <1>7 DEF Copied
  <2> QED BY <1>1, <1>3, <2>1, <2>2, <2>3 DEF Copied
<1>11. Alone'
  <2>1. Dead => Dead'
    <3> SUFFICES ASSUME Dead PROVE Dead'
      OBVIOUS
    <3>1. posted' = NoPost
      BY <1>2, <1>7 DEF Dead
    <3>2. \A p \in wire' : p.epoch < room'.epoch
      BY <1>1, <1>2, <1>3, <1>5, <1>6, ActionAssumption DEF Dead, TypeOK, Request
    <3> QED BY <3>1, <3>2 DEF Dead
  <2> QED BY <1>1, <1>3, <2>1 DEF Alone, Has
<1> QED BY <1>8, <1>10, <1>11 DEF Inv

-----------------------------------------------------------------------------
(***************************************************************************)
(* The invariant and the theorems                                          *)
(***************************************************************************)
\* A Room without a turn or a post of the origin, and no journal.
LEMMA InvInit == Init => Inv
<1> SUFFICES ASSUME Init PROVE Inv
  OBVIOUS
<1>1. \A c \in Callers : call[c] = Off /\ ~ Has(c)
  BY DEF Init, Has, Off, Points
<1>2. TypeOK
  <2>1. room \in [mode : Modes, epoch : 1 .. MaxEpoch, head : Nat \ {0},
                  turn : {"none", "granted", "released", "expired"}]
    BY ActionAssumption DEF Init
  <2>2. call \in [Callers -> Calling]
    BY DEF Init, Calling
  <2>3. 0 \in 0 .. MaxPolicies /\ 0 \in 0 .. MaxFailures
    BY ActionAssumption
  <2> QED BY <2>1, <2>2, <2>3 DEF Init, TypeOK
<1>3. Copied
  BY <1>1 DEF Init, Copied
<1>4. Alone
  BY <1>1 DEF Init, Alone, Off
<1> QED BY <1>2, <1>3, <1>4 DEF Inv

\* Calls, their failures and the Room keep the invariant.
LEMMA InvNext == Inv /\ [Next]_vars => Inv'
<1> SUFFICES ASSUME Inv, [Next]_vars PROVE Inv'
  OBVIOUS
<1>1. CASE UNCHANGED vars
  BY <1>1 DEF vars, Inv, TypeOK, Copied, Alone, Has, Held, Dead
<1> QED BY <1>1, WorksKeeps, FailsKeep, RoomKeeps DEF Next

\* Every copy of the journal, however old, agrees with the first one and claims
\* nothing the Room does not hold: the strengthening behind the theorems below.
THEOREM InvHolds == Spec => []Inv
BY InvInit, InvNext, PTL DEF Spec

\* Every variable stays within its type.
THEOREM TypeCorrect == Spec => []TypeOK
<1>1. Inv => TypeOK
  BY DEF Inv
<1> QED BY <1>1, InvHolds, PTL

\* Whoever sends it and whenever, a request of the origin addresses the recipients
\* and follows the policy that its first call has frozen.
THEOREM ContentIsOne == Spec => []SameContent
<1>1. Inv => SameContent
  BY DEF Inv, Copied, SameContent
<1> QED BY <1>1, InvHolds, PTL

\* An answer given to the user stays true: delivered always, send again as long
\* as the calls came one after another.
THEOREM AnswersStayTrue == Spec => []AnswersTrue
<1>1. Inv => AnswersTrue
  BY DEF Inv, Copied, Alone, Dead, AnswersTrue
<1> QED BY <1>1, InvHolds, PTL

\* No journal is marked finished while the Room still holds a turn for it.
THEOREM NoTurnLeftBehind == Spec => []FinishedIsReleased
<1>1. Inv => FinishedIsReleased
  BY DEF Inv, Copied, Held, FinishedIsReleased
<1> QED BY <1>1, InvHolds, PTL
=============================================================================
