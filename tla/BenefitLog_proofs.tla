--------------------------- MODULE BenefitLog_proofs ---------------------------
(***************************************************************************)
(* What the trail of BenefitHistory is worth, for every set of benefits and *)
(* requests and every bound: the versions implement the log of ChangeLog,   *)
(* what the trail shows is what happened, and no write is forgotten.        *)
(*                                                                         *)
(* A version that is inserted must be the entry of a write that has none:   *)
(* that a write is recorded only by the handler that made it (WritesOwned)  *)
(* is what RecordInv lacks for it.  That a change shown happened needs what *)
(* the handlers hold to have happened (HandlersFromHistory).                *)
(***************************************************************************)
EXTENDS BenefitHistory_proofs, SequenceTheorems

-----------------------------------------------------------------------------
(* Who records a write. *)

\* A write that is committed is new, so no other handler and no version has it.
LEMMA OwnedCommit ==
    ASSUME RecordInv, WritesOwned,
           NEW r \in Requests, NEW b \in Benefits,
           NEW before \in Row \union {Nil}, NEW after \in Row,
           Commit(r, b, before, after)
    PROVE  WritesOwned'
  <1>1. /\ past' = [past EXCEPT ![b] = Append(@, after)]
        /\ SlotsSound'
        /\ req'[r].benefit = b
        /\ req'[r].write = Len(past[b]) + 1
        /\ \A q \in Requests \ {r} : req'[q] = req[q]
        /\ versions' = versions
    BY CommitEffect DEF RecordInv
  <1>2. \A c \in Benefits : past[c] \in Seq(Row) /\ Len(past[c]) \in Nat
    BY DEF RecordInv, TypeOK
  <1>3. /\ Len(past'[b]) = Len(past[b]) + 1
        /\ \A c \in Benefits \ {b} : past'[c] = past[c]
    BY <1>1, <1>2 DEF RecordInv, TypeOK
  <1>4. \A c \in Benefits : Logged(c)' = Logged(c)
    BY <1>1 DEF Logged
  <1>5. \A c \in Benefits : 1 .. Len(past[c]) \subseteq 1 .. Len(past'[c])
    BY <1>2, <1>3
  <1>6. \A c \in Benefits : Logged(c)' \subseteq 1 .. Len(past'[c])
    BY <1>4, <1>5 DEF WritesOwned
  <1>7. Len(past[b]) + 1 \in (1 .. Len(past'[b])) \ Logged(b)'
    BY <1>2, <1>3, <1>4 DEF WritesOwned
  <1>8. ASSUME NEW q \in Requests \ {r}, Recording(q)'
        PROVE  /\ Recording(q)
               /\ req'[q].benefit = req[q].benefit
               /\ req'[q].write = req[q].write
               /\ req[q].benefit \in Benefits
               /\ req[q].write \in (1 .. Len(past[req[q].benefit])) \ Logged(req[q].benefit)
    BY <1>1, <1>8 DEF Recording, WritesOwned, RecordInv, SlotsSound, SlotSound
  <1>9. ASSUME NEW q \in Requests, Recording(q)', NEW c, c = req'[q].benefit
        PROVE  req'[q].write \in (1 .. Len(past'[c])) \ Logged(c)'
    <2>1. CASE q = r
      <3>1. c = b /\ req'[q].write = Len(past[b]) + 1
        BY <1>1, <1>9, <2>1
      <3>2. QED
        BY <1>7, <3>1
    <2>2. CASE q # r
      <3>1. /\ c \in Benefits
            /\ req'[q].write \in (1 .. Len(past[c])) \ Logged(c)
        BY <1>8, <1>9, <2>2
      <3>2. QED
        BY <1>4, <1>5, <3>1
    <2>3. QED
      BY <2>1, <2>2
  <1>10. ASSUME NEW q \in Requests \ {r}, Recording(q)', req'[q].benefit = b
         PROVE  req'[q].write # req'[r].write
    BY <1>1, <1>2, <1>8, <1>10
  <1>11. ASSUME NEW p \in Requests, NEW q \in Requests, Recording(p)', Recording(q)',
                req'[p].benefit = req'[q].benefit, req'[p].write = req'[q].write
         PROVE  p = q
    BY <1>1, <1>8, <1>10, <1>11 DEF WritesOwned
  <1>12. ASSUME NEW q \in Requests, Recording(q)'
         PROVE  (req[q].write \in (1 .. Len(past[req[q].benefit])) \ Logged(req[q].benefit))'
    BY <1>9, <1>12 DEF Logged
  <1>13. QED
    BY <1>6, <1>11, <1>12 DEF WritesOwned

\* A handler that goes on with its write, or stops, takes nobody else's.
LEMMA OwnedMove ==
    ASSUME RecordInv, WritesOwned, NEW r \in Requests, NEW slot, Goto(r, slot),
           UNCHANGED <<past, versions>>,
           slot.pc \in {"audit", "readLatest", "insert"} =>
               /\ Recording(r)
               /\ slot.benefit = req[r].benefit
               /\ slot.write = req[r].write
    PROVE  WritesOwned'
  <1>1. \A c : Logged(c)' = Logged(c)
    BY DEF Logged
  <1>2. req'[r] = slot /\ \A q \in Requests \ {r} : req'[q] = req[q]
    BY DEF Goto, RecordInv, TypeOK
  <1>3. \A q \in Requests : Recording(q)' =>
            /\ Recording(q)
            /\ req'[q].benefit = req[q].benefit
            /\ req'[q].write = req[q].write
    BY <1>2 DEF Recording
  <1>4. QED
    BY <1>1, <1>3 DEF WritesOwned

\* An insertion adds the handler's write to those that have a version.
LEMMA InsertLogs ==
    ASSUME RecordInv, NEW r \in Requests, Inserts(r),
           NEW b \in Benefits, b = req[r].benefit
    PROVE  /\ Logged(b)' = Logged(b) \union {req[r].write}
           /\ \A c \in Benefits \ {b} : Logged(c)' = Logged(c)
  <1>1. /\ DOMAIN versions[b] = 1 .. Latest(b)
        /\ Latest(b) \in Nat
        /\ DOMAIN versions'[b] = 1 .. Latest(b) + 1
        /\ versions'[b][Latest(b) + 1] = ChangeOf(req[r])
        /\ \A n \in 1 .. Latest(b) : versions'[b][n] = versions[b][n]
        /\ \A c \in Benefits \ {b} : versions'[c] = versions[c]
    BY InsertEffect DEF Inserts, RecordInv, NumbersSound, VersionsContiguous
  <1>2. ChangeOf(req[r]).write = req[r].write
    BY DEF ChangeOf
  <1>3. DOMAIN versions'[b] = DOMAIN versions[b] \union {Latest(b) + 1}
    BY <1>1
  <1>4. \A n \in DOMAIN versions[b] : versions'[b][n].write = versions[b][n].write
    BY <1>1
  <1>5. versions'[b][Latest(b) + 1].write = req[r].write
    BY <1>1, <1>2
  <1>6. Logged(b)' = Logged(b) \union {req[r].write}
    BY <1>3, <1>4, <1>5 DEF Logged
  <1>7. \A c \in Benefits \ {b} : Logged(c)' = Logged(c)
    BY <1>1 DEF Logged
  <1>8. QED
    BY <1>6, <1>7

\* The version a handler inserts is the only one of its write.
LEMMA OwnedInsert ==
    ASSUME RecordInv, WritesOwned, NEW r \in Requests, Inserts(r)
    PROVE  WritesOwned'
  <1>1. PICK b \in Benefits : b = req[r].benefit
    BY DEF Inserts, RecordInv, SlotsSound, SlotSound
  <1>2. Recording(r)
    BY DEF Inserts, Recording
  <1>3. Logged(b)' = Logged(b) \union {req[r].write}
    BY <1>1, InsertLogs
  <1>4. \A c \in Benefits \ {b} : Logged(c)' = Logged(c)
    BY <1>1, InsertLogs
  <1>5. past' = past
    BY DEF Inserts
  <1>6. \A c \in Benefits : Logged(c)' \subseteq 1 .. Len(past'[c])
    BY <1>1, <1>2, <1>3, <1>4, <1>5 DEF WritesOwned
  <1>7. req'[r] = Idle /\ \A q \in Requests \ {r} : req'[q] = req[q]
    BY DEF Inserts, Goto, RecordInv, TypeOK
  <1>8. ASSUME NEW q \in Requests, Recording(q)'
         PROVE  q # r /\ Recording(q) /\ req'[q] = req[q] /\ req[q].benefit \in Benefits
    BY <1>7, <1>8 DEF Recording, Idle, RecordInv, SlotsSound, SlotSound
  <1>9. ASSUME NEW q \in Requests, Recording(q)', NEW c, c = req'[q].benefit
         PROVE  req'[q].write \in (1 .. Len(past'[c])) \ Logged(c)'
    <2>1. req'[q].write \in (1 .. Len(past[c])) \ Logged(c)
      BY <1>8, <1>9 DEF WritesOwned
    <2>2. c = b => req'[q].write # req[r].write
      BY <1>1, <1>2, <1>8, <1>9 DEF WritesOwned
    <2>3. c \in Benefits
      BY <1>8, <1>9
    <2>4. QED
      BY <1>3, <1>4, <1>5, <2>1, <2>2, <2>3
  <1>10. ASSUME NEW q \in Requests, Recording(q)'
         PROVE  (req[q].write \in (1 .. Len(past[req[q].benefit])) \ Logged(req[q].benefit))'
    BY <1>9, <1>10 DEF Logged
  <1>11. ASSUME NEW p \in Requests, NEW q \in Requests, Recording(p)', Recording(q)',
                req'[p].benefit = req'[q].benefit, req'[p].write = req'[q].write
         PROVE  p = q
    BY <1>8, <1>11 DEF WritesOwned
  <1>12. QED
    BY <1>6, <1>10, <1>11 DEF WritesOwned

\* How a step changes the rows and the versions: a write is committed, a version
\* is inserted, or a handler moves on with the write it has.
Moves(r, slot) ==
    /\ Goto(r, slot)
    /\ UNCHANGED <<past, versions>>
    /\ slot.pc \in {"audit", "readLatest", "insert"} =>
           /\ Recording(r)
           /\ slot.benefit = req[r].benefit
           /\ slot.write = req[r].write

LEMMA StepShape ==
    ASSUME RecordInv, [Next]_vars
    PROVE  \/ \E r \in Requests, b \in Benefits, before \in Row \union {Nil}, after \in Row :
                 Commit(r, b, before, after)
           \/ \E r \in Requests : Inserts(r)
           \/ \E r \in Requests : \E slot : Moves(r, slot)
           \/ UNCHANGED vars
  <1>1. ASSUME NEW r \in Requests, NEW b \in Benefits, NEW row \in Row, Create(r, b, row)
        PROVE  Commit(r, b, Nil, row)
    BY <1>1 DEF Create
  <1>2. ASSUME NEW r \in Requests, NEW b \in Benefits, FindExisting(r, b)
        PROVE  \E slot : Moves(r, slot)
    <2> DEFINE slot == [Idle EXCEPT !.pc = "update", !.benefit = b, !.before = Stored(b)]
    <2>1. slot.pc = "update"
      BY DEF Idle
    <2>2. Moves(r, slot)
      BY <1>2, <2>1 DEF FindExisting, Moves
    <2>3. QED
      BY <2>2
  <1>3. ASSUME NEW r \in Requests, NEW text \in Texts \union {Nil},
               NEW active \in BOOLEAN \union {Nil}, Update(r, text, active)
        PROVE  \E b \in Benefits, before \in Row \union {Nil}, after \in Row :
                   Commit(r, b, before, after)
    <2> DEFINE b == req[r].benefit
               after == Patched(Stored(b), text, active)
    <2>1. b \in Benefits /\ req[r].before \in Row /\ past[b] # << >>
      BY <1>3 DEF Update, RecordInv, SlotsSound, SlotSound, UpdatesExist
    <2>2. after \in Row
      <3>1. past[b] \in Seq(Row)
        BY <2>1 DEF RecordInv, TypeOK
      <3>2. Stored(b) \in Row
        BY <2>1, <3>1 DEF Stored
      <3>3. QED
        BY <3>2, PatchedTyped
    <2>3. Commit(r, b, req[r].before, after)
      BY <1>3 DEF Update
    <2>4. QED
      BY <2>1, <2>2, <2>3
  <1>4. ASSUME NEW r \in Requests, NEW kept \in BOOLEAN, Audit(r, kept)
        PROVE  \E slot : Moves(r, slot)
    <2> DEFINE slot == [req[r] EXCEPT !.pc = "readLatest", !.since = Latest(req[r].benefit)]
    <2>1. req[r] \in RequestSlot /\ Recording(r)
      BY <1>4 DEF Audit, Recording, RecordInv, TypeOK
    <2>2. slot.benefit = req[r].benefit /\ slot.write = req[r].write
      BY <2>1 DEF RequestSlot
    <2>3. Moves(r, slot)
      BY <1>4, <2>1, <2>2 DEF Audit, Moves
    <2>4. QED
      BY <2>3
  <1>5. ASSUME NEW r \in Requests, ReadLatest(r)
        PROVE  \E slot : Moves(r, slot)
    <2> DEFINE slot == [req[r] EXCEPT !.pc = "insert", !.number = Latest(req[r].benefit) + 1]
    <2>1. req[r] \in RequestSlot /\ Recording(r)
      BY <1>5 DEF ReadLatest, Recording, RecordInv, TypeOK
    <2>2. slot.benefit = req[r].benefit /\ slot.write = req[r].write
      BY <2>1 DEF RequestSlot
    <2>3. Moves(r, slot)
      BY <1>5, <2>1, <2>2 DEF ReadLatest, Moves
    <2>4. QED
      BY <2>3
  <1>6. ASSUME NEW r \in Requests, Conflict(r)
        PROVE  \E slot : Moves(r, slot)
    <2> DEFINE slot == [req[r] EXCEPT !.pc = "readLatest", !.attempt = @ + 1]
    <2>1. req[r] \in RequestSlot /\ Recording(r)
      BY <1>6 DEF Conflict, Recording, RecordInv, TypeOK
    <2>2. slot.benefit = req[r].benefit /\ slot.write = req[r].write
      BY <2>1 DEF RequestSlot
    <2>3. Goto(r, slot) \/ Goto(r, Idle)
      BY <1>6 DEF Conflict, GiveUp, Finish
    <2>4. Moves(r, slot) \/ Moves(r, Idle)
      BY <1>6, <2>1, <2>2, <2>3 DEF Conflict, Moves, Idle
    <2>5. QED
      BY <2>4
  <1>7. ASSUME NEW r \in Requests, Fault(r)
        PROVE  \E slot : Moves(r, slot)
    <2>1. Moves(r, Idle)
      BY <1>7 DEF Fault, GiveUp, Finish, Moves, Idle
    <2>2. QED
      BY <2>1
  <1>8. ASSUME NEW r \in Requests, InsertVersion(r) \/ LoseReply(r)
        PROVE  Inserts(r)
    BY <1>8 DEF InsertVersion, LoseReply, Finish, Inserts
  <1>9. QED
    BY <1>1, <1>2, <1>3, <1>4, <1>5, <1>6, <1>7, <1>8 DEF Next, Arrive, Continue

\* Ownership holds from the start and every step keeps it.
LEMMA OwnedInit == ASSUME Init PROVE WritesOwned
  <1>1. \A r \in Requests : ~ Recording(r)
    BY DEF Init, Recording, Idle
  <1>2. \A b \in Benefits : Logged(b) = {}
    <2>1. DOMAIN << >> = {}
      OBVIOUS
    <2>2. \A b \in Benefits : DOMAIN versions[b] = {}
      BY <2>1 DEF Init
    <2>3. QED
      BY <2>2 DEF Logged
  <1>3. QED
    BY <1>1, <1>2 DEF WritesOwned

LEMMA OwnedStep ==
    ASSUME RecordInv, WritesOwned, [Next]_vars
    PROVE  WritesOwned'
  <1>1. ASSUME NEW r \in Requests, NEW slot, Moves(r, slot)
        PROVE  WritesOwned'
    BY <1>1, OwnedMove DEF Moves
  <1>2. CASE UNCHANGED vars
    BY <1>2 DEF vars, WritesOwned, Logged, Recording
  <1>3. QED
    BY <1>1, <1>2, StepShape, OwnedCommit, OwnedInsert

\* A write is recorded once, by the one handler that made it.
THEOREM OwnershipInvariant == Spec => [](RecordInv /\ WritesOwned)
  <1>1. Init => WritesOwned
    BY OwnedInit
  <1>2. RecordInv /\ WritesOwned /\ [Next]_vars => WritesOwned'
    BY OwnedStep
  <1>3. QED
    BY <1>1, <1>2, RecordInvariant, PTL DEF Spec

-----------------------------------------------------------------------------
(* The refinement. *)

\* The log the versions stand for: the argument of the instance Log.
Entries == [b \in Benefits |-> [n \in 1 .. Latest(b) |-> versions[b][n].write]]

\* The entries of a benefit are a sequence of the writes that have a version.
LEMMA EntriesOf ==
    ASSUME RecordInv, NEW b \in Benefits
    PROVE  /\ Entries[b] \in Seq(Nat)
           /\ Len(Entries[b]) = Latest(b)
           /\ \A n \in 1 .. Latest(b) : Entries[b][n] = versions[b][n].write
           /\ {Entries[b][n] : n \in 1 .. Len(Entries[b])} = Logged(b)
  <1>1. Latest(b) \in Nat /\ DOMAIN versions[b] = 1 .. Latest(b)
    BY DEF RecordInv, NumbersSound, VersionsContiguous
  <1>2. \A n \in 1 .. Latest(b) : versions[b][n].write \in Nat
    BY <1>1 DEF RecordInv, TypeOK, Change
  <1>3. Entries[b] = [n \in 1 .. Latest(b) |-> versions[b][n].write]
    BY DEF Entries
  <1>4. Entries[b] \in Seq(Nat) /\ Len(Entries[b]) = Latest(b)
    BY <1>1, <1>2, <1>3
  <1>5. \A n \in 1 .. Latest(b) : Entries[b][n] = versions[b][n].write
    BY <1>3
  <1>6. QED
    BY <1>1, <1>4, <1>5 DEF Logged

LEMMA LogInit == ASSUME Init PROVE Log!Init
  <1>1. RecordInv
    BY RecordInit
  <1>2. ASSUME NEW b \in Benefits
        PROVE  Entries[b] = << >>
    <2>1. DOMAIN << >> = {} /\ Highest({}) = 0
      BY DEF Highest
    <2>2. Latest(b) = 0
      BY <2>1 DEF Init, Latest
    <2>3. Entries[b] \in Seq(Nat) /\ Len(Entries[b]) = 0
      BY <1>1, <2>2, EntriesOf
    <2>4. QED
      BY <2>3, EmptySeq
  <1>3. Entries = [b \in Benefits |-> << >>]
    BY <1>2 DEF Entries
  <1>4. QED
    BY <1>3 DEF Init, Log!Init, Entries

\* An insertion is a Record of the log: one more entry, for a write without one.
LEMMA InsertRecords ==
    ASSUME RecordInv, RecordInv', WritesOwned, NEW r \in Requests, Inserts(r)
    PROVE  \E b \in Benefits : Log!Record(b)
  <1>1. PICK b \in Benefits : b = req[r].benefit
    BY DEF Inserts, RecordInv, SlotsSound, SlotSound
  <1> DEFINE w == req[r].write
  <1>2. w \in 1 .. Len(past[b]) \ Logged(b)
    <2>1. Recording(r)
      BY DEF Inserts, Recording
    <2>2. QED
      BY <1>1, <2>1 DEF WritesOwned
  <1>3. /\ Latest(b) \in Nat
        /\ Latest(b)' = Latest(b) + 1
        /\ versions'[b][Latest(b) + 1].write = w
        /\ \A n \in 1 .. Latest(b) : versions'[b][n] = versions[b][n]
        /\ \A c \in Benefits \ {b} : versions'[c] = versions[c] /\ Latest(c)' = Latest(c)
    <2>1. /\ Latest(b)' = Latest(b) + 1
          /\ versions'[b][Latest(b) + 1] = ChangeOf(req[r])
          /\ \A n \in 1 .. Latest(b) : versions'[b][n] = versions[b][n]
          /\ \A c \in Benefits \ {b} : versions'[c] = versions[c] /\ Latest(c)' = Latest(c)
      BY <1>1, InsertEffect DEF Inserts, RecordInv
    <2>2. ChangeOf(req[r]).write = w
      BY DEF ChangeOf
    <2>3. Latest(b) \in Nat
      BY DEF RecordInv, NumbersSound
    <2>4. QED
      BY <2>1, <2>2, <2>3
  <1>4. w \in Nat
    BY DEF RecordInv, TypeOK, RequestSlot
  <1>5. Entries'[b] = Append(Entries[b], w)
    <2>1. Entries'[b] = [n \in 1 .. Latest(b) + 1 |-> versions'[b][n].write]
      BY <1>3 DEF Entries
    <2>2. /\ Entries[b] \in Seq(Nat)
          /\ Len(Entries[b]) = Latest(b)
          /\ \A n \in 1 .. Latest(b) : Entries[b][n] = versions[b][n].write
      BY EntriesOf
    <2>3. /\ Append(Entries[b], w) \in Seq(Nat)
          /\ Len(Append(Entries[b], w)) = Latest(b) + 1
          /\ \A n \in 1 .. Latest(b) : Append(Entries[b], w)[n] = Entries[b][n]
          /\ Append(Entries[b], w)[Latest(b) + 1] = w
      BY <1>4, <2>2, AppendProperties
    <2>4. \A n \in 1 .. Latest(b) + 1 : versions'[b][n].write = Append(Entries[b], w)[n]
      BY <1>3, <2>2, <2>3
    <2>5. Entries'[b] \in Seq(Nat) /\ Len(Entries'[b]) = Latest(b) + 1
      <3>1. Latest(b) + 1 \in Nat
        BY <1>3
      <3>2. \A n \in 1 .. Latest(b) + 1 : versions'[b][n].write \in Nat
        BY <1>3, <2>3, <2>4, ElementOfSeq, SMTT(40)
      <3>3. QED
        BY <2>1, <3>1, <3>2
    <2>6. \A n \in 1 .. Len(Entries'[b]) : Entries'[b][n] = Append(Entries[b], w)[n]
      BY <2>1, <2>4, <2>5
    <2>7. QED
      BY <2>3, <2>5, <2>6, SeqEqual
  <1>6. ASSUME NEW c \in Benefits \ {b}
        PROVE  Entries'[c] = Entries[c]
    BY <1>3 DEF Entries
  <1>7. Entries' = [Entries EXCEPT ![b] = Append(@, w)]
    BY <1>5, <1>6 DEF Entries
  <1>8. w \in 1 .. Len(past[b]) \ {Entries[b][n] : n \in 1 .. Len(Entries[b])}
    BY <1>2, EntriesOf
  <1>9. past' = past
    BY DEF Inserts
  <1>10. Log!Record(b)
    BY <1>7, <1>8, <1>9 DEF Log!Record, Log!Logged, Entries
  <1>11. QED
    BY <1>10

\* Every step is a step of the log or leaves it alone.
LEMMA LogStep ==
    ASSUME RecordInv, RecordInv', WritesOwned, [Next]_vars
    PROVE  [Log!Next]_(Log!vars)
  <1>1. ASSUME NEW r \in Requests, NEW b \in Benefits,
               NEW before \in Row \union {Nil}, NEW after \in Row,
               Commit(r, b, before, after)
        PROVE  Log!Write(b)
    <2>1. past' = [past EXCEPT ![b] = Append(@, after)] /\ versions' = versions
      BY <1>1 DEF Commit
    <2>2. Entries' = Entries
      BY <2>1 DEF Entries, Latest
    <2>3. QED
      BY <2>1, <2>2 DEF Log!Write, Entries
  <1>2. ASSUME UNCHANGED <<past, versions>>
        PROVE  UNCHANGED Log!vars
    <2>1. Entries' = Entries
      BY <1>2 DEF Entries, Latest
    <2>2. QED
      BY <1>2, <2>1 DEF Log!vars, Entries
  <1>3. (\E r \in Requests : \E slot : Moves(r, slot)) \/ UNCHANGED vars
           => UNCHANGED <<past, versions>>
    BY DEF Moves, vars
  <1>4. QED
    BY <1>1, <1>2, <1>3, StepShape, InsertRecords DEF Log!Next

\* The versions recordVersion writes are the append-only log that
\* docs/entity-versioning.md describes.
THEOREM VersionsImplementLog == Spec => ImplementsChangeLog
  <1>1. Init => Log!Init
    BY LogInit
  <1>2. RecordInv /\ WritesOwned /\ RecordInv' /\ [Next]_vars => [Log!Next]_(Log!vars)
    BY LogStep
  <1>3. QED
    BY <1>1, <1>2, OwnershipInvariant, PTL DEF Spec, ImplementsChangeLog, Log!Spec

-----------------------------------------------------------------------------
(* What the trail shows is what happened. *)

\* The trail, and the handlers that will still add to it, agree with the rows.
HistoryInv == TrailFromHistory /\ HandlersFromHistory

\* Every row goes on from the states it has been in.
Extended ==
    \A b \in Benefits :
        /\ Len(past[b]) \in Nat /\ Len(past'[b]) \in Nat
        /\ Len(past[b]) <= Len(past'[b])
        /\ \A w \in 1 .. Len(past[b]) : past'[b][w] = past[b][w]

\* A change that happened remains one.
LEMMA HistoryGrows ==
    ASSUME Extended, NEW b \in Benefits, NEW change, FromHistory(b, change),
           change.write \in Nat
    PROVE  FromHistory(b, change)'
  <1>1. /\ Len(past[b]) \in Nat /\ Len(past'[b]) \in Nat
        /\ Len(past[b]) <= Len(past'[b])
        /\ \A w \in 1 .. Len(past[b]) : past'[b][w] = past[b][w]
    BY DEF Extended
  <1>2. /\ change.write \in 1 .. Len(past[b])
        /\ change.after = past[b][change.write]
        /\ change.before = Nil <=> change.write = 1
        /\ change.before # Nil =>
             \E w \in 1 .. change.write - 1 : change.before = past[b][w]
    BY DEF FromHistory
  <1>3. change.write \in 1 .. Len(past'[b]) /\ change.after = past'[b][change.write]
    BY <1>1, <1>2
  <1>4. ASSUME change.before # Nil
        PROVE  \E w \in 1 .. change.write - 1 : change.before = past'[b][w]
    <2>1. PICK w \in 1 .. change.write - 1 : change.before = past[b][w]
      BY <1>2, <1>4
    <2>2. w \in 1 .. Len(past[b])
      BY <1>1, <1>2, <2>1
    <2>3. QED
      BY <1>1, <2>1, <2>2
  <1>5. QED
    BY <1>2, <1>3, <1>4 DEF FromHistory

\* A step keeps HistoryInv when rows only grow, what is new in the trail
\* happened, and a handler that changes place holds what happened.
LEMMA HistoryKept ==
    ASSUME RecordInv, RecordInv', HistoryInv, Extended,
           \A row \in audits' : row \in audits \/ FromHistory(row.benefit, row.change)',
           \A b \in Benefits : \A n \in DOMAIN versions'[b] :
             \/ n \in DOMAIN versions[b] /\ versions'[b][n] = versions[b][n]
             \/ FromHistory(b, versions[b][n])',
           \A q \in Requests : req'[q] = req[q] \/ SlotFromHistory(req[q])'
    PROVE  HistoryInv'
  <1>1. ASSUME NEW row \in audits
        PROVE  FromHistory(row.benefit, row.change)'
    <2>1. row.benefit \in Benefits /\ row.change.write \in Nat
      BY DEF RecordInv, TypeOK, AuditRow, Change
    <2>2. FromHistory(row.benefit, row.change)
      BY DEF HistoryInv, TrailFromHistory
    <2>3. QED
      BY <2>1, <2>2, HistoryGrows
  <1>2. ASSUME NEW b \in Benefits, NEW n \in DOMAIN versions[b],
               versions'[b][n] = versions[b][n]
        PROVE  FromHistory(b, versions[b][n])'
    <2>1. PICK change : change = versions[b][n]
      OBVIOUS
    <2>2. change.write \in Nat
      BY <2>1 DEF RecordInv, TypeOK, Change
    <2>3. FromHistory(b, change)
      BY <2>1 DEF HistoryInv, TrailFromHistory
    <2>4. FromHistory(b, change)'
      BY <2>2, <2>3, HistoryGrows
    <2>5. QED
      BY <1>2, <2>1, <2>4 DEF FromHistory
  <1>3. ASSUME NEW q \in Requests, req'[q] = req[q]
        PROVE  SlotFromHistory(req[q])'
    <2>1. PICK slot : slot = req[q]
      OBVIOUS
    <2>2. slot \in RequestSlot /\ SlotFromHistory(slot)
      BY <2>1 DEF RecordInv, TypeOK, HistoryInv, HandlersFromHistory
    <2>3. slot.pc # "idle" => slot.benefit \in Benefits
      BY <2>1 DEF RecordInv, SlotsSound, SlotSound
    <2>4. slot.pc = "update" =>
            \E w \in 1 .. Len(past'[slot.benefit]) : slot.before = past'[slot.benefit][w]
      BY <2>2, <2>3 DEF SlotFromHistory, Extended
    <2>5. slot.pc \in {"audit", "readLatest", "insert"} =>
            FromHistory(slot.benefit, ChangeOf(slot))'
      <3>1. ChangeOf(slot).write \in Nat
        BY <2>2 DEF RequestSlot, ChangeOf
      <3>2. QED
        BY <2>2, <2>3, <3>1, HistoryGrows DEF SlotFromHistory
    <2>6. SlotFromHistory(slot)'
      BY <2>4, <2>5 DEF SlotFromHistory
    <2>7. QED
      BY <1>3, <2>1, <2>6 DEF SlotFromHistory, FromHistory
  <1>4. \A row \in audits' : FromHistory(row.benefit, row.change)'
    BY <1>1
  <1>5. ASSUME NEW b \in Benefits, NEW n \in DOMAIN versions'[b]
        PROVE  FromHistory(b, versions[b][n])'
    BY <1>2, <1>5
  <1>6. TrailFromHistory'
    BY <1>4, <1>5 DEF TrailFromHistory
  <1>7. HandlersFromHistory'
    BY <1>3 DEF HandlersFromHistory
  <1>8. QED
    BY <1>6, <1>7 DEF HistoryInv

\* A step that leaves the rows alone extends them trivially.
LEMMA SameRows ==
    ASSUME RecordInv, past' = past
    PROVE  Extended
  <1>1. \A b \in Benefits : past[b] \in Seq(Row) /\ Len(past[b]) \in Nat
    BY DEF RecordInv, TypeOK
  <1>2. QED
    BY <1>1 DEF Extended

\* A write that starts from a state the row was in, or from nothing when there
\* was none, is part of the history it makes.
LEMMA HistoryCommit ==
    ASSUME RecordInv, RecordInv', HistoryInv,
           NEW r \in Requests, NEW b \in Benefits,
           NEW before \in Row \union {Nil}, NEW after \in Row,
           Commit(r, b, before, after),
           before = Nil <=> past[b] = << >>,
           before # Nil => \E w \in 1 .. Len(past[b]) : before = past[b][w]
    PROVE  HistoryInv'
  <1> DEFINE top == Len(past[b])
  <1>1. /\ past' = [past EXCEPT ![b] = Append(@, after)]
        /\ req' \in [Requests -> RequestSlot]
        /\ req'[r].pc = "audit"
        /\ req'[r].benefit = b
        /\ req'[r].before = before
        /\ req'[r].after = after
        /\ req'[r].write = top + 1
        /\ \A q \in Requests \ {r} : req'[q] = req[q]
        /\ UNCHANGED <<audits, versions>>
    <2>1. TypeOK /\ SlotsSound /\ UpdatesExist
      BY DEF RecordInv
    <2>2. /\ past' = [past EXCEPT ![b] = Append(@, after)]
          /\ UNCHANGED <<audits, versions>>
      BY DEF Commit
    <2>3. /\ req' \in [Requests -> RequestSlot]
           /\ \A q \in Requests \ {r} : req'[q] = req[q]
      BY <2>1, CommitEffect
    <2>4. /\ req'[r].pc = "audit"
          /\ req'[r].benefit = b
          /\ req'[r].before = before
          /\ req'[r].after = after
          /\ req'[r].write = top + 1
      BY <2>1, CommitEffect
    <2>5. QED
      BY <2>2, <2>3, <2>4
  <1>2. \A c \in Benefits : past[c] \in Seq(Row) /\ Len(past[c]) \in Nat
    BY DEF RecordInv, TypeOK
  <1>3. /\ past'[b] = Append(past[b], after)
        /\ \A c \in Benefits \ {b} : past'[c] = past[c]
    BY <1>1 DEF RecordInv, TypeOK
  <1>4. /\ Len(past'[b]) = top + 1
        /\ past'[b][top + 1] = after
        /\ \A w \in 1 .. top : past'[b][w] = past[b][w]
    BY <1>2, <1>3, AppendProperties
  <1>5. Extended
    <2> SUFFICES ASSUME NEW c \in Benefits
                 PROVE  /\ Len(past[c]) \in Nat /\ Len(past'[c]) \in Nat
                        /\ Len(past[c]) <= Len(past'[c])
                        /\ \A w \in 1 .. Len(past[c]) : past'[c][w] = past[c][w]
      BY DEF Extended
    <2>1. CASE c = b
      BY <1>2, <1>4, <2>1
    <2>2. CASE c # b
      BY <1>2, <1>3, <2>2
    <2>3. QED
      BY <2>1, <2>2
  <1>6. top = 0 <=> past[b] = << >>
    BY <1>2, EmptySeq
  <1>7. SlotFromHistory(req[r])'
    <2>1. PICK change : change = ChangeOf(req'[r])
      OBVIOUS
    <2>2. change.before = before /\ change.after = after /\ change.write = top + 1
      BY <1>1, <2>1 DEF ChangeOf
    <2>3. change.write \in 1 .. Len(past'[b]) /\ change.after = past'[b][change.write]
      BY <1>2, <1>4, <2>2
    <2>4. change.before = Nil <=> change.write = 1
      BY <1>2, <1>6, <2>2
    <2>5. ASSUME change.before # Nil
          PROVE  \E w \in 1 .. change.write - 1 : change.before = past'[b][w]
      <3>1. PICK w \in 1 .. top : before = past[b][w]
        BY <2>2, <2>5
      <3>2. w \in 1 .. change.write - 1 /\ change.before = past'[b][w]
        BY <1>2, <1>4, <2>2, <3>1
      <3>3. QED
        BY <3>2
    <2>6. FromHistory(b, change)'
      BY <2>3, <2>4, <2>5 DEF FromHistory
    <2>7. QED
      BY <1>1, <2>1, <2>6 DEF SlotFromHistory, ChangeOf
  <1>8. QED
    BY <1>1, <1>5, <1>7, HistoryKept

\* A handler that goes on with what it holds, or ends, adds nothing.
LEMMA HistoryMove ==
    ASSUME RecordInv, RecordInv', HistoryInv, NEW r \in Requests, NEW slot,
           Goto(r, slot), UNCHANGED <<past, audits, versions>>,
           \/ slot.pc = "idle"
           \/ /\ Recording(r)
              /\ slot.pc \in {"audit", "readLatest", "insert"}
              /\ slot.benefit = req[r].benefit
              /\ ChangeOf(slot) = ChangeOf(req[r])
    PROVE  HistoryInv'
  <1>1. req'[r] = slot /\ \A q \in Requests \ {r} : req'[q] = req[q]
    BY DEF Goto, RecordInv, TypeOK
  <1>2. SlotFromHistory(req[r])'
    <2>1. CASE slot.pc = "idle"
      BY <1>1, <2>1 DEF SlotFromHistory
    <2>2. CASE slot.pc # "idle"
      <3>1. FromHistory(req[r].benefit, ChangeOf(req[r]))
        BY <2>2 DEF Recording, HistoryInv, HandlersFromHistory, SlotFromHistory
      <3>2. SlotFromHistory(slot)
        BY <2>2, <3>1 DEF SlotFromHistory
      <3>3. QED
        BY <1>1, <3>2 DEF SlotFromHistory, FromHistory, ChangeOf
    <2>3. QED
      BY <2>1, <2>2
  <1>3. QED
    BY <1>1, <1>2, SameRows, HistoryKept

\* The audit row shows the handler's write.
LEMMA HistoryAudit ==
    ASSUME RecordInv, RecordInv', HistoryInv, NEW r \in Requests,
           NEW kept \in BOOLEAN, Audit(r, kept)
    PROVE  HistoryInv'
  <1>0. PICK b \in Benefits : b = req[r].benefit
    BY DEF Audit, RecordInv, SlotsSound, SlotSound
  <1> DEFINE slot == [req[r] EXCEPT !.pc = "readLatest", !.since = Latest(b)]
  <1>1. /\ req[r].pc = "audit"
        /\ req[r] \in RequestSlot
        /\ req'[r] = slot
        /\ \A q \in Requests \ {r} : req'[q] = req[q]
        /\ UNCHANGED <<past, versions>>
    BY <1>0 DEF Audit, Goto, RecordInv, TypeOK
  <1>2. /\ slot.pc = "readLatest" /\ slot.benefit = b
        /\ slot.before = req[r].before /\ slot.after = req[r].after
        /\ slot.write = req[r].write
    BY <1>0, <1>1 DEF RequestSlot
  <1>3. PICK change : change = ChangeOf(req[r])
    OBVIOUS
  <1>4. FromHistory(b, change)
    BY <1>0, <1>1, <1>3 DEF HistoryInv, HandlersFromHistory, SlotFromHistory
  <1>5. FromHistory(b, change)'
    <2>1. past' = past
      BY <1>1
    <2>2. QED
      BY <1>4, <2>1, Zenon DEF FromHistory
  <1>6. ChangeOf(req'[r]) = change /\ req'[r].benefit = b /\ req'[r].pc = "readLatest"
    BY <1>1, <1>2, <1>3 DEF ChangeOf
  <1> HIDE DEF slot
  <1>7. SlotFromHistory(req[r])'
    BY <1>5, <1>6 DEF SlotFromHistory, FromHistory, ChangeOf
  <1>8. \A row \in audits' : row \in audits \/ FromHistory(row.benefit, row.change)'
    BY <1>0, <1>3, <1>5 DEF Audit, FromHistory
  <1>9. QED
    BY <1>1, <1>7, <1>8, SameRows, HistoryKept

\* The version inserted shows the handler's write.
LEMMA HistoryInsert ==
    ASSUME RecordInv, RecordInv', HistoryInv, NEW r \in Requests, Inserts(r)
    PROVE  HistoryInv'
  <1>1. PICK b \in Benefits : b = req[r].benefit
    BY DEF Inserts, RecordInv, SlotsSound, SlotSound
  <1>2. PICK change : change = ChangeOf(req[r])
    OBVIOUS
  <1>3. /\ DOMAIN versions[b] = 1 .. Latest(b)
        /\ Latest(b) \in Nat
        /\ DOMAIN versions'[b] = 1 .. Latest(b) + 1
        /\ versions'[b][Latest(b) + 1] = change
        /\ \A n \in 1 .. Latest(b) : versions'[b][n] = versions[b][n]
        /\ \A c \in Benefits \ {b} : versions'[c] = versions[c]
    BY <1>1, <1>2, InsertEffect DEF Inserts, RecordInv, NumbersSound, VersionsContiguous
  <1>4. /\ req'[r].pc = "idle"
        /\ \A q \in Requests \ {r} : req'[q] = req[q]
        /\ UNCHANGED <<past, audits>>
    BY DEF Inserts, Goto, Idle, RecordInv, TypeOK
  <1>5. FromHistory(b, change)
    BY <1>1, <1>2 DEF Inserts, HistoryInv, HandlersFromHistory, SlotFromHistory
  <1>6. FromHistory(b, change)'
    BY <1>4, <1>5, Zenon DEF FromHistory
  <1>7. ASSUME NEW c \in Benefits, NEW n \in DOMAIN versions'[c]
        PROVE  \/ n \in DOMAIN versions[c] /\ versions'[c][n] = versions[c][n]
               \/ FromHistory(c, versions[c][n])'
    <2>1. CASE c # b
      BY <1>3, <1>7, <2>1
    <2>2. CASE c = b /\ n \in 1 .. Latest(b)
      BY <1>3, <2>2
    <2>3. CASE c = b /\ n = Latest(b) + 1
      BY <1>3, <1>6, <2>3 DEF FromHistory
    <2>4. QED
      BY <1>3, <1>7, <2>1, <2>2, <2>3
  <1>8. SlotFromHistory(req[r])'
    BY <1>4 DEF SlotFromHistory
  <1>9. QED
    BY <1>4, <1>7, <1>8, SameRows, HistoryKept

\* A row that is found is the last of the states it has been in.
LEMMA StoredIsPast ==
    ASSUME RecordInv, NEW b \in Benefits, past[b] # << >>
    PROVE  /\ Stored(b) \in Row
           /\ \E w \in 1 .. Len(past[b]) : Stored(b) = past[b][w]
  <1>1. past[b] \in Seq(Row) /\ Len(past[b]) \in Nat /\ Len(past[b]) # 0
    BY EmptySeq DEF RecordInv, TypeOK
  <1>2. Len(past[b]) \in 1 .. Len(past[b])
    BY <1>1
  <1>3. QED
    BY <1>1, <1>2 DEF Stored

\* Every step keeps HistoryInv.
LEMMA HistoryStep ==
    ASSUME RecordInv, RecordInv', HistoryInv, [Next]_vars
    PROVE  HistoryInv'
  <1>1. ASSUME NEW r \in Requests, NEW b \in Benefits, NEW row \in Row, Create(r, b, row)
        PROVE  HistoryInv'
    <2>1. past[b] = << >> /\ Commit(r, b, Nil, row)
      BY <1>1 DEF Create
    <2>2. QED
      BY <2>1, HistoryCommit
  <1>2. ASSUME NEW r \in Requests, NEW b \in Benefits, FindExisting(r, b)
        PROVE  HistoryInv'
    <2>1. PICK row : row = Stored(b)
      OBVIOUS
    <2> DEFINE slot == [Idle EXCEPT !.pc = "update", !.benefit = b, !.before = row]
    <2>2. slot.pc = "update" /\ slot.benefit = b /\ slot.before = row
      BY DEF Idle
    <2>3. /\ past[b] # << >>
          /\ Goto(r, slot)
          /\ UNCHANGED <<past, audits, versions>>
      BY <1>2, <2>1 DEF FindExisting
    <2> HIDE DEF slot
    <2>4. req'[r] = slot /\ \A q \in Requests \ {r} : req'[q] = req[q]
      BY <2>3 DEF Goto, RecordInv, TypeOK
    <2>5. SlotFromHistory(req[r])'
      <3>1. \E w \in 1 .. Len(past'[b]) : row = past'[b][w]
        BY <2>1, <2>3, StoredIsPast
      <3>2. QED
        BY <2>2, <2>4, <3>1 DEF SlotFromHistory
    <2>6. QED
      BY <2>3, <2>4, <2>5, SameRows, HistoryKept
  <1>3. ASSUME NEW r \in Requests, NEW text \in Texts \union {Nil},
               NEW active \in BOOLEAN \union {Nil}, Update(r, text, active)
        PROVE  HistoryInv'
    <2>1. PICK b \in Benefits : b = req[r].benefit
      BY <1>3 DEF Update, RecordInv, SlotsSound, SlotSound
    <2>2. PICK before \in Row : before = req[r].before
      BY <1>3 DEF Update, RecordInv, SlotsSound, SlotSound
    <2>3. past[b] # << >>
      BY <1>3, <2>1 DEF Update, RecordInv, UpdatesExist
    <2>4. Patched(Stored(b), text, active) \in Row
      BY <2>3, StoredIsPast, PatchedTyped
    <2>5. PICK after \in Row : after = Patched(Stored(b), text, active)
      BY <2>4
    <2>6. Commit(r, b, before, after)
      BY <1>3, <2>1, <2>2, <2>5 DEF Update
    <2>7. \E w \in 1 .. Len(past[b]) : before = past[b][w]
      BY <1>3, <2>1, <2>2 DEF Update, HistoryInv, HandlersFromHistory, SlotFromHistory
    <2>8. before # Nil
      BY NilAssumption
    <2>9. QED
      BY <2>3, <2>6, <2>7, <2>8, HistoryCommit
  <1>4. ASSUME NEW r \in Requests, NEW kept \in BOOLEAN, Audit(r, kept)
        PROVE  HistoryInv'
    BY <1>4, HistoryAudit
  <1>5. ASSUME NEW r \in Requests, ReadLatest(r)
        PROVE  HistoryInv'
    <2> DEFINE slot == [req[r] EXCEPT !.pc = "insert", !.number = Latest(req[r].benefit) + 1]
    <2>1. req[r] \in RequestSlot /\ Recording(r)
      BY <1>5 DEF ReadLatest, Recording, RecordInv, TypeOK
    <2>2. /\ slot.pc = "insert" /\ slot.benefit = req[r].benefit
          /\ slot.before = req[r].before /\ slot.after = req[r].after
          /\ slot.write = req[r].write
      BY <2>1 DEF RequestSlot
    <2>3. Goto(r, slot) /\ UNCHANGED <<past, audits, versions>>
      BY <1>5 DEF ReadLatest
    <2> HIDE DEF slot
    <2>4. ChangeOf(slot) = ChangeOf(req[r])
      BY <2>2 DEF ChangeOf
    <2>5. QED
      BY <2>1, <2>2, <2>3, <2>4, HistoryMove
  <1>6. ASSUME NEW r \in Requests, Inserts(r)
        PROVE  HistoryInv'
    BY <1>6, HistoryInsert
  <1>7. ASSUME NEW r \in Requests, Conflict(r)
        PROVE  HistoryInv'
    <2> DEFINE slot == [req[r] EXCEPT !.pc = "readLatest", !.attempt = @ + 1]
    <2>1. req[r] \in RequestSlot /\ Recording(r)
      BY <1>7 DEF Conflict, Recording, RecordInv, TypeOK
    <2>2. /\ slot.pc = "readLatest" /\ slot.benefit = req[r].benefit
          /\ slot.before = req[r].before /\ slot.after = req[r].after
          /\ slot.write = req[r].write
      BY <2>1 DEF RequestSlot
    <2>3. /\ Goto(r, slot) \/ Goto(r, Idle)
          /\ UNCHANGED <<past, audits, versions>>
      BY <1>7 DEF Conflict, GiveUp, Finish
    <2> HIDE DEF slot
    <2>4. ChangeOf(slot) = ChangeOf(req[r]) /\ Idle.pc = "idle"
      BY <2>2 DEF ChangeOf, Idle
    <2>5. QED
      BY <2>1, <2>2, <2>3, <2>4, HistoryMove
  <1>8. ASSUME NEW r \in Requests, Fault(r)
        PROVE  HistoryInv'
    <2>1. Goto(r, Idle) /\ UNCHANGED <<past, audits, versions>>
      BY <1>8 DEF Fault, GiveUp, Finish
    <2>2. Idle.pc = "idle"
      BY DEF Idle
    <2>3. QED
      BY <2>1, <2>2, HistoryMove
  <1>9. CASE UNCHANGED vars
    BY <1>9, SameRows, HistoryKept DEF vars
  <1>10. ASSUME NEW r \in Requests, InsertVersion(r) \/ LoseReply(r)
         PROVE  Inserts(r)
    BY <1>10 DEF InsertVersion, LoseReply, Finish, Inserts
  <1>11. QED
    BY <1>1, <1>2, <1>3, <1>4, <1>5, <1>6, <1>7, <1>8, <1>9, <1>10
    DEF Next, Arrive, Continue

\* Every audit row and every version shows a write that was made: the state it
\* made, and before it a state the benefit was in earlier.
THEOREM TrailIsTrue == Spec => []TrailFromHistory
  <1>1. Init => HistoryInv
    <2> SUFFICES ASSUME Init PROVE HistoryInv
      OBVIOUS
    <2>1. \A b \in Benefits : DOMAIN versions[b] = {}
      <3>1. DOMAIN << >> = {}
        OBVIOUS
      <3>2. QED
        BY <3>1 DEF Init
    <2>2. \A r \in Requests : req[r].pc = "idle"
      BY DEF Init, Idle
    <2>3. audits = {}
      BY DEF Init
    <2>4. QED
      BY <2>1, <2>2, <2>3 DEF HistoryInv, TrailFromHistory, HandlersFromHistory, SlotFromHistory
  <1>2. RecordInv /\ RecordInv' /\ HistoryInv /\ [Next]_vars => HistoryInv'
    BY HistoryStep
  <1>3. HistoryInv => TrailFromHistory
    BY DEF HistoryInv
  <1>4. QED
    BY <1>1, <1>2, <1>3, RecordInvariant, PTL DEF Spec

-----------------------------------------------------------------------------
(* No write is forgotten and none is counted twice. *)

\* A slot that is free is about no benefit.
FreeSlots == \A r \in Requests : req[r].pc = "idle" => req[r].benefit = Nil

AccountedInv == WritesAccounted /\ FreeSlots

\* The writes that handlers other than r are recording.
PendingElsewhere(r, b) ==
    {req[q].write : q \in {p \in Requests \ {r} : req[p].benefit = b /\ req[p].pc # "update"}}

\* A handler at work on a benefit that is not about to update it records a write.
LEMMA PendingRecords ==
    ASSUME RecordInv, FreeSlots, NEW q \in Requests, NEW b \in Benefits,
           req[q].benefit = b, req[q].pc # "update"
    PROVE  Recording(q)
  <1>1. req[q].pc # "idle"
    BY NilAssumption DEF FreeSlots
  <1>2. QED
    BY <1>1 DEF RecordInv, TypeOK, RequestSlot, Places, Recording

\* The write of a recording handler is pending, and with no other handler.
LEMMA PendingSplit ==
    ASSUME RecordInv, WritesOwned, FreeSlots, NEW r \in Requests, Recording(r),
           NEW b \in Benefits, b = req[r].benefit
    PROVE  /\ req[r].write \in Pending(b)
           /\ PendingElsewhere(r, b) = Pending(b) \ {req[r].write}
  <1>1. req[r].write \in Pending(b)
    BY DEF Pending, Recording
  <1>2. Pending(b) = PendingElsewhere(r, b) \union {req[r].write}
    BY DEF Pending, PendingElsewhere, Recording
  <1>3. req[r].write \notin PendingElsewhere(r, b)
    <2> SUFFICES ASSUME NEW q \in Requests \ {r}, req[q].benefit = b, req[q].pc # "update",
                        req[q].write = req[r].write
                 PROVE  FALSE
      BY DEF PendingElsewhere
    <2>1. Recording(q)
      BY PendingRecords
    <2>2. QED
      BY <2>1 DEF WritesOwned
  <1>4. QED
    BY <1>1, <1>2, <1>3

\* What is pending after a step that changes one slot.
LEMMA PendingStep ==
    ASSUME RecordInv, NEW r \in Requests, NEW slot, Goto(r, slot), NEW b \in Benefits
    PROVE  /\ slot.benefit = b /\ slot.pc # "update" =>
                Pending(b)' = PendingElsewhere(r, b) \union {slot.write}
           /\ slot.benefit # b \/ slot.pc = "update" =>
                Pending(b)' = PendingElsewhere(r, b)
  <1>1. req'[r] = slot /\ \A q \in Requests \ {r} : req'[q] = req[q]
    BY DEF Goto, RecordInv, TypeOK
  <1>2. QED
    BY <1>1 DEF Pending, PendingElsewhere

\* A handler of another benefit, or about to update this one, holds none of its
\* pending writes.
LEMMA PendingOthers ==
    ASSUME NEW r \in Requests, NEW b \in Benefits,
           req[r].benefit # b \/ req[r].pc = "update"
    PROVE  PendingElsewhere(r, b) = Pending(b)
  BY DEF Pending, PendingElsewhere

\* A committed write is a new pending one.
LEMMA AccountedCommit ==
    ASSUME RecordInv, WritesOwned, AccountedInv,
           NEW r \in Requests, NEW b \in Benefits,
           NEW before \in Row \union {Nil}, NEW after \in Row,
           req[r].pc \in {"idle", "update"},
           Commit(r, b, before, after)
    PROVE  AccountedInv'
  <1> DEFINE top == Len(past[b])
             slot == [Idle EXCEPT !.pc = "audit", !.benefit = b, !.before = before,
                            !.after = after, !.write = Len(past[b]) + 1]
  <1>1. /\ past' = [past EXCEPT ![b] = Append(@, after)]
        /\ Goto(r, slot)
        /\ UNCHANGED <<versions, lost>>
    BY DEF Commit
  <1>2. slot.pc = "audit" /\ slot.benefit = b /\ slot.write = top + 1
    BY DEF Idle
  <1> HIDE DEF slot
  <1>3. \A c \in Benefits : past[c] \in Seq(Row) /\ Len(past[c]) \in Nat
    BY DEF RecordInv, TypeOK
  <1>4. /\ Len(past'[b]) = top + 1
        /\ \A c \in Benefits \ {b} : past'[c] = past[c]
    BY <1>1, <1>3 DEF RecordInv, TypeOK
  <1>5. \A c \in Benefits : Logged(c)' = Logged(c) /\ GivenUp(c)' = GivenUp(c)
    BY <1>1 DEF Logged, GivenUp
  <1>6. \A c \in Benefits : PendingElsewhere(r, c) = Pending(c)
    BY NilAssumption, PendingOthers DEF AccountedInv, FreeSlots
  <1>7. Pending(b)' = Pending(b) \union {top + 1}
    BY <1>1, <1>2, <1>6, PendingStep
  <1>8. \A c \in Benefits \ {b} : Pending(c)' = Pending(c)
    BY <1>1, <1>2, <1>6, PendingStep
  <1>9. \A c \in Benefits :
          /\ Logged(c) \union GivenUp(c) \union Pending(c) = 1 .. Len(past[c])
          /\ Logged(c) \intersect GivenUp(c) = {}
          /\ Pending(c) \intersect (Logged(c) \union GivenUp(c)) = {}
    BY DEF AccountedInv, WritesAccounted
  <1>10. 1 .. (top + 1) = (1 .. top) \union {top + 1} /\ top + 1 \notin 1 .. top
    BY <1>3
  <1>11. /\ Logged(b)' \union GivenUp(b)' \union Pending(b)' = 1 .. Len(past'[b])
         /\ Logged(b)' \intersect GivenUp(b)' = {}
         /\ Pending(b)' \intersect (Logged(b)' \union GivenUp(b)') = {}
    <2>1. /\ Logged(b) \union GivenUp(b) \union Pending(b) = 1 .. top
          /\ Logged(b) \intersect GivenUp(b) = {}
          /\ Pending(b) \intersect (Logged(b) \union GivenUp(b)) = {}
      BY <1>9
    <2>2. /\ Logged(b)' = Logged(b) /\ GivenUp(b)' = GivenUp(b)
          /\ 1 .. Len(past'[b]) = 1 .. (top + 1)
      BY <1>4, <1>5
    <2> HIDE DEF top
    <2>3. QED
      BY <1>7, <1>10, <2>1, <2>2
  <1>12. ASSUME NEW c \in Benefits \ {b}
         PROVE  /\ Logged(c)' \union GivenUp(c)' \union Pending(c)' = 1 .. Len(past'[c])
                /\ Logged(c)' \intersect GivenUp(c)' = {}
                /\ Pending(c)' \intersect (Logged(c)' \union GivenUp(c)') = {}
    BY <1>4, <1>5, <1>8, <1>9
  <1>13. WritesAccounted'
    BY <1>11, <1>12 DEF WritesAccounted
  <1>14. FreeSlots'
    BY <1>1, <1>2 DEF AccountedInv, FreeSlots, Goto, RecordInv, TypeOK
  <1>15. QED
    BY <1>13, <1>14 DEF AccountedInv

\* A handler that goes on keeps its write, and one that had none ends.
LEMMA AccountedMove ==
    ASSUME RecordInv, WritesOwned, AccountedInv, NEW r \in Requests, NEW slot,
           Goto(r, slot), UNCHANGED <<past, versions, lost>>,
           slot.pc = "idle" => slot.benefit = Nil,
           \/ /\ Recording(r)
              /\ slot.pc # "update"
              /\ slot.benefit = req[r].benefit
              /\ slot.write = req[r].write
           \/ req[r].pc \in {"idle", "update"} /\ slot.pc \in {"idle", "update"}
    PROVE  AccountedInv'
  <1>1. ASSUME NEW c \in Benefits
        PROVE  Pending(c)' = Pending(c)
    <2>1. CASE Recording(r) /\ req[r].benefit = c
      <3>1. slot.pc # "update" /\ slot.benefit = c /\ slot.write = req[r].write
        BY <2>1 DEF Recording
      <3>2. Pending(c)' = PendingElsewhere(r, c) \union {req[r].write}
        BY <3>1, PendingStep
      <3>3. Pending(c) = PendingElsewhere(r, c) \union {req[r].write}
        BY <2>1, PendingSplit DEF AccountedInv
      <3>4. QED
        BY <3>2, <3>3
    <2>2. CASE ~ (Recording(r) /\ req[r].benefit = c)
      <3>1. req[r].benefit # c \/ req[r].pc = "update"
        BY <2>2, PendingRecords DEF AccountedInv
      <3>2. slot.benefit # c \/ slot.pc = "update"
        BY <2>2, <3>1, NilAssumption DEF Recording
      <3>3. QED
        BY <3>1, <3>2, PendingStep, PendingOthers
    <2>3. QED
      BY <2>1, <2>2
  <1>2. \A c \in Benefits : Logged(c)' = Logged(c) /\ GivenUp(c)' = GivenUp(c)
    BY DEF Logged, GivenUp
  <1>3. WritesAccounted'
    BY <1>1, <1>2 DEF AccountedInv, WritesAccounted
  <1>4. FreeSlots'
    BY DEF AccountedInv, FreeSlots, Goto, RecordInv, TypeOK
  <1>5. QED
    BY <1>3, <1>4 DEF AccountedInv

\* A handler that ends leaves its write to a version, or to the losses.
LEMMA AccountedEnd ==
    ASSUME RecordInv, WritesOwned, AccountedInv, NEW r \in Requests, Recording(r),
           Goto(r, Idle), past' = past,
           NEW b \in Benefits, b = req[r].benefit,
           \/ /\ Logged(b)' = Logged(b) \union {req[r].write}
              /\ GivenUp(b)' = GivenUp(b)
           \/ /\ GivenUp(b)' = GivenUp(b) \union {req[r].write}
              /\ Logged(b)' = Logged(b),
           \A c \in Benefits \ {b} : Logged(c)' = Logged(c) /\ GivenUp(c)' = GivenUp(c)
    PROVE  AccountedInv'
  <1>1. Idle.pc = "idle" /\ Idle.benefit = Nil /\ Nil \notin Benefits
    BY NilAssumption DEF Idle
  <1>2. /\ req[r].write \in Pending(b)
        /\ Pending(b)' = Pending(b) \ {req[r].write}
    BY <1>1, PendingSplit, PendingStep DEF AccountedInv
  <1>3. \A c \in Benefits \ {b} : Pending(c)' = Pending(c)
    BY <1>1, PendingStep, PendingOthers
  <1>4. \A c \in Benefits :
          /\ Logged(c) \union GivenUp(c) \union Pending(c) = 1 .. Len(past[c])
          /\ Logged(c) \intersect GivenUp(c) = {}
          /\ Pending(c) \intersect (Logged(c) \union GivenUp(c)) = {}
    BY DEF AccountedInv, WritesAccounted
  <1>5. /\ Logged(b)' \union GivenUp(b)' \union Pending(b)' = 1 .. Len(past'[b])
        /\ Logged(b)' \intersect GivenUp(b)' = {}
        /\ Pending(b)' \intersect (Logged(b)' \union GivenUp(b)') = {}
    <2>1. /\ Logged(b) \union GivenUp(b) \union Pending(b) = 1 .. Len(past[b])
          /\ Logged(b) \intersect GivenUp(b) = {}
          /\ Pending(b) \intersect (Logged(b) \union GivenUp(b)) = {}
      BY <1>4
    <2>2. 1 .. Len(past'[b]) = 1 .. Len(past[b])
      OBVIOUS
    <2>3. QED
      BY <1>2, <2>1, <2>2
  <1>6. ASSUME NEW c \in Benefits \ {b}
        PROVE  /\ Logged(c)' \union GivenUp(c)' \union Pending(c)' = 1 .. Len(past'[c])
               /\ Logged(c)' \intersect GivenUp(c)' = {}
               /\ Pending(c)' \intersect (Logged(c)' \union GivenUp(c)') = {}
    BY <1>3, <1>4
  <1>7. WritesAccounted'
    BY <1>5, <1>6 DEF WritesAccounted
  <1>8. FreeSlots'
    BY <1>1 DEF AccountedInv, FreeSlots, Goto, RecordInv, TypeOK
  <1>9. QED
    BY <1>7, <1>8 DEF AccountedInv

\* Every step keeps AccountedInv.
LEMMA AccountedStep ==
    ASSUME RecordInv, WritesOwned, AccountedInv, [Next]_vars
    PROVE  AccountedInv'
  <1>1. ASSUME NEW r \in Requests, NEW b \in Benefits, NEW row \in Row, Create(r, b, row)
        PROVE  AccountedInv'
    <2>1. req[r].pc = "idle" /\ Commit(r, b, Nil, row)
      BY <1>1 DEF Create, Idle
    <2>2. QED
      BY <2>1, AccountedCommit
  <1>2. ASSUME NEW r \in Requests, NEW b \in Benefits, FindExisting(r, b)
        PROVE  AccountedInv'
    <2> DEFINE slot == [Idle EXCEPT !.pc = "update", !.benefit = b, !.before = Stored(b)]
    <2>1. slot.pc = "update" /\ Idle.pc = "idle"
      BY DEF Idle
    <2>2. /\ req[r].pc = "idle"
          /\ Goto(r, slot)
          /\ UNCHANGED <<past, versions, lost>>
      BY <1>2, <2>1 DEF FindExisting
    <2> HIDE DEF slot
    <2>3. QED
      BY <2>1, <2>2, AccountedMove
  <1>3. ASSUME NEW r \in Requests, NEW text \in Texts \union {Nil},
               NEW active \in BOOLEAN \union {Nil}, Update(r, text, active)
        PROVE  AccountedInv'
    <2>1. PICK b \in Benefits : b = req[r].benefit
      BY <1>3 DEF Update, RecordInv, SlotsSound, SlotSound
    <2>2. PICK before \in Row : before = req[r].before
      BY <1>3 DEF Update, RecordInv, SlotsSound, SlotSound
    <2>3. past[b] # << >>
      BY <1>3, <2>1 DEF Update, RecordInv, UpdatesExist
    <2>4. PICK after \in Row : after = Patched(Stored(b), text, active)
      BY <2>3, StoredIsPast, PatchedTyped
    <2>5. req[r].pc = "update" /\ Commit(r, b, before, after)
      BY <1>3, <2>1, <2>2, <2>4 DEF Update
    <2>6. QED
      BY <2>5, AccountedCommit
  <1>4. ASSUME NEW r \in Requests, NEW kept \in BOOLEAN, Audit(r, kept)
        PROVE  AccountedInv'
    <2> DEFINE slot == [req[r] EXCEPT !.pc = "readLatest", !.since = Latest(req[r].benefit)]
    <2>1. req[r] \in RequestSlot /\ Recording(r)
      BY <1>4 DEF Audit, Recording, RecordInv, TypeOK
    <2>2. /\ slot.pc = "readLatest"
          /\ slot.benefit = req[r].benefit /\ slot.write = req[r].write
      BY <2>1 DEF RequestSlot
    <2>3. Goto(r, slot) /\ UNCHANGED <<past, versions, lost>>
      BY <1>4 DEF Audit
    <2> HIDE DEF slot
    <2>4. QED
      BY <2>1, <2>2, <2>3, AccountedMove
  <1>5. ASSUME NEW r \in Requests, ReadLatest(r)
        PROVE  AccountedInv'
    <2> DEFINE slot == [req[r] EXCEPT !.pc = "insert", !.number = Latest(req[r].benefit) + 1]
    <2>1. req[r] \in RequestSlot /\ Recording(r)
      BY <1>5 DEF ReadLatest, Recording, RecordInv, TypeOK
    <2>2. /\ slot.pc = "insert"
          /\ slot.benefit = req[r].benefit /\ slot.write = req[r].write
      BY <2>1 DEF RequestSlot
    <2>3. Goto(r, slot) /\ UNCHANGED <<past, versions, lost>>
      BY <1>5 DEF ReadLatest
    <2> HIDE DEF slot
    <2>4. QED
      BY <2>1, <2>2, <2>3, AccountedMove
  <1>6. ASSUME NEW r \in Requests, Inserts(r)
        PROVE  AccountedInv'
    <2>1. PICK b \in Benefits : b = req[r].benefit
      BY <1>6 DEF Inserts, RecordInv, SlotsSound, SlotSound
    <2>2. /\ Recording(r)
          /\ Goto(r, Idle)
          /\ UNCHANGED <<past, lost>>
      BY <1>6 DEF Inserts, Recording
    <2>3. /\ Logged(b)' = Logged(b) \union {req[r].write}
          /\ \A c \in Benefits \ {b} : Logged(c)' = Logged(c)
      BY <1>6, <2>1, InsertLogs
    <2>4. \A c \in Benefits : GivenUp(c)' = GivenUp(c)
      BY <2>2 DEF GivenUp
    <2>5. QED
      BY <2>1, <2>2, <2>3, <2>4, AccountedEnd
  <1>7. ASSUME NEW r \in Requests, NEW why, Recording(r), GiveUp(r, why),
               UNCHANGED <<past, versions>>
        PROVE  AccountedInv'
    <2>1. PICK b \in Benefits : b = req[r].benefit
      BY <1>7 DEF Recording, RecordInv, SlotsSound, SlotSound
    <2> DEFINE loss == [benefit |-> req[r].benefit, write |-> req[r].write, why |-> why,
                        rivals |-> Latest(req[r].benefit) - req[r].since]
    <2>2. lost' = lost \union {loss} /\ Goto(r, Idle)
      BY <1>7 DEF GiveUp, Finish
    <2>3. loss.benefit = b /\ loss.write = req[r].write
      BY <2>1
    <2> HIDE DEF loss
    <2>4. /\ GivenUp(b)' = GivenUp(b) \union {req[r].write}
          /\ \A c \in Benefits \ {b} : GivenUp(c)' = GivenUp(c)
      BY <2>2, <2>3 DEF GivenUp
    <2>5. \A c \in Benefits : Logged(c)' = Logged(c)
      BY <1>7 DEF Logged
    <2>6. QED
      BY <1>7, <2>1, <2>2, <2>4, <2>5, AccountedEnd
  <1>8. ASSUME NEW r \in Requests, Conflict(r)
        PROVE  AccountedInv'
    <2> DEFINE slot == [req[r] EXCEPT !.pc = "readLatest", !.attempt = @ + 1]
    <2>1. req[r] \in RequestSlot /\ Recording(r)
      BY <1>8 DEF Conflict, Recording, RecordInv, TypeOK
    <2>2. /\ slot.pc = "readLatest"
          /\ slot.benefit = req[r].benefit /\ slot.write = req[r].write
      BY <2>1 DEF RequestSlot
    <2>3. /\ (Goto(r, slot) /\ UNCHANGED lost) \/ GiveUp(r, "conflict")
          /\ UNCHANGED <<past, versions>>
      BY <1>8 DEF Conflict
    <2> HIDE DEF slot
    <2>4. QED
      BY <1>7, <2>1, <2>2, <2>3, AccountedMove
  <1>9. ASSUME NEW r \in Requests, Fault(r)
        PROVE  AccountedInv'
    <2>1. CASE req[r].pc = "update"
      <3>1. Goto(r, Idle) /\ UNCHANGED <<past, versions, lost>>
        BY <1>9, <2>1 DEF Fault, Finish
      <3>2. Idle.pc = "idle" /\ Idle.benefit = Nil
        BY DEF Idle
      <3>3. QED
        BY <2>1, <3>1, <3>2, AccountedMove
    <2>2. CASE req[r].pc # "update"
      <3>1. Recording(r)
        BY <1>9, <2>2 DEF Fault, Recording, RecordInv, TypeOK, RequestSlot, Places
      <3>2. GiveUp(r, "fault") /\ UNCHANGED <<past, versions>>
        BY <1>9, <2>2 DEF Fault
      <3>3. QED
        BY <1>7, <3>1, <3>2
    <2>3. QED
      BY <2>1, <2>2
  <1>10. CASE UNCHANGED vars
    <2>1. UNCHANGED <<past, versions, lost, req>>
      BY <1>10 DEF vars
    <2>2. \A b \in Benefits : /\ Logged(b)' = Logged(b)
                              /\ GivenUp(b)' = GivenUp(b)
                              /\ Pending(b)' = Pending(b)
      BY <2>1 DEF Logged, GivenUp, Pending
    <2>3. QED
      BY <2>1, <2>2 DEF AccountedInv, WritesAccounted, FreeSlots
  <1>11. ASSUME NEW r \in Requests, InsertVersion(r) \/ LoseReply(r)
         PROVE  Inserts(r)
    BY <1>11 DEF InsertVersion, LoseReply, Finish, Inserts
  <1>12. QED
    BY <1>1, <1>2, <1>3, <1>4, <1>5, <1>6, <1>8, <1>9, <1>10, <1>11
    DEF Next, Arrive, Continue

\* Every write has its version, or its handler is still at it, or it was given
\* up, and only one of these: recordVersion loses nothing silently.
THEOREM NoWriteIsForgotten == Spec => []WritesAccounted
  <1>1. Init => AccountedInv
    <2> SUFFICES ASSUME Init PROVE AccountedInv
      OBVIOUS
    <2>1. \A r \in Requests : req[r].benefit = Nil
      BY DEF Init, Idle
    <2>2. FreeSlots
      BY <2>1 DEF FreeSlots
    <2>3. ASSUME NEW b \in Benefits
          PROVE  /\ Logged(b) = {} /\ GivenUp(b) = {} /\ Pending(b) = {}
                 /\ 1 .. Len(past[b]) = {}
      <3>1. Logged(b) = {}
        <4>1. DOMAIN << >> = {}
          OBVIOUS
        <4>2. QED
          BY <4>1 DEF Init, Logged
      <3>2. GivenUp(b) = {}
        BY DEF Init, GivenUp
      <3>3. Pending(b) = {}
        BY <2>1, NilAssumption DEF Pending
      <3>4. 1 .. Len(past[b]) = {}
        BY DEF Init
      <3>5. QED
        BY <3>1, <3>2, <3>3, <3>4
    <2>4. QED
      BY <2>2, <2>3 DEF AccountedInv, WritesAccounted
  <1>2. RecordInv /\ WritesOwned /\ AccountedInv /\ [Next]_vars => AccountedInv'
    BY AccountedStep
  <1>3. AccountedInv => WritesAccounted
    BY DEF AccountedInv
  <1>4. QED
    BY <1>1, <1>2, <1>3, OwnershipInvariant, PTL DEF Spec
=============================================================================
