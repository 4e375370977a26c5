------------------------ MODULE BenefitHistory_proofs ------------------------
(***************************************************************************)
(* Proofs about BenefitHistory, for every set of benefits and requests and  *)
(* every bound.                                                            *)
(***************************************************************************)
EXTENDS BenefitHistory, TLAPS

USE NilAssumption, BoundsAssumption

-----------------------------------------------------------------------------
(* Version numbers. *)

\* The largest of the numbers 1 to n is n.
LEMMA HighestOfInterval ==
    ASSUME NEW n \in Nat
    PROVE  Highest(1 .. n) = n
  <1>1. CASE n = 0
    BY <1>1 DEF Highest
  <1>2. CASE n # 0
    <2>1. n \in 1 .. n /\ \A m \in 1 .. n : m <= n
      BY <1>2
    <2>2. \A k \in 1 .. n : (\A m \in 1 .. n : m <= k) => k = n
      BY <2>1
    <2>3. QED
      BY <2>1, <2>2 DEF Highest
  <1>3. QED
    BY <1>1, <1>2

\* The rows that an insertion leaves: number is the next one, and no other row
\* changes.
LEMMA InsertEffect ==
    ASSUME TypeOK, NumbersSound, SlotsSound,
           NEW r \in Requests, req[r].pc = "insert", ~ Taken(r),
           NEW b \in Benefits, b = req[r].benefit,
           versions' = Inserted(r)
    PROVE  /\ req[r].number = Latest(b) + 1
           /\ DOMAIN versions' = Benefits
           /\ DOMAIN versions'[b] = 1 .. Latest(b) + 1
           /\ Latest(b)' = Latest(b) + 1
           /\ versions'[b][Latest(b) + 1] = ChangeOf(req[r])
           /\ \A n \in 1 .. Latest(b) : versions'[b][n] = versions[b][n]
           /\ \A c \in Benefits \ {b} :
                versions'[c] = versions[c] /\ Latest(c)' = Latest(c)
  <1> DEFINE number == req[r].number
             top == Latest(b)
             row == [n \in DOMAIN versions[b] \union {number} |->
                        IF n = number THEN ChangeOf(req[r]) ELSE versions[b][n]]
  <1>1. number \in Nat /\ top \in Nat
    BY DEF TypeOK, RequestSlot, NumbersSound
  <1>2. DOMAIN versions[b] = 1 .. top
    BY <1>1 DEF NumbersSound, VersionsContiguous
  <1>3. number = top + 1
    <2>1. number >= 1 /\ number <= top + 1
      <3>1. /\ req[r].since + req[r].attempt < number
            /\ number <= top + 1
        BY DEF SlotsSound, SlotSound
      <3>2. req[r].since \in Nat /\ req[r].attempt \in Nat
        BY DEF TypeOK, RequestSlot
      <3>3. QED
        BY <1>1, <3>1, <3>2
    <2>2. number \notin 1 .. top
      BY <1>2 DEF Taken
    <2>3. QED
      BY <1>1, <2>1, <2>2
  <1>4. /\ versions'[b] = row
        /\ DOMAIN versions' = Benefits
        /\ \A c \in Benefits \ {b} : versions'[c] = versions[c]
    BY DEF Inserted, TypeOK
  <1>5. DOMAIN row = 1 .. top + 1
    BY <1>1, <1>2, <1>3
  <1>6. /\ row[top + 1] = ChangeOf(req[r])
        /\ \A n \in 1 .. top : row[n] = versions[b][n]
    BY <1>1, <1>2, <1>3
  <1>7. Latest(b)' = top + 1
    <2>1. Highest(DOMAIN versions'[b]) = top + 1
      <3>1. DOMAIN versions'[b] = 1 .. (top + 1)
        BY <1>4, <1>5
      <3>2. Highest(1 .. (top + 1)) = top + 1
        BY <1>1, HighestOfInterval
      <3>3. QED
        BY <3>1, <3>2
    <2>2. QED
      BY <2>1 DEF Latest
  <1>8. ASSUME NEW c \in Benefits \ {b}
        PROVE  Latest(c)' = Latest(c)
    BY <1>4 DEF Latest
  <1> HIDE DEF row, number, top
  <1>9. QED
    BY <1>3, <1>4, <1>5, <1>6, <1>7, <1>8, ZenonT(60) DEF number, top, row

\* A step that leaves the versions alone changes no maximum.
LEMMA VersionsKept ==
    ASSUME versions' = versions
    PROVE  /\ \A b : Latest(b)' = Latest(b)
           /\ NumbersSound => NumbersSound'
           /\ \A slot : SlotSound(slot) => SlotSound(slot)'
  <1>1. \A b : Latest(b)' = Latest(b)
    BY DEF Latest
  <1>2. NumbersSound => NumbersSound'
    BY <1>1 DEF NumbersSound, VersionsContiguous
  <1>3. ASSUME NEW slot, SlotSound(slot)
        PROVE  SlotSound(slot)'
    BY <1>1, <1>3 DEF SlotSound
  <1>4. QED
    BY <1>1, <1>2, <1>3

\* A step that replaces one slot by a sound one and leaves the versions alone
\* keeps the slots sound.
LEMMA GotoEffect ==
    ASSUME TypeOK, SlotsSound,
           NEW r \in Requests, NEW slot \in RequestSlot, SlotSound(slot),
           Goto(r, slot), versions' = versions
    PROVE  /\ req' \in [Requests -> RequestSlot]
           /\ SlotsSound'
           /\ req'[r] = slot
           /\ \A q \in Requests \ {r} : req'[q] = req[q]
  <1>1. /\ req' \in [Requests -> RequestSlot]
        /\ req'[r] = slot
        /\ \A q \in Requests \ {r} : req'[q] = req[q]
    BY DEF Goto, TypeOK
  <1>2. \A b : Latest(b)' = Latest(b)
    BY VersionsKept
  <1>3. ASSUME NEW q \in Requests
        PROVE  SlotSound(req[q])'
    <2>1. \E s : s = req'[q] /\ SlotSound(s)
      BY <1>1 DEF SlotsSound
    <2>2. QED
      BY <1>2, <2>1 DEF SlotSound
  <1>4. QED
    BY <1>1, <1>3 DEF SlotsSound

\* A handler that finds no row keeps those that were found, as long as no row
\* goes away.
LEMMA UpdatesKept ==
    ASSUME TypeOK, SlotsSound, UpdatesExist,
           NEW r \in Requests, NEW slot, slot.pc # "update", Goto(r, slot),
           \A b \in Benefits : past[b] # << >> => past'[b] # << >>
    PROVE  UpdatesExist'
  <1> SUFFICES ASSUME NEW q \in Requests, req'[q].pc = "update"
               PROVE  past'[req'[q].benefit] # << >>
    BY DEF UpdatesExist
  <1>1. q # r /\ req'[q] = req[q]
    BY DEF Goto, TypeOK
  <1>2. req[q].benefit \in Benefits
    BY <1>1 DEF SlotsSound, SlotSound
  <1>3. QED
    BY <1>1, <1>2 DEF UpdatesExist

\* An idle slot is sound, so a handler may always end.
LEMMA IdleSound == Idle \in RequestSlot /\ SlotSound(Idle)
  BY DEF Idle, RequestSlot, Places, SlotSound

\* A committed write appends one state and leaves the handler at its audit row.
LEMMA CommitEffect ==
    ASSUME TypeOK, SlotsSound, UpdatesExist,
           NEW r \in Requests, NEW b \in Benefits,
           NEW before \in Row \union {Nil}, NEW after \in Row,
           Commit(r, b, before, after)
    PROVE  /\ past' \in [Benefits -> Seq(Row)]
           /\ past' = [past EXCEPT ![b] = Append(@, after)]
           /\ UpdatesExist'
           /\ req' \in [Requests -> RequestSlot]
           /\ SlotsSound'
           /\ /\ req'[r].pc = "audit"
              /\ req'[r].benefit = b
              /\ req'[r].before = before
              /\ req'[r].after = after
              /\ req'[r].write = Len(past[b]) + 1
           /\ \A q \in Requests \ {r} : req'[q] = req[q]
           /\ UNCHANGED <<audits, versions, lost, faults>>
  <1> DEFINE slot == [Idle EXCEPT !.pc = "audit", !.benefit = b, !.before = before,
                            !.after = after, !.write = Len(past[b]) + 1]
  <1>1. past[b] \in Seq(Row)
    BY DEF TypeOK
  <1>2. past' \in [Benefits -> Seq(Row)]
    BY <1>1 DEF Commit, TypeOK
  <1>3. slot \in RequestSlot /\ SlotSound(slot)
    <2>1. Len(past[b]) + 1 \in Nat
      BY <1>1
    <2>2. slot \in RequestSlot
      BY <2>1, IdleSound DEF RequestSlot, Places
    <2>3. /\ slot.pc = "audit" /\ slot.benefit = b /\ slot.after = after
          /\ slot.since = 0 /\ slot.attempt = 0
      BY DEF Idle
    <2>4. QED
      BY <2>2, <2>3 DEF SlotSound
  <1>4. /\ slot.pc = "audit"
        /\ slot.benefit = b
        /\ slot.before = before
        /\ slot.after = after
        /\ slot.write = Len(past[b]) + 1
    BY DEF Idle
  <1>5. Goto(r, slot) /\ UNCHANGED <<audits, versions, lost, faults>>
    BY DEF Commit
  <1>6. past' = [past EXCEPT ![b] = Append(@, after)]
    BY DEF Commit
  <1>7. UpdatesExist'
    <2>1. Append(past[b], after) # << >>
      <3>1. /\ Len(Append(past[b], after)) = Len(past[b]) + 1
            /\ Len(past[b]) \in Nat
        BY <1>1
      <3>2. Len(<< >>) = 0
        OBVIOUS
      <3>3. QED
        BY <3>1, <3>2
    <2>2. \A c \in Benefits : past[c] # << >> => past'[c] # << >>
      BY <1>6, <2>1 DEF TypeOK
    <2>3. QED
      BY <1>4, <1>5, <2>2, UpdatesKept
  <1> HIDE DEF slot
  <1>8. QED
    BY <1>2, <1>3, <1>4, <1>5, <1>6, <1>7, GotoEffect

\* A write that is given up is put down with the versions inserted meanwhile.
LEMMA GiveUpEffect ==
    ASSUME RecordInv, NEW r \in Requests, Recording(r),
           NEW why \in {"conflict", "fault"}, GiveUp(r, why), versions' = versions,
           why = "conflict" => Latest(req[r].benefit) - req[r].since >= 3
    PROVE  /\ lost' \subseteq Loss
           /\ LossesArePaid'
           /\ past' = past => UpdatesExist'
           /\ req' \in [Requests -> RequestSlot]
           /\ SlotsSound'
  <1> DEFINE b == req[r].benefit
             rivals == Latest(b) - req[r].since
             loss == [benefit |-> b, write |-> req[r].write, why |-> why,
                      rivals |-> rivals]
  <1>1. req[r] \in RequestSlot /\ b \in Benefits
    BY DEF RecordInv, TypeOK, SlotsSound, SlotSound, Recording
  <1>2. /\ Latest(b) \in Nat
        /\ req[r].since \in Nat /\ req[r].attempt \in Nat /\ req[r].number \in Nat
        /\ req[r].write \in Nat
    BY <1>1 DEF RecordInv, NumbersSound, RequestSlot
  <1>3. req[r].since <= Latest(b)
    <2>1. SlotSound(req[r])
      BY DEF RecordInv, SlotsSound
    <2>2. QED
      BY <1>2, <2>1 DEF SlotSound, Recording
  <1>4. rivals \in Nat
    BY <1>2, <1>3
  <1>5. lost' = lost \union {loss} /\ Goto(r, Idle)
    BY DEF GiveUp, Finish
  <1>6. loss \in Loss /\ loss.why = why /\ loss.rivals = rivals
    BY <1>1, <1>2, <1>4 DEF Loss
  <1> HIDE DEF loss
  <1>7. lost' \subseteq Loss /\ LossesArePaid'
    BY <1>5, <1>6 DEF RecordInv, TypeOK, LossesArePaid
  <1>8. past' = past => UpdatesExist'
    BY <1>5, UpdatesKept DEF RecordInv, Idle
  <1>9. QED
    BY <1>5, <1>7, <1>8, IdleSound, GotoEffect DEF RecordInv

\* An inserted version keeps the invariant.
LEMMA InsertKeepsRecords ==
    ASSUME RecordInv, NEW r \in Requests, req[r].pc = "insert", ~ Taken(r),
           versions' = Inserted(r), Goto(r, Idle),
           UNCHANGED <<past, audits, lost>>, faults' \in 0 .. MaxFaults
    PROVE  RecordInv'
  <1> USE DEF RecordInv
  <1>1. PICK b \in Benefits : b = req[r].benefit
    BY DEF SlotsSound, SlotSound
  <1>2. /\ req[r].number = Latest(b) + 1
        /\ DOMAIN versions' = Benefits
        /\ DOMAIN versions'[b] = 1 .. Latest(b) + 1
        /\ Latest(b)' = Latest(b) + 1
        /\ versions'[b][Latest(b) + 1] = ChangeOf(req[r])
        /\ \A n \in 1 .. Latest(b) : versions'[b][n] = versions[b][n]
        /\ \A c \in Benefits \ {b} :
             versions'[c] = versions[c] /\ Latest(c)' = Latest(c)
    BY <1>1, InsertEffect
  <1>3. \A c \in Benefits : /\ Latest(c) \in Nat
                            /\ DOMAIN versions[c] = 1 .. Latest(c)
    BY DEF NumbersSound, VersionsContiguous
  <1>4. NumbersSound'
    BY <1>2, <1>3 DEF NumbersSound, VersionsContiguous
  <1>5. ChangeOf(req[r]) \in Change
    BY DEF TypeOK, RequestSlot, SlotsSound, SlotSound, ChangeOf, Change
  <1>6. ASSUME NEW c \in Benefits
        PROVE  /\ DOMAIN versions'[c] \subseteq Nat \ {0}
               /\ \A n \in DOMAIN versions'[c] : versions'[c][n] \in Change
    <2>1. CASE c = b
      <3>1. ASSUME NEW n \in DOMAIN versions'[b]
            PROVE  versions'[b][n] \in Change
        <4>1. CASE n = Latest(b) + 1
          BY <1>2, <1>5, <4>1
        <4>2. CASE n \in 1 .. Latest(b)
          <5>1. versions[b][n] \in Change
            BY <1>3, <4>2 DEF TypeOK
          <5>2. QED
            BY <1>2, <4>2, <5>1
        <4>3. QED
          BY <1>2, <1>3, <4>1, <4>2
      <3>2. QED
        BY <1>2, <1>3, <2>1, <3>1
    <2>2. CASE c # b
      BY <1>2, <2>2 DEF TypeOK
    <2>3. QED
      BY <2>1, <2>2
  <1>7. /\ req' \in [Requests -> RequestSlot]
        /\ req'[r] = Idle
        /\ \A q \in Requests \ {r} : req'[q] = req[q]
    BY IdleSound DEF Goto, TypeOK
  <1>8. TypeOK'
    BY <1>2, <1>6, <1>7 DEF TypeOK
  <1>9. SlotsSound'
    <2> SUFFICES ASSUME NEW q \in Requests
                 PROVE  SlotSound(req[q])'
      BY DEF SlotsSound
    <2>1. CASE q = r
      BY <1>7, <2>1 DEF SlotSound, Idle
    <2>2. CASE q # r
      <3>1. req'[q] = req[q] /\ req[q] \in RequestSlot /\ SlotSound(req[q])
        BY <1>7, <2>2 DEF TypeOK, SlotsSound
      <3>2. PICK c : c = req[q].benefit
        OBVIOUS
      <3>3. CASE req[q].pc \in {"readLatest", "insert"}
        <4>1. c \in Benefits
          BY <3>1, <3>2, <3>3 DEF SlotSound
        <4>2. Latest(c)' \in Nat /\ Latest(c) \in Nat /\ Latest(c) <= Latest(c)'
          BY <1>2, <1>3, <4>1
        <4>3. req[q].since \in Nat /\ req[q].attempt \in Nat /\ req[q].number \in Nat
          BY <3>1 DEF RequestSlot
        <4>4. QED
          BY <3>1, <3>2, <3>3, <4>1, <4>2, <4>3 DEF SlotSound
      <3>4. CASE req[q].pc \notin {"readLatest", "insert"}
        BY <3>1, <3>4 DEF SlotSound
      <3>5. QED
        BY <3>3, <3>4
    <2>3. QED
      BY <2>1, <2>2
  <1>10. LossesArePaid'
    BY DEF LossesArePaid
  <1>11. UpdatesExist'
    BY UpdatesKept DEF Idle
  <1>12. QED
    BY <1>4, <1>8, <1>9, <1>10, <1>11

\* A patched row is a row.
LEMMA PatchedTyped ==
    ASSUME NEW row \in Row, NEW text \in Texts \union {Nil},
           NEW active \in BOOLEAN \union {Nil}
    PROVE  Patched(row, text, active) \in Row
  <1>1. (IF text = Nil THEN row.text ELSE text) \in Texts
    BY DEF Row
  <1>2. row.active \in BOOLEAN
    BY DEF Row
  <1>3. (IF active = Nil THEN row.active ELSE active) \in BOOLEAN
    BY <1>2, Zenon
  <1>4. QED
    BY <1>1, <1>3, Zenon DEF Patched, Row

-----------------------------------------------------------------------------
(* The invariant. *)

\* It holds before anything is written.
LEMMA RecordInit == ASSUME Init PROVE RecordInv
  <1>1. TypeOK
    <2>1. \A b \in Benefits : versions[b] = << >>
      BY DEF Init
    <2>2. \A b \in Benefits : DOMAIN versions[b] = {}
      <3>1. DOMAIN << >> = {}
        OBVIOUS
      <3>2. QED
        BY <2>1, <3>1
    <2>3. past \in [Benefits -> Seq(Row)]
      BY DEF Init
    <2>4. QED
      BY <2>2, <2>3, IdleSound DEF Init, TypeOK
  <1>2. ASSUME NEW b \in Benefits
        PROVE  DOMAIN versions[b] = 1 .. 0
    BY DEF Init
  <1>3. NumbersSound
    <2>1. \A b \in Benefits : Latest(b) = 0
      <3>1. Highest(1 .. 0) = 0
        BY HighestOfInterval
      <3>2. QED
        BY <1>2, <3>1 DEF Latest
    <2>2. \A b \in Benefits : DOMAIN versions[b] = 1 .. Latest(b)
      BY <1>2, <2>1, Zenon
    <2>3. \A b \in Benefits : Latest(b) \in Nat
      <3>1. 0 \in Nat
        OBVIOUS
      <3>2. QED
        BY <2>1, <3>1, Zenon
    <2>4. QED
      BY <2>2, <2>3 DEF NumbersSound, VersionsContiguous
  <1>4. SlotsSound /\ LossesArePaid
    BY IdleSound DEF Init, SlotsSound, LossesArePaid
  <1>5. UpdatesExist
    BY DEF Init, UpdatesExist, Idle
  <1>6. QED
    BY <1>1, <1>3, <1>4, <1>5 DEF RecordInv

\* A step that leaves the versions and the losses alone keeps what they say.
LEMMA VersionsUntouched ==
    ASSUME RecordInv, UNCHANGED <<versions, lost>>,
           past' \in [Benefits -> Seq(Row)], audits' \subseteq AuditRow,
           req' \in [Requests -> RequestSlot], SlotsSound', UpdatesExist',
           faults' \in 0 .. MaxFaults
    PROVE  RecordInv'
  <1>1. NumbersSound'
    BY VersionsKept DEF RecordInv
  <1>2. TypeOK'
    BY DEF RecordInv, TypeOK
  <1>3. LossesArePaid'
    BY DEF RecordInv, LossesArePaid
  <1>4. QED
    BY <1>1, <1>2, <1>3 DEF RecordInv

\* A write that is given up keeps the invariant.
LEMMA GiveUpKeepsRecords ==
    ASSUME RecordInv, NEW r \in Requests, Recording(r),
           NEW why \in {"conflict", "fault"}, GiveUp(r, why),
           UNCHANGED <<past, audits, versions>>, faults' \in 0 .. MaxFaults,
           why = "conflict" => Latest(req[r].benefit) - req[r].since >= 3
    PROVE  RecordInv'
  <1>1. /\ lost' \subseteq Loss
        /\ LossesArePaid'
        /\ UpdatesExist'
        /\ req' \in [Requests -> RequestSlot]
        /\ SlotsSound'
    BY GiveUpEffect
  <1>2. NumbersSound'
    BY VersionsKept DEF RecordInv
  <1>3. TypeOK'
    BY <1>1 DEF RecordInv, TypeOK
  <1>4. QED
    BY <1>1, <1>2, <1>3 DEF RecordInv

\* Every step keeps it.
LEMMA RecordStep ==
    ASSUME RecordInv, [Next]_vars
    PROVE  RecordInv'
  <1> USE DEF RecordInv
  <1>1. ASSUME NEW r \in Requests, NEW b \in Benefits, NEW row \in Row, Create(r, b, row)
        PROVE  RecordInv'
    <2>1. Commit(r, b, Nil, row)
      BY <1>1 DEF Create
    <2>2. QED
      BY <2>1, CommitEffect, VersionsUntouched DEF TypeOK
  <1>2. ASSUME NEW r \in Requests, NEW b \in Benefits, FindExisting(r, b)
        PROVE  RecordInv'
    <2> DEFINE slot == [Idle EXCEPT !.pc = "update", !.benefit = b, !.before = Stored(b)]
    <2>1. past[b] # << >> /\ Stored(b) \in Row
      <3>1. past[b] \in Seq(Row) /\ past[b] # << >>
        BY <1>2 DEF FindExisting, TypeOK
      <3>2. QED
        BY <3>1 DEF Stored
    <2>2. slot \in RequestSlot
      BY <2>1, IdleSound DEF RequestSlot, Places
    <2>3. slot.pc = "update" /\ slot.benefit = b /\ slot.before = Stored(b)
      BY DEF Idle
    <2>4. SlotSound(slot)
      BY <2>1, <2>3 DEF SlotSound
    <2>5. Goto(r, slot) /\ UNCHANGED <<past, audits, versions, lost, faults>>
      BY <1>2 DEF FindExisting
    <2> HIDE DEF slot
    <2>6. UpdatesExist'
      BY <2>1, <2>3, <2>5 DEF UpdatesExist, Goto, TypeOK
    <2>7. QED
      BY <2>2, <2>4, <2>5, <2>6, GotoEffect, VersionsUntouched DEF TypeOK
  <1>3. ASSUME NEW r \in Requests, NEW text \in Texts \union {Nil},
               NEW active \in BOOLEAN \union {Nil}, Update(r, text, active)
        PROVE  RecordInv'
    <2> DEFINE b == req[r].benefit
               after == Patched(Stored(b), text, active)
    <2>1. b \in Benefits /\ req[r].before \in Row /\ past[b] # << >>
      BY <1>3 DEF Update, SlotsSound, SlotSound, UpdatesExist
    <2>2. Commit(r, b, req[r].before, after)
      BY <1>3 DEF Update
    <2>3. after \in Row
      <3>1. past[b] \in Seq(Row)
        BY <2>1 DEF TypeOK
      <3>2. Stored(b) \in Row
        BY <2>1, <3>1 DEF Stored
      <3>3. QED
        BY <3>2, PatchedTyped
    <2> HIDE DEF after
    <2>4. QED
      BY <2>1, <2>2, <2>3, CommitEffect, VersionsUntouched DEF TypeOK
  <1>4. ASSUME NEW r \in Requests, NEW kept \in BOOLEAN, Audit(r, kept)
        PROVE  RecordInv'
    <2> DEFINE b == req[r].benefit
               slot == [req[r] EXCEPT !.pc = "readLatest", !.since = Latest(b)]
    <2>1. req[r] \in RequestSlot /\ SlotSound(req[r]) /\ req[r].pc = "audit"
      BY <1>4 DEF Audit, TypeOK, SlotsSound
    <2>2. b \in Benefits /\ req[r].after \in Row /\ Latest(b) \in Nat
      BY <2>1 DEF SlotSound, NumbersSound
    <2>3. slot \in RequestSlot
      <3>1. "readLatest" \in Places
        BY DEF Places
      <3>2. QED
        BY <2>1, <2>2, <3>1 DEF RequestSlot
    <2>4. /\ slot.pc = "readLatest" /\ slot.benefit = b /\ slot.since = Latest(b)
          /\ slot.after = req[r].after /\ slot.attempt = req[r].attempt
      BY <2>1 DEF RequestSlot
    <2>5. SlotSound(slot)
      <3>1. slot.attempt = 0
        BY <2>1, <2>4 DEF SlotSound
      <3>2. QED
        BY <2>2, <2>4, <3>1 DEF SlotSound
    <2>6. Goto(r, slot) /\ UNCHANGED <<past, versions, lost, faults>>
      BY <1>4 DEF Audit
    <2>7. audits' \subseteq AuditRow
      <3>1. ChangeOf(req[r]) \in Change
        BY <2>1, <2>2 DEF ChangeOf, Change, RequestSlot
      <3>2. [benefit |-> b, change |-> ChangeOf(req[r])] \in AuditRow
        BY <2>2, <3>1 DEF AuditRow
      <3>3. \/ audits' = audits \union {[benefit |-> b, change |-> ChangeOf(req[r])]}
            \/ audits' = audits
        BY <1>4 DEF Audit
      <3>4. QED
        BY <3>2, <3>3 DEF TypeOK
    <2> HIDE DEF slot
    <2>8. UpdatesExist'
      BY <2>4, <2>6, UpdatesKept
    <2>9. QED
      BY <2>3, <2>5, <2>6, <2>7, <2>8, GotoEffect, VersionsUntouched DEF TypeOK
  <1>5. ASSUME NEW r \in Requests, ReadLatest(r)
        PROVE  RecordInv'
    <2> DEFINE b == req[r].benefit
               slot == [req[r] EXCEPT !.pc = "insert", !.number = Latest(b) + 1]
    <2>1. req[r] \in RequestSlot /\ SlotSound(req[r]) /\ req[r].pc = "readLatest"
      BY <1>5 DEF ReadLatest, TypeOK, SlotsSound
    <2>2. b \in Benefits /\ req[r].after \in Row /\ Latest(b) \in Nat
      BY <2>1 DEF SlotSound, NumbersSound
    <2>3. slot \in RequestSlot
      <3>1. "insert" \in Places
        BY DEF Places
      <3>2. PICK number \in Nat : number = Latest(b) + 1
        BY <2>2
      <3>3. [req[r] EXCEPT !.pc = "insert", !.number = number] \in RequestSlot
        BY <2>1, <3>1 DEF RequestSlot
      <3>4. QED
        BY <3>2, <3>3
    <2>4. /\ slot.pc = "insert" /\ slot.benefit = b /\ slot.number = Latest(b) + 1
          /\ slot.after = req[r].after /\ slot.attempt = req[r].attempt
          /\ slot.since = req[r].since
      BY <2>1 DEF RequestSlot
    <2>5. SlotSound(slot)
      <3>1. req[r].since + req[r].attempt <= Latest(b)
        BY <2>1 DEF SlotSound
      <3>2. req[r].since \in Nat /\ req[r].attempt \in Nat
        BY <2>1 DEF RequestSlot
      <3>3. QED
        BY <2>2, <2>4, <3>1, <3>2 DEF SlotSound
    <2>6. Goto(r, slot) /\ UNCHANGED <<past, audits, versions, lost, faults>>
      BY <1>5 DEF ReadLatest
    <2> HIDE DEF slot
    <2>7. UpdatesExist'
      BY <2>4, <2>6, UpdatesKept
    <2>8. QED
      BY <2>3, <2>5, <2>6, <2>7, GotoEffect, VersionsUntouched DEF TypeOK
  <1>6. ASSUME NEW r \in Requests, InsertVersion(r)
        PROVE  RecordInv'
    <2>1. /\ req[r].pc = "insert"
          /\ ~ Taken(r)
          /\ versions' = Inserted(r)
          /\ Goto(r, Idle)
          /\ UNCHANGED <<past, audits, lost, faults>>
      BY <1>6 DEF InsertVersion, Finish
    <2>2. QED
      BY <2>1, InsertKeepsRecords DEF TypeOK
  <1>7. ASSUME NEW r \in Requests, LoseReply(r)
        PROVE  RecordInv'
    <2>1. /\ req[r].pc = "insert"
          /\ ~ Taken(r)
          /\ versions' = Inserted(r)
          /\ Goto(r, Idle)
          /\ UNCHANGED <<past, audits, lost>>
          /\ faults' = faults + 1
          /\ faults < MaxFaults
      BY <1>7 DEF LoseReply, Finish
    <2>2. faults' \in 0 .. MaxFaults
      BY <2>1 DEF TypeOK
    <2>3. QED
      BY <2>1, <2>2, InsertKeepsRecords
  <1>8. ASSUME NEW r \in Requests, Conflict(r)
        PROVE  RecordInv'
    <2> DEFINE b == req[r].benefit
    <2>1. /\ req[r] \in RequestSlot /\ SlotSound(req[r]) /\ req[r].pc = "insert"
          /\ Taken(r)
          /\ UNCHANGED <<past, audits, versions, faults>>
      BY <1>8 DEF Conflict, TypeOK, SlotsSound
    <2>2. b \in Benefits /\ req[r].after \in Row /\ Latest(b) \in Nat
      BY <2>1 DEF SlotSound, NumbersSound
    <2>3. req[r].since \in Nat /\ req[r].attempt \in 0 .. 2 /\ req[r].number \in Nat
      BY <2>1 DEF RequestSlot
    <2>4. req[r].since + req[r].attempt + 1 <= Latest(b)
      <3>1. req[r].number <= Latest(b)
        BY <2>1, <2>2 DEF Taken, NumbersSound, VersionsContiguous
      <3>2. req[r].since + req[r].attempt < req[r].number
        BY <2>1 DEF SlotSound
      <3>3. QED
        BY <2>2, <2>3, <3>1, <3>2
    <2>5. CASE req[r].attempt < 2
      <3> DEFINE slot == [req[r] EXCEPT !.pc = "readLatest", !.attempt = @ + 1]
      <3>1. req[r].attempt + 1 \in 0 .. 2
        BY <2>3, <2>5
      <3>2. slot \in RequestSlot
        BY <2>1, <3>1 DEF RequestSlot, Places
      <3>3. /\ slot.pc = "readLatest" /\ slot.benefit = b
            /\ slot.after = req[r].after /\ slot.attempt = req[r].attempt + 1
            /\ slot.since = req[r].since
        BY <2>1 DEF RequestSlot
      <3>4. SlotSound(slot)
        BY <2>2, <2>3, <2>4, <3>3 DEF SlotSound
      <3>5. Goto(r, slot) /\ UNCHANGED lost
        BY <1>8, <2>5 DEF Conflict
      <3> HIDE DEF slot
      <3>6. UpdatesExist'
        BY <2>1, <3>3, <3>5, UpdatesKept
      <3>7. QED
        BY <2>1, <3>2, <3>4, <3>5, <3>6, GotoEffect, VersionsUntouched DEF TypeOK
    <2>6. CASE ~ (req[r].attempt < 2)
      <3>1. GiveUp(r, "conflict")
        BY <1>8, <2>6 DEF Conflict
      <3>2. Latest(b) - req[r].since >= 3
        BY <2>2, <2>3, <2>4, <2>6
      <3>3. Recording(r)
        BY <2>1 DEF Recording
      <3>4. QED
        BY <2>1, <3>1, <3>2, <3>3, GiveUpKeepsRecords DEF TypeOK
    <2>7. QED
      BY <2>5, <2>6
  <1>9. ASSUME NEW r \in Requests, Fault(r)
        PROVE  RecordInv'
    <2>1. /\ req[r].pc # "idle"
          /\ faults' \in 0 .. MaxFaults
          /\ UNCHANGED <<past, audits, versions>>
      BY <1>9 DEF Fault, TypeOK
    <2>2. CASE req[r].pc = "update"
      <3>1. Goto(r, Idle) /\ UNCHANGED lost
        BY <1>9, <2>2 DEF Fault, Finish
      <3>2. UpdatesExist'
        BY <2>1, <3>1, UpdatesKept DEF Idle
      <3>3. QED
        BY <2>1, <3>1, <3>2, IdleSound, GotoEffect, VersionsUntouched DEF TypeOK
    <2>3. CASE req[r].pc # "update"
      <3>1. GiveUp(r, "fault")
        BY <1>9, <2>3 DEF Fault
      <3>2. Recording(r)
        BY <2>1, <2>3 DEF Recording, TypeOK, RequestSlot, Places
      <3>3. QED
        BY <2>1, <3>1, <3>2, GiveUpKeepsRecords
    <2>4. QED
      BY <2>2, <2>3
  <1>10. CASE UNCHANGED vars
    <2>1. \A q \in Requests : SlotSound(req[q])'
      BY <1>10, VersionsKept DEF vars, SlotsSound
    <2>2. QED
      BY <1>10, <2>1, VersionsUntouched DEF vars, TypeOK, SlotsSound, UpdatesExist
  <1>11. QED
    BY <1>1, <1>2, <1>3, <1>4, <1>5, <1>6, <1>7, <1>8, <1>9, <1>10
    DEF Next, Arrive, Continue

\* The invariant of every behaviour, whatever requests arrive and however they
\* interleave.
THEOREM RecordInvariant == Spec => []RecordInv
  <1>1. Init => RecordInv
    BY RecordInit
  <1>2. RecordInv /\ [Next]_vars => RecordInv'
    BY RecordStep
  <1>3. QED
    BY <1>1, <1>2, PTL DEF Spec

-----------------------------------------------------------------------------
(* What it gives. *)

\* Every variable keeps its type: in particular no handler of BenefitsService
\* passes a missing row on to its audit row or version.
THEOREM TypeCorrect == Spec => []TypeOK
  <1>1. RecordInv => TypeOK
    BY DEF RecordInv
  <1>2. QED
    BY <1>1, RecordInvariant, PTL

\* The versions recordVersion inserts are numbered without a gap, although each
\* number comes from a maximum read before.
THEOREM NumbersAreContiguous == Spec => []VersionsContiguous
  <1>1. RecordInv => VersionsContiguous
    BY DEF RecordInv, NumbersSound
  <1>2. QED
    BY <1>1, RecordInvariant, PTL

\* recordVersion gives a version up for conflicts only when three others were
\* inserted in the meantime.
THEOREM LossesArePaidFor == Spec => []LossesArePaid
  <1>1. RecordInv => LossesArePaid
    BY DEF RecordInv
  <1>2. QED
    BY <1>1, RecordInvariant, PTL

\* A handler that inserts its version, whether or not the reply arrives.
Inserts(r) ==
    /\ req[r].pc = "insert"
    /\ ~ Taken(r)
    /\ versions' = Inserted(r)
    /\ Goto(r, Idle)
    /\ UNCHANGED <<past, audits, lost>>

\* The versions change only by an insertion.
LEMMA VersionsChange ==
    ASSUME [Next]_vars
    PROVE  versions' = versions \/ \E r \in Requests : Inserts(r)
  <1>1. ASSUME NEW r \in Requests, InsertVersion(r) \/ LoseReply(r)
        PROVE  Inserts(r)
    BY <1>1 DEF InsertVersion, LoseReply, Finish, Inserts
  <1>2. ASSUME NEW r \in Requests, Arrive(r) \/ Conflict(r) \/ Fault(r) \/ ReadLatest(r)
        PROVE  versions' = versions
    BY <1>2 DEF Arrive, Create, Commit, FindExisting, Conflict, Fault, ReadLatest
  <1>3. ASSUME NEW r \in Requests, NEW text, NEW active, Update(r, text, active)
        PROVE  versions' = versions
    BY <1>3 DEF Update, Commit
  <1>4. ASSUME NEW r \in Requests, NEW kept, Audit(r, kept)
        PROVE  versions' = versions
    BY <1>4 DEF Audit
  <1>5. QED
    BY <1>1, <1>2, <1>3, <1>4 DEF Next, Continue, vars

\* Where the numbers have no gap, stateAt finds the version it is asked for.
LEMMA UpToAVersion ==
    ASSUME NEW top \in Nat, NEW n \in 1 .. top
    PROVE  /\ {k \in 1 .. top : k <= n} # {}
           /\ Highest({k \in 1 .. top : k <= n}) = n
  <1>1. {k \in 1 .. top : k <= n} = 1 .. n
    OBVIOUS
  <1>2. Highest(1 .. n) = n
    BY HighestOfInterval
  <1>3. n \in 1 .. n
    OBVIOUS
  <1>4. QED
    BY <1>1, <1>2, <1>3

\* One step changes no answer stateAt has given.
LEMMA ReadsStep ==
    ASSUME RecordInv, [Next]_vars,
           NEW b \in Benefits, NEW n \in 1 .. Latest(b)
    PROVE  StateAt(b, n)' = StateAt(b, n)
  <1>1. CASE versions' = versions
    BY <1>1 DEF StateAt
  <1>2. ASSUME NEW r \in Requests, Inserts(r)
        PROVE  StateAt(b, n)' = StateAt(b, n)
    <2>1. PICK c \in Benefits : c = req[r].benefit
      BY <1>2 DEF Inserts, RecordInv, SlotsSound, SlotSound
    <2>2. /\ DOMAIN versions'[c] = 1 .. Latest(c) + 1
          /\ \A m \in 1 .. Latest(c) : versions'[c][m] = versions[c][m]
          /\ \A d \in Benefits \ {c} : versions'[d] = versions[d]
      BY <1>2, <2>1, InsertEffect DEF Inserts, RecordInv
    <2>3. CASE b # c
      BY <2>2, <2>3 DEF StateAt
    <2>4. CASE b = c
      <3>1. Latest(b) \in Nat /\ DOMAIN versions[b] = 1 .. Latest(b)
        BY DEF RecordInv, NumbersSound, VersionsContiguous
      <3>2. StateAt(b, n) = versions[b][n].after
        BY <3>1, UpToAVersion DEF StateAt
      <3>3. StateAt(b, n)' = versions'[b][n].after
        <4>1. Latest(b) + 1 \in Nat /\ n \in 1 .. (Latest(b) + 1)
          BY <3>1
        <4>2. DOMAIN versions'[b] = 1 .. (Latest(b) + 1)
          BY <2>2, <2>4
        <4>3. QED
          BY <4>1, <4>2, UpToAVersion DEF StateAt
      <3>4. QED
        BY <2>2, <2>4, <3>2, <3>3
    <2>5. QED
      BY <2>3, <2>4
  <1>3. QED
    BY <1>1, <1>2, VersionsChange

\* A version that was once read reads the same ever after: this is what makes
\* stateAt a record of the past.
THEOREM ReadsStayStable == Spec => ReadsAreStable
  <1>1. RecordInv /\ [Next]_vars
          => [\A b \in Benefits : \A n \in 1 .. Latest(b) : StateAt(b, n)' = StateAt(b, n)]_vars
    BY ReadsStep
  <1>2. QED
    BY <1>1, RecordInvariant, PTL DEF Spec, ReadsAreStable
=============================================================================
