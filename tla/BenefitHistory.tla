--------------------------- MODULE BenefitHistory ---------------------------
(***************************************************************************)
(* The writes of BenefitsService and the trail they leave: the audit row of *)
(* AuditTrailService.record and the version of                              *)
(* EntityVersioningService.recordVersion.  BeneficiariesService and         *)
(* BenefitDeliveriesService leave theirs with the same calls in the same    *)
(* order.                                                                   *)
(*                                                                         *)
(* The write, the audit row and the version are separate transactions, one  *)
(* after the other, and nothing orders the handlers of two requests.  A     *)
(* request is a slot of req, and an action is the code between two awaits.  *)
(* The row of a benefit is the last element of past; the elements before it *)
(* are history.                                                             *)
(***************************************************************************)
EXTENDS Naturals, Sequences

CONSTANTS
    Benefits,    \* identifiers of rows
    Texts,       \* values of name, description and category taken together
    Requests,    \* concurrent requests (bounds the interleaving)
    MaxWrites,   \* bound on the writes to one row
    MaxFaults,   \* bound on crashes and failed statements
    Nil          \* an absent value

Row == [text : Texts, active : BOOLEAN]

ASSUME NilAssumption == Nil \notin Benefits \union Texts \union BOOLEAN \union Row

ASSUME BoundsAssumption == MaxWrites \in Nat /\ MaxFaults \in Nat

VARIABLES
    past,       \* the states each row has been in; the last one is stored
    audits,     \* the AuditTrail rows
    versions,   \* the EntityVersion rows of each benefit, by version number
    req,        \* the requests in flight
    lost,       \* history: the writes whose version was given up, why, and how
                \* many versions others had inserted since it was begun
    faults      \* how many faults there have been (for MaxFaults)

vars == <<past, audits, versions, req, lost, faults>>

-----------------------------------------------------------------------------
(* Data. *)

\* The handler of a write keeps what it read before (Nil for a creation), the
\* row the write returned, and which write it was (history).
Change == [before : Row \union {Nil}, after : Row, write : Nat]

\* The AuditTrail row and the EntityVersion row: changedFields, the previous and
\* new values and the diff are computed from before and after.
AuditRow == [benefit : Benefits, change : Change]

Loss == [benefit : Benefits, write : Nat, why : {"conflict", "fault"}, rivals : Nat]

Places == {"idle", "update", "audit", "readLatest", "insert"}

\* attempt and number are the locals of recordVersion's loop; since (history)
\* is the latest version when it started.
RequestSlot == [pc : Places, benefit : Benefits \union {Nil},
                before : Row \union {Nil}, after : Row \union {Nil}, write : Nat,
                attempt : 0 .. 2, number : Nat, since : Nat]

Idle == [pc |-> "idle", benefit |-> Nil, before |-> Nil, after |-> Nil,
         write |-> 0, attempt |-> 0, number |-> 0, since |-> 0]

TypeOK ==
    /\ past \in [Benefits -> Seq(Row)]
    /\ audits \subseteq AuditRow
    /\ DOMAIN versions = Benefits
    /\ \A b \in Benefits : /\ DOMAIN versions[b] \subseteq Nat \ {0}
                           /\ \A n \in DOMAIN versions[b] : versions[b][n] \in Change
    /\ req \in [Requests -> RequestSlot]
    /\ lost \subseteq Loss
    /\ faults \in 0 .. MaxFaults

Init ==
    /\ past = [b \in Benefits |-> << >>]
    /\ audits = {}
    /\ versions = [b \in Benefits |-> << >>]
    /\ req = [r \in Requests |-> Idle]
    /\ lost = {}
    /\ faults = 0

Stored(b) == past[b][Len(past[b])]

\* The largest of a set of version numbers, 0 when there is none.
Highest(S) == IF S = {} THEN 0 ELSE CHOOSE n \in S : \A m \in S : m <= n

\* aggregate _max version ?? 0.
Latest(b) == Highest(DOMAIN versions[b])

\* What stateAt finds for a version number: the last version up to it.
StateAt(b, number) ==
    LET upTo == {n \in DOMAIN versions[b] : n <= number} IN
    IF upTo = {} THEN Nil ELSE versions[b][Highest(upTo)].after

ChangeOf(slot) == [before |-> slot.before, after |-> slot.after, write |-> slot.write]

Goto(r, slot) == req' = [req EXCEPT ![r] = slot]

Finish(r) == Goto(r, Idle)

\* The write is committed: the handler goes on to leave its trail.
Commit(r, b, before, after) ==
    /\ Len(past[b]) < MaxWrites
    /\ past' = [past EXCEPT ![b] = Append(@, after)]
    /\ Goto(r, [Idle EXCEPT !.pc = "audit", !.benefit = b, !.before = before,
                            !.after = after, !.write = Len(past[b]) + 1])
    /\ UNCHANGED <<audits, versions, lost, faults>>

\* The handler of r ends without a version for its write.
GiveUp(r, why) ==
    /\ lost' = lost \union
         {[benefit |-> req[r].benefit, write |-> req[r].write, why |-> why,
           rivals |-> Latest(req[r].benefit) - req[r].since]}
    /\ Finish(r)

-----------------------------------------------------------------------------
(* BenefitsService *)

\* POST /benefits
Create(r, b, row) ==
    /\ req[r] = Idle
    /\ past[b] = << >>
    /\ Commit(r, b, Nil, row)

\* PATCH /benefits/:id and PATCH /benefits/:id/status read the row ...
FindExisting(r, b) ==
    /\ req[r] = Idle
    /\ past[b] # << >>
    /\ Goto(r, [Idle EXCEPT !.pc = "update", !.benefit = b, !.before = Stored(b)])
    /\ UNCHANGED <<past, audits, versions, lost, faults>>

\* Prisma leaves the columns of absent fields alone.
Patched(row, text, active) ==
    [text |-> IF text = Nil THEN row.text ELSE text,
     active |-> IF active = Nil THEN row.active ELSE active]

\* Deviation of Update: the trail describes the row that was read, patched,
\* instead of the row the update returned.
UpdateTracingReadRow(r, text, active) ==
    LET b == req[r].benefit IN
    /\ req[r].pc = "update"
    /\ Len(past[b]) < MaxWrites
    /\ past' = [past EXCEPT ![b] = Append(@, Patched(Stored(b), text, active))]
    /\ Goto(r, [req[r] EXCEPT !.pc = "audit", !.write = Len(past[b]) + 1,
                              !.after = Patched(req[r].before, text, active)])
    /\ UNCHANGED <<audits, versions, lost, faults>>

\* ... and then update the columns the body names (a status update names only
\* active) and get the row that results.
Update(r, text, active) ==
    LET b == req[r].benefit IN
    /\ req[r].pc = "update"
    /\ Commit(r, b, req[r].before, Patched(Stored(b), text, active))

-----------------------------------------------------------------------------
(* AuditTrailService.record, then EntityVersioningService.recordVersion *)

\* Deviation of Audit: a failure ends the handler before the version.
AuditOrNothing(r, kept) ==
    /\ req[r].pc = "audit"
    /\ audits' = IF kept
                   THEN audits \union {[benefit |-> req[r].benefit,
                                        change |-> ChangeOf(req[r])]}
                   ELSE audits
    /\ Goto(r, IF kept THEN [req[r] EXCEPT !.pc = "readLatest",
                                           !.since = Latest(req[r].benefit)]
               ELSE Idle)
    /\ UNCHANGED <<past, versions, lost, faults>>

\* A failure to insert the audit row is logged and swallowed.
Audit(r, kept) ==
    /\ req[r].pc = "audit"
    /\ audits' = IF kept
                   THEN audits \union {[benefit |-> req[r].benefit,
                                        change |-> ChangeOf(req[r])]}
                   ELSE audits
    /\ Goto(r, [req[r] EXCEPT !.pc = "readLatest",
                              !.since = Latest(req[r].benefit)])
    /\ UNCHANGED <<past, versions, lost, faults>>

\* Deviations of ReadLatest: the latest number is used again; a retry skips as
\* many numbers as it has failed.
ReadLatestUnincremented(r) ==
    /\ req[r].pc = "readLatest"
    /\ Goto(r, [req[r] EXCEPT !.pc = "insert", !.number = Latest(req[r].benefit)])
    /\ UNCHANGED <<past, audits, versions, lost, faults>>

ReadLatestSkipping(r) ==
    /\ req[r].pc = "readLatest"
    /\ Goto(r, [req[r] EXCEPT !.pc = "insert",
                              !.number = Latest(req[r].benefit) + 1 + req[r].attempt])
    /\ UNCHANGED <<past, audits, versions, lost, faults>>

\* The first statement of the transaction.
ReadLatest(r) ==
    /\ req[r].pc = "readLatest"
    /\ Goto(r, [req[r] EXCEPT !.pc = "insert",
                              !.number = Latest(req[r].benefit) + 1])
    /\ UNCHANGED <<past, audits, versions, lost, faults>>

\* The row r inserts takes the number it computed.
Inserted(r) ==
    LET b == req[r].benefit IN
    [versions EXCEPT ![b] =
        [n \in DOMAIN versions[b] \union {req[r].number} |->
            IF n = req[r].number THEN ChangeOf(req[r]) ELSE versions[b][n]]]

\* The unique index on (entityType, entityId, version).
Taken(r) == req[r].number \in DOMAIN versions[req[r].benefit]

\* Deviation of InsertVersion: an upsert, which replaces the row it meets.
InsertVersionReplacing(r) ==
    /\ req[r].pc = "insert"
    /\ versions' = Inserted(r)
    /\ Finish(r)
    /\ UNCHANGED <<past, audits, lost, faults>>

\* The second statement, with the commit.
InsertVersion(r) ==
    /\ req[r].pc = "insert"
    /\ ~ Taken(r)
    /\ versions' = Inserted(r)
    /\ Finish(r)
    /\ UNCHANGED <<past, audits, lost, faults>>

\* Deviations of Conflict: one attempt fewer; the number is kept from the first
\* attempt.
ConflictOnceOnly(r) ==
    /\ req[r].pc = "insert"
    /\ Taken(r)
    /\ IF req[r].attempt < 1
         THEN /\ Goto(r, [req[r] EXCEPT !.pc = "readLatest", !.attempt = @ + 1])
              /\ UNCHANGED lost
         ELSE GiveUp(r, "conflict")
    /\ UNCHANGED <<past, audits, versions, faults>>

ConflictKeepingNumber(r) ==
    /\ req[r].pc = "insert"
    /\ Taken(r)
    /\ Goto(r, req[r])
    /\ UNCHANGED <<past, audits, versions, lost, faults>>

\* P2002: another request has inserted that number.  Three attempts are made.
Conflict(r) ==
    /\ req[r].pc = "insert"
    /\ Taken(r)
    /\ IF req[r].attempt < 2
         THEN /\ Goto(r, [req[r] EXCEPT !.pc = "readLatest", !.attempt = @ + 1])
              /\ UNCHANGED lost
         ELSE GiveUp(r, "conflict")
    /\ UNCHANGED <<past, audits, versions, faults>>

\* Deviation of LoseReply: any error is retried.
LoseReplyAndRetry(r) ==
    /\ req[r].pc = "insert"
    /\ ~ Taken(r)
    /\ req[r].attempt < 2
    /\ faults < MaxFaults
    /\ faults' = faults + 1
    /\ versions' = Inserted(r)
    /\ Goto(r, [req[r] EXCEPT !.pc = "readLatest", !.attempt = @ + 1])
    /\ UNCHANGED <<past, audits, lost>>

\* The transaction commits but its reply is lost: the error is not a P2002, so
\* it is logged and nothing is tried again.
LoseReply(r) ==
    /\ req[r].pc = "insert"
    /\ ~ Taken(r)
    /\ faults < MaxFaults
    /\ faults' = faults + 1
    /\ versions' = Inserted(r)
    /\ Finish(r)
    /\ UNCHANGED <<past, audits, lost>>

-----------------------------------------------------------------------------
(* The environment. *)

\* A statement fails, or the process dies under the request.
Fault(r) ==
    /\ req[r].pc # "idle"
    /\ faults < MaxFaults
    /\ faults' = faults + 1
    /\ IF req[r].pc = "update"
         THEN Finish(r) /\ UNCHANGED lost
         ELSE GiveUp(r, "fault")
    /\ UNCHANGED <<past, audits, versions>>

-----------------------------------------------------------------------------

\* The code between two awaits of a request in flight.
Continue(r) ==
    \/ \E text \in Texts \union {Nil}, active \in BOOLEAN \union {Nil} :
           Update(r, text, active)
    \/ \E kept \in BOOLEAN : Audit(r, kept)
    \/ ReadLatest(r)
    \/ InsertVersion(r)
    \/ Conflict(r)

Arrive(r) ==
    \/ \E b \in Benefits, row \in Row : Create(r, b, row)
    \/ \E b \in Benefits : FindExisting(r, b)

Next == \E r \in Requests : Arrive(r) \/ Continue(r) \/ LoseReply(r) \/ Fault(r)

Spec == Init /\ [][Next]_vars

\* Node runs every continuation that is ready; nothing makes a client act.
FairSpec == Spec /\ \A r \in Requests : WF_vars(Continue(r))
-----------------------------------------------------------------------------
(* Properties. *)

\* The versions of a benefit are numbered 1, 2, 3, ... without a gap, although
\* each request computes its number from a maximum it read before.
VersionsContiguous ==
    \A b \in Benefits : DOMAIN versions[b] = 1 .. Latest(b)

\* A change read from a trail is one that happened: the row it shows after is
\* the state the write made, and the row it shows before is a state the benefit
\* was in earlier (no state exactly for the creation).
FromHistory(b, change) ==
    /\ change.write \in 1 .. Len(past[b])
    /\ change.after = past[b][change.write]
    /\ change.before = Nil <=> change.write = 1
    /\ change.before # Nil =>
         \E w \in 1 .. change.write - 1 : change.before = past[b][w]

TrailFromHistory ==
    /\ \A row \in audits : FromHistory(row.benefit, row.change)
    /\ \A b \in Benefits : \A n \in DOMAIN versions[b] : FromHistory(b, versions[b][n])

\* A version is given up for conflicts only if at least three versions of the
\* same benefit were inserted by others while it was being recorded: with three
\* requests in flight, each writing once, none is given up.
LossesArePaid ==
    \A loss \in lost : loss.why = "conflict" => loss.rivals >= 3

Logged(b) == {versions[b][n].write : n \in DOMAIN versions[b]}
GivenUp(b) == {loss.write : loss \in {l \in lost : l.benefit = b}}
Pending(b) == {req[r].write : r \in {q \in Requests : req[q].benefit = b /\ req[q].pc # "update"}}

\* Every write has a version, or its handler is still at it, or it was given
\* up; and of these only one.
WritesAccounted ==
    \A b \in Benefits :
        /\ Logged(b) \union GivenUp(b) \union Pending(b) = 1 .. Len(past[b])
        /\ Logged(b) \intersect GivenUp(b) = {}
        /\ Pending(b) \intersect (Logged(b) \union GivenUp(b)) = {}

\* stateAt answers the same for a version number for ever once that number has
\* been given.
ReadsAreStable ==
    [][\A b \in Benefits : \A n \in 1 .. Latest(b) : StateAt(b, n)' = StateAt(b, n)]_vars

\* The versions implement the log docs/entity-versioning.md describes.
Log == INSTANCE ChangeLog WITH
           States <- Row,
           log <- [b \in Benefits |-> [n \in 1 .. Latest(b) |-> versions[b][n].write]]

ImplementsChangeLog == Log!Spec

\* Without a fault, every write gets its version unless three conflicts end it.
RecordedOrGivenUp ==
    \A b \in Benefits, w \in 1 .. MaxWrites :
        Len(past[b]) >= w ~> w \in Logged(b) \union GivenUp(b)

\* "Point-in-time reads [are] simple and reliable": once the requests are done
\* and none was cut off, the last version is the row that is stored.
LatestVersionIsStored ==
    \A b \in Benefits :
        past[b] # << >> /\ lost = {} /\ (\A r \in Requests : req[r] = Idle)
            => StateAt(b, Latest(b)) = Stored(b)
-----------------------------------------------------------------------------
(* The inductive strengthening of the safety properties above. *)

\* The handler has a write and no version for it yet.
Recording(r) == req[r].pc \in {"audit", "readLatest", "insert"}

\* What each place of a handler holds.  Every failed attempt is behind at least
\* one version that was inserted after the handler started.
SlotSound(slot) ==
    /\ slot.pc # "idle" => slot.benefit \in Benefits
    /\ slot.pc = "update" => slot.before \in Row
    /\ slot.pc \in {"audit", "readLatest", "insert"} => slot.after \in Row
    /\ slot.pc = "audit" => slot.since = 0 /\ slot.attempt = 0
    /\ slot.pc = "readLatest" => slot.since + slot.attempt <= Latest(slot.benefit)
    /\ slot.pc = "insert" => /\ slot.since + slot.attempt < slot.number
                             /\ slot.number <= Latest(slot.benefit) + 1

SlotsSound == \A r \in Requests : SlotSound(req[r])

\* A write is recorded once, by the one handler that made it.
WritesOwned ==
    /\ \A b \in Benefits : Logged(b) \subseteq 1 .. Len(past[b])
    /\ \A r \in Requests : Recording(r) =>
         req[r].write \in (1 .. Len(past[req[r].benefit])) \ Logged(req[r].benefit)
    /\ \A r, q \in Requests :
         /\ Recording(r) /\ Recording(q)
         /\ req[r].benefit = req[q].benefit /\ req[r].write = req[q].write
         => r = q

\* What a handler has read or written is in the history of its benefit.
SlotFromHistory(slot) ==
    /\ slot.pc = "update" =>
         \E w \in 1 .. Len(past[slot.benefit]) : slot.before = past[slot.benefit][w]
    /\ slot.pc \in {"audit", "readLatest", "insert"} =>
         FromHistory(slot.benefit, ChangeOf(slot))

HandlersFromHistory == \A r \in Requests : SlotFromHistory(req[r])

\* A row that was found is there: nothing deletes a benefit.
UpdatesExist ==
    \A r \in Requests : req[r].pc = "update" => past[req[r].benefit] # << >>

NumbersSound == VersionsContiguous /\ \A b \in Benefits : Latest(b) \in Nat

RecordInv == TypeOK /\ NumbersSound /\ SlotsSound /\ UpdatesExist /\ LossesArePaid
=============================================================================
