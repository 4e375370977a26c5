---------------------------- MODULE ProgramAccess ----------------------------
(***************************************************************************)
(* Administrators, beneficiaries, charity programs, benefits and deliveries *)
(* under concurrent requests: the create and update handlers of the five     *)
(* services, with the policies and filters of ProgramScope.                  *)
(*                                                                         *)
(* As in AccountAccess a request is a slot of req and one action is the code *)
(* between two awaits.  The user in a slot is what AuthGuard read when the   *)
(* request was admitted: roles and links may change while it is in flight.   *)
(* What follows the write (audit record, version, mail) is in BenefitHistory *)
(* and touches none of these rows; credentials are in AccountAccess.         *)
(***************************************************************************)
EXTENDS Naturals, ProgramScope

CONSTANTS
    Documents,    \* documents of beneficiaries
    Cpfs,         \* those that are a CPF
    Streets,      \* what an address says beside its country
    NewRows,      \* what POST /beneficiaries may send (bounds the inputs)
    Patches,      \* what PATCH /beneficiaries/:id may send (bounds the inputs)
    Grants,       \* what the bodies of /administrators may send (likewise)
    References,   \* references of deliveries
    Requests,     \* concurrent requests (bounds the interleaving)
    MaxCalls      \* bound on the requests admitted

Countries == {"Brazil", "World"}

\* UpdateBeneficiaryDto: every field may be missing.
Patch == [doc : Documents \union {Nil}, country : Countries \union {Nil},
          street : Streets \union {Nil}, links : {Nil} \union SUBSET Programs]

\* The role and the links of UpdateAdministratorDto.
Grant == [role : Roles \union {Nil}, links : {Nil} \union SUBSET Programs]

ASSUME RowsAssumption ==
    /\ Roots \subseteq Administrators /\ Roots # {}
    /\ Cpfs \subseteq Documents
    /\ Patches \subseteq Patch
    /\ Grants \subseteq Grant
    /\ NewRows \subseteq [exists : {TRUE}, doc : Documents, country : Countries,
                          street : Streets, links : SUBSET Programs]
    /\ Administrators \intersect Beneficiaries = {}
    /\ Nil \notin Administrators \union Beneficiaries \union Documents
                    \union Streets \union Roles \union Countries

ASSUME CallsAssumption == MaxCalls \in Nat

VARIABLES
    admin,       \* Administrator rows with their program links
    program,     \* status of the CharityProgram rows
    ben,         \* Beneficiary rows with their program links
    active,      \* the benefit's active flag
    deliveries,  \* BenefitDelivery rows
    req,         \* the requests in flight
    calls        \* how many have been admitted (for MaxCalls)

tables == <<admin, program, ben, active, deliveries>>
vars == <<admin, program, ben, active, deliveries, req, calls>>

-----------------------------------------------------------------------------
(* Rows. *)

AdminRow == [exists : BOOLEAN, role : Roles, links : SUBSET Programs]

BenRow == [exists : BOOLEAN, doc : Documents, country : Countries,
           street : Streets, links : SUBSET Programs]

Delivery == [ref : References, ben : Beneficiaries, prog : Programs,
             by : Administrators]

NoPatch == [doc |-> Nil, country |-> Nil, street |-> Nil, links |-> Nil]

Ops == {"none", "benCreate", "benUpdate", "admCreate", "admUpdate",
        "progCreate", "progUpdate", "benefit", "delivery"}

Parts == {"beneficiary", "benefit", "program", "administrator"}

\* id is the row the request is about; val what the body says; row what it read;
\* seen the links its transaction has deleted and not yet committed.  todo and
\* good are the reads of a delivery still to come and those that were as
\* required; held (history) which requirements have held since admission.
Idle == [pc |-> "idle", op |-> "none", user |-> Nil, id |-> Nil, val |-> Nil,
         row |-> Nil, seen |-> {}, todo |-> {}, good |-> {}, held |-> {}]

TypeOK ==
    /\ admin \in [Administrators -> AdminRow]
    /\ program \in [Programs -> {"none", "active", "inactive"}]
    /\ ben \in [Beneficiaries -> BenRow]
    /\ active \in BOOLEAN
    /\ deliveries \subseteq Delivery
    /\ calls \in 0 .. MaxCalls
    /\ \A r \in Requests :
         /\ DOMAIN req[r] = DOMAIN Idle
         /\ req[r].pc \in {"idle", "read", "check", "write", "commit"}
         /\ req[r].op \in Ops
         /\ req[r].pc # "idle" => req[r].user \in User
         /\ req[r].op = "benUpdate" => req[r].val \in Patch
         /\ req[r].op = "benUpdate" /\ req[r].pc # "read" => req[r].row \in BenRow
         /\ req[r].seen \subseteq Programs
         /\ req[r].todo \subseteq Parts /\ req[r].good \subseteq Parts
         /\ req[r].held \subseteq Parts

ProgramsExist(links) == links # Nil => \A p \in links : program[p] # "none"

\* getBeneficiaryValidationErrors: in Brazil the document must be a CPF.
Valid(row) == row.country = "Brazil" => row.doc \in Cpfs

DocumentTaken(doc, b) ==
    \E c \in Beneficiaries \ {b} : ben[c].exists /\ ben[c].doc = doc

\* As after the seed: the root, and any other rows that are consistent.
Init ==
    /\ admin \in [Administrators -> AdminRow]
    /\ \A a \in Administrators :
         IF a \in Roots THEN admin[a] = [exists |-> TRUE, role |-> "super_admin",
                                         links |-> {}]
         ELSE admin[a].role = "program_manager"
    /\ program \in [Programs -> {"none", "active"}]
    /\ ben \in [Beneficiaries -> BenRow]
    /\ \A b \in Beneficiaries : Valid(ben[b]) /\ ProgramsExist(ben[b].links)
    /\ \A a \in Administrators : ProgramsExist(admin[a].links)
    /\ \A b, c \in Beneficiaries : b # c /\ ben[b].exists /\ ben[c].exists
                                     => ben[b].doc # ben[c].doc
    /\ active = TRUE
    /\ deliveries = {}
    /\ req = [r \in Requests |-> Idle]
    /\ calls = 0

-----------------------------------------------------------------------------
(* Admission. *)

DemoUser == [id |-> Nil, type |-> "administrator", role |-> "super_admin",
             programs |-> {}, demo |-> TRUE]

\* Whom AuthGuard may find behind a session at this moment.
Callers ==
    {[id |-> a, type |-> "administrator", role |-> admin[a].role,
      programs |-> admin[a].links, demo |-> FALSE] :
        a \in {x \in Administrators : admin[x].exists}}
    \union {[id |-> b, type |-> "beneficiary", role |-> Nil, programs |-> {},
             demo |-> FALSE] : b \in {x \in Beneficiaries : ben[x].exists}}
    \union {DemoUser}

\* Deviation of Serves: the demo account is served like any other.
ServesDemo(u, policy) == CanAccessRoute(u, policy)

\* AuthorizationGuard, and the isDemoUser return at the head of every handler.
Serves(u, policy) == CanAccessRoute(u, policy) /\ ~ u.demo

\* A request that r is free for (see Arrive), by the user the guard found.
Admit(r, slot) ==
    /\ calls' = calls + 1
    /\ req' = [req EXCEPT ![r] = slot]
    /\ UNCHANGED tables

Goto(r, slot) == req' = [req EXCEPT ![r] = slot] /\ UNCHANGED <<tables, calls>>

\* What a delivery requires of the tables given.
Holding(slot, adm, bens, act) ==
    {c \in {"beneficiary", "benefit", "administrator"} :
       CASE c = "beneficiary" -> /\ bens[slot.val.ben].exists
                                 /\ slot.val.prog \in bens[slot.val.ben].links
         [] c = "benefit" -> act
         [] c = "administrator" ->
              /\ slot.user.id \in Administrators
              /\ \/ adm[slot.user.id].role = "super_admin"
                 \/ slot.val.prog \in adm[slot.user.id].links}

Updates == {"benUpdate", "admUpdate"}

\* The links that s inserts: rows that no DELETE still open on the same account
\* has seen.
Inserted(s) == IF s.op \in Updates /\ s.val.links # Nil THEN s.val.links ELSE {}

\* The request's commit is its last step; deliveries in flight note (history)
\* what holds after it.
Finish(r) ==
    /\ req' = [q \in Requests |->
                 IF q = r THEN Idle
                 ELSE IF req[q].op = "delivery"
                 THEN [req[q] EXCEPT !.held = @ \union
                                       Holding(req[q], admin', ben', active')]
                 ELSE IF req[q].op = req[r].op /\ req[q].id = req[r].id
                 THEN [req[q] EXCEPT !.seen = @ \ Inserted(req[r])]
                 ELSE req[q]]
    /\ UNCHANGED calls

\* A check refuses, a statement fails or the process dies.
Abandon(r) == req[r] # Idle /\ Goto(r, Idle)

-----------------------------------------------------------------------------
(* POST /beneficiaries *)

AdmitBenCreate(r, u, row) ==
    /\ Serves(u, "manage")
    /\ SharesProgram(u, row.links)
    /\ CanAssignPrograms(u, row.links)
    /\ Admit(r, [Idle EXCEPT !.pc = "check", !.op = "benCreate", !.user = u,
                             !.val = row])

\* assertProgramsExist, the validation and assertDocumentAvailable.  Programs
\* are never deleted, so they may be looked up in one step.
CheckBenCreate(r) ==
    /\ req[r].pc = "check" /\ req[r].op = "benCreate"
    /\ ProgramsExist(req[r].val.links)
    /\ Valid(req[r].val)
    /\ ~ DocumentTaken(req[r].val.doc, Nil)
    /\ Goto(r, [req[r] EXCEPT !.pc = "write"])

\* The insert with its links, under a new id; the UNIQUE document is checked again.
BenCreate(r, b) ==
    /\ req[r].pc = "write" /\ req[r].op = "benCreate"
    /\ ~ ben[b].exists
    /\ ~ DocumentTaken(req[r].val.doc, Nil)
    /\ ben' = [ben EXCEPT ![b] = req[r].val]
    /\ UNCHANGED <<admin, program, active, deliveries>>
    /\ Finish(r)

-----------------------------------------------------------------------------
(* PATCH /beneficiaries/:id *)

\* The ids of bodies and paths were in an earlier answer: their rows exist.
AdmitBenUpdate(r, u, b, patch) ==
    /\ Serves(u, "manage")
    /\ ben[b].exists
    /\ Admit(r, [Idle EXCEPT !.pc = "read", !.op = "benUpdate", !.user = u,
                             !.id = b, !.val = patch])

\* findById within the scope, and the assignment policy.
ReadBeneficiary(r) ==
    LET s == req[r] IN
    /\ s.pc = "read" /\ s.op = "benUpdate"
    /\ ben[s.id].exists
    /\ LinkedInScope(ProgramScopeOf(s.user), ben[s.id].links)
    /\ s.val.links # Nil => CanAssignPrograms(s.user, s.val.links)
    /\ Goto(r, [s EXCEPT !.pc = "check", !.row = ben[s.id]])

\* The fields of the patch, and those of the row read where it has none.
Merged(row, patch) ==
    [f \in DOMAIN row |-> IF f \in DOMAIN patch /\ patch[f] # Nil
                          THEN patch[f] ELSE row[f]]

\* Deviation of CheckBenUpdate: only the fields sent are validated.
CheckBenUpdateFields(r) ==
    LET s == req[r] IN
    /\ s.pc = "check" /\ s.op = "benUpdate"
    /\ ProgramsExist(s.val.links)
    /\ s.val.doc # Nil => Valid(Merged(s.row, s.val))
    /\ Goto(r, [s EXCEPT !.pc = "write"])

\* The merged input is validated, its document looked up; canEditBeneficiary is
\* asked of the links read.
CheckBenUpdate(r) ==
    LET s == req[r] IN
    /\ s.pc = "check" /\ s.op = "benUpdate"
    /\ ProgramsExist(s.val.links)
    /\ Valid(Merged(s.row, s.val))
    /\ ~ DocumentTaken(Merged(s.row, s.val).doc, s.id)
    /\ SharesProgram(s.user, s.row.links)
    /\ Goto(r, [s EXCEPT !.pc = "write"])

\* deleteMany and createMany of the links, when the body has a list: links that
\* were inserted since the DELETE saw the table stay beside those of the body.
Relinked(row, s) ==
    IF s.val.links = Nil THEN row.links ELSE (row.links \ s.seen) \union s.val.links

\* The transaction of an update begins: its DELETE sees the links committed so far.
DeleteLinks(r) ==
    LET s == req[r] IN
    /\ s.pc = "write" /\ s.op \in Updates /\ s.val.links # Nil
    /\ Goto(r, [s EXCEPT !.pc = "commit",
                         !.seen = IF s.op = "benUpdate" THEN ben[s.id].links
                                  ELSE admin[s.id].links])

\* The links, if any, are replaced: what is left is the row itself.
Committing(s) == s.pc = IF s.val.links = Nil THEN "write" ELSE "commit"

\* Deviations of Written: an unsent document is written as NULL; the address is
\* replaced by the parts sent, with another value for the street.
WrittenBlank(row, s) ==
    [row EXCEPT !.doc = s.val.doc, !.links = Relinked(row, s)]

WrittenAddress(row, s) ==
    [row EXCEPT !.doc = IF s.val.doc = Nil THEN @ ELSE s.val.doc,
                !.country = IF s.val.country = Nil THEN @ ELSE s.val.country,
                !.street = IF s.val.street = Nil /\ s.val.country = Nil THEN @
                           ELSE IF s.val.street = Nil
                           THEN CHOOSE x \in Streets : x # s.row.street
                           ELSE s.val.street,
                !.links = Relinked(row, s)]

\* The row after the transaction.  The address is one JSON column: when the
\* patch has a part of it, the whole merged address is written.
Written(row, s) ==
    LET address == s.val.country # Nil \/ s.val.street # Nil
        merged == Merged(s.row, s.val)
    IN  [row EXCEPT !.doc = IF s.val.doc = Nil THEN @ ELSE s.val.doc,
                    !.country = IF address THEN merged.country ELSE @,
                    !.street = IF address THEN merged.street ELSE @,
                    !.links = Relinked(row, s)]

BenUpdate(r) ==
    LET s == req[r] IN
    /\ s.op = "benUpdate" /\ Committing(s)
    /\ s.val.doc # Nil => ~ DocumentTaken(s.val.doc, s.id)
    /\ ben' = [ben EXCEPT ![s.id] = Written(ben[s.id], s)]
    /\ UNCHANGED <<admin, program, active, deliveries>>
    /\ Finish(r)

-----------------------------------------------------------------------------
(* POST /administrators and PATCH /administrators/:id *)

AdmitAdmCreate(r, u, grant) ==
    /\ Serves(u, "manage_administrators")
    /\ grant.role # Nil /\ grant.links # Nil
    /\ Admit(r, [Idle EXCEPT !.pc = "check", !.op = "admCreate", !.user = u,
                             !.val = grant])

AdmitAdmUpdate(r, u, a, grant) ==
    /\ Serves(u, "manage_administrators")
    /\ admin[a].exists
    /\ Admit(r, [Idle EXCEPT !.pc = "read", !.op = "admUpdate", !.user = u,
                             !.id = a, !.val = grant])

\* findById (here without scope), assertMutableAdministrator and
\* assertRoleUpdateAllowed, which asks the same role as the policy.
ReadAdministrator(r) ==
    LET s == req[r] IN
    /\ s.pc = "read" /\ s.op = "admUpdate"
    /\ admin[s.id].exists
    /\ AdministratorInScope([global |-> TRUE, allowed |-> {}], s.id, {})
    /\ s.val.role # Nil => s.user.role = "super_admin"
    /\ Goto(r, [s EXCEPT !.pc = "check"])

CheckAdmPrograms(r) ==
    /\ req[r].pc = "check" /\ req[r].op \in {"admCreate", "admUpdate"}
    /\ ProgramsExist(req[r].val.links)
    /\ Goto(r, [req[r] EXCEPT !.pc = "write"])

AdmCreate(r, a) ==
    LET s == req[r] IN
    /\ s.pc = "write" /\ s.op = "admCreate"
    /\ ~ admin[a].exists
    /\ admin' = [admin EXCEPT ![a] = [exists |-> TRUE, role |-> s.val.role,
                                      links |-> s.val.links]]
    /\ UNCHANGED <<program, ben, active, deliveries>>
    /\ Finish(r)

AdmUpdate(r) ==
    LET s == req[r] IN
    /\ s.op = "admUpdate" /\ Committing(s)
    /\ admin' = [admin EXCEPT
                   ![s.id].role = IF s.val.role = Nil THEN @ ELSE s.val.role,
                   ![s.id].links = Relinked(admin[s.id], s)]
    /\ UNCHANGED <<program, ben, active, deliveries>>
    /\ Finish(r)

-----------------------------------------------------------------------------
(* Charity programs and benefits *)

AdmitProgCreate(r, u, status) ==
    /\ Serves(u, "create_charity_program")
    /\ Admit(r, [Idle EXCEPT !.pc = "write", !.op = "progCreate", !.user = u,
                             !.val = status])

ProgCreate(r, p) ==
    /\ req[r].pc = "write" /\ req[r].op = "progCreate"
    /\ program[p] = "none"
    /\ program' = [program EXCEPT ![p] = req[r].val]
    /\ UNCHANGED <<admin, ben, active, deliveries>>
    /\ Finish(r)

AdmitProgUpdate(r, u, p, status) ==
    /\ Serves(u, "manage")
    /\ program[p] # "none"
    /\ Admit(r, [Idle EXCEPT !.pc = "read", !.op = "progUpdate", !.user = u,
                             !.id = p, !.val = status])

\* Deviation of ReadProgram: the update does not call findOne first.
ReadNoProgram(r) ==
    /\ req[r].pc = "read" /\ req[r].op = "progUpdate"
    /\ program[req[r].id] # "none"
    /\ Goto(r, [req[r] EXCEPT !.pc = "write"])

\* findOne, with the user's scope.
ReadProgram(r) ==
    /\ req[r].pc = "read" /\ req[r].op = "progUpdate"
    /\ program[req[r].id] # "none"
    /\ ProgramInScope(ProgramScopeOf(req[r].user), req[r].id)
    /\ Goto(r, [req[r] EXCEPT !.pc = "write"])

ProgUpdate(r) ==
    /\ req[r].pc = "write" /\ req[r].op = "progUpdate"
    /\ program' = [program EXCEPT ![req[r].id] = req[r].val]
    /\ UNCHANGED <<admin, ben, active, deliveries>>
    /\ Finish(r)

\* PATCH /benefits/:id/status: any manager, any benefit (see BenefitHistory).
AdmitBenefit(r, u) ==
    /\ Serves(u, "manage")
    /\ Admit(r, [Idle EXCEPT !.pc = "write", !.op = "benefit", !.user = u,
                             !.val = ~ active])

SetBenefit(r) ==
    /\ req[r].pc = "write" /\ req[r].op = "benefit"
    /\ active' = req[r].val
    /\ UNCHANGED <<admin, program, ben, deliveries>>
    /\ Finish(r)

-----------------------------------------------------------------------------
(* POST /benefit-deliveries *)

AdmitDelivery(r, u, b, p, ref) ==
    LET s == [Idle EXCEPT !.pc = "check", !.op = "delivery", !.user = u,
                          !.val = [ben |-> b, prog |-> p, ref |-> ref],
                          !.todo = Parts]
    IN  /\ Serves(u, "manage")
        /\ CanAccessProgram(u, p)
        /\ ben[b].exists /\ program[p] # "none"
        /\ Admit(r, [s EXCEPT !.held = Holding(s, admin, ben, active)])

\* The four reads of the Promise.all run side by side, in any order.
ReadPart(r, part) ==
    LET s == req[r]
        holds == Holding(s, admin, ben, active)
                   \union {x \in {"program"} : program[s.val.prog] # "none"}
    IN  /\ s.op = "delivery" /\ part \in s.todo
        /\ Goto(r, [s EXCEPT !.todo = @ \ {part},
                             !.good = @ \union ({part} \intersect holds)])

\* Deviation of InsertDelivery: the benefit's status is not asked for.
InsertDeliveryOfAnyBenefit(r) ==
    LET s == req[r] IN
    /\ s.op = "delivery" /\ s.todo = {} /\ Parts \ {"benefit"} \subseteq s.good
    /\ deliveries' = deliveries \union
         {[ref |-> s.val.ref, ben |-> s.val.ben, prog |-> s.val.prog,
           by |-> s.user.id]}
    /\ UNCHANGED <<admin, program, ben, active>>
    /\ Finish(r)

\* All four were as required: the row is inserted, unless its reference exists.
InsertDelivery(r) ==
    LET s == req[r] IN
    /\ s.op = "delivery" /\ s.todo = {} /\ s.good = Parts
    /\ \A d \in deliveries : d.ref # s.val.ref
    /\ deliveries' = deliveries \union
         {[ref |-> s.val.ref, ben |-> s.val.ben, prog |-> s.val.prog,
           by |-> s.user.id]}
    /\ UNCHANGED <<admin, program, ben, active>>
    /\ Finish(r)

-----------------------------------------------------------------------------
(* The system. *)

Arrive(r) ==
    /\ req[r] = Idle /\ calls < MaxCalls
    /\ \E u \in Callers :
         \/ \E row \in NewRows : AdmitBenCreate(r, u, row)
         \/ \E b \in Beneficiaries, patch \in Patches : AdmitBenUpdate(r, u, b, patch)
         \/ \E grant \in Grants :
              \/ AdmitAdmCreate(r, u, grant)
              \/ \E a \in Administrators : AdmitAdmUpdate(r, u, a, grant)
         \/ \E status \in {"active", "inactive"} :
              \/ AdmitProgCreate(r, u, status)
              \/ \E p \in Programs : AdmitProgUpdate(r, u, p, status)
         \/ AdmitBenefit(r, u)
         \/ \E b \in Beneficiaries, p \in Programs, ref \in References :
              AdmitDelivery(r, u, b, p, ref)

Continue(r) ==
    \/ CheckBenCreate(r) \/ \E b \in Beneficiaries : BenCreate(r, b)
    \/ ReadBeneficiary(r) \/ CheckBenUpdate(r) \/ DeleteLinks(r) \/ BenUpdate(r)
    \/ ReadAdministrator(r) \/ CheckAdmPrograms(r)
    \/ (\E a \in Administrators : AdmCreate(r, a)) \/ AdmUpdate(r)
    \/ (\E p \in Programs : ProgCreate(r, p))
    \/ ReadProgram(r) \/ ProgUpdate(r) \/ SetBenefit(r)
    \/ (\E part \in Parts : ReadPart(r, part)) \/ InsertDelivery(r)

Next == \E r \in Requests : Arrive(r) \/ Continue(r) \/ Abandon(r)

Spec == Init /\ [][Next]_vars

-----------------------------------------------------------------------------
(* Properties. *)

\* There is always a super administrator: updates, racing or not, never reach
\* the root, so administrators cannot lock each other out (README: "the
\* protected root administrator cannot be modified").
SuperAdminRemains ==
    \E a \in Administrators : admin[a].exists /\ admin[a].role = "super_admin"

\* The rows a list shows are the rows the policies let the user act on: the
\* filters of the repositories and the policies of AuthorizationService, which
\* are written separately, agree for everyone the routes let through.
ScopeAgreesWithPolicy ==
    \A u \in {c \in Callers : CanAccessRoute(c, "manage")} :
      LET scope == ProgramScopeOf(u) IN
      /\ \A b \in Beneficiaries :
           LinkedInScope(scope, ben[b].links) <=> SharesProgram(u, ben[b].links)
      /\ \A a \in Administrators \ Roots :
           AdministratorInScope(scope, a, admin[a].links)
             <=> SharesProgram(u, admin[a].links)
      /\ \A p \in Programs :
           ProgramInScope(scope, p) <=> CanAccessProgram(u, p)

Ended(r) == req[r] # Idle /\ req'[r] = Idle

\* Whatever a request writes, its user was entitled to the operation when it was
\* admitted: case workers, beneficiaries and the demo account write nothing, and
\* administrators and new programs are the work of super administrators.
EntitledWrites ==
    [][\A r \in Requests : Ended(r) /\ tables' # tables =>
         /\ CanAccessSensitiveData(req[r].user) /\ ~ req[r].user.demo
         /\ admin' # admin \/ (\E p \in Programs : program[p] = "none"
                                               /\ program'[p] # "none")
              => IsSuperAdmin(req[r].user)]_vars

\* A program manager never leaves a beneficiary without programs, never assigns
\* one outside the manager's own, and leaves one only if another update inserted
\* it while the transaction of this one was open.
AssignmentsWithinScope ==
    [][\A r \in Requests, b \in Beneficiaries :
         Ended(r) /\ ben'[b].links # ben[b].links /\ ~ IsSuperAdmin(req[r].user)
           => /\ ben'[b].links # {}
              /\ ben'[b].links \ ben[b].links \subseteq req[r].user.programs
              /\ ben[b].links \subseteq req[r].seen
                   => ben'[b].links \subseteq req[r].user.programs]_vars

\* The row a beneficiary update writes is still the one it read.
Fresh(r) == req[r].op = "benUpdate" => ben[req[r].id] = req[r].row

\* A program manager changes a beneficiary or a program outside the manager's
\* scope only if it left the scope while the request was in flight.
OutOfScopeWritesAreLate ==
    [][\A r \in Requests :
         Ended(r) /\ ~ IsSuperAdmin(req[r].user) /\ Fresh(r) =>
           /\ \A b \in Beneficiaries : ben[b].exists /\ ben'[b] # ben[b]
                => ben[b].links \intersect req[r].user.programs # {}
           /\ \A p \in Programs : program'[p] # program[p]
                => p \in req[r].user.programs]_vars

\* A field the patch does not have keeps its value; if the row changed after the
\* request read it, the address may go back to what was read, to nothing else.
UnsentFieldsSurvive ==
    [][\A r \in Requests, b \in Beneficiaries :
         Ended(r) /\ req[r].op = "benUpdate" /\ ben'[b] # ben[b] =>
           \A f \in DOMAIN NoPatch : ben'[b][f] # ben[b][f] =>
             \/ req[r].val[f] # Nil
             \/ ~ Fresh(r) /\ f \in {"country", "street"}
                /\ ben'[b][f] = req[r].row[f]]_vars

\* A Brazilian beneficiary has a CPF.  The rule spans two columns and is checked
\* on the row read: only an update of a row that changed meanwhile may break it.
OnlyLateUpdatesInvalidate ==
    [][\A r \in Requests, b \in Beneficiaries :
         Ended(r) /\ Valid(ben[b]) /\ ~ Valid(ben'[b]) => ~ Fresh(r)]_vars

\* Each requirement of a delivery (the beneficiary's link, the benefit's status,
\* the administrator's assignment) held at some moment since its admission, and
\* a reference, retried or not, names one delivery.
DeliveriesWereEligible ==
    [][\A d \in deliveries' \ deliveries :
         /\ \A e \in deliveries : e.ref # d.ref
         /\ \E r \in Requests :
              /\ Ended(r) /\ req[r].op = "delivery" /\ req[r].val.ref = d.ref
              /\ req[r].held = {"beneficiary", "benefit", "administrator"}]_vars
=============================================================================
