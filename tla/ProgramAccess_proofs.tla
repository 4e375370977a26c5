------------------------ MODULE ProgramAccess_proofs ------------------------
(***************************************************************************)
(* Proofs of the safety properties of ProgramAccess, for every set of      *)
(* administrators, beneficiaries, programs and requests, and whatever the   *)
(* bodies of the requests may say.                                          *)
(***************************************************************************)
EXTENDS ProgramAccess, TLAPS

-----------------------------------------------------------------------------
(* The inductive invariant: what a slot holds, and what was checked of it.  *)

Body == [ben : Beneficiaries, prog : Programs, ref : References]

Bodies == NewRows \union Patches \union Grants \union Body
            \union {"active", "inactive", Nil} \union BOOLEAN

RequestSlot ==
    [pc : {"idle", "read", "check", "write", "commit"}, op : Ops,
     user : User \union {Nil},
     id : Administrators \union Beneficiaries \union Programs \union {Nil},
     val : Bodies, row : BenRow \union {Nil}, seen : SUBSET Programs,
     todo : SUBSET Parts, good : SUBSET Parts, held : SUBSET Parts]

\* The body and the row that each operation has.
SlotTyped(s) ==
    /\ s.pc = "idle" <=> s = Idle
    /\ s.pc = "idle" <=> s.op = "none"
    /\ s.pc # "idle" => s.user \in User
    /\ s.op = "benCreate" => s.val \in NewRows
    /\ s.op = "benUpdate" => s.id \in Beneficiaries /\ s.val \in Patches
    /\ s.op = "benUpdate" /\ s.pc # "read" => s.row \in BenRow
    /\ s.op = "admCreate" => s.val \in Grants /\ s.val.role # Nil /\ s.val.links # Nil
    /\ s.op = "admUpdate" => s.id \in Administrators /\ s.val \in Grants
    /\ s.op \in {"progCreate", "progUpdate"} => s.val \in {"active", "inactive"}
    /\ s.op = "progUpdate" => s.id \in Programs
    /\ s.op = "benefit" => s.val \in BOOLEAN
    /\ s.op = "delivery" => s.val \in Body
    /\ s.pc = "commit" => s.op \in Updates /\ s.val.links # Nil

\* The operations that only super administrators are served.
Reserved == {"admCreate", "admUpdate", "progCreate"}

\* An administrator with access to sensitive data, who is not the demo account.
Manages(u) == CanAccessSensitiveData(u) /\ ~ u.demo /\ u.id \in Administrators

\* The policy of the route was asked of the user in the slot.
Entitled(s) ==
    /\ s.pc # "idle" => Manages(s.user)
    /\ s.op \in Reserved => IsSuperAdmin(s.user)

\* So were the policies about the links that are assigned and the row that is
\* written, as the request read it.
Scoped(s) ==
    /\ s.op = "benCreate" => CanAssignPrograms(s.user, s.val.links)
    /\ s.op = "benUpdate" /\ s.pc # "read" /\ s.val.links # Nil
         => CanAssignPrograms(s.user, s.val.links)
    /\ s.op = "benUpdate" /\ s.pc \in {"write", "commit"}
         => SharesProgram(s.user, s.row.links)
    /\ s.op = "progUpdate" /\ s.pc = "write"
         => ProgramInScope(ProgramScopeOf(s.user), s.id)

\* The row to be written was found valid.
Validated(s) ==
    /\ s.op = "benCreate" /\ s.pc = "write" => Valid(s.val)
    /\ s.op = "benUpdate" /\ s.pc \in {"write", "commit"}
         => Valid(Merged(s.row, s.val))

\* An update that has read its administrator is not about a root.
RootSpared(s) == s.op = "admUpdate" /\ s.pc # "read" => s.id \notin Roots

Requirements == {"beneficiary", "benefit", "administrator"}

\* A delivery counts as good only what has held since its admission.
Collected(s) ==
    s.op = "delivery" => /\ s.held \subseteq Requirements
                         /\ s.good \subseteq s.held \union {"program"}

SlotOK(s) ==
    SlotTyped(s) /\ Entitled(s) /\ Scoped(s) /\ Validated(s) /\ RootSpared(s)
      /\ Collected(s)

TablesTyped ==
    /\ admin \in [Administrators -> AdminRow]
    /\ program \in [Programs -> {"none", "active", "inactive"}]
    /\ ben \in [Beneficiaries -> BenRow]
    /\ active \in BOOLEAN
    /\ deliveries \subseteq Delivery

RootsRemain ==
    \A a \in Roots : admin[a].exists /\ admin[a].role = "super_admin"

\* What a delivery requires and finds now has been noted.
HeldNoted ==
    \A r \in Requests :
      req[r].op = "delivery"
        => Holding(req[r], admin, ben, active) \subseteq req[r].held

\* Programs are not deleted: one that is being updated exists.
ProgramsFound ==
    \A r \in Requests : req[r].op = "progUpdate" => program[req[r].id] # "none"

IInv ==
    /\ TablesTyped
    /\ calls \in 0 .. MaxCalls
    /\ req \in [Requests -> RequestSlot]
    /\ \A r \in Requests : SlotOK(req[r])
    /\ RootsRemain
    /\ HeldNoted
    /\ ProgramsFound

-----------------------------------------------------------------------------
(* What the statements shared by the handlers do. *)

\* The idle slot satisfies all of it.
LEMMA IdleOK == Idle \in RequestSlot /\ SlotOK(Idle)
  <1>1. Idle \in RequestSlot
    BY DEF Idle, RequestSlot, Bodies, Ops
  <1>2. /\ Idle.pc = "idle" /\ Idle.op = "none"
    BY DEF Idle
  <1>3. SlotTyped(Idle)
    BY <1>2 DEF SlotTyped
  <1>4. /\ Entitled(Idle) /\ Scoped(Idle) /\ Validated(Idle)
        /\ RootSpared(Idle) /\ Collected(Idle)
    BY <1>2 DEF Entitled, Reserved, Scoped, Validated, RootSpared, Collected
  <1>5. QED
    BY <1>1, <1>3, <1>4 DEF SlotOK

\* Goto replaces one slot and keeps the others and the tables.
LEMMA GotoEffect ==
    ASSUME IInv, NEW r \in Requests,
           NEW slot \in RequestSlot, SlotOK(slot),
           slot.op = "delivery" => Holding(slot, admin, ben, active) \subseteq slot.held,
           slot.op = "progUpdate" => program[slot.id] # "none",
           Goto(r, slot)
    PROVE  IInv'
  <1>1. /\ req' \in [Requests -> RequestSlot]
        /\ \A q \in Requests : req'[q] = IF q = r THEN slot ELSE req[q]
        /\ UNCHANGED <<admin, program, ben, active, deliveries, calls>>
    BY DEF Goto, IInv, tables
  <1>2. TablesTyped' /\ RootsRemain' /\ calls' \in 0 .. MaxCalls
    BY <1>1 DEF IInv, TablesTyped, RootsRemain
  <1>3. \A q \in Requests : SlotOK(req'[q])
    BY <1>1 DEF IInv
  <1>4. HeldNoted'
    <2> SUFFICES ASSUME NEW q \in Requests, req'[q].op = "delivery"
                 PROVE  Holding(req'[q], admin', ben', active') \subseteq req'[q].held
      BY DEF HeldNoted
    <2>1. CASE q = r
      BY <1>1, <2>1
    <2>2. CASE q # r
      BY <1>1, <2>2 DEF IInv, HeldNoted
    <2>3. QED
      BY <2>1, <2>2
  <1>5. ProgramsFound'
    BY <1>1 DEF IInv, ProgramsFound
  <1>6. QED
    BY <1>1, <1>2, <1>3, <1>4, <1>5 DEF IInv

\* So does Admit, which counts the call.
LEMMA AdmitEffect ==
    ASSUME IInv, calls < MaxCalls, NEW r \in Requests,
           NEW slot \in RequestSlot, SlotOK(slot),
           slot.op = "delivery" => Holding(slot, admin, ben, active) \subseteq slot.held,
           slot.op = "progUpdate" => program[slot.id] # "none",
           Admit(r, slot)
    PROVE  IInv'
  <1>1. /\ req' \in [Requests -> RequestSlot]
        /\ \A q \in Requests : req'[q] = IF q = r THEN slot ELSE req[q]
        /\ UNCHANGED <<admin, program, ben, active, deliveries>>
        /\ calls' = calls + 1
    BY DEF Admit, IInv, tables
  <1>2. TablesTyped' /\ RootsRemain'
    BY <1>1 DEF IInv, TablesTyped, RootsRemain
  <1>3. calls' \in 0 .. MaxCalls
    BY <1>1, CallsAssumption DEF IInv
  <1>4. \A q \in Requests : SlotOK(req'[q])
    BY <1>1 DEF IInv
  <1>5. HeldNoted'
    <2> SUFFICES ASSUME NEW q \in Requests, req'[q].op = "delivery"
                 PROVE  Holding(req'[q], admin', ben', active') \subseteq req'[q].held
      BY DEF HeldNoted
    <2>1. CASE q = r
      BY <1>1, <2>1
    <2>2. CASE q # r
      BY <1>1, <2>2 DEF IInv, HeldNoted
    <2>3. QED
      BY <2>1, <2>2
  <1>6. ProgramsFound'
    BY <1>1 DEF IInv, ProgramsFound
  <1>7. QED
    BY <1>1, <1>2, <1>3, <1>4, <1>5, <1>6 DEF IInv

\* The holdings of a delivery depend on its user and its body alone.
LEMMA HoldingOfSlot ==
    ASSUME NEW s, NEW t, s.user = t.user, s.val = t.val, NEW adm, NEW bens, NEW act
    PROVE  /\ Holding(s, adm, bens, act) = Holding(t, adm, bens, act)
           /\ Holding(s, adm, bens, act) \subseteq Requirements
  BY DEF Holding, Requirements

\* What Finish does to the slots of the requests that go on.
Noting(s, seen, held) == [s EXCEPT !.seen = seen, !.held = held]

\* A slot in flight keeps its standing when it notes a holding or forgets a link.
LEMMA NotesKeepSlot ==
    ASSUME NEW s \in RequestSlot, SlotOK(s), s.op # "none",
           NEW seen \in SUBSET Programs, NEW held \in SUBSET Parts,
           s.op = "delivery" => s.held \subseteq held /\ held \subseteq Requirements
    PROVE  LET t == Noting(s, seen, held) IN
           /\ t \in RequestSlot
           /\ SlotOK(t)
           /\ t.pc = s.pc /\ t.op = s.op /\ t.user = s.user /\ t.id = s.id
           /\ t.val = s.val /\ t.held = held
  <1> DEFINE t == Noting(s, seen, held)
  <1>1. /\ t \in RequestSlot
        /\ t.pc = s.pc /\ t.op = s.op /\ t.user = s.user /\ t.id = s.id
        /\ t.val = s.val /\ t.row = s.row /\ t.good = s.good /\ t.todo = s.todo
        /\ t.seen = seen /\ t.held = held
    BY DEF RequestSlot, Noting
  <1> HIDE DEF t
  <1>2. t.pc # "idle" /\ t # Idle
    BY <1>1 DEF SlotOK, SlotTyped, Idle
  <1>3. SlotTyped(t)
    BY <1>1, <1>2 DEF SlotOK, SlotTyped
  <1>4. Entitled(t) /\ Scoped(t) /\ Validated(t) /\ RootSpared(t)
    BY <1>1 DEF SlotOK, Entitled, Scoped, Validated, RootSpared
  <1>5. Collected(t)
    BY <1>1 DEF SlotOK, Collected
  <1>6. QED
    BY <1>1, <1>3, <1>4, <1>5 DEF SlotOK, t

\* Finish ends one request; the others keep all but what they note.
LEMMA FinishOthers ==
    ASSUME IInv, NEW r \in Requests, Finish(r), NEW q \in Requests, q # r
    PROVE  /\ req'[q] \in RequestSlot
           /\ SlotOK(req'[q])
           /\ req'[q].pc = req[q].pc /\ req'[q].op = req[q].op
           /\ req'[q].id = req[q].id
           /\ req'[q].op = "delivery"
                => Holding(req'[q], admin', ben', active') \subseteq req'[q].held
  <1> DEFINE s == req[q]
             h == Holding(s, admin', ben', active')
             kept == s.seen \ Inserted(req[r])
  <1>1. s \in RequestSlot /\ SlotOK(s)
    BY DEF IInv
  <1>2. req'[q] = IF s.op = "delivery" THEN [s EXCEPT !.held = @ \union h]
                  ELSE IF s.op = req[r].op /\ s.id = req[r].id
                  THEN [s EXCEPT !.seen = kept]
                  ELSE s
    BY DEF Finish
  <1>3. h \subseteq Requirements
    BY HoldingOfSlot
  <1>4. Requirements \subseteq Parts
    BY DEF Requirements, Parts
  <1>5. s.seen \in SUBSET Programs /\ s.held \in SUBSET Parts /\ kept \in SUBSET Programs
    BY <1>1 DEF RequestSlot
  <1>6. CASE s.op = "delivery"
    <2>1. s.held \subseteq Requirements
      BY <1>1, <1>6 DEF SlotOK, Collected
    <2>2. req'[q] = Noting(s, s.seen, s.held \union h)
      BY <1>1, <1>2, <1>6 DEF RequestSlot, Noting
    <2>3. s.held \union h \in SUBSET Parts
      BY <1>3, <1>4, <1>5
    <2> HIDE DEF s, h, kept
    <2>4. /\ req'[q] \in RequestSlot /\ SlotOK(req'[q])
          /\ req'[q].pc = s.pc /\ req'[q].op = s.op /\ req'[q].id = s.id
          /\ req'[q].user = s.user /\ req'[q].val = s.val
          /\ req'[q].held = s.held \union h
      BY <1>1, <1>3, <1>5, <1>6, <2>1, <2>2, <2>3, NotesKeepSlot
    <2>5. Holding(req'[q], admin', ben', active') = h
      BY <2>4, HoldingOfSlot DEF h
    <2>6. QED
      BY <2>4, <2>5 DEF s
  <1>7. CASE s.op # "delivery" /\ s.op # "none" /\ s.op = req[r].op /\ s.id = req[r].id
    <2>1. req'[q] = Noting(s, kept, s.held)
      BY <1>1, <1>2, <1>7 DEF RequestSlot, Noting
    <2> HIDE DEF s, h, kept
    <2>2. /\ req'[q] \in RequestSlot /\ SlotOK(req'[q])
          /\ req'[q].pc = s.pc /\ req'[q].op = s.op /\ req'[q].id = s.id
      BY <1>1, <1>5, <1>7, <2>1, NotesKeepSlot
    <2>3. QED
      BY <1>7, <2>2 DEF s
  <1>8. CASE s.op # "delivery" /\ s.op = "none" /\ s.op = req[r].op /\ s.id = req[r].id
    <2>1. s = Idle
      BY <1>1, <1>8 DEF SlotOK, SlotTyped
    <2>2. req'[q] = Idle
      BY <1>2, <1>8, <2>1 DEF Idle
    <2>3. QED
      BY <2>1, <2>2, IdleOK, <1>8
  <1>9. CASE s.op # "delivery" /\ ~ (s.op = req[r].op /\ s.id = req[r].id)
    BY <1>1, <1>2, <1>9
  <1>10. QED
    BY <1>6, <1>7, <1>8, <1>9

\* A request ends by its own commit.
LEMMA FinishEnds ==
    ASSUME IInv, NEW r \in Requests, Finish(r)
    PROVE  /\ req' \in [Requests -> RequestSlot]
           /\ req'[r] = Idle
           /\ calls' = calls
           /\ \A q \in Requests : Ended(q) => q = r
  <1>1. req'[r] = Idle /\ calls' = calls
    BY DEF Finish
  <1>2. ASSUME NEW q \in Requests
        PROVE  req'[q] \in RequestSlot
    BY <1>1, IdleOK, FinishOthers
  <1>3. req' \in [Requests -> RequestSlot]
    BY <1>2 DEF Finish
  <1>4. ASSUME NEW q \in Requests, Ended(q), q # r
        PROVE  FALSE
    <2>1. req'[q].pc = req[q].pc
      BY <1>4, FinishOthers
    <2>2. req[q].pc = "idle"
      BY <1>4, <2>1 DEF Ended, Idle
    <2>3. QED
      BY <1>4, <2>2 DEF Ended, IInv, SlotOK, SlotTyped
  <1>5. QED
    BY <1>1, <1>3, <1>4

\* A commit preserves the invariant if its write does.
LEMMA FinishEffect ==
    ASSUME IInv, NEW r \in Requests, Finish(r), TablesTyped', RootsRemain',
           \A p \in Programs : program[p] # "none" => program'[p] # "none"
    PROVE  IInv'
  <1>1. /\ req' \in [Requests -> RequestSlot] /\ req'[r] = Idle /\ calls' = calls
    BY FinishEnds
  <1>2. ASSUME NEW q \in Requests
        PROVE  /\ SlotOK(req'[q])
               /\ req'[q].op = "delivery"
                    => Holding(req'[q], admin', ben', active') \subseteq req'[q].held
    <2>1. CASE q = r
      BY <1>1, <2>1, IdleOK DEF Idle
    <2>2. CASE q # r
      BY <2>2, FinishOthers
    <2>3. QED
      BY <2>1, <2>2
  <1>3. ASSUME NEW q \in Requests, req'[q].op = "progUpdate"
        PROVE  program'[req'[q].id] # "none"
    <2>1. q # r
      BY <1>1, <1>3 DEF Idle
    <2>2. /\ req'[q].id = req[q].id /\ req'[q].op = req[q].op
          /\ req'[q].id \in Programs
      BY <1>3, <2>1, FinishOthers DEF SlotOK, SlotTyped
    <2>3. QED
      BY <1>3, <2>2 DEF IInv, ProgramsFound
  <1>4. QED
    BY <1>1, <1>2, <1>3 DEF IInv, HeldNoted, ProgramsFound

-----------------------------------------------------------------------------
(* Admission. *)

\* The guard finds well-typed users.
LEMMA CallersTyped ==
    ASSUME IInv, NEW u \in Callers
    PROVE  u \in User
  <1>1. CASE u = DemoUser
    BY <1>1 DEF DemoUser, User, Roles
  <1>2. CASE \E b \in Beneficiaries :
               u = [id |-> b, type |-> "beneficiary", role |-> Nil, programs |-> {},
                    demo |-> FALSE]
    BY <1>2 DEF User
  <1>3. ASSUME NEW a \in Administrators,
               u = [id |-> a, type |-> "administrator", role |-> admin[a].role,
                    programs |-> admin[a].links, demo |-> FALSE]
        PROVE  u \in User
    <2>1. admin[a].role \in Roles /\ admin[a].links \in SUBSET Programs
      BY DEF IInv, TablesTyped, AdminRow
    <2>2. QED
      BY <1>3, <2>1 DEF User
  <1>4. QED
    BY <1>1, <1>2, <1>3 DEF Callers

\* Whom the routes let through is one of the administrators who may.
LEMMA ServedEntitled ==
    ASSUME IInv, NEW u \in Callers
    PROVE  /\ Serves(u, "manage") => Manages(u)
           /\ Serves(u, "manage_administrators") \/ Serves(u, "create_charity_program")
                => Manages(u) /\ IsSuperAdmin(u)
  <1>1. u.type = "administrator" /\ ~ u.demo => u.id \in Administrators
    BY DEF Callers, DemoUser
  <1>2. QED
    BY <1>1 DEF Serves, CanAccessRoute, CanAccessSensitiveData, IsSuperAdmin, Manages

LEMMA AdmitBenCreateInv ==
    ASSUME IInv, calls < MaxCalls, NEW r \in Requests, NEW u \in Callers,
           NEW row \in NewRows, AdmitBenCreate(r, u, row)
    PROVE  IInv'
  <1> DEFINE slot == [Idle EXCEPT !.pc = "check", !.op = "benCreate", !.user = u,
                                  !.val = row]
  <1>1. u \in User /\ Manages(u)
    BY CallersTyped, ServedEntitled DEF AdmitBenCreate
  <1>2. CanAssignPrograms(u, row.links)
    BY DEF AdmitBenCreate
  <1>3. slot \in RequestSlot /\ SlotTyped(slot)
    BY <1>1 DEF Idle, RequestSlot, Bodies, Ops, SlotTyped
  <1>4. Entitled(slot)
    BY <1>1 DEF Idle, Entitled, Reserved
  <1>5. Scoped(slot)
    BY <1>2 DEF Idle, Scoped
  <1>6. Validated(slot) /\ RootSpared(slot) /\ Collected(slot) /\ slot.op \notin {"delivery", "progUpdate"}
    BY DEF Idle, Validated, RootSpared, Collected
  <1>7. Admit(r, slot)
    BY DEF AdmitBenCreate
  <1> HIDE DEF slot
  <1>8. QED
    BY <1>3, <1>4, <1>5, <1>6, <1>7, AdmitEffect DEF SlotOK

LEMMA AdmitBenUpdateInv ==
    ASSUME IInv, calls < MaxCalls, NEW r \in Requests, NEW u \in Callers,
           NEW b \in Beneficiaries, NEW patch \in Patches,
           AdmitBenUpdate(r, u, b, patch)
    PROVE  IInv'
  <1> DEFINE slot == [Idle EXCEPT !.pc = "read", !.op = "benUpdate", !.user = u,
                                  !.id = b, !.val = patch]
  <1>1. u \in User /\ Manages(u)
    BY CallersTyped, ServedEntitled DEF AdmitBenUpdate
  <1>2. slot \in RequestSlot /\ SlotTyped(slot)
    BY <1>1 DEF Idle, RequestSlot, Bodies, Ops, SlotTyped
  <1>3. Entitled(slot)
    BY <1>1 DEF Idle, Entitled, Reserved
  <1>4. /\ Scoped(slot) /\ Validated(slot) /\ RootSpared(slot) /\ Collected(slot)
        /\ slot.op \notin {"delivery", "progUpdate"}
    BY DEF Idle, Scoped, Validated, RootSpared, Collected
  <1>5. Admit(r, slot)
    BY DEF AdmitBenUpdate
  <1> HIDE DEF slot
  <1>6. QED
    BY <1>2, <1>3, <1>4, <1>5, AdmitEffect DEF SlotOK

LEMMA AdmitAdmCreateInv ==
    ASSUME IInv, calls < MaxCalls, NEW r \in Requests, NEW u \in Callers,
           NEW grant \in Grants, AdmitAdmCreate(r, u, grant)
    PROVE  IInv'
  <1> DEFINE slot == [Idle EXCEPT !.pc = "check", !.op = "admCreate", !.user = u,
                                  !.val = grant]
  <1>1. u \in User /\ Manages(u) /\ IsSuperAdmin(u)
    BY CallersTyped, ServedEntitled DEF AdmitAdmCreate
  <1>2. grant.role # Nil /\ grant.links # Nil
    BY DEF AdmitAdmCreate
  <1>3. slot \in RequestSlot /\ SlotTyped(slot)
    BY <1>1, <1>2 DEF Idle, RequestSlot, Bodies, Ops, SlotTyped
  <1>4. Entitled(slot)
    BY <1>1 DEF Idle, Entitled
  <1>5. /\ Scoped(slot) /\ Validated(slot) /\ RootSpared(slot) /\ Collected(slot)
        /\ slot.op \notin {"delivery", "progUpdate"}
    BY DEF Idle, Scoped, Validated, RootSpared, Collected
  <1>6. Admit(r, slot)
    BY DEF AdmitAdmCreate
  <1> HIDE DEF slot
  <1>7. QED
    BY <1>3, <1>4, <1>5, <1>6, AdmitEffect DEF SlotOK

LEMMA AdmitAdmUpdateInv ==
    ASSUME IInv, calls < MaxCalls, NEW r \in Requests, NEW u \in Callers,
           NEW a \in Administrators, NEW grant \in Grants,
           AdmitAdmUpdate(r, u, a, grant)
    PROVE  IInv'
  <1> DEFINE slot == [Idle EXCEPT !.pc = "read", !.op = "admUpdate", !.user = u,
                                  !.id = a, !.val = grant]
  <1>1. u \in User /\ Manages(u) /\ IsSuperAdmin(u)
    BY CallersTyped, ServedEntitled DEF AdmitAdmUpdate
  <1>2. slot \in RequestSlot /\ SlotTyped(slot)
    BY <1>1 DEF Idle, RequestSlot, Bodies, Ops, SlotTyped
  <1>3. Entitled(slot)
    BY <1>1 DEF Idle, Entitled
  <1>4. /\ Scoped(slot) /\ Validated(slot) /\ RootSpared(slot) /\ Collected(slot)
        /\ slot.op \notin {"delivery", "progUpdate"}
    BY DEF Idle, Scoped, Validated, RootSpared, Collected
  <1>5. Admit(r, slot)
    BY DEF AdmitAdmUpdate
  <1> HIDE DEF slot
  <1>6. QED
    BY <1>2, <1>3, <1>4, <1>5, AdmitEffect DEF SlotOK

LEMMA AdmitProgCreateInv ==
    ASSUME IInv, calls < MaxCalls, NEW r \in Requests, NEW u \in Callers,
           NEW status \in {"active", "inactive"}, AdmitProgCreate(r, u, status)
    PROVE  IInv'
  <1> DEFINE slot == [Idle EXCEPT !.pc = "write", !.op = "progCreate", !.user = u,
                                  !.val = status]
  <1>1. u \in User /\ Manages(u) /\ IsSuperAdmin(u)
    BY CallersTyped, ServedEntitled DEF AdmitProgCreate
  <1>2. slot \in RequestSlot /\ SlotTyped(slot)
    BY <1>1 DEF Idle, RequestSlot, Bodies, Ops, SlotTyped
  <1>3. Entitled(slot)
    BY <1>1 DEF Idle, Entitled
  <1>4. /\ Scoped(slot) /\ Validated(slot) /\ RootSpared(slot) /\ Collected(slot)
        /\ slot.op \notin {"delivery", "progUpdate"}
    BY DEF Idle, Scoped, Validated, RootSpared, Collected
  <1>5. Admit(r, slot)
    BY DEF AdmitProgCreate
  <1> HIDE DEF slot
  <1>6. QED
    BY <1>2, <1>3, <1>4, <1>5, AdmitEffect DEF SlotOK

LEMMA AdmitProgUpdateInv ==
    ASSUME IInv, calls < MaxCalls, NEW r \in Requests, NEW u \in Callers,
           NEW p \in Programs, NEW status \in {"active", "inactive"},
           AdmitProgUpdate(r, u, p, status)
    PROVE  IInv'
  <1> DEFINE slot == [Idle EXCEPT !.pc = "read", !.op = "progUpdate", !.user = u,
                                  !.id = p, !.val = status]
  <1>1. u \in User /\ Manages(u)
    BY CallersTyped, ServedEntitled DEF AdmitProgUpdate
  <1>2. slot \in RequestSlot /\ SlotTyped(slot)
    BY <1>1 DEF Idle, RequestSlot, Bodies, Ops, SlotTyped
  <1>3. Entitled(slot)
    BY <1>1 DEF Idle, Entitled, Reserved
  <1>4. /\ Scoped(slot) /\ Validated(slot) /\ RootSpared(slot) /\ Collected(slot)
        /\ slot.op # "delivery" /\ slot.id = p
    BY DEF Idle, Scoped, Validated, RootSpared, Collected
  <1>5. Admit(r, slot) /\ program[p] # "none"
    BY DEF AdmitProgUpdate
  <1> HIDE DEF slot
  <1>6. QED
    BY <1>2, <1>3, <1>4, <1>5, AdmitEffect DEF SlotOK

LEMMA AdmitBenefitInv ==
    ASSUME IInv, calls < MaxCalls, NEW r \in Requests, NEW u \in Callers,
           AdmitBenefit(r, u)
    PROVE  IInv'
  <1> DEFINE slot == [Idle EXCEPT !.pc = "write", !.op = "benefit", !.user = u,
                                  !.val = ~ active]
  <1>1. u \in User /\ Manages(u)
    BY CallersTyped, ServedEntitled DEF AdmitBenefit
  <1>2. (~ active) \in BOOLEAN
    OBVIOUS
  <1>3. slot \in RequestSlot /\ SlotTyped(slot)
    BY <1>1, <1>2 DEF Idle, RequestSlot, Bodies, Ops, SlotTyped
  <1>4. Entitled(slot)
    BY <1>1 DEF Idle, Entitled, Reserved
  <1>5. /\ Scoped(slot) /\ Validated(slot) /\ RootSpared(slot) /\ Collected(slot)
        /\ slot.op \notin {"delivery", "progUpdate"}
    BY DEF Idle, Scoped, Validated, RootSpared, Collected
  <1>6. Admit(r, slot)
    BY DEF AdmitBenefit
  <1> HIDE DEF slot
  <1>7. QED
    BY <1>3, <1>4, <1>5, <1>6, AdmitEffect DEF SlotOK

LEMMA AdmitDeliveryInv ==
    ASSUME IInv, calls < MaxCalls, NEW r \in Requests, NEW u \in Callers,
           NEW b \in Beneficiaries, NEW p \in Programs, NEW ref \in References,
           AdmitDelivery(r, u, b, p, ref)
    PROVE  IInv'
  <1> DEFINE body == [ben |-> b, prog |-> p, ref |-> ref]
             asked == [Idle EXCEPT !.pc = "check", !.op = "delivery", !.user = u,
                                   !.val = body, !.todo = Parts]
             holds == Holding(asked, admin, ben, active)
             slot == [asked EXCEPT !.held = holds]
  <1>1. u \in User /\ Manages(u)
    BY CallersTyped, ServedEntitled DEF AdmitDelivery
  <1>2. body \in Body
    BY DEF Body
  <1>3. Admit(r, slot)
    BY DEF AdmitDelivery
  <1> HIDE DEF body
  <1>4. /\ asked.pc = "check" /\ asked.op = "delivery" /\ asked.user = u
        /\ asked.val = body /\ asked.good = {}
        /\ asked \in RequestSlot
    BY <1>1, <1>2 DEF Idle, RequestSlot, Bodies, Ops
  <1>5. holds \subseteq Requirements /\ holds \in SUBSET Parts
    BY HoldingOfSlot, SMTT(40) DEF Requirements, Parts
  <1> HIDE DEF asked, holds
  <1>6. /\ slot \in RequestSlot /\ slot # Idle
        /\ slot.pc = "check" /\ slot.op = "delivery" /\ slot.user = u
        /\ slot.val = body /\ slot.good = {} /\ slot.held = holds
    BY <1>4, <1>5 DEF RequestSlot, Idle
  <1> HIDE DEF slot
  <1>7. SlotTyped(slot) /\ Entitled(slot)
    BY <1>1, <1>2, <1>6 DEF SlotTyped, Entitled, Reserved
  <1>8. Scoped(slot) /\ Validated(slot) /\ RootSpared(slot)
    BY <1>6 DEF Scoped, Validated, RootSpared
  <1>9. Collected(slot)
    BY <1>5, <1>6 DEF Collected
  <1>10. Holding(slot, admin, ben, active) \subseteq slot.held
    BY <1>4, <1>6, HoldingOfSlot DEF holds
  <1>11. QED
    BY <1>3, <1>6, <1>7, <1>8, <1>9, <1>10, AdmitEffect DEF SlotOK

\* Whatever is admitted, the invariant is preserved.
LEMMA ArriveInv ==
    ASSUME IInv, NEW r \in Requests, Arrive(r)
    PROVE  IInv'
  BY AdmitBenCreateInv, AdmitBenUpdateInv, AdmitAdmCreateInv, AdmitAdmUpdateInv,
     AdmitProgCreateInv, AdmitProgUpdateInv, AdmitBenefitInv, AdmitDeliveryInv
     DEF Arrive

-----------------------------------------------------------------------------
(* The steps of a request before its commit. *)

LEMMA CheckBenCreateInv ==
    ASSUME IInv, NEW r \in Requests, CheckBenCreate(r)
    PROVE  IInv'
  <1> DEFINE s == req[r]
             slot == [s EXCEPT !.pc = "write"]
  <1>1. s \in RequestSlot /\ SlotOK(s) /\ s.pc = "check" /\ s.op = "benCreate"
    BY DEF IInv, CheckBenCreate
  <1>2. Valid(s.val) /\ Goto(r, slot)
    BY DEF CheckBenCreate
  <1> HIDE DEF s
  <1>3. /\ slot \in RequestSlot /\ slot # Idle
        /\ slot.pc = "write" /\ slot.op = s.op /\ slot.user = s.user
        /\ slot.id = s.id /\ slot.val = s.val
    BY <1>1 DEF RequestSlot, Idle
  <1> HIDE DEF slot
  <1>4. SlotTyped(slot)
    BY <1>1, <1>3 DEF SlotOK, SlotTyped
  <1>5. Entitled(slot) /\ Scoped(slot) /\ Validated(slot)
    BY <1>1, <1>2, <1>3 DEF SlotOK, Entitled, Scoped, Validated
  <1>6. RootSpared(slot) /\ Collected(slot)
    BY <1>1, <1>3 DEF RootSpared, Collected
  <1>7. QED
    BY <1>1, <1>2, <1>3, <1>4, <1>5, <1>6, GotoEffect DEF SlotOK

LEMMA ReadBeneficiaryInv ==
    ASSUME IInv, NEW r \in Requests, ReadBeneficiary(r)
    PROVE  IInv'
  <1> DEFINE s == req[r]
             slot == [s EXCEPT !.pc = "check", !.row = ben[s.id]]
  <1>1. s \in RequestSlot /\ SlotOK(s) /\ s.pc = "read" /\ s.op = "benUpdate"
    BY DEF IInv, ReadBeneficiary
  <1>2. /\ s.val.links # Nil => CanAssignPrograms(s.user, s.val.links)
        /\ Goto(r, slot)
    BY DEF ReadBeneficiary
  <1>3. ben[s.id] \in BenRow
    BY <1>1 DEF IInv, TablesTyped, SlotOK, SlotTyped
  <1> HIDE DEF s
  <1>4. /\ slot \in RequestSlot /\ slot # Idle
        /\ slot.pc = "check" /\ slot.op = s.op /\ slot.user = s.user
        /\ slot.id = s.id /\ slot.val = s.val /\ slot.row = ben[s.id]
    BY <1>1, <1>3 DEF RequestSlot, Idle
  <1> HIDE DEF slot
  <1>5. SlotTyped(slot)
    BY <1>1, <1>3, <1>4 DEF SlotOK, SlotTyped
  <1>6. Entitled(slot) /\ Scoped(slot) /\ Validated(slot)
    BY <1>1, <1>2, <1>4 DEF SlotOK, Entitled, Scoped, Validated
  <1>7. RootSpared(slot) /\ Collected(slot)
    BY <1>1, <1>4 DEF RootSpared, Collected
  <1>8. QED
    BY <1>1, <1>2, <1>4, <1>5, <1>6, <1>7, GotoEffect DEF SlotOK

LEMMA CheckBenUpdateInv ==
    ASSUME IInv, NEW r \in Requests, CheckBenUpdate(r)
    PROVE  IInv'
  <1> DEFINE s == req[r]
             slot == [s EXCEPT !.pc = "write"]
  <1>1. s \in RequestSlot /\ SlotOK(s) /\ s.pc = "check" /\ s.op = "benUpdate"
    BY DEF IInv, CheckBenUpdate
  <1>2. /\ Valid(Merged(s.row, s.val)) /\ SharesProgram(s.user, s.row.links)
        /\ Goto(r, slot)
    BY DEF CheckBenUpdate
  <1> HIDE DEF s
  <1>3. /\ slot \in RequestSlot /\ slot # Idle
        /\ slot.pc = "write" /\ slot.op = s.op /\ slot.user = s.user
        /\ slot.id = s.id /\ slot.val = s.val /\ slot.row = s.row
    BY <1>1 DEF RequestSlot, Idle
  <1> HIDE DEF slot
  <1>4. SlotTyped(slot)
    BY <1>1, <1>3 DEF SlotOK, SlotTyped
  <1>5. Entitled(slot) /\ Scoped(slot) /\ Validated(slot)
    BY <1>1, <1>2, <1>3 DEF SlotOK, Entitled, Scoped, Validated
  <1>6. RootSpared(slot) /\ Collected(slot)
    BY <1>1, <1>3 DEF RootSpared, Collected
  <1>7. QED
    BY <1>1, <1>2, <1>3, <1>4, <1>5, <1>6, GotoEffect DEF SlotOK

LEMMA DeleteLinksInv ==
    ASSUME IInv, NEW r \in Requests, DeleteLinks(r)
    PROVE  IInv'
  <1> DEFINE s == req[r]
             seen == IF s.op = "benUpdate" THEN ben[s.id].links ELSE admin[s.id].links
             slot == [s EXCEPT !.pc = "commit", !.seen = seen]
  <1>1. /\ s \in RequestSlot /\ SlotOK(s) /\ s.pc = "write" /\ s.op \in Updates
        /\ s.val.links # Nil
    BY DEF IInv, DeleteLinks
  <1>2. Goto(r, slot)
    BY DEF DeleteLinks
  <1>3. seen \in SUBSET Programs
    <2>1. s.op = "benUpdate" => s.id \in Beneficiaries
      BY <1>1 DEF SlotOK, SlotTyped
    <2>2. s.op # "benUpdate" => s.id \in Administrators
      BY <1>1 DEF SlotOK, SlotTyped, Updates
    <2>3. QED
      BY <2>1, <2>2 DEF IInv, TablesTyped, BenRow, AdminRow
  <1> HIDE DEF s, seen
  <1>4. /\ slot \in RequestSlot /\ slot # Idle
        /\ slot.pc = "commit" /\ slot.op = s.op /\ slot.user = s.user
        /\ slot.id = s.id /\ slot.val = s.val /\ slot.row = s.row
    BY <1>1, <1>3 DEF RequestSlot, Idle
  <1> HIDE DEF slot
  <1>5. SlotTyped(slot)
    BY <1>1, <1>4 DEF SlotOK, SlotTyped, Updates
  <1>6. Entitled(slot) /\ Scoped(slot) /\ Validated(slot)
    BY <1>1, <1>4 DEF SlotOK, Entitled, Scoped, Validated, Updates
  <1>7. RootSpared(slot) /\ Collected(slot)
    BY <1>1, <1>4 DEF SlotOK, RootSpared, Collected, Updates
  <1>8. QED
    BY <1>1, <1>2, <1>4, <1>5, <1>6, <1>7, GotoEffect DEF SlotOK, Updates

LEMMA ReadAdministratorInv ==
    ASSUME IInv, NEW r \in Requests, ReadAdministrator(r)
    PROVE  IInv'
  <1> DEFINE s == req[r]
             slot == [s EXCEPT !.pc = "check"]
  <1>1. s \in RequestSlot /\ SlotOK(s) /\ s.pc = "read" /\ s.op = "admUpdate"
    BY DEF IInv, ReadAdministrator
  <1>2. s.id \notin Roots /\ Goto(r, slot)
    BY DEF ReadAdministrator, AdministratorInScope
  <1> HIDE DEF s
  <1>3. /\ slot \in RequestSlot /\ slot # Idle
        /\ slot.pc = "check" /\ slot.op = s.op /\ slot.user = s.user
        /\ slot.id = s.id /\ slot.val = s.val
    BY <1>1 DEF RequestSlot, Idle
  <1> HIDE DEF slot
  <1>4. SlotTyped(slot)
    BY <1>1, <1>3 DEF SlotOK, SlotTyped
  <1>5. Entitled(slot) /\ Scoped(slot) /\ Validated(slot)
    BY <1>1, <1>3 DEF SlotOK, Entitled, Scoped, Validated
  <1>6. RootSpared(slot) /\ Collected(slot)
    BY <1>1, <1>2, <1>3 DEF RootSpared, Collected
  <1>7. QED
    BY <1>1, <1>2, <1>3, <1>4, <1>5, <1>6, GotoEffect DEF SlotOK

LEMMA CheckAdmProgramsInv ==
    ASSUME IInv, NEW r \in Requests, CheckAdmPrograms(r)
    PROVE  IInv'
  <1> DEFINE s == req[r]
             slot == [s EXCEPT !.pc = "write"]
  <1>1. /\ s \in RequestSlot /\ SlotOK(s) /\ s.pc = "check"
        /\ s.op \in {"admCreate", "admUpdate"}
    BY DEF IInv, CheckAdmPrograms
  <1>2. Goto(r, slot)
    BY DEF CheckAdmPrograms
  <1> HIDE DEF s
  <1>3. /\ slot \in RequestSlot /\ slot # Idle
        /\ slot.pc = "write" /\ slot.op = s.op /\ slot.user = s.user
        /\ slot.id = s.id /\ slot.val = s.val
    BY <1>1 DEF RequestSlot, Idle
  <1> HIDE DEF slot
  <1>4. SlotTyped(slot)
    BY <1>1, <1>3 DEF SlotOK, SlotTyped
  <1>5. Entitled(slot) /\ Scoped(slot) /\ Validated(slot)
    BY <1>1, <1>3 DEF SlotOK, Entitled, Scoped, Validated
  <1>6. RootSpared(slot) /\ Collected(slot)
    BY <1>1, <1>3 DEF SlotOK, RootSpared, Collected
  <1>7. QED
    BY <1>1, <1>2, <1>3, <1>4, <1>5, <1>6, GotoEffect DEF SlotOK

LEMMA ReadProgramInv ==
    ASSUME IInv, NEW r \in Requests, ReadProgram(r)
    PROVE  IInv'
  <1> DEFINE s == req[r]
             slot == [s EXCEPT !.pc = "write"]
  <1>1. s \in RequestSlot /\ SlotOK(s) /\ s.pc = "read" /\ s.op = "progUpdate"
    BY DEF IInv, ReadProgram
  <1>2. /\ ProgramInScope(ProgramScopeOf(s.user), s.id) /\ program[s.id] # "none"
        /\ Goto(r, slot)
    BY DEF ReadProgram
  <1> HIDE DEF s
  <1>3. /\ slot \in RequestSlot /\ slot # Idle
        /\ slot.pc = "write" /\ slot.op = s.op /\ slot.user = s.user
        /\ slot.id = s.id /\ slot.val = s.val
    BY <1>1 DEF RequestSlot, Idle
  <1> HIDE DEF slot
  <1>4. SlotTyped(slot)
    BY <1>1, <1>3 DEF SlotOK, SlotTyped
  <1>5. Entitled(slot) /\ Scoped(slot) /\ Validated(slot)
    BY <1>1, <1>2, <1>3 DEF SlotOK, Entitled, Scoped, Validated
  <1>6. RootSpared(slot) /\ Collected(slot)
    BY <1>1, <1>3 DEF RootSpared, Collected
  <1>7. QED
    BY <1>1, <1>2, <1>3, <1>4, <1>5, <1>6, GotoEffect DEF SlotOK

\* What a read of a delivery finds as required is among what has been noted.
LEMMA ReadPartInv ==
    ASSUME IInv, NEW r \in Requests, NEW part \in Parts, ReadPart(r, part)
    PROVE  IInv'
  <1> DEFINE s == req[r]
             held == Holding(s, admin, ben, active)
             holds == held \union {x \in {"program"} : program[s.val.prog] # "none"}
             good == s.good \union ({part} \intersect holds)
             slot == [s EXCEPT !.todo = @ \ {part}, !.good = good]
  <1>1. s \in RequestSlot /\ SlotOK(s) /\ s.op = "delivery"
    BY DEF IInv, ReadPart
  <1>2. Goto(r, slot)
    BY DEF ReadPart
  <1>3. held \subseteq s.held
    BY <1>1 DEF IInv, HeldNoted
  <1>4. good \subseteq s.held \union {"program"} /\ good \in SUBSET Parts
    <2>1. s.good \subseteq s.held \union {"program"}
      BY <1>1 DEF SlotOK, Collected
    <2>2. s.good \in SUBSET Parts
      BY <1>1 DEF RequestSlot
    <2>3. QED
      BY <1>3, <2>1, <2>2
  <1> HIDE DEF s, good
  <1>5. /\ slot \in RequestSlot
        /\ slot.pc = s.pc /\ slot.op = s.op /\ slot.user = s.user
        /\ slot.val = s.val /\ slot.held = s.held /\ slot.good = good
    BY <1>1, <1>4 DEF RequestSlot
  <1>6. slot # Idle
    BY <1>1, <1>5 DEF Idle
  <1> HIDE DEF slot
  <1>7. SlotTyped(slot)
    BY <1>1, <1>5, <1>6 DEF SlotOK, SlotTyped
  <1>8. Entitled(slot) /\ Scoped(slot) /\ Validated(slot) /\ RootSpared(slot)
    BY <1>1, <1>5 DEF SlotOK, Entitled, Reserved, Scoped, Validated, RootSpared
  <1>9. Collected(slot)
    BY <1>1, <1>4, <1>5 DEF SlotOK, Collected
  <1>10. Holding(slot, admin, ben, active) \subseteq slot.held
    <2>1. Holding(slot, admin, ben, active) = held
      BY <1>5, HoldingOfSlot
    <2>2. QED
      BY <1>3, <1>5, <2>1
  <1>11. QED
    BY <1>1, <1>2, <1>5, <1>7, <1>8, <1>9, <1>10, GotoEffect DEF SlotOK

LEMMA AbandonInv ==
    ASSUME IInv, NEW r \in Requests, Abandon(r)
    PROVE  IInv'
  BY IdleOK, GotoEffect DEF Abandon, Idle

-----------------------------------------------------------------------------
(* What an update writes. *)

\* The merge takes each field from the patch, or from the row when it has none.
LEMMA MergedFields ==
    ASSUME NEW row \in BenRow, NEW patch \in Patch
    PROVE  LET m == Merged(row, patch) IN
           /\ m.doc = IF patch.doc # Nil THEN patch.doc ELSE row.doc
           /\ m.country = IF patch.country # Nil THEN patch.country ELSE row.country
           /\ m.street = IF patch.street # Nil THEN patch.street ELSE row.street
           /\ m.doc \in Documents /\ m.country \in Countries /\ m.street \in Streets
  BY DEF Merged, BenRow, Patch

\* The links written are links; without a list they stay.
LEMMA RelinkedLinks ==
    ASSUME NEW row, row.links \in SUBSET Programs, NEW s,
           s.val.links \in {Nil} \union SUBSET Programs
    PROVE  /\ Relinked(row, s) \in SUBSET Programs
           /\ s.val.links = Nil => Relinked(row, s) = row.links
           /\ s.val.links # Nil
                => Relinked(row, s) = (row.links \ s.seen) \union s.val.links
  BY DEF Relinked

\* A field that is not in the patch keeps its value, unless it is a part of the
\* address and the patch has the other: then it is that of the row read.
LEMMA WrittenFields ==
    ASSUME NEW row \in BenRow, NEW s, s.row \in BenRow, s.val \in Patch
    PROVE  LET w == Written(row, s)
               address == s.val.country # Nil \/ s.val.street # Nil
           IN  /\ w \in BenRow
               /\ w.exists = row.exists
               /\ w.doc = IF s.val.doc = Nil THEN row.doc ELSE s.val.doc
               /\ w.country = IF address THEN Merged(s.row, s.val).country
                              ELSE row.country
               /\ w.street = IF address THEN Merged(s.row, s.val).street
                             ELSE row.street
               /\ w.links = Relinked(row, s)
  <1> DEFINE merged == Merged(s.row, s.val)
             links == Relinked(row, s)
  <1>1. merged.country \in Countries /\ merged.street \in Streets
    BY MergedFields
  <1>2. s.val.doc \in Documents \union {Nil}
        /\ s.val.links \in {Nil} \union SUBSET Programs
    BY DEF Patch
  <1>3. links \in SUBSET Programs
    BY <1>2, RelinkedLinks DEF BenRow
  <1> DEFINE address == s.val.country # Nil \/ s.val.street # Nil
             doc == IF s.val.doc = Nil THEN row.doc ELSE s.val.doc
             country == IF address THEN merged.country ELSE row.country
             street == IF address THEN merged.street ELSE row.street
             w == [row EXCEPT !.doc = doc, !.country = country, !.street = street,
                              !.links = links]
  <1>4. doc \in Documents /\ country \in Countries /\ street \in Streets
    BY <1>1, <1>2 DEF BenRow
  <1>5. Written(row, s) = w
    BY DEF Written
  <1> HIDE DEF doc, country, street, links
  <1>6. /\ w \in BenRow /\ w.exists = row.exists /\ w.doc = doc
        /\ w.country = country /\ w.street = street /\ w.links = links
    BY <1>3, <1>4 DEF BenRow
  <1>7. QED
    BY <1>5, <1>6 DEF doc, country, street, links

-----------------------------------------------------------------------------
(* Commits. *)

LEMMA BenCreateEffect ==
    ASSUME IInv, NEW r \in Requests, NEW b \in Beneficiaries, BenCreate(r, b)
    PROVE  /\ Finish(r) /\ req[r] # Idle
           /\ req[r].val \in BenRow
           /\ ben' = [ben EXCEPT ![b] = req[r].val]
           /\ UNCHANGED <<admin, program, active, deliveries>>
           /\ IInv'
  <1>1. /\ Finish(r) /\ req[r].op = "benCreate" /\ SlotOK(req[r])
        /\ ben' = [ben EXCEPT ![b] = req[r].val]
        /\ UNCHANGED <<admin, program, active, deliveries>>
    BY DEF BenCreate, IInv
  <1>2. req[r].val \in NewRows /\ req[r] # Idle
    BY <1>1 DEF SlotOK, SlotTyped, Idle
  <1>3. req[r].val \in BenRow
    BY <1>2, RowsAssumption DEF BenRow
  <1>4. TablesTyped' /\ RootsRemain'
    BY <1>1, <1>3 DEF IInv, TablesTyped, RootsRemain
  <1>5. QED
    BY <1>1, <1>2, <1>3, <1>4, FinishEffect

LEMMA BenUpdateEffect ==
    ASSUME IInv, NEW r \in Requests, BenUpdate(r)
    PROVE  LET s == req[r] IN
           /\ Finish(r) /\ s # Idle /\ SlotOK(s)
           /\ s.op = "benUpdate" /\ Committing(s) /\ s.pc \in {"write", "commit"}
           /\ s.id \in Beneficiaries /\ s.val \in Patch /\ s.row \in BenRow
           /\ ben' = [ben EXCEPT ![s.id] = Written(ben[s.id], s)]
           /\ UNCHANGED <<admin, program, active, deliveries>>
           /\ IInv'
  <1> DEFINE s == req[r]
  <1>1. /\ Finish(r) /\ s.op = "benUpdate" /\ Committing(s) /\ SlotOK(s)
        /\ ben' = [ben EXCEPT ![s.id] = Written(ben[s.id], s)]
        /\ UNCHANGED <<admin, program, active, deliveries>>
    BY DEF BenUpdate, IInv
  <1>2. s.pc \in {"write", "commit"}
    BY <1>1 DEF Committing
  <1>3. s.id \in Beneficiaries /\ s.val \in Patches /\ s.row \in BenRow /\ s # Idle
    BY <1>1, <1>2 DEF SlotOK, SlotTyped, Idle
  <1>4. s.val \in Patch
    BY <1>3, RowsAssumption
  <1>5. Written(ben[s.id], s) \in BenRow
    BY <1>3, <1>4, WrittenFields DEF IInv, TablesTyped
  <1>6. TablesTyped' /\ RootsRemain'
    BY <1>1, <1>3, <1>5 DEF IInv, TablesTyped, RootsRemain
  <1>7. QED
    BY <1>1, <1>2, <1>3, <1>4, <1>6, FinishEffect

LEMMA AdmCreateEffect ==
    ASSUME IInv, NEW r \in Requests, NEW a \in Administrators, AdmCreate(r, a)
    PROVE  /\ Finish(r) /\ req[r] # Idle /\ req[r].op = "admCreate"
           /\ UNCHANGED <<program, ben, active, deliveries>>
           /\ IInv'
  <1> DEFINE s == req[r]
             row == [exists |-> TRUE, role |-> s.val.role, links |-> s.val.links]
  <1>1. /\ Finish(r) /\ s.op = "admCreate" /\ SlotOK(s) /\ ~ admin[a].exists
        /\ admin' = [admin EXCEPT ![a] = row]
        /\ UNCHANGED <<program, ben, active, deliveries>>
    BY DEF AdmCreate, IInv
  <1>2. s.val \in Grant /\ s.val.role # Nil /\ s.val.links # Nil /\ s # Idle
    BY <1>1, RowsAssumption DEF SlotOK, SlotTyped, Idle
  <1>3. row \in AdminRow
    BY <1>2 DEF Grant, AdminRow
  <1>4. TablesTyped'
    BY <1>1, <1>3 DEF IInv, TablesTyped
  <1>5. RootsRemain'
    <2>1. a \notin Roots
      BY <1>1 DEF IInv, RootsRemain
    <2>2. QED
      BY <1>1, <2>1, RowsAssumption DEF IInv, TablesTyped, RootsRemain
  <1>6. QED
    BY <1>1, <1>2, <1>4, <1>5, FinishEffect

\* An update keeps the administrator's existence, and is never of a root.
LEMMA AdmUpdateEffect ==
    ASSUME IInv, NEW r \in Requests, AdmUpdate(r)
    PROVE  /\ Finish(r) /\ req[r] # Idle /\ req[r].op = "admUpdate"
           /\ UNCHANGED <<program, ben, active, deliveries>>
           /\ IInv'
  <1> DEFINE s == req[r]
             links == Relinked(admin[s.id], s)
             role == IF s.val.role = Nil THEN admin[s.id].role ELSE s.val.role
             row == [admin[s.id] EXCEPT !.role = role, !.links = links]
  <1>1. /\ Finish(r) /\ s.op = "admUpdate" /\ Committing(s) /\ SlotOK(s)
        /\ UNCHANGED <<program, ben, active, deliveries>>
    BY DEF AdmUpdate, IInv
  <1>2. s.pc \in {"write", "commit"}
    BY <1>1 DEF Committing
  <1>3. s.id \in Administrators /\ s.val \in Grant /\ s # Idle /\ s.id \notin Roots
    BY <1>1, <1>2, RowsAssumption DEF SlotOK, SlotTyped, RootSpared, Idle
  <1>4. admin[s.id] \in AdminRow
    BY <1>3 DEF IInv, TablesTyped
  <1>5. links \in SUBSET Programs
    BY <1>3, <1>4, RelinkedLinks DEF AdminRow, Grant
  <1>6. role \in Roles
    BY <1>3, <1>4 DEF AdminRow, Grant
  <1>7. admin' = [admin EXCEPT ![s.id] = row]
    BY <1>3, <1>4 DEF AdmUpdate, IInv, TablesTyped, AdminRow
  <1> HIDE DEF links, role
  <1>8. row \in AdminRow
    BY <1>4, <1>5, <1>6 DEF AdminRow
  <1>9. TablesTyped'
    BY <1>1, <1>3, <1>7, <1>8 DEF IInv, TablesTyped
  <1>10. RootsRemain'
    BY <1>3, <1>7, RowsAssumption DEF IInv, TablesTyped, RootsRemain
  <1>11. QED
    BY <1>1, <1>3, <1>9, <1>10, FinishEffect

LEMMA ProgCreateEffect ==
    ASSUME IInv, NEW r \in Requests, NEW p \in Programs, ProgCreate(r, p)
    PROVE  /\ Finish(r) /\ req[r] # Idle /\ req[r].op = "progCreate"
           /\ UNCHANGED <<admin, ben, active, deliveries>>
           /\ IInv'
  <1>1. /\ Finish(r) /\ req[r].op = "progCreate" /\ SlotOK(req[r])
        /\ program' = [program EXCEPT ![p] = req[r].val]
        /\ UNCHANGED <<admin, ben, active, deliveries>>
    BY DEF ProgCreate, IInv
  <1>2. req[r].val \in {"active", "inactive"} /\ req[r] # Idle
    BY <1>1 DEF SlotOK, SlotTyped, Idle
  <1>3. TablesTyped' /\ RootsRemain'
    BY <1>1, <1>2 DEF IInv, TablesTyped, RootsRemain
  <1>4. QED
    BY <1>1, <1>2, <1>3, FinishEffect

LEMMA ProgUpdateEffect ==
    ASSUME IInv, NEW r \in Requests, ProgUpdate(r)
    PROVE  LET s == req[r] IN
           /\ Finish(r) /\ s # Idle /\ SlotOK(s)
           /\ s.op = "progUpdate" /\ s.pc = "write" /\ s.id \in Programs
           /\ program' = [program EXCEPT ![s.id] = s.val]
           /\ UNCHANGED <<admin, ben, active, deliveries>>
           /\ IInv'
  <1>1. /\ Finish(r) /\ req[r].op = "progUpdate" /\ req[r].pc = "write"
        /\ SlotOK(req[r])
        /\ program' = [program EXCEPT ![req[r].id] = req[r].val]
        /\ UNCHANGED <<admin, ben, active, deliveries>>
    BY DEF ProgUpdate, IInv
  <1>2. /\ req[r].val \in {"active", "inactive"} /\ req[r] # Idle
        /\ req[r].id \in Programs
    BY <1>1 DEF SlotOK, SlotTyped, Idle
  <1>3. TablesTyped' /\ RootsRemain'
    BY <1>1, <1>2 DEF IInv, TablesTyped, RootsRemain
  <1>4. QED
    BY <1>1, <1>2, <1>3, FinishEffect

LEMMA SetBenefitEffect ==
    ASSUME IInv, NEW r \in Requests, SetBenefit(r)
    PROVE  /\ Finish(r) /\ req[r] # Idle
           /\ UNCHANGED <<admin, program, ben, deliveries>>
           /\ IInv'
  <1>1. /\ Finish(r) /\ req[r].op = "benefit" /\ SlotOK(req[r])
        /\ active' = req[r].val
        /\ UNCHANGED <<admin, program, ben, deliveries>>
    BY DEF SetBenefit, IInv
  <1>2. req[r].val \in BOOLEAN /\ req[r] # Idle
    BY <1>1 DEF SlotOK, SlotTyped, Idle
  <1>3. TablesTyped' /\ RootsRemain'
    BY <1>1, <1>2 DEF IInv, TablesTyped, RootsRemain
  <1>4. QED
    BY <1>1, <1>2, <1>3, FinishEffect

\* All the requirements of a delivery that is inserted have been held.
LEMMA InsertDeliveryEffect ==
    ASSUME IInv, NEW r \in Requests, InsertDelivery(r)
    PROVE  LET s == req[r] IN
           /\ Finish(r) /\ s # Idle /\ s.op = "delivery"
           /\ s.held = Requirements
           /\ \A d \in deliveries : d.ref # s.val.ref
           /\ deliveries' = deliveries \union
                {[ref |-> s.val.ref, ben |-> s.val.ben, prog |-> s.val.prog,
                  by |-> s.user.id]}
           /\ UNCHANGED <<admin, program, ben, active>>
           /\ IInv'
  <1> DEFINE s == req[r]
             d == [ref |-> s.val.ref, ben |-> s.val.ben, prog |-> s.val.prog,
                   by |-> s.user.id]
  <1>1. /\ Finish(r) /\ s.op = "delivery" /\ SlotOK(s) /\ s.good = Parts
        /\ \A e \in deliveries : e.ref # s.val.ref
        /\ deliveries' = deliveries \union {d}
        /\ UNCHANGED <<admin, program, ben, active>>
    BY DEF InsertDelivery, IInv
  <1>2. s # Idle /\ s.val \in Body /\ s.pc # "idle" /\ s.user \in User
    BY <1>1 DEF SlotOK, SlotTyped, Idle
  <1>3. s.held = Requirements
    BY <1>1 DEF SlotOK, Collected, Parts, Requirements
  <1>4. s.user.id \in Administrators
    BY <1>1, <1>2 DEF SlotOK, Entitled, Manages
  <1>5. d \in Delivery
    BY <1>2, <1>4 DEF Body, Delivery
  <1> HIDE DEF d
  <1>6. TablesTyped' /\ RootsRemain'
    BY <1>1, <1>5 DEF IInv, TablesTyped, RootsRemain
  <1>7. QED
    BY <1>1, <1>2, <1>3, <1>6, FinishEffect DEF d

-----------------------------------------------------------------------------
(* The invariant holds in every behaviour. *)

\* The steps that write to a table.
Commit(r) ==
    \/ \E b \in Beneficiaries : BenCreate(r, b)
    \/ BenUpdate(r)
    \/ \E a \in Administrators : AdmCreate(r, a)
    \/ AdmUpdate(r)
    \/ \E p \in Programs : ProgCreate(r, p)
    \/ ProgUpdate(r) \/ SetBenefit(r) \/ InsertDelivery(r)

LEMMA CommitEffect ==
    ASSUME IInv, NEW r \in Requests, Commit(r)
    PROVE  IInv' /\ Finish(r)
  BY BenCreateEffect, BenUpdateEffect, AdmCreateEffect, AdmUpdateEffect,
     ProgCreateEffect, ProgUpdateEffect, SetBenefitEffect, InsertDeliveryEffect
     DEF Commit

\* The others write to none.
LEMMA StepEffect ==
    ASSUME IInv, [Next]_vars
    PROVE  /\ IInv'
           /\ UNCHANGED tables \/ \E r \in Requests : Commit(r) /\ Finish(r)
  <1>1. ASSUME NEW r \in Requests, Arrive(r)
        PROVE  IInv' /\ UNCHANGED tables
    <2>1. UNCHANGED tables
      BY <1>1, ZenonT(40) DEF Arrive, AdmitBenCreate, AdmitBenUpdate, AdmitAdmCreate,
                  AdmitAdmUpdate, AdmitProgCreate, AdmitProgUpdate, AdmitBenefit,
                  AdmitDelivery, Admit
    <2>2. calls < MaxCalls
      BY <1>1 DEF Arrive
    <2>3. QED
      BY <1>1, <2>1, <2>2, ArriveInv
  <1>2. ASSUME NEW r \in Requests, Commit(r)
        PROVE  IInv' /\ Finish(r)
    BY <1>2, CommitEffect
  <1>3. ASSUME NEW r \in Requests, Continue(r), ~ Commit(r)
        PROVE  IInv' /\ UNCHANGED tables
    <2>1. \/ CheckBenCreate(r) \/ ReadBeneficiary(r) \/ CheckBenUpdate(r)
          \/ DeleteLinks(r) \/ ReadAdministrator(r) \/ CheckAdmPrograms(r)
          \/ ReadProgram(r) \/ \E part \in Parts : ReadPart(r, part)
      BY <1>3 DEF Continue, Commit
    <2>2. UNCHANGED tables
      BY <2>1 DEF CheckBenCreate, ReadBeneficiary, CheckBenUpdate, DeleteLinks,
                  ReadAdministrator, CheckAdmPrograms, ReadProgram, ReadPart, Goto
    <2>3. IInv'
      BY <2>1, CheckBenCreateInv, ReadBeneficiaryInv, CheckBenUpdateInv,
         DeleteLinksInv, ReadAdministratorInv, CheckAdmProgramsInv, ReadProgramInv,
         ReadPartInv
    <2>4. QED
      BY <2>2, <2>3
  <1>4. ASSUME NEW r \in Requests, Abandon(r)
        PROVE  IInv' /\ UNCHANGED tables
    BY <1>4, AbandonInv DEF Abandon, Goto
  <1>5. CASE UNCHANGED vars
    <2>1. /\ UNCHANGED <<admin, program, ben, active, deliveries>>
          /\ req' = req /\ calls' = calls
      BY <1>5 DEF vars
    <2>2. TablesTyped' /\ RootsRemain'
      BY <2>1 DEF IInv, TablesTyped, RootsRemain
    <2>3. HeldNoted'
      BY <2>1 DEF IInv, HeldNoted
    <2>4. ProgramsFound'
      BY <2>1 DEF IInv, ProgramsFound
    <2>5. QED
      BY <2>1, <2>2, <2>3, <2>4 DEF IInv, tables
  <1>6. QED
    BY <1>1, <1>2, <1>3, <1>4, <1>5 DEF Next

\* The state after the seed is consistent.
LEMMA InitIInv ==
    ASSUME Init
    PROVE  IInv
  <1>1. TablesTyped
    BY DEF Init, TablesTyped
  <1>2. RootsRemain
    <2> SUFFICES ASSUME NEW a \in Roots
                 PROVE  admin[a].exists /\ admin[a].role = "super_admin"
      BY DEF RootsRemain
    <2>1. a \in Administrators
      BY RowsAssumption
    <2>2. admin[a] = [exists |-> TRUE, role |-> "super_admin", links |-> {}]
      BY <2>1 DEF Init
    <2>3. QED
      BY <2>2
  <1>3. \A r \in Requests : req[r] = Idle
    BY DEF Init
  <1>4. req \in [Requests -> RequestSlot] /\ \A r \in Requests : SlotOK(req[r])
    BY <1>3, IdleOK DEF Init
  <1>5. HeldNoted
    BY <1>3 DEF HeldNoted, Idle
  <1>6. ProgramsFound
    BY <1>3 DEF ProgramsFound, Idle
  <1>7. calls \in 0 .. MaxCalls
    BY CallsAssumption DEF Init
  <1>8. QED
    BY <1>1, <1>2, <1>4, <1>5, <1>6, <1>7 DEF IInv

\* In every reachable state, each request holds what its checks have found.
THEOREM SlotsKeepTheirChecks == Spec => []IInv
  <1>1. IInv /\ [Next]_vars => IInv'
    BY StepEffect
  <1>2. QED
    BY <1>1, InitIInv, PTL DEF Spec

\* Type correctness.
THEOREM TypeCorrect == Spec => []TypeOK
  <1>1. IInv => TypeOK
    <2> SUFFICES ASSUME IInv
                 PROVE  TypeOK
      OBVIOUS
    <2>1. ASSUME NEW r \in Requests
          PROVE  /\ DOMAIN req[r] = DOMAIN Idle
                 /\ req[r].pc \in {"idle", "read", "check", "write", "commit"}
                 /\ req[r].op \in Ops
                 /\ req[r].seen \subseteq Programs
                 /\ req[r].todo \subseteq Parts /\ req[r].good \subseteq Parts
                 /\ req[r].held \subseteq Parts
      BY DEF IInv, RequestSlot, Idle
    <2>2. ASSUME NEW r \in Requests
          PROVE  /\ req[r].pc # "idle" => req[r].user \in User
                 /\ req[r].op = "benUpdate" => req[r].val \in Patch
                 /\ req[r].op = "benUpdate" /\ req[r].pc # "read"
                      => req[r].row \in BenRow
      BY RowsAssumption DEF IInv, SlotOK, SlotTyped
    <2>3. QED
      BY <2>1, <2>2 DEF IInv, TablesTyped, TypeOK
  <1>2. QED
    BY <1>1, SlotsKeepTheirChecks, PTL

\* There is always a super administrator: a root is found by no update, and no
\* create writes over it.
THEOREM SuperAdminStays == Spec => []SuperAdminRemains
  <1>1. IInv => SuperAdminRemains
    BY RowsAssumption DEF IInv, RootsRemain, SuperAdminRemains
  <1>2. QED
    BY <1>1, SlotsKeepTheirChecks, PTL

-----------------------------------------------------------------------------
(* Scopes and policies. *)

\* The policies and the filters agree for every user the routes let through,
\* whatever the tables hold: it is a fact about ProgramScope.
LEMMA ScopesAreThePolicies ==
    ASSUME NEW u, CanAccessRoute(u, "manage")
    PROVE  LET scope == ProgramScopeOf(u) IN
           /\ \A links \in SUBSET Programs :
                LinkedInScope(scope, links) <=> SharesProgram(u, links)
           /\ \A p \in Programs : ProgramInScope(scope, p) <=> CanAccessProgram(u, p)
  <1> DEFINE scope == ProgramScopeOf(u)
  <1>1. u.type = "administrator"
    BY DEF CanAccessRoute, CanAccessSensitiveData
  <1>2. /\ scope.global <=> IsSuperAdmin(u)
        /\ ~ IsSuperAdmin(u) => scope.allowed = u.programs
    BY <1>1 DEF ProgramScopeOf
  <1>3. QED
    BY <1>1, <1>2 DEF LinkedInScope, SharesProgram, ProgramInScope, CanAccessProgram

\* The rows that a list shows are those the policies let the user act on.
THEOREM ListsShowWhatPoliciesAllow == Spec => []ScopeAgreesWithPolicy
  <1>1. IInv => ScopeAgreesWithPolicy
    <2> SUFFICES ASSUME IInv, NEW u \in Callers, CanAccessRoute(u, "manage")
                 PROVE  LET scope == ProgramScopeOf(u) IN
                        /\ \A b \in Beneficiaries :
                             LinkedInScope(scope, ben[b].links)
                               <=> SharesProgram(u, ben[b].links)
                        /\ \A a \in Administrators \ Roots :
                             AdministratorInScope(scope, a, admin[a].links)
                               <=> SharesProgram(u, admin[a].links)
                        /\ \A p \in Programs :
                             ProgramInScope(scope, p) <=> CanAccessProgram(u, p)
      BY DEF ScopeAgreesWithPolicy
    <2>1. /\ \A b \in Beneficiaries : ben[b].links \in SUBSET Programs
          /\ \A a \in Administrators : admin[a].links \in SUBSET Programs
      BY DEF IInv, TablesTyped, BenRow, AdminRow
    <2>2. QED
      BY <2>1, ScopesAreThePolicies DEF AdministratorInScope
  <1>2. QED
    BY <1>1, SlotsKeepTheirChecks, PTL

-----------------------------------------------------------------------------
(* Action properties. *)

\* Whoever ends a request that writes was entitled to it.
LEMMA CommitEntitled ==
    ASSUME IInv, NEW r \in Requests, Commit(r), NEW q \in Requests, Ended(q)
    PROVE  /\ q = r
           /\ Manages(req[q].user)
           /\ admin' # admin \/ (\E p \in Programs : program[p] = "none"
                                                 /\ program'[p] # "none")
                => IsSuperAdmin(req[q].user)
  <1>1. q = r
    BY CommitEffect, FinishEnds
  <1>2. Manages(req[q].user) /\ (req[q].op \in Reserved => IsSuperAdmin(req[q].user))
    BY DEF Ended, IInv, SlotOK, SlotTyped, Entitled
  <1>3. CASE req[r].op \in Reserved
    BY <1>1, <1>2, <1>3
  <1>4. CASE ProgUpdate(r)
    BY <1>1, <1>2, <1>4, ProgUpdateEffect DEF IInv, TablesTyped, ProgramsFound
  <1>5. CASE \/ \E b \in Beneficiaries : BenCreate(r, b)
             \/ BenUpdate(r) \/ SetBenefit(r) \/ InsertDelivery(r)
    <2>1. UNCHANGED <<admin, program>>
      BY <1>5, BenCreateEffect, BenUpdateEffect, SetBenefitEffect,
         InsertDeliveryEffect
    <2>2. QED
      BY <1>1, <1>2, <2>1
  <1>6. QED
    BY <1>3, <1>4, <1>5, AdmCreateEffect, AdmUpdateEffect, ProgCreateEffect
       DEF Commit, Reserved

\* Every write is entitled, by the policies asked when its request was admitted.
THEOREM WritesAreEntitled == Spec => EntitledWrites
  <1>1. IInv /\ [Next]_vars =>
          [\A r \in Requests : Ended(r) /\ tables' # tables =>
             /\ CanAccessSensitiveData(req[r].user) /\ ~ req[r].user.demo
             /\ admin' # admin \/ (\E p \in Programs : program[p] = "none"
                                                   /\ program'[p] # "none")
                  => IsSuperAdmin(req[r].user)]_vars
    BY StepEffect, CommitEntitled DEF Manages
  <1>2. QED
    BY <1>1, SlotsKeepTheirChecks, PTL DEF Spec, EntitledWrites

\* Only two steps change a beneficiary.
LEMMA BeneficiaryChanged ==
    ASSUME IInv, [Next]_vars, NEW r \in Requests, Ended(r),
           NEW b \in Beneficiaries, ben'[b] # ben[b]
    PROVE  \/ BenCreate(r, b)
           \/ BenUpdate(r) /\ b = req[r].id
  <1>1. PICK q \in Requests : Commit(q) /\ Finish(q)
    BY StepEffect DEF tables
  <1>2. q = r
    BY <1>1, FinishEnds
  <1>3. ben' # ben
    OBVIOUS
  <1>4. (\E c \in Beneficiaries : BenCreate(r, c)) \/ BenUpdate(r)
    BY <1>1, <1>2, <1>3, AdmCreateEffect, AdmUpdateEffect, ProgCreateEffect,
       ProgUpdateEffect, SetBenefitEffect, InsertDeliveryEffect DEF Commit
  <1>5. ASSUME NEW c \in Beneficiaries, BenCreate(r, c)
        PROVE  BenCreate(r, b)
    BY <1>5, BenCreateEffect DEF IInv, TablesTyped
  <1>6. ASSUME BenUpdate(r)
        PROVE  b = req[r].id
    BY <1>6, BenUpdateEffect DEF IInv, TablesTyped
  <1>7. QED
    BY <1>4, <1>5, <1>6

\* Only two steps change a program.
LEMMA ProgramChanged ==
    ASSUME IInv, [Next]_vars, NEW r \in Requests, Ended(r),
           NEW p \in Programs, program'[p] # program[p]
    PROVE  \/ req[r].op = "progCreate"
           \/ ProgUpdate(r) /\ p = req[r].id
  <1>1. PICK q \in Requests : Commit(q) /\ Finish(q)
    BY StepEffect DEF tables
  <1>2. q = r
    BY <1>1, FinishEnds
  <1>3. program' # program
    OBVIOUS
  <1>4. (\E c \in Programs : ProgCreate(r, c)) \/ ProgUpdate(r)
    BY <1>1, <1>2, <1>3, BenCreateEffect, BenUpdateEffect, AdmCreateEffect,
       AdmUpdateEffect, SetBenefitEffect, InsertDeliveryEffect DEF Commit
  <1>5. ASSUME ProgUpdate(r)
        PROVE  p = req[r].id
    BY <1>5, ProgUpdateEffect DEF IInv, TablesTyped
  <1>6. QED
    BY <1>4, <1>5, ProgCreateEffect

\* What an update of a beneficiary writes, and what was checked of it.
LEMMA BeneficiaryUpdated ==
    ASSUME IInv, NEW r \in Requests, BenUpdate(r)
    PROVE  LET s == req[r] IN
           /\ s.id \in Beneficiaries /\ s.val \in Patch /\ s.row \in BenRow
           /\ ben[s.id] \in BenRow
           /\ ben'[s.id] = Written(ben[s.id], s)
           /\ SharesProgram(s.user, s.row.links)
           /\ s.val.links # Nil => CanAssignPrograms(s.user, s.val.links)
           /\ Valid(Merged(s.row, s.val))
  <1> DEFINE s == req[r]
  <1>1. /\ SlotOK(s) /\ s.op = "benUpdate" /\ s.pc \in {"write", "commit"}
        /\ s.id \in Beneficiaries /\ s.val \in Patch /\ s.row \in BenRow
        /\ ben' = [ben EXCEPT ![s.id] = Written(ben[s.id], s)]
    BY BenUpdateEffect
  <1>2. ben[s.id] \in BenRow /\ ben'[s.id] = Written(ben[s.id], s)
    BY <1>1 DEF IInv, TablesTyped
  <1>3. /\ SharesProgram(s.user, s.row.links)
        /\ s.val.links # Nil => CanAssignPrograms(s.user, s.val.links)
        /\ Valid(Merged(s.row, s.val))
    BY <1>1 DEF SlotOK, Scoped, Validated
  <1>4. QED
    BY <1>1, <1>2, <1>3

\* What a creation of a beneficiary writes.
LEMMA BeneficiaryCreated ==
    ASSUME IInv, NEW r \in Requests, NEW b \in Beneficiaries, BenCreate(r, b)
    PROVE  /\ ~ ben[b].exists
           /\ ben'[b] = req[r].val /\ req[r].val \in BenRow
           /\ req[r].op = "benCreate"
           /\ CanAssignPrograms(req[r].user, req[r].val.links)
           /\ Valid(req[r].val)
  <1>1. /\ ~ ben[b].exists /\ req[r].op = "benCreate" /\ req[r].pc = "write"
        /\ SlotOK(req[r])
    BY DEF BenCreate, IInv
  <1>2. ben'[b] = req[r].val /\ req[r].val \in BenRow
    BY BenCreateEffect DEF IInv, TablesTyped
  <1>3. CanAssignPrograms(req[r].user, req[r].val.links) /\ Valid(req[r].val)
    BY <1>1 DEF SlotOK, Scoped, Validated
  <1>4. QED
    BY <1>1, <1>2, <1>3

\* A program manager assigns programs of the manager's own, and at least one.
THEOREM AssignmentsStayWithinScope == Spec => AssignmentsWithinScope
  <1>1. ASSUME IInv, [Next]_vars, NEW r \in Requests, NEW b \in Beneficiaries,
               Ended(r), ben'[b].links # ben[b].links, ~ IsSuperAdmin(req[r].user)
        PROVE  /\ ben'[b].links # {}
               /\ ben'[b].links \ ben[b].links \subseteq req[r].user.programs
               /\ ben[b].links \subseteq req[r].seen
                    => ben'[b].links \subseteq req[r].user.programs
    <2>1. BenCreate(r, b) \/ (BenUpdate(r) /\ b = req[r].id)
      <3>1. ben'[b] # ben[b]
        BY <1>1
      <3>2. QED
        BY <1>1, <3>1, BeneficiaryChanged
    <2>2. CASE BenCreate(r, b)
      BY <1>1, <2>2, BeneficiaryCreated DEF CanAssignPrograms
    <2>3. CASE BenUpdate(r) /\ b = req[r].id
      <3> DEFINE s == req[r]
      <3>1. /\ s.val \in Patch /\ s.row \in BenRow /\ ben[b] \in BenRow
            /\ ben'[b] = Written(ben[b], s)
            /\ s.val.links # Nil => CanAssignPrograms(s.user, s.val.links)
        BY <1>1, <2>3, BeneficiaryUpdated
      <3>2. ben'[b].links = Relinked(ben[b], s)
        BY <3>1, WrittenFields
      <3>3. s.val.links # Nil
        BY <1>1, <3>2 DEF Relinked
      <3>4. ben'[b].links = (ben[b].links \ s.seen) \union s.val.links
        BY <3>2, <3>3 DEF Relinked
      <3>5. s.val.links # {} /\ s.val.links \subseteq s.user.programs
        BY <1>1, <3>1, <3>3 DEF CanAssignPrograms
      <3> DEFINE old == ben[b].links
                 new == ben'[b].links
                 sent == s.val.links
      <3>6. new # {} /\ new \ old \subseteq s.user.programs
        <4> HIDE DEF s
        <4>1. new = (old \ s.seen) \union sent
          BY <3>4
        <4> HIDE DEF new, old, sent
        <4>2. QED
          BY <3>5, <4>1 DEF sent
      <3>7. old \subseteq s.seen => new \subseteq s.user.programs
        <4>1. new = (old \ s.seen) \union sent
          BY <3>4
        <4> HIDE DEF new, old, s, sent
        <4>2. QED
          BY <3>5, <4>1 DEF sent
      <3>8. QED
        BY <3>6, <3>7
    <2>4. QED
      BY <2>1, <2>2, <2>3
  <1>2. IInv /\ [Next]_vars =>
          [\A r \in Requests, b \in Beneficiaries :
             Ended(r) /\ ben'[b].links # ben[b].links /\ ~ IsSuperAdmin(req[r].user)
               => /\ ben'[b].links # {}
                  /\ ben'[b].links \ ben[b].links \subseteq req[r].user.programs
                  /\ ben[b].links \subseteq req[r].seen
                       => ben'[b].links \subseteq req[r].user.programs]_vars
    BY <1>1
  <1>3. QED
    BY <1>2, SlotsKeepTheirChecks, PTL DEF Spec, AssignmentsWithinScope

\* A program manager writes only rows that were in scope when they were read.
THEOREM OutOfScopeOnlyWhenLate == Spec => OutOfScopeWritesAreLate
  <1>1. ASSUME IInv, [Next]_vars, NEW r \in Requests,
               Ended(r), ~ IsSuperAdmin(req[r].user), Fresh(r),
               NEW b \in Beneficiaries, ben[b].exists, ben'[b] # ben[b]
        PROVE  ben[b].links \intersect req[r].user.programs # {}
    <2>1. BenUpdate(r) /\ b = req[r].id
      BY <1>1, BeneficiaryChanged, BeneficiaryCreated
    <2>2. SharesProgram(req[r].user, req[r].row.links)
      BY <1>1, <2>1, BeneficiaryUpdated
    <2>3. ben[b] = req[r].row
      BY <1>1, <2>1 DEF Fresh, BenUpdate
    <2>4. QED
      BY <1>1, <2>2, <2>3 DEF SharesProgram
  <1>2. ASSUME IInv, [Next]_vars, NEW r \in Requests,
               Ended(r), ~ IsSuperAdmin(req[r].user),
               NEW p \in Programs, program'[p] # program[p]
        PROVE  p \in req[r].user.programs
    <2>1. req[r].op # "progCreate"
      BY <1>2 DEF IInv, SlotOK, Entitled, Reserved
    <2>2. ProgUpdate(r) /\ p = req[r].id
      BY <1>2, <2>1, ProgramChanged
    <2>3. ProgramInScope(ProgramScopeOf(req[r].user), p)
      BY <2>2, ProgUpdateEffect, <1>2 DEF SlotOK, Scoped
    <2>4. QED
      BY <1>2, <2>3 DEF ProgramInScope, ProgramScopeOf
  <1>3. IInv /\ [Next]_vars =>
          [\A r \in Requests :
             Ended(r) /\ ~ IsSuperAdmin(req[r].user) /\ Fresh(r) =>
               /\ \A b \in Beneficiaries : ben[b].exists /\ ben'[b] # ben[b]
                    => ben[b].links \intersect req[r].user.programs # {}
               /\ \A p \in Programs : program'[p] # program[p]
                    => p \in req[r].user.programs]_vars
    BY <1>1, <1>2
  <1>4. QED
    BY <1>3, SlotsKeepTheirChecks, PTL DEF Spec, OutOfScopeWritesAreLate

\* A field that is not sent keeps its value, but for an address read before it
\* was changed.
THEOREM UnsentFieldsKeepTheirValue == Spec => UnsentFieldsSurvive
  <1>1. ASSUME IInv, [Next]_vars, NEW r \in Requests, NEW b \in Beneficiaries,
               Ended(r), req[r].op = "benUpdate", ben'[b] # ben[b],
               NEW f \in DOMAIN NoPatch, ben'[b][f] # ben[b][f]
        PROVE  \/ req[r].val[f] # Nil
               \/ ~ Fresh(r) /\ f \in {"country", "street"}
                  /\ ben'[b][f] = req[r].row[f]
    <2> DEFINE s == req[r]
    <2>1. BenUpdate(r) /\ b = s.id
      BY <1>1, BeneficiaryChanged, BeneficiaryCreated
    <2>2. /\ s.val \in Patch /\ s.row \in BenRow /\ ben[b] \in BenRow
          /\ ben'[b] = Written(ben[b], s)
      BY <1>1, <2>1, BeneficiaryUpdated
    <2>3. Fresh(r) => ben[b] = s.row
      BY <1>1, <2>1 DEF Fresh
    <2> DEFINE m == Merged(s.row, s.val)
               address == s.val.country # Nil \/ s.val.street # Nil
    <2>4. /\ ben'[b].country = IF address THEN m.country ELSE ben[b].country
          /\ ben'[b].street = IF address THEN m.street ELSE ben[b].street
      BY <2>2, WrittenFields
    <2>5. /\ s.val.country = Nil => m.country = s.row.country
          /\ s.val.street = Nil => m.street = s.row.street
      BY <2>2, MergedFields
    <2> HIDE DEF m, address
    <2>6. f \in {"doc", "country", "street", "links"}
      BY DEF NoPatch
    <2>7. CASE f = "doc"
      BY <1>1, <2>2, <2>7, WrittenFields
    <2>8. CASE f = "country"
      <3>1. s.val.country = Nil => ben'[b].country \in {ben[b].country, s.row.country}
        BY <2>4, <2>5
      <3>2. QED
        BY <1>1, <2>3, <2>8, <3>1
    <2>9. CASE f = "street"
      <3>1. s.val.street = Nil => ben'[b].street \in {ben[b].street, s.row.street}
        BY <2>4, <2>5
      <3>2. QED
        BY <1>1, <2>3, <2>9, <3>1
    <2>10. CASE f = "links"
      <3>1. ben'[b].links = Relinked(ben[b], s)
        BY <2>2, WrittenFields
      <3>2. QED
        BY <1>1, <2>10, <3>1 DEF Relinked
    <2>11. QED
      BY <2>6, <2>7, <2>8, <2>9, <2>10
  <1>2. IInv /\ [Next]_vars =>
          [\A r \in Requests, b \in Beneficiaries :
             Ended(r) /\ req[r].op = "benUpdate" /\ ben'[b] # ben[b] =>
               \A f \in DOMAIN NoPatch : ben'[b][f] # ben[b][f] =>
                 \/ req[r].val[f] # Nil
                 \/ ~ Fresh(r) /\ f \in {"country", "street"}
                    /\ ben'[b][f] = req[r].row[f]]_vars
    BY <1>1
  <1>3. QED
    BY <1>2, SlotsKeepTheirChecks, PTL DEF Spec, UnsentFieldsSurvive

\* An update of the row it read keeps the rule about document and country.
THEOREM InvalidOnlyWhenLate == Spec => OnlyLateUpdatesInvalidate
  <1>1. ASSUME IInv, [Next]_vars, NEW r \in Requests, NEW b \in Beneficiaries,
               Ended(r), Valid(ben[b]), ~ Valid(ben'[b]), Fresh(r)
        PROVE  FALSE
    <2>1. BenUpdate(r) /\ b = req[r].id
      BY <1>1, BeneficiaryChanged, BeneficiaryCreated
    <2> DEFINE s == req[r]
               merged == Merged(s.row, s.val)
    <2>2. /\ s.val \in Patch /\ s.row \in BenRow
          /\ ben'[b] = Written(ben[b], s) /\ Valid(merged)
      BY <1>1, <2>1, BeneficiaryUpdated
    <2>3. ben[b] = s.row
      BY <1>1, <2>1 DEF Fresh, BenUpdate
    <2>4. ben'[b].doc = merged.doc /\ ben'[b].country = merged.country
      BY <2>2, <2>3, WrittenFields, MergedFields
    <2>5. QED
      BY <1>1, <2>2, <2>4 DEF Valid
  <1>2. IInv /\ [Next]_vars =>
          [\A r \in Requests, b \in Beneficiaries :
             Ended(r) /\ Valid(ben[b]) /\ ~ Valid(ben'[b]) => ~ Fresh(r)]_vars
    BY <1>1
  <1>3. QED
    BY <1>2, SlotsKeepTheirChecks, PTL DEF Spec, OnlyLateUpdatesInvalidate

\* Only an insertion adds a delivery.
LEMMA DeliveryAdded ==
    ASSUME IInv, [Next]_vars, NEW d \in deliveries' \ deliveries
    PROVE  \E r \in Requests : InsertDelivery(r) /\ Finish(r)
  <1>1. deliveries' # deliveries
    OBVIOUS
  <1>2. PICK r \in Requests : Commit(r) /\ Finish(r)
    BY <1>1, StepEffect DEF tables
  <1>3. InsertDelivery(r)
    BY <1>1, <1>2, BenCreateEffect, BenUpdateEffect, AdmCreateEffect,
       AdmUpdateEffect, ProgCreateEffect, ProgUpdateEffect, SetBenefitEffect
       DEF Commit
  <1>4. QED
    BY <1>2, <1>3

\* Each requirement of a delivery held at some moment of its request.
THEOREM InsertedDeliveriesWereEligible == Spec => DeliveriesWereEligible
  <1>1. ASSUME IInv, [Next]_vars, NEW d \in deliveries' \ deliveries
        PROVE  /\ \A e \in deliveries : e.ref # d.ref
               /\ \E r \in Requests :
                    /\ Ended(r) /\ req[r].op = "delivery" /\ req[r].val.ref = d.ref
                    /\ req[r].held = {"beneficiary", "benefit", "administrator"}
    <2>1. PICK r \in Requests : InsertDelivery(r) /\ Finish(r)
      BY <1>1, DeliveryAdded
    <2>2. /\ req[r] # Idle /\ req[r].op = "delivery" /\ req[r].held = Requirements
          /\ \A e \in deliveries : e.ref # req[r].val.ref
          /\ d.ref = req[r].val.ref
      BY <1>1, <2>1, InsertDeliveryEffect
    <2>3. Ended(r)
      BY <1>1, <2>1, <2>2, FinishEnds DEF Ended
    <2>4. QED
      BY <2>2, <2>3 DEF Requirements
  <1>2. IInv /\ [Next]_vars =>
          [\A d \in deliveries' \ deliveries :
             /\ \A e \in deliveries : e.ref # d.ref
             /\ \E r \in Requests :
                  /\ Ended(r) /\ req[r].op = "delivery" /\ req[r].val.ref = d.ref
                  /\ req[r].held = {"beneficiary", "benefit", "administrator"}]_vars
    BY <1>1
  <1>3. QED
    BY <1>2, SlotsKeepTheirChecks, PTL DEF Spec, DeliveriesWereEligible
=============================================================================
