SPECIFICATION MCSpec
CONSTANTS
    root = root
    manager = manager
    newcomer = newcomer
    b1 = b1
    b2 = b2
    p1 = p1
    p2 = p2
    cpf = cpf
    passport = passport
    s1 = s1
    s2 = s2
    Administrators = {root, manager, newcomer}
    Roots = {root}
    Beneficiaries = {b1, b2}
    Programs = {p1, p2}
    Documents = {cpf, passport}
    Cpfs = {cpf}
    Streets = {s1, s2}
    NewRows <- SmallRows
    Patches <- SmallPatches
    Grants <- SmallGrants
    References = {ref}
    Requests = {r1, r2}
    MaxCalls = 3
    Nil = Nil
SYMMETRY Symmetry
INVARIANTS
    TypeOK
    ScopeAgreesWithPolicy
PROPERTIES
    EntitledWrites
    AssignmentsWithinScope
    OutOfScopeWritesAreLate
    UnsentFieldsSurvive
    OnlyLateUpdatesInvalidate
    DeliveriesWereEligible
\* The bound on calls, not the system, stops the model.
CHECK_DEADLOCK FALSE
