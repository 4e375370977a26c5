SPECIFICATION FairSpec
CONSTANTS
    manager = manager
    beneficiary = beneficiary
    caseworker = caseworker
    Accounts = {manager, beneficiary}
    RoleOf <- SmallRoles
    Temporary = {beneficiary}
    Remembered = {manager}
    Visited = {"login", "resetLink", "administrators"}
    Slots = {1, 2}
    MaxTokens = 2
    MaxSteps = 3
    Nil = Nil
INVARIANTS
    TypeOK
    LatchIsReleased
    SessionInStep
    IndicatorFollows
PROPERTIES
    LiveSessionsEndForCause
    NavigationsSettle
\* The bound on steps stops the model.
CHECK_DEADLOCK FALSE
