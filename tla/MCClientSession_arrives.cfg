SPECIFICATION FairSpec
CONSTANTS
    manager = manager
    beneficiary = beneficiary
    caseworker = caseworker
    Accounts = {caseworker}
    RoleOf <- SmallRoles
    Temporary = {}
    Remembered = {}
    Visited = {"login", "administrators"}
    Slots = {1, 2}
    MaxTokens = 2
    MaxSteps = 1
    Nil = Nil
PROPERTY
    EveryRoleArrives
\* The bound on steps stops the model.
CHECK_DEADLOCK FALSE
