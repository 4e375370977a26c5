SPECIFICATION Spec
CONSTANTS
    Cooldown = 1
    Nil = Nil
    Scopes <- SmallScopes
    NoSearch = none
    Searches = {none, some}
    PageNumbers = {1, 2}
    MaxVersion = 2
    MaxSteps <- SmallSteps
    MaxLost = 1
INVARIANTS
    TypeOK
    BusyIsUnderWay
    ListsNeverGoBack
    StaleOnlyIfShared
    LocksHaveTimers
\* The bounds on steps, changes and failures stop the model.
CHECK_DEADLOCK FALSE
