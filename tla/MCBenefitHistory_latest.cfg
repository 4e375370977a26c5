\* Two overlapping updates of one benefit record their versions the other way
\* round.
SPECIFICATION Spec
CONSTANTS
    Benefits = {b1}
    Texts = {t1}
    Requests = {r1, r2}
    MaxWrites = 3
    MaxFaults = 0
    Nil = Nil
SYMMETRY Symmetry
INVARIANTS
    LatestVersionIsStored
CHECK_DEADLOCK FALSE
