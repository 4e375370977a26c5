\* Two benefits would only repeat each other: the rows of different benefits
\* share nothing.  Four writes let one request lose three times to another.
SPECIFICATION Spec
CONSTANTS
    Benefits = {b1}
    Texts = {t1}
    Requests = {r1, r2}
    MaxWrites = 4
    MaxFaults = 1
    Nil = Nil
SYMMETRY Symmetry
INVARIANTS
    TypeOK
    VersionsContiguous
    TrailFromHistory
    LossesArePaid
    WritesAccounted
PROPERTIES
    ReadsAreStable
    ImplementsChangeLog
\* The bounds on writes and faults stop the model.
CHECK_DEADLOCK FALSE
