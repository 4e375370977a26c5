\* Two requests, so that a conflict is possible; faults stop handlers, so there
\* are none here but in the other runs.
SPECIFICATION FairSpec
CONSTANTS
    Benefits = {b1}
    Texts = {t1}
    Requests = {r1, r2}
    MaxWrites = 4
    MaxFaults = 0
    Nil = Nil
PROPERTIES
    RecordedOrGivenUp
\* The bound on writes stops the model.
CHECK_DEADLOCK FALSE
