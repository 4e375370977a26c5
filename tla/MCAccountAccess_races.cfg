SPECIFICATION Spec
CONSTANTS
    Administrators = {adm}
    Beneficiaries = {}
    SuperAdmins = {adm}
    Roots = {}
    Passwords = {p1, p2}
    Emails = {e1}
    Tokens = {t1}
    Requests = {r1, r2, r3}
    MaxVersion = 2
    MaxAborts = 1
    Nil = Nil
SYMMETRY Symmetry
INVARIANTS
    TypeOK
    SessionSound
    VersionNamesOnePassword
    TokenSpentOnce
\* The bounds on versions and tokens, not the system, stop the model.
CHECK_DEADLOCK FALSE
