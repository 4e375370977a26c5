SPECIFICATION FairSpec
CONSTANTS
    Administrators = {adm}
    Beneficiaries = {}
    SuperAdmins = {adm}
    Roots = {}
    Passwords = {p1, p2}
    Emails = {e1}
    Tokens = {t1, t2}
    Requests = {r1, r2}
    MaxVersion = 1
    MaxAborts = 0
    Nil = Nil
PROPERTIES
    StaleTokensDie
\* The bounds on versions and tokens, not the system, stop the model.
CHECK_DEADLOCK FALSE
