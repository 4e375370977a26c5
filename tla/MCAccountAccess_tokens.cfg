SPECIFICATION Spec
CONSTANTS
    Administrators = {adm}
    Beneficiaries = {ben}
    SuperAdmins = {adm}
    Roots = {adm}
    Passwords = {p1, p2}
    Emails = {e1, e2}
    Tokens = {t1}
    Requests = {r1, r2}
    MaxVersion = 1
    MaxAborts = 1
    Nil = Nil
SYMMETRY Symmetry
INVARIANTS
    LiveTokensAreCurrent
    LateTokensOnly
    WritesHaveMailbox
\* The bounds on versions and tokens, not the system, stop the model.
CHECK_DEADLOCK FALSE
