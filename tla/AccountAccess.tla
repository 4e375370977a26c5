---------------------------- MODULE AccountAccess ----------------------------
(***************************************************************************)
(* Passwords, sessions and recovery tokens of the back end: the handlers of *)
(* AuthService, the statements of AuthRepository and                        *)
(* PasswordResetTokenService they issue, the checks of AuthGuard, and the   *)
(* two administrative handlers that touch the same rows (resend-access and  *)
(* the account updates).                                                    *)
(*                                                                         *)
(* Every handler is asynchronous, so a request is a slot of req whose pc    *)
(* says which await it stands at.  One action is the code between two       *)
(* awaits: one SQL statement (or one $transaction) and the synchronous code *)
(* around it.  What the code keeps in a local variable across an await is   *)
(* kept in the slot, so a slot may hold a row that is no longer current.    *)
(*                                                                         *)
(* Rate limits, audit records, cookies, CSRF and the demo account touch     *)
(* none of these rows and are left out here.                                *)
(***************************************************************************)
EXTENDS Integers

CONSTANTS
    Administrators,   \* accounts with a row in AuthCredential
    Beneficiaries,    \* accounts with a row in Beneficiary
    SuperAdmins,      \* administrators with role super_admin
    Roots,            \* administrators with isSystemRoot
    Passwords,        \* passwords a user or the passkey generator may produce
    Emails,           \* addresses an account may have
    Tokens,           \* recovery tokens randomBytes may produce (bounds their number)
    Requests,         \* concurrent requests (bounds the interleaving)
    MaxVersion,       \* bound on sessionVersion
    MaxAborts,        \* bound on requests cut off by a crash or a failed statement
    Nil               \* an absent value

Accounts == Administrators \union Beneficiaries

ASSUME AccountsAssumption ==
    /\ Administrators \intersect Beneficiaries = {}
    /\ SuperAdmins \subseteq Administrators
    /\ Roots \subseteq Administrators

ASSUME NilAssumption ==
    Nil \notin Accounts \union Passwords \union Emails \union Tokens

ASSUME BoundsAssumption == MaxVersion \in Nat /\ MaxAborts \in Nat

VARIABLES
    cred,     \* the credential columns of every account
    token,    \* the PasswordResetToken rows
    jwts,     \* the session tokens signed so far
    req,      \* the requests in flight
    aborts,   \* how many requests have been cut off (for MaxAborts)
    orphan,   \* history: a write of this account lost its invalidation
    spent     \* history: how many password writes each token has paid for

vars == <<cred, token, jwts, req, aborts, orphan, spent>>

-----------------------------------------------------------------------------
(* Data. *)

Versions == 0 .. MaxVersion

\* passwordHash (as the password it verifies), sessionVersion,
\* mustChangePassword, email (Nil for NULL) and status = 'active'.
Credential == [pw : Passwords, ver : Versions, must : BOOLEAN,
               email : Emails \union {Nil}, active : BOOLEAN]

\* "unsent" and "live" are rows with usedAt NULL; the holder of the mailbox has
\* the secret of a "live" one only.  born and late are history: sessionVersion
\* when the row was inserted, and whether the address it was mailed to was
\* already out of date then.
TokenRow == [state : {"none", "unsent", "live", "used", "gone"},
             acct : Accounts \union {Nil}, email : Emails \union {Nil},
             expired : BOOLEAN, born : Versions, late : BOOLEAN]

\* The claims the guard reads, and (history) the password its holder proved.
Session == [acct : Accounts, ver : Versions, pw : Passwords]

Places == {"idle", "reply", "change", "changeWrite", "invalidate", "resend",
           "update", "forgotRetire", "forgotPurge", "forgotCreate",
           "forgotSend", "resetConsume", "resetWrite"}

RequestSlot == [pc : Places, acct : Accounts \union {Nil},
                pw : Passwords \union {Nil}, ver : Versions,
                email : Emails \union {Nil}, tok : Tokens \union {Nil},
                replies : BOOLEAN]

TypeOK ==
    /\ cred \in [Accounts -> Credential]
    /\ token \in [Tokens -> TokenRow]
    /\ jwts \subseteq Session
    /\ req \in [Requests -> RequestSlot]
    /\ aborts \in 0 .. MaxAborts
    /\ orphan \in [Accounts -> BOOLEAN]
    /\ spent \in [Tokens -> Nat]

Idle == [pc |-> "idle", acct |-> Nil, pw |-> Nil, ver |-> 0, email |-> Nil,
         tok |-> Nil, replies |-> FALSE]

NoRow == [state |-> "none", acct |-> Nil, email |-> Nil, expired |-> FALSE,
          born |-> 0, late |-> FALSE]

Unused(t) == token[t].state \in {"unsent", "live"}

SameTable(a, b) == a \in Administrators <=> b \in Administrators

\* The UNIQUE constraint on the email column of each table.
Unclaimed(e, a) == \A b \in Accounts \ {a} : SameTable(a, b) => cred[b].email # e

\* Accounts as seeded or created: a beneficiary may lack an email.  Emails are
\* unique within each of the two tables.
Init ==
    /\ cred \in [Accounts -> [pw : Passwords, ver : {0}, must : {TRUE},
                              email : Emails \union {Nil}, active : {TRUE}]]
    /\ \A a \in Administrators : cred[a].email # Nil
    /\ \A a \in Accounts : cred[a].email = Nil \/ Unclaimed(cred[a].email, a)
    /\ token = [t \in Tokens |-> NoRow]
    /\ jwts = {}
    /\ req = [r \in Requests |-> Idle]
    /\ aborts = 0
    /\ orphan = [a \in Accounts |-> FALSE]
    /\ spent = [t \in Tokens |-> 0]

-----------------------------------------------------------------------------
(* Statements and checks shared by the handlers. *)

\* What findAuthenticatedUser, findCredentialByAccount and
\* findCredentialsByIdentifier require of a row.
Available(a) ==
    a \in Administrators \/ (cred[a].email # Nil /\ cred[a].active)

\* AuthGuard: the account exists and the session has the row's version.
Authenticated(s) ==
    s \in jwts /\ Available(s.acct) /\ s.ver = cred[s.acct].ver

\* AuthGuard on a route without @AllowPasswordChangeWhenRequired.
Admitted(s) == Authenticated(s) /\ ~ cred[s.acct].must

\* The UPDATE of updatePassword and updateCredential: the increment is made by
\* the database, on the row as it is then.
NewPassword(row, pw, must) ==
    [row EXCEPT !.pw = pw, !.must = must, !.ver = @ + 1]

\* updateMany({ accountId, usedAt: null }, { usedAt: now }).
UsedFor(a) ==
    [t \in Tokens |-> IF Unused(t) /\ token[t].acct = a
                      THEN [token[t] EXCEPT !.state = "used"]
                      ELSE token[t]]

KillTokens(a) ==
    /\ token' = UsedFor(a)
    /\ orphan' = [orphan EXCEPT ![a] = FALSE]

Goto(r, slot) == req' = [req EXCEPT ![r] = slot]

Finish(r) == Goto(r, Idle)

\* Deviation of WritePassword: the new version is computed from the row the
\* handler read instead of being incremented by the database.
WritePasswordFromReadRow(r, a, pw, must, replies) ==
    LET next == req[r].ver + 1 IN
    /\ req[r].ver < MaxVersion
    /\ cred' = [cred EXCEPT ![a].pw = pw, ![a].must = must, ![a].ver = next]
    /\ Goto(r, [Idle EXCEPT !.pc = "invalidate", !.acct = a, !.pw = pw,
                            !.ver = next, !.email = cred[a].email,
                            !.replies = replies])
    /\ UNCHANGED <<token, jwts, aborts, orphan>>

\* Write a password for account a: the new row is what the handler keeps.
WritePassword(r, a, pw, must, replies) ==
    /\ cred[a].ver < MaxVersion
    /\ cred' = [cred EXCEPT ![a] = NewPassword(cred[a], pw, must)]
    /\ Goto(r, [Idle EXCEPT !.pc = "invalidate", !.acct = a, !.pw = pw,
                            !.ver = cred'[a].ver, !.email = cred'[a].email,
                            !.replies = replies])
    /\ UNCHANGED <<token, jwts, aborts, orphan>>

-----------------------------------------------------------------------------
(* POST /auth/login *)

\* The row is read and the password verified against what was read.  A password
\* that does not match changes none of this state.
Login(r, a) ==
    /\ req[r] = Idle
    /\ Available(a)
    /\ Goto(r, [Idle EXCEPT !.pc = "reply", !.acct = a, !.pw = cred[a].pw,
                            !.ver = cred[a].ver])
    /\ UNCHANGED <<cred, token, jwts, aborts, orphan, spent>>

\* Deviation of Reply: the version signed is read again after the await.
ReplyWithFreshVersion(r) ==
    LET a == req[r].acct IN
    /\ req[r].pc = "reply"
    /\ jwts' = jwts \union {[acct |-> a, ver |-> cred[a].ver, pw |-> req[r].pw]}
    /\ Finish(r)
    /\ UNCHANGED <<cred, token, aborts, orphan, spent>>

\* After the audit record, login and changePassword sign the row they hold.
Reply(r) ==
    /\ req[r].pc = "reply"
    /\ jwts' = jwts \union
                 {[acct |-> req[r].acct, ver |-> req[r].ver, pw |-> req[r].pw]}
    /\ Finish(r)
    /\ UNCHANGED <<cred, token, aborts, orphan, spent>>

-----------------------------------------------------------------------------
(* POST /auth/change-password: allowed while a change is required. *)

AdmitChange(r, s) ==
    /\ req[r] = Idle
    /\ Authenticated(s)
    /\ Goto(r, [Idle EXCEPT !.pc = "change", !.acct = s.acct])
    /\ UNCHANGED <<cred, token, jwts, aborts, orphan, spent>>

\* findCredentialByAccount and verifyPassword: goes on if the row is available,
\* the current password given is the one read and the new one differs from it.
CheckCurrentPassword(r, new) ==
    LET a == req[r].acct IN
    /\ req[r].pc = "change"
    /\ Available(a)
    /\ new # cred[a].pw
    /\ Goto(r, [Idle EXCEPT !.pc = "changeWrite", !.acct = a, !.pw = new,
                            !.ver = cred[a].ver])
    /\ UNCHANGED <<cred, token, jwts, aborts, orphan, spent>>

ChangeWrite(r) ==
    /\ req[r].pc = "changeWrite"
    /\ WritePassword(r, req[r].acct, req[r].pw, FALSE, TRUE)
    /\ UNCHANGED spent

\* Deviations of Invalidate: the row written is dropped before the session is
\* signed; the second statement is forgotten.
InvalidateDroppingRow(r) ==
    /\ req[r].pc = "invalidate"
    /\ KillTokens(req[r].acct)
    /\ IF req[r].replies
          THEN Goto(r, [Idle EXCEPT !.pc = "reply", !.acct = req[r].acct])
          ELSE Finish(r)
    /\ UNCHANGED <<cred, jwts, aborts, spent>>

InvalidateNothing(r) ==
    /\ req[r].pc = "invalidate"
    /\ Finish(r)
    /\ UNCHANGED <<cred, token, jwts, aborts, orphan, spent>>

\* invalidateResetTokens, the second statement of updatePassword and of
\* updateCredential.  updatePassword then throws if the row has no email;
\* otherwise a change goes on to sign a session and the others end.
Invalidate(r) ==
    LET mailless == req[r].acct \in Beneficiaries /\ req[r].email = Nil IN
    /\ req[r].pc = "invalidate"
    /\ KillTokens(req[r].acct)
    /\ IF req[r].replies /\ ~ mailless
          THEN Goto(r, [req[r] EXCEPT !.pc = "reply", !.email = Nil,
                                      !.replies = FALSE])
          ELSE Finish(r)
    /\ UNCHANGED <<cred, jwts, aborts, spent>>

-----------------------------------------------------------------------------
(* POST /administrators/:id/resend-access *)

AdmitResend(r, s, target) ==
    /\ req[r] = Idle
    /\ Admitted(s)
    /\ s.acct \in SuperAdmins
    /\ target \notin Roots
    /\ Goto(r, [Idle EXCEPT !.pc = "resend", !.acct = target])
    /\ UNCHANGED <<cred, token, jwts, aborts, orphan, spent>>

ResendWrite(r, temporary) ==
    /\ req[r].pc = "resend"
    /\ WritePassword(r, req[r].acct, temporary, TRUE, FALSE)
    /\ UNCHANGED spent

-----------------------------------------------------------------------------
(* PATCH /administrators/:id and PATCH /beneficiaries/:id, as far as they
   touch these rows.  Which beneficiaries a program manager may edit is not
   told apart here: any administrator may edit any beneficiary. *)

AdmitUpdate(r, s, target) ==
    /\ req[r] = Idle
    /\ Admitted(s)
    /\ s.acct \in IF target \in Administrators THEN SuperAdmins ELSE Administrators
    /\ target \notin Roots
    /\ Goto(r, [Idle EXCEPT !.pc = "update", !.acct = target])
    /\ UNCHANGED <<cred, token, jwts, aborts, orphan, spent>>

\* Deviations of Update: it leaves the tokens alone; it stores NULL for a blank
\* email, as the expression `email.trim().toLowerCase() || null` would.
UpdateKeepingTokens(r, e, active) ==
    LET a == req[r].acct IN
    /\ req[r].pc = "update"
    /\ cred' = [cred EXCEPT ![a].email = IF e = Nil THEN @ ELSE e]
    /\ Finish(r)
    /\ UNCHANGED <<token, jwts, aborts, orphan, spent>>

UpdateBlankingEmail(r, e, active) ==
    /\ req[r].pc = "update"
    /\ cred' = [cred EXCEPT ![req[r].acct].email = Nil]
    /\ KillTokens(req[r].acct)
    /\ Finish(r)
    /\ UNCHANGED <<jwts, aborts, spent>>

\* The $transaction of the two repositories' update.  e is Nil when the body has
\* no email; when it has one, the account's tokens are invalidated with the
\* row's update, and an email already taken fails the transaction.  The DTO
\* lets no empty email through.  Only beneficiaries have a status.
Update(r, e, active) ==
    LET a == req[r].acct IN
    /\ req[r].pc = "update"
    /\ e # Nil => Unclaimed(e, a)
    /\ a \in Administrators => active = cred[a].active
    /\ cred' = [cred EXCEPT ![a].email = IF e = Nil THEN @ ELSE e,
                            ![a].active = active]
    /\ IF e = Nil THEN UNCHANGED <<token, orphan>> ELSE KillTokens(a)
    /\ Finish(r)
    /\ UNCHANGED <<jwts, aborts, spent>>

-----------------------------------------------------------------------------
(* POST /auth/forgot-password *)

\* findPasswordRecoveryRecipient: an administrator with that email first.
Recoverable(a) ==
    /\ Available(a)
    /\ a \in Beneficiaries =>
         \A b \in Administrators : cred[b].email # cred[a].email

FindRecipient(r, a) ==
    /\ req[r] = Idle
    /\ Recoverable(a)
    /\ Goto(r, [Idle EXCEPT !.pc = "forgotRetire", !.acct = a,
                            !.email = cred[a].email])
    /\ UNCHANGED <<cred, token, jwts, aborts, orphan, spent>>

\* createToken: its three statements are not in a transaction.
RetireTokens(r) ==
    /\ req[r].pc = "forgotRetire"
    /\ KillTokens(req[r].acct)
    /\ Goto(r, [req[r] EXCEPT !.pc = "forgotPurge"])
    /\ UNCHANGED <<cred, jwts, aborts, spent>>

\* Rows that expired after the handler took the time are kept.
PurgeExpired(r, kept) ==
    /\ req[r].pc = "forgotPurge"
    /\ token' = [t \in Tokens |-> IF token[t].expired /\ t \notin kept
                                   THEN [NoRow EXCEPT !.state = "gone"]
                                   ELSE token[t]]
    /\ Goto(r, [req[r] EXCEPT !.pc = "forgotCreate"])
    /\ UNCHANGED <<cred, jwts, aborts, orphan, spent>>

InsertToken(r, t) ==
    LET a == req[r].acct IN
    /\ req[r].pc = "forgotCreate"
    /\ token[t].state = "none"
    /\ token' = [token EXCEPT ![t] =
                   [state |-> "unsent", acct |-> a, email |-> req[r].email,
                    expired |-> FALSE, born |-> cred[a].ver,
                    late |-> req[r].email # cred[a].email]]
    /\ Goto(r, [req[r] EXCEPT !.pc = "forgotSend", !.tok = t])
    /\ UNCHANGED <<cred, jwts, aborts, orphan, spent>>

\* The mail provider takes the message, or the send fails and is only audited.
SendToken(r) ==
    /\ req[r].pc = "forgotSend"
    /\ token' = [token EXCEPT ![req[r].tok].state =
                   IF @ = "unsent" THEN "live" ELSE @]
    /\ Finish(r)
    /\ UNCHANGED <<cred, jwts, aborts, orphan, spent>>

SendFails(r) ==
    /\ req[r].pc = "forgotSend"
    /\ Finish(r)
    /\ UNCHANGED <<cred, token, jwts, aborts, orphan, spent>>

-----------------------------------------------------------------------------
(* POST /auth/reset-password *)

\* consumeToken's findUnique, with its checks of usedAt and expiresAt.
FindToken(r, t) ==
    /\ req[r] = Idle
    /\ token[t].state = "live"
    /\ ~ token[t].expired
    /\ Goto(r, [Idle EXCEPT !.pc = "resetConsume", !.tok = t,
                            !.acct = token[t].acct])
    /\ UNCHANGED <<cred, token, jwts, aborts, orphan, spent>>

\* Deviation of ConsumeToken: the update does not ask for usedAt NULL again.
ConsumeTokenUnconditionally(r) ==
    LET t == req[r].tok IN
    /\ req[r].pc = "resetConsume"
    /\ token' = [token EXCEPT ![t].state = "used"]
    /\ Goto(r, [req[r] EXCEPT !.pc = "resetWrite"])
    /\ UNCHANGED <<cred, jwts, aborts, orphan, spent>>

\* consumeToken's conditional updateMany.  It compares expiresAt with the time
\* taken before the read, so a token that expires in between is still consumed.
ConsumeToken(r) ==
    LET t == req[r].tok IN
    /\ req[r].pc = "resetConsume"
    /\ Unused(t)
    /\ token' = [token EXCEPT ![t].state = "used"]
    /\ Goto(r, [req[r] EXCEPT !.pc = "resetWrite"])
    /\ UNCHANGED <<cred, jwts, aborts, orphan, spent>>

\* count # 1: another request, a newer token or a password change came first.
RefuseToken(r) ==
    /\ req[r].pc = "resetConsume"
    /\ ~ Unused(req[r].tok)
    /\ Finish(r)
    /\ UNCHANGED <<cred, token, jwts, aborts, orphan, spent>>

ResetWrite(r, new) ==
    /\ req[r].pc = "resetWrite"
    /\ WritePassword(r, req[r].acct, new, FALSE, FALSE)
    /\ spent' = [spent EXCEPT ![req[r].tok] = @ + 1]

-----------------------------------------------------------------------------
(* The environment. *)

\* expiresAt passes.
Expire(t) ==
    /\ token[t].state \in {"unsent", "live", "used"}
    /\ ~ token[t].expired
    /\ token' = [token EXCEPT ![t].expired = TRUE]
    /\ UNCHANGED <<cred, jwts, req, aborts, orphan, spent>>

\* A check of the handler rejects the request after the guard let it in.
Refuse(r) ==
    /\ req[r].pc \in {"change", "update"}
    /\ Finish(r)
    /\ UNCHANGED <<cred, token, jwts, aborts, orphan, spent>>

\* A statement fails or the process dies: the handler stops where it is.
Abort(r) ==
    /\ req[r] # Idle
    /\ aborts < MaxAborts
    /\ aborts' = aborts + 1
    /\ orphan' = IF req[r].pc = "invalidate"
                   THEN [orphan EXCEPT ![req[r].acct] = TRUE]
                   ELSE orphan
    /\ Finish(r)
    /\ UNCHANGED <<cred, token, jwts, spent>>

-----------------------------------------------------------------------------

\* The code between two awaits of a request in flight.
Continue(r) ==
    \/ Reply(r)
    \/ \E new \in Passwords : CheckCurrentPassword(r, new)
    \/ ChangeWrite(r)
    \/ Invalidate(r)
    \/ \E temporary \in Passwords : ResendWrite(r, temporary)
    \/ \E e \in Emails \union {Nil}, active \in BOOLEAN : Update(r, e, active)
    \/ RetireTokens(r)
    \/ \E kept \in SUBSET Tokens : PurgeExpired(r, kept)
    \/ \E t \in Tokens : InsertToken(r, t)
    \/ SendToken(r)
    \/ SendFails(r)
    \/ ConsumeToken(r)
    \/ RefuseToken(r)
    \/ \E new \in Passwords : ResetWrite(r, new)
    \/ Refuse(r)

Arrive(r) ==
    \/ \E a \in Accounts : Login(r, a)
    \/ \E s \in jwts : AdmitChange(r, s)
    \/ \E s \in jwts, target \in Administrators : AdmitResend(r, s, target)
    \/ \E s \in jwts, target \in Accounts : AdmitUpdate(r, s, target)
    \/ \E a \in Accounts : FindRecipient(r, a)
    \/ \E t \in Tokens : FindToken(r, t)

Next ==
    \/ \E r \in Requests : Arrive(r) \/ Continue(r) \/ Abort(r)
    \/ \E t \in Tokens : Expire(t)

Spec == Init /\ [][Next]_vars

\* Node runs every continuation that is ready; nothing makes a user, the mail
\* provider or a clock act.
FairSpec == Spec /\ \A r \in Requests : WF_vars(Continue(r))
-----------------------------------------------------------------------------
(* Properties. *)

\* Whoever can produce a session of an account at some version: the sessions
\* signed, and the handlers that still hold the row they will sign.
Claims ==
    jwts \union {[acct |-> req[r].acct, ver |-> req[r].ver, pw |-> req[r].pw] :
                   r \in {q \in Requests : req[q].pc \in {"reply", "invalidate"}}}

\* A session the guard accepts by its version was handed to someone who had
\* given the password stored now, however logins, changes, resets and resends
\* interleave: no older session survives a password write, and a login that
\* verified a row read before the write does not get one after it.
SessionSound ==
    \A s \in jwts : s.ver = cred[s.acct].ver => s.pw = cred[s.acct].pw

\* Two sessions of one account with the same version stand for the same
\* password: password writes that race never share a sessionVersion.
VersionNamesOnePassword ==
    \A c, d \in Claims : c.acct = d.acct /\ c.ver = d.ver => c.pw = d.pw

\* A recovery token pays for at most one password write, whatever requests
\* present it together, and whatever else invalidates or deletes it meanwhile.
TokenSpentOnce == \A t \in Tokens : spent[t] <= 1

\* An unused token older than its account's last password write exists only
\* while that write's own invalidation is still to come, or after it was lost
\* to a crash.
LiveTokensAreCurrent ==
    \A t \in Tokens : Unused(t) /\ token[t].born < cred[token[t].acct].ver =>
        \/ orphan[token[t].acct]
        \/ \E r \in Requests : /\ req[r].pc = "invalidate"
                              /\ req[r].acct = token[t].acct

\* An unused token mailed to an address its account no longer has was inserted
\* after the address changed, by a request that had read the old one: a change
\* of email leaves no earlier token usable.
LateTokensOnly ==
    \A t \in Tokens : Unused(t) /\ token[t].email # cred[token[t].acct].email
        => token[t].late

\* A password is never written to a beneficiary without an email: the error
\* updatePassword raises after both its writes cannot be reached.
WritesHaveMailbox ==
    \A r \in Requests :
        req[r].pc \in {"changeWrite", "resetWrite", "invalidate"} =>
            cred[req[r].acct].email # Nil

\* Recovery "invalidates previous tokens for the account": at most one is
\* unused at a time.
OneUnusedToken ==
    \A t, u \in Tokens :
        Unused(t) /\ Unused(u) /\ token[t].acct = token[u].acct => t = u

\* After a password write every token older than it stops being usable, as
\* long as no request is cut off.
StaleTokensDie ==
    \A t \in Tokens :
        (Unused(t) /\ token[t].born < cred[token[t].acct].ver) ~> ~ Unused(t)
-----------------------------------------------------------------------------
(* The inductive strengthening of the safety properties above. *)

\* What each place of a handler holds.
SlotTyped(slot) ==
    /\ slot.pc # "idle" => slot.acct \in Accounts
    /\ slot.pc = "resend" => slot.acct \in Administrators
    /\ slot.pc \in {"reply", "changeWrite", "invalidate"} => slot.pw \in Passwords
    /\ slot.pc \in {"forgotSend", "resetConsume", "resetWrite"} => slot.tok \in Tokens

SlotsTyped == \A r \in Requests : SlotTyped(req[r])

TokensTyped ==
    \A t \in Tokens :
        token[t].state \in {"unsent", "live", "used"} => token[t].acct \in Accounts

\* No claim is ahead of its account's row, and a claim at the row's version
\* stands for the row's password.
ClaimsBounded ==
    \A c \in Claims :
        /\ c.ver <= cred[c.acct].ver
        /\ c.ver = cred[c.acct].ver => c.pw = cred[c.acct].pw

\* A token that has paid, or is about to, is not unused, and only one request
\* is about to write with it.
TokensAccounted ==
    /\ \A t \in Tokens : token[t].state \in {"none", "unsent", "live"} => spent[t] = 0
    /\ \A r \in Requests : req[r].pc = "resetWrite" =>
         /\ token[req[r].tok].state \in {"used", "gone"}
         /\ spent[req[r].tok] = 0
         /\ \A q \in Requests :
              req[q].pc = "resetWrite" /\ req[q].tok = req[r].tok => q = r

\* Whatever leads to a password write belongs to an account with an email.
MailboxKept ==
    /\ \A a \in Administrators : cred[a].email # Nil
    /\ \A s \in jwts : cred[s.acct].email # Nil
    /\ \A t \in Tokens : token[t].state \in {"unsent", "live", "used"} =>
         cred[token[t].acct].email # Nil
    /\ \A r \in Requests : req[r].pc \notin {"idle", "update"} =>
         cred[req[r].acct].email # Nil

TypeInv == TypeOK /\ SlotsTyped /\ TokensTyped
SessionInv == ClaimsBounded /\ VersionNamesOnePassword
TokenInv == TokenSpentOnce /\ TokensAccounted
=============================================================================
