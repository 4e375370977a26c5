---------------------------- MODULE ClientSession ----------------------------
(***************************************************************************)
(* The session of one browser tab: AuthService with its copy in the           *)
(* browser's storages, the guards of the router, the interceptors and the     *)
(* loading indicator, against a server that only knows cookies.               *)
(*                                                                         *)
(* The cookie and the local storage are shared with the other tabs, which act *)
(* here as the environment.  A request carries the cookie and the CSRF token  *)
(* of the moment it is sent; what it does to the tab happens when its answer   *)
(* arrives, in whatever order the answers do.                                 *)
(***************************************************************************)
EXTENDS Loading, Sequences, FiniteSets, SequencesExt

CONSTANTS
    Accounts,
    RoleOf,       \* the role of each account, "beneficiary" for a beneficiary's
    Temporary,    \* the accounts whose first password is a temporary one
    Remembered,   \* the accounts whose session the browser may have kept
    Visited,      \* the pages the user opens or goes to by himself
    Slots,        \* requests under way at a time
    MaxTokens,    \* bound on the tokens the server issues
    MaxSteps,     \* bound on what the user, other tabs and administrators do
    Nil           \* an absent value

Roles == {"super_admin", "program_manager", "case_worker", "beneficiary"}

ASSUME ClientAssumption ==
    /\ RoleOf \in [Accounts -> Roles]
    /\ Temporary \subseteq Accounts /\ Remembered \subseteq Accounts
    /\ IsFiniteSet(Slots) /\ Slots \subseteq Nat
    /\ MaxTokens \in Nat \ {0} /\ MaxSteps \in Nat
    /\ Nil \notin Accounts \union Nat

VARIABLES
    tab,        \* the tab, with the storages and the cookie it shares
    requests,   \* the requests of the tab under way
    issued,     \* the server's tokens, in the order it issued them
    must,       \* the accounts that must change their password
    steps       \* bounded by MaxSteps

vars == <<tab, requests, issued, must, steps>>

-----------------------------------------------------------------------------
(* Routes.  dashboard stands for every route with its roles. *)

LoginPages == {"login", "offlineLogin"}

ShellPages == {"dashboard", "administrators", "myPrograms"}

\* resetLink is the login page with the token of a recovery mail.
Pages == LoginPages \union ShellPages \union {"resetLink", "reset", "firstAccess"}

\* The routes' accountTypes and administratorRoles.
RolesOf(page) ==
    CASE page = "dashboard" -> {"super_admin", "program_manager"}
      [] page = "administrators" -> {"super_admin"}
      [] page = "myPrograms" -> {"beneficiary"}
      [] OTHER -> Roles

\* back is the returnUrl of a login.
Url(page) == [page |-> page, back |-> Nil]

LoginUrl(back) == [page |-> "login", back |-> back]

Urls == [page : Pages, back : Pages \union {Nil}]

ASSUME VisitedAssumption == Visited \subseteq Pages

\* The page before the first navigation has ended.
Blank == Url("blank")

-----------------------------------------------------------------------------
(* The tab. *)

Tokens == DOMAIN issued

\* token stands for the csrfToken that is bound to it.
Session == [acct : Accounts, token : 1 .. MaxTokens, must : BOOLEAN]

\* waits is the request a guard waits for; hop alternates with every redirect, as
\* the router's navigation ids differ.
Navigation == [to : Urls, waits : Slots \union {Nil}, hop : {0, 1}]

\* session and latch are sessionState and sessionExpiryHandled; own and local what
\* the session and the local storage hold; down is isUnavailable.  mixed is
\* history: another tab, or an answer that came too late, has changed the cookie
\* or the storage since the tab's session was opened.
Tab == [session : Session \union {Nil},
        own : Session \union {Nil},
        local : Session \union {Nil},
        latch : BOOLEAN,
        cookie : (1 .. MaxTokens) \union {Nil},
        at : Urls \union {Blank},
        nav : Navigation \union {Nil},
        down : BOOLEAN,
        loading : Indicator,
        mixed : BOOLEAN]

ReadStored(t) == IF t.own # Nil THEN t.own ELSE t.local

StoredInLocal(t) == t.local # Nil

ClearSessionState(t) == [t EXCEPT !.session = Nil, !.own = Nil, !.local = Nil]

\* Deviation of PersistSession: the other storage keeps its copy.
PersistOver(t, session, remember) ==
    [t EXCEPT !.session = session,
              !.own = IF remember THEN @ ELSE session,
              !.local = IF remember THEN session ELSE @,
              !.latch = FALSE]

PersistSession(t, session, remember) ==
    [ClearSessionState(t) EXCEPT !.session = session,
                                 !.own = IF remember THEN Nil ELSE session,
                                 !.local = IF remember THEN session ELSE Nil,
                                 !.latch = FALSE]

ExpireSession(t) ==
    IF t.latch THEN t ELSE [ClearSessionState(t) EXCEPT !.latch = TRUE]

MarkPasswordChangeRequired(t) ==
    IF t.session = Nil THEN t
    ELSE PersistSession(t, [t.session EXCEPT !.must = TRUE], StoredInLocal(t))

RequiresPasswordChange(t) == t.session # Nil /\ t.session.must

Home(t) ==
    Url(IF t.session # Nil /\ RoleOf[t.session.acct] = "beneficiary"
        THEN "myPrograms" ELSE "dashboard")

\* Deviation of PostLogin: a login without a returnUrl is not told apart.
PostLoginUnchecked(t, back) ==
    IF RequiresPasswordChange(t) THEN Url("firstAccess")
    ELSE IF back \notin LoginPages THEN Url(back) ELSE Home(t)

PostLogin(t, back) ==
    IF RequiresPasswordChange(t) THEN Url("firstAccess")
    ELSE IF back \notin LoginPages \union {Nil} THEN Url(back) ELSE Home(t)

\* A navigation replaces the one under way; one to the URL of the page is ignored.
Navigate(t, to) ==
    [t EXCEPT !.nav = IF to = t.at THEN Nil ELSE [to |-> to, waits |-> Nil, hop |-> 0]]

Redirect(t, to) ==
    [t EXCEPT !.nav = IF to = t.at THEN Nil
                      ELSE [to |-> to, waits |-> Nil, hop |-> 1 - t.nav.hop]]

\* Deviation of AuthGuard: the page of the change is not exempt.
AuthGuardEverywhere(t, to) ==
    IF t.session = Nil THEN LoginUrl(to.page)
    ELSE IF RequiresPasswordChange(t) THEN Url("firstAccess")
    ELSE IF RoleOf[t.session.acct] \in RolesOf(to.page) THEN Nil
    ELSE Home(t)

\* The URL authGuard sends to, Nil when it lets the page through.
AuthGuard(t, to) ==
    IF t.session = Nil THEN LoginUrl(to.page)
    ELSE IF RequiresPasswordChange(t) # (to.page = "firstAccess")
         THEN Url(IF RequiresPasswordChange(t) THEN "firstAccess" ELSE "dashboard")
    ELSE IF RoleOf[t.session.acct] \in RolesOf(to.page) THEN Nil
    ELSE Home(t)

Activate(t) == [t EXCEPT !.at = t.nav.to, !.nav = Nil]

-----------------------------------------------------------------------------
(* Requests. *)

Codes == {"ok", "session", "mustChange", "forbidden", "failed"}

\* "session" is the error codes that end a session; "failed" every other error.
Answer == [code : Codes, session : Session \union {Nil}]

\* had is hadCachedSession of a validation; acct, remember and back are a login's;
\* page and unsafe say which protected request it is; after is what waits for a
\* logout.  here: the component that sent it is still on the screen.
Request == [kind : {"validate", "login", "change", "logout", "protected"},
            token : (1 .. MaxTokens) \union {Nil},
            csrf : (1 .. MaxTokens) \union {Nil},
            page : Pages \union {Nil},
            unsafe : BOOLEAN,
            had : BOOLEAN,
            acct : Accounts \union {Nil},
            remember : BOOLEAN,
            back : Pages \union {Nil},
            after : {"nothing", "login", "validation"},
            here : BOOLEAN,
            answer : Answer \union {Nil}]

ASSUME NilAssumption == Nil \notin Session \union Request

TypeOK ==
    /\ tab \in Tab
    /\ requests \in [Slots -> Request \union {Nil}]
    /\ \A t \in Tokens : t <= MaxTokens /\ issued[t] \in [acct : Accounts, live : BOOLEAN]
    /\ must \in [Accounts -> BOOLEAN]
    /\ steps \in 0 .. MaxSteps

UnderWay == {s \in Slots : requests[s] # Nil}

Public(kind) == [kind |-> kind, token |-> Nil, csrf |-> Nil, page |-> Nil, unsafe |-> FALSE,
                 had |-> FALSE, acct |-> Nil, remember |-> FALSE, back |-> Nil,
                 after |-> "nothing", here |-> TRUE, answer |-> Nil]

\* The browser adds the cookie, authInterceptor the stored CSRF token.
Authenticated(kind, unsafe) ==
    [Public(kind) EXCEPT !.token = tab.cookie,
                         !.unsafe = unsafe,
                         !.csrf = IF unsafe /\ ReadStored(tab) # Nil
                                  THEN ReadStored(tab).token ELSE Nil]

Logout(after) == [Public("logout") EXCEPT !.after = after]

Component(at) == IF at.page \in LoginPages THEN "login" ELSE at.page

Left(r) == IF r # Nil /\ r.kind \in {"login", "change"} THEN [r EXCEPT !.here = FALSE] ELSE r

\* Every step leaves the tab as t and its requests as rs; a page that is left
\* leaves what it has sent.
Becomes(t, rs) ==
    /\ tab' = t
    /\ requests' = [s \in Slots |-> IF Component(t.at) # Component(tab.at) THEN Left(rs[s])
                                    ELSE rs[s]]

Begins(t) == [t EXCEPT !.loading = Begun(@)]

Ends(t) == [t EXCEPT !.loading = Ended(@)]

Sends(t, r) ==
    /\ UnderWay # Slots
    /\ Becomes(Begins(t), [requests EXCEPT ![Min(Slots \ UnderWay)] = r])

\* Request s has ended, and left the tab as t.
Finishes(s, t) == Becomes(Ends(t), [requests EXCEPT ![s] = Nil])

Server == <<issued, must>>

\* The tab is opened on a page, without a session or with one remembered from
\* before.
Opening(page, session) ==
    [session |-> session, own |-> Nil, local |-> session, latch |-> FALSE,
     cookie |-> IF session = Nil THEN Nil ELSE session.token,
     at |-> Blank, nav |-> [to |-> Url(page), waits |-> Nil, hop |-> 0],
     down |-> FALSE, loading |-> Idle, mixed |-> FALSE]

Init ==
    /\ must = [a \in Accounts |-> a \in Temporary]
    /\ \E page \in Visited :
         \/ tab = Opening(page, Nil) /\ issued = <<>>
         \/ \E a \in Remembered :
              /\ tab = Opening(page, [acct |-> a, token |-> 1, must |-> must[a]])
              /\ issued = <<[acct |-> a, live |-> TRUE]>>
    /\ requests = [s \in Slots |-> Nil]
    /\ steps = 0

-----------------------------------------------------------------------------
(* The router. *)

GuardProtected ==
    LET url == AuthGuard(tab, tab.nav.to)
    IN  /\ tab.nav.to.page \in ShellPages \union {"firstAccess"}
        /\ Becomes(IF url = Nil THEN Activate(tab) ELSE Redirect(tab, url), requests)

\* loginGuard asks the server, with or without a session in the browser.
GuardLogin ==
    /\ tab.nav.to.page = "login"
    /\ Sends([tab EXCEPT !.nav.waits = Min(Slots \ UnderWay)],
             [Authenticated("validate", FALSE) EXCEPT !.had = tab.session # Nil])

\* loginGuard's first check, whoever is signed in.
GuardResetLink ==
    /\ tab.nav.to.page = "resetLink"
    /\ Becomes(Redirect(tab, Url("reset")), requests)

Unguarded ==
    /\ tab.nav.to.page \in {"offlineLogin", "reset"}
    /\ Becomes(Activate(tab), requests)

Guard ==
    /\ tab.nav # Nil /\ tab.nav.waits = Nil
    /\ GuardProtected \/ GuardLogin \/ GuardResetLink \/ Unguarded
    /\ UNCHANGED <<Server, steps>>

\* The promise of the validation that the navigation waits for in slot s.
LoginGuardDone(t, s, valid) ==
    IF t.nav = Nil \/ t.nav.waits # s THEN t
    ELSE IF ~ valid /\ t.session = Nil THEN Activate(t)
    ELSE Redirect(t, PostLogin(t, t.nav.to.back))

-----------------------------------------------------------------------------
(* The user. *)

Acts == steps < MaxSteps /\ steps' = steps + 1

Goto(page) ==
    /\ Acts
    /\ Becomes(Navigate(tab, Url(page)), requests)
    /\ UNCHANGED Server

\* isSubmitting belongs to the component.
SubmitLogin(acct, remember) ==
    /\ Acts
    /\ tab.at.page \in LoginPages
    /\ \A s \in UnderWay : ~ (requests[s].kind = "login" /\ requests[s].here)
    /\ Sends(tab, [Public("login") EXCEPT !.acct = acct, !.remember = remember,
                                          !.back = tab.at.back])
    /\ UNCHANGED Server

SubmitChange ==
    /\ Acts
    /\ tab.at.page = "firstAccess"
    /\ \A s \in UnderWay : ~ (requests[s].kind = "change" /\ requests[s].here)
    /\ Sends(tab, Authenticated("change", TRUE))
    /\ UNCHANGED Server

\* A page of the shell reads or writes.
Ask(unsafe) ==
    /\ Acts
    /\ tab.at.page \in ShellPages
    /\ Sends(tab, [Authenticated("protected", unsafe) EXCEPT !.page = tab.at.page])
    /\ UNCHANGED Server

\* The login page's logout stays on the page.
LogOut ==
    /\ Acts
    /\ \/ tab.at.page \in ShellPages \union {"firstAccess"}
          /\ Sends(ClearSessionState(tab), Logout("login"))
       \/ tab.at.page \in LoginPages /\ tab.session # Nil
          /\ Sends(ClearSessionState(tab), Logout("nothing"))
    /\ UNCHANGED Server

ContinueToDashboard ==
    /\ Acts
    /\ tab.at.page \in LoginPages /\ tab.session # Nil
    /\ Becomes(Navigate(tab, PostLogin(tab, tab.at.back)), requests)
    /\ UNCHANGED Server

GoToLoginAnyway ==
    /\ Acts
    /\ tab.down
    /\ Becomes(Navigate([tab EXCEPT !.down = FALSE], Url("offlineLogin")), requests)
    /\ UNCHANGED Server

\* The page is loaded again, by the user or by retry(); the session storage is lost
\* when the tab was closed in between.
Reload(own) ==
    /\ Acts
    /\ tab.at # Blank
    /\ tab' = [tab EXCEPT !.session = ReadStored([tab EXCEPT !.own = own]),
                          !.own = own,
                          !.latch = FALSE,
                          !.at = Blank,
                          !.nav = [to |-> tab.at, waits |-> Nil, hop |-> 0],
                          !.down = FALSE,
                          !.loading = Idle]
    /\ requests' = [s \in Slots |-> Nil]
    /\ UNCHANGED Server

-----------------------------------------------------------------------------
(* The server, administrators and other tabs. *)

Issue(acct) ==
    /\ Len(issued) < MaxTokens
    /\ issued' = Append(issued, [acct |-> acct, live |-> TRUE])

NewSession(acct) == [acct |-> acct, token |-> Len(issued) + 1, must |-> must[acct]]

RevokedOf(acct) == [t \in Tokens |-> [issued[t] EXCEPT !.live = @ /\ issued[t].acct # acct]]

\* The guard of the server, in its order.
Code(r) ==
    IF r.token = Nil THEN "session"
    ELSE IF ~ issued[r.token].live THEN "session"
    ELSE IF r.kind = "protected" /\ must[issued[r.token].acct] THEN "mustChange"
    ELSE IF r.kind = "protected" /\ RoleOf[issued[r.token].acct] \notin RolesOf(r.page)
         THEN "forbidden"
    ELSE IF r.unsafe /\ r.csrf # r.token THEN "session"
    ELSE "ok"

Answers(s, code, session) ==
    /\ requests' = [requests EXCEPT ![s].answer = [code |-> code, session |-> session]]
    /\ UNCHANGED <<tab, steps>>

ServeLogin(s) ==
    LET r == requests[s]
    IN  /\ r.kind = "login"
        /\ \/ Answers(s, "failed", Nil) /\ UNCHANGED Server
           \/ Issue(r.acct) /\ Answers(s, "ok", NewSession(r.acct)) /\ UNCHANGED must

\* The other tokens of the account die.
ServeChange(s) ==
    LET r == requests[s]
        acct == issued[r.token].acct
    IN  /\ r.kind = "change"
        /\ IF Code(r) # "ok" THEN Answers(s, Code(r), Nil) /\ UNCHANGED Server
           ELSE \/ Answers(s, "failed", Nil) /\ UNCHANGED Server
                \/ /\ Len(issued) < MaxTokens
                   /\ issued' = Append(RevokedOf(acct), [acct |-> acct, live |-> TRUE])
                   /\ must' = [must EXCEPT ![acct] = FALSE]
                   /\ Answers(s, "ok", [NewSession(acct) EXCEPT !.must = FALSE])

ServeOther(s) ==
    LET r == requests[s]
    IN  /\ r.kind \in {"validate", "protected", "logout"}
        /\ LET code == IF r.kind = "logout" THEN "ok" ELSE Code(r)
           IN  Answers(s, code,
                       IF r.kind = "validate" /\ code = "ok"
                       THEN [acct |-> issued[r.token].acct, token |-> r.token,
                             must |-> must[issued[r.token].acct]]
                       ELSE Nil)
        /\ UNCHANGED Server

Serve(s) ==
    /\ requests[s] # Nil /\ requests[s].answer = Nil
    /\ ServeLogin(s) \/ ServeChange(s) \/ ServeOther(s)

\* An administrator changes an account, or it recovers its password.
Revoke(acct) ==
    /\ Acts
    /\ issued' = RevokedOf(acct)
    /\ must' \in {must, [must EXCEPT ![acct] = TRUE]}
    /\ UNCHANGED <<tab, requests>>

\* The session storage of another tab is its own.
OtherTabLogsIn(acct, remember) ==
    /\ Acts
    /\ Issue(acct)
    /\ tab' = [tab EXCEPT !.cookie = Len(issued) + 1,
                          !.local = IF remember THEN NewSession(acct) ELSE Nil,
                          !.mixed = TRUE]
    /\ UNCHANGED <<requests, must>>

OtherTabLogsOut ==
    /\ Acts
    /\ tab' = [tab EXCEPT !.cookie = Nil, !.local = Nil, !.mixed = TRUE]
    /\ UNCHANGED <<requests, Server>>

-----------------------------------------------------------------------------
(* Answers.  The error interceptor comes first, then the request has ended for *)
(* the indicator, then its caller goes on.                                     *)

\* The last logout() to settle, expired or not, releases the latch.
Release(t) == [t EXCEPT !.latch = FALSE]

\* The error interceptor and the end of request s; it may begin a logout.
Fails(s, code) ==
    CASE code = "mustChange" ->
           Finishes(s, Navigate(MarkPasswordChangeRequired(tab), Url("firstAccess")))
      [] code = "forbidden" -> Finishes(s, Navigate(tab, Home(tab)))
      [] code = "session" /\ ~ tab.latch ->
           Becomes(Ends(Begins(ExpireSession(tab))),
                   [requests EXCEPT ![s] = Logout("login")])
      [] OTHER -> Finishes(s, tab)

\* The browser has stored the cookie of the answer before the page sees it.
Opens(t, session, remember) ==
    [PersistSession(t, session, remember) EXCEPT !.cookie = session.token, !.mixed = FALSE]

LoggedIn(s) ==
    LET r == requests[s]
        t == Opens(tab, r.answer.session, r.remember)
    IN  /\ r.kind = "login"
        /\ IF r.answer.code # "ok" THEN Fails(s, r.answer.code)
           ELSE Finishes(s, Navigate(t, PostLogin(t, IF r.here THEN tab.at.back ELSE r.back)))

PasswordChanged(s) ==
    LET r == requests[s]
        t == Opens(tab, r.answer.session, StoredInLocal(tab))
    IN  /\ r.kind = "change"
        /\ IF r.answer.code # "ok" THEN Fails(s, r.answer.code)
           ELSE Finishes(s, Navigate(t, PostLogin(t, Nil)))

\* The session is replaced by the one of the cookie the validation was sent with.
Validated(s) ==
    LET r == requests[s]
        t == [PersistSession(tab, r.answer.session, StoredInLocal(tab))
                EXCEPT !.mixed = r.token # tab.cookie]
        gone == ClearSessionState(tab)
    IN  /\ r.kind = "validate"
        /\ IF r.answer.code = "ok" THEN Finishes(s, LoginGuardDone(t, s, TRUE))
           ELSE IF r.had
                THEN Becomes(Begins(Ends(gone)), [requests EXCEPT ![s] = Logout("validation")])
           ELSE Finishes(s, LoginGuardDone(gone, s, FALSE))

\* What waits for the logout in slot s goes on, whether or not it succeeded.
LogoutDone(s, t) ==
    CASE requests[s].after = "login" -> Navigate(t, Url("login"))
      [] requests[s].after = "validation" -> LoginGuardDone(t, s, FALSE)
      [] OTHER -> t

LoggedOut(s) ==
    /\ requests[s].kind = "logout"
    /\ Finishes(s, LogoutDone(s, [Release(tab) EXCEPT !.cookie = Nil,
                                                     !.mixed = @ \/ tab.session # Nil]))

Protected(s) ==
    /\ requests[s].kind = "protected"
    /\ Fails(s, requests[s].answer.code)

Deliver(s) ==
    /\ requests[s] # Nil /\ requests[s].answer # Nil
    /\ LoggedIn(s) \/ PasswordChanged(s) \/ Validated(s) \/ LoggedOut(s) \/ Protected(s)
    /\ UNCHANGED <<Server, steps>>

\* Deviation of Abandoned: only an answered logout releases the latch.
AbandonedLatched(s, t) ==
    CASE requests[s].kind = "logout" -> LogoutDone(s, t)
      [] requests[s].kind = "validate" -> LoginGuardDone(t, s, FALSE)
      [] OTHER -> t

\* Deviation of Abandoned: a validation without an answer clears the session too.
AbandonedGone(s, t) ==
    CASE requests[s].kind = "logout" -> LogoutDone(s, Release(t))
      [] requests[s].kind = "validate" -> LoginGuardDone(ClearSessionState(t), s, FALSE)
      [] OTHER -> t

\* What a request that gets no answer does to its caller: a validation leaves the
\* session as it is, a logout has cleared it already.
Abandoned(s, t) ==
    CASE requests[s].kind = "logout" -> LogoutDone(s, Release(t))
      [] requests[s].kind = "validate" -> LoginGuardDone(t, s, FALSE)
      [] OTHER -> t

\* A request fails or times out, before or after the server has served it.  The
\* shorter timeout of a validation shows nothing.
Lose(s) ==
    /\ requests[s] # Nil
    /\ \E down \in {TRUE, requests[s].kind # "validate" \/ tab.down} :
         Finishes(s, Abandoned(s, [tab EXCEPT !.down = down]))
    /\ UNCHANGED <<Server, steps>>

ShowTimer ==
    /\ tab.loading.show
    /\ tab' = [tab EXCEPT !.loading = Shown(@)]
    /\ UNCHANGED <<requests, Server, steps>>

HideTimer ==
    /\ tab.loading.hide
    /\ tab' = [tab EXCEPT !.loading = Hidden(@)]
    /\ UNCHANGED <<requests, Server, steps>>

User ==
    \/ \E page \in Visited : Goto(page)
    \/ \E acct \in Accounts, remember \in BOOLEAN : SubmitLogin(acct, remember)
    \/ SubmitChange \/ LogOut \/ ContinueToDashboard \/ GoToLoginAnyway
    \/ \E unsafe \in BOOLEAN : Ask(unsafe)
    \/ \E own \in {tab.own, Nil} : Reload(own)

Others ==
    \/ \E acct \in Accounts : Revoke(acct)
    \/ \E acct \in Accounts, remember \in BOOLEAN : OtherTabLogsIn(acct, remember)
    \/ OtherTabLogsOut

Next ==
    \/ Guard \/ User \/ Others \/ ShowTimer \/ HideTimer
    \/ \E s \in Slots : Serve(s) \/ Deliver(s) \/ Lose(s)

Spec == Init /\ [][Next]_vars

\* The router goes on by itself, and every request ends: with an answer, with the
\* browser's error, or with the timeout of its interceptor.
FairSpec ==
    /\ Spec
    /\ WF_vars(Guard)
    /\ \A s \in Slots : WF_vars(Deliver(s) \/ Lose(s))

-----------------------------------------------------------------------------
(* Properties. *)

\* sessionExpiryHandled, which keeps every later expiry from being handled, never
\* outlives the logouts under way: however a logout ends, and whatever opens a
\* session meanwhile, the next expiry is handled.
LatchIsReleased == tab.latch => \E s \in UnderWay : requests[s].kind = "logout"

\* The signal, the copy that a reload would read and the cookie that the server
\* sees are of the same session, through logins remembered or not, changes,
\* reloads, expiries and answers that never come - unless another tab, a late
\* validation or a late logout came between.
SessionInStep ==
    tab.mixed \/ (/\ ReadStored(tab) = tab.session
                  /\ tab.session # Nil => tab.session.token = tab.cookie)

\* The tab has a session that the server still accepts.
Alive == tab.session # Nil /\ issued[tab.session.token].live

\* A session that the server still accepts is ended or replaced without the user
\* or another tab only by the late answer to a request that was sent with another
\* cookie than the session's, or refused for a CSRF token that was not its own:
\* never by a request that is lost, nor by any answer about the session itself.
LiveSessionsEndForCause ==
    [][Alive /\ steps' = steps
         /\ (tab'.session = Nil \/ tab'.session.token # tab.session.token)
       => \E s \in UnderWay :
            /\ Deliver(s)
            /\ \/ requests[s].token # tab.session.token
               \/ /\ requests[s].answer.code = "session"
                  /\ requests[s].unsafe /\ requests[s].csrf # requests[s].token]_vars

\* The indicator never stays behind: up with nothing under way it has the timer
\* that takes it down, and down with requests under way the one that shows it.
IndicatorFollows ==
    /\ tab.loading.count = Cardinality(UnderWay)
    /\ tab.loading.visible /\ tab.loading.count = 0 => tab.loading.hide
    /\ ~ tab.loading.visible /\ tab.loading.count > 0 => tab.loading.show

\* An account whose role may not enter its own home page.
Homeless == tab.session # Nil /\ RoleOf[tab.session.acct] \notin RolesOf(Home(tab).page)

\* A navigation ends on a page: the guards never send each other round for ever,
\* and the one that waits for the server gets an answer, also when the session
\* expires or the account must change its password in between.
NavigationsSettle == (tab.nav # Nil) ~> (tab.nav = Nil \/ Homeless)

\* The same for every role, a case worker's included.
EveryRoleArrives == (tab.nav # Nil) ~> (tab.nav = Nil)
=============================================================================
