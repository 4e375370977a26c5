------------------------ MODULE ClientSession_proofs -------------------------
(***************************************************************************)
(* Proofs of the safety properties of ClientSession and Loading, for every   *)
(* set of accounts, roles and visited pages and every bound.                 *)
(***************************************************************************)
EXTENDS ClientSession, FiniteSetTheorems, WellFoundedInduction, TLAPS

USE ClientAssumption, VisitedAssumption, NilAssumption

-----------------------------------------------------------------------------
(* The inductive invariant, of a tab and of requests when the server has     *)
(* issued n tokens.                                                          *)

\* What a tab keeps of its session agrees, and only one storage has a copy.
SessionOK(t) ==
    \/ t.mixed
    \/ /\ ReadStored(t) = t.session
       /\ t.session # Nil => t.session.token = t.cookie
       /\ t.own = Nil \/ t.local = Nil

TabOK(t, n) ==
    /\ t \in Tab
    /\ t.cookie \in {Nil} \union 1 .. n
    /\ SessionOK(t)

\* An answer that opens a session brings one, of the token asked about if it is a
\* validation's.
AnswerOK(r, n) ==
    LET session == r.answer.session
    IN  /\ session # Nil => session.token \in 1 .. n
        /\ r.answer.code = "ok" /\ r.kind \in {"login", "change", "validate"} => session # Nil
        /\ r.kind = "validate" /\ session # Nil => session.token = r.token

RequestOK(r, n) ==
    /\ r \in Request
    /\ r.token \in {Nil} \union 1 .. n
    /\ r.kind = "login" => r.acct # Nil /\ r.token = Nil
    /\ r.answer # Nil => AnswerOK(r, n)

RequestsOK(rs, n) ==
    /\ rs \in [Slots -> Request \union {Nil}]
    /\ \A s \in Slots : rs[s] # Nil => RequestOK(rs[s], n)

\* The indicator when n requests are under way.
IndicatorOK(l, n) ==
    /\ l \in Indicator
    /\ l.count = n
    /\ l.visible /\ n = 0 => l.hide
    /\ ~ l.visible /\ n > 0 => l.show

Busy(rs) == {s \in Slots : rs[s] # Nil}

\* A tab with its requests.
Pair(t, rs, n) ==
    /\ TabOK(t, n)
    /\ RequestsOK(rs, n)
    /\ IndicatorOK(t.loading, Cardinality(Busy(rs)))
    /\ t.latch => \E s \in Busy(rs) : rs[s].kind = "logout"

ServerOK ==
    /\ issued \in Seq([acct : Accounts, live : BOOLEAN])
    /\ Len(issued) <= MaxTokens
    /\ must \in [Accounts -> BOOLEAN]

IInv ==
    /\ Pair(tab, requests, Len(issued))
    /\ ServerOK
    /\ steps \in 0 .. MaxSteps

-----------------------------------------------------------------------------
(* The indicator. *)

LEMMA IndicatorBegins ==
    ASSUME NEW n \in Nat, NEW l, IndicatorOK(l, n)
    PROVE  IndicatorOK(Begun(l), n + 1)
  <1>1. l \in Indicator /\ l.count = n
    BY DEF IndicatorOK
  <1>2. CASE l.count > 0 \/ l.visible
    <2> DEFINE m == [l EXCEPT !.count = l.count + 1]
    <2>1. Begun(l) = m
      BY <1>2 DEF Begun
    <2>2. m \in Indicator /\ m.count = n + 1 /\ m.visible = l.visible /\ m.show = l.show
      BY <1>1 DEF Indicator
    <2> HIDE DEF m
    <2>3. m.visible \/ m.show
      BY <1>1, <1>2, <2>2 DEF IndicatorOK
    <2>4. QED
      BY <2>1, <2>2, <2>3 DEF IndicatorOK
  <1>3. CASE ~ (l.count > 0 \/ l.visible)
    <2> DEFINE m == [l EXCEPT !.count = 1, !.hide = FALSE, !.show = TRUE]
    <2>1. Begun(l) = m
      BY <1>3 DEF Begun
    <2>2. m \in Indicator /\ m.count = 1 /\ m.show = TRUE
      BY <1>1 DEF Indicator
    <2> HIDE DEF m
    <2>3. n = 0
      BY <1>1, <1>3
    <2>4. QED
      BY <2>1, <2>2, <2>3 DEF IndicatorOK
  <1>4. QED
    BY <1>2, <1>3

LEMMA IndicatorEnds ==
    ASSUME NEW n \in Nat \ {0}, NEW l, IndicatorOK(l, n)
    PROVE  IndicatorOK(Ended(l), n - 1)
  <1>1. l \in Indicator /\ l.count = n /\ l.visible \in BOOLEAN
    BY DEF IndicatorOK, Indicator
  <1>2. CASE l.count > 1
    <2> DEFINE m == [l EXCEPT !.count = l.count - 1]
    <2>1. Ended(l) = m
      BY <1>2 DEF Ended
    <2>2. m \in Indicator /\ m.count = n - 1 /\ m.visible = l.visible /\ m.show = l.show
      BY <1>1, <1>2 DEF Indicator
    <2> HIDE DEF m
    <2>3. m.visible \/ m.show
      BY <1>1, <1>2, <2>2 DEF IndicatorOK
    <2>4. QED
      BY <1>1, <1>2, <2>1, <2>2, <2>3 DEF IndicatorOK
  <1>3. CASE ~ l.count > 1
    <2> DEFINE m == [l EXCEPT !.count = 0, !.show = FALSE, !.hide = l.visible]
    <2>1. Ended(l) = m
      BY <1>3 DEF Ended
    <2>2. m \in Indicator /\ m.count = 0 /\ m.visible = l.visible /\ m.hide = l.visible
      BY <1>1 DEF Indicator
    <2> HIDE DEF m
    <2>3. n - 1 = 0
      BY <1>1, <1>3
    <2>4. QED
      BY <2>1, <2>2, <2>3 DEF IndicatorOK
  <1>4. QED
    BY <1>2, <1>3

\* Each timer leaves the indicator up or down for a reason.
LEMMA TimersEnd ==
    ASSUME NEW n \in Nat, NEW l, IndicatorOK(l, n)
    PROVE  IndicatorOK(Shown(l), n) /\ IndicatorOK(Hidden(l), n)
  <1>1. l \in Indicator /\ l.count = n /\ l.visible \in BOOLEAN
    BY DEF IndicatorOK, Indicator
  <1>2. PICK up \in BOOLEAN : up = (l.visible \/ l.count > 0)
    BY <1>1
  <1>3. PICK down \in BOOLEAN : down = (l.visible /\ l.count > 0)
    BY <1>1
  <1> DEFINE a == [l EXCEPT !.show = FALSE, !.visible = up]
             b == [l EXCEPT !.hide = FALSE, !.visible = down]
  <1>4. Shown(l) = a
    BY <1>2 DEF Shown
  <1>5. Hidden(l) = b
    BY <1>3 DEF Hidden
  <1>6. /\ a \in Indicator /\ a.count = l.count /\ a.visible = up /\ a.hide = l.hide
        /\ b \in Indicator /\ b.count = l.count /\ b.visible = down /\ b.show = l.show
    BY <1>1 DEF Indicator
  <1> HIDE DEF a, b
  <1>7. up <=> l.visible \/ n > 0
    BY <1>1, <1>2
  <1>8. down <=> l.visible /\ n > 0
    BY <1>1, <1>3
  <1>9. /\ l.visible /\ n = 0 => l.hide
        /\ ~ l.visible /\ n > 0 => l.show
    BY DEF IndicatorOK
  <1>10. IndicatorOK(a, n)
    BY <1>1, <1>6, <1>7, <1>9 DEF IndicatorOK
  <1>11. IndicatorOK(b, n)
    BY <1>1, <1>6, <1>8, <1>9 DEF IndicatorOK
  <1>12. QED
    BY <1>4, <1>5, <1>10, <1>11

-----------------------------------------------------------------------------
(* Pages and URLs. *)

LEMMA PageFacts ==
    /\ \A page \in Pages : Url(page) \in Urls
    /\ \A page \in Pages : LoginUrl(page) \in Urls
    /\ \A url \in Urls : url.page \in Pages /\ url.back \in Pages \union {Nil}
    /\ Blank.back = Nil /\ Blank \notin Urls
    /\ \A t : Home(t) \in Urls
    /\ \A t : \A back \in Pages \union {Nil} : PostLogin(t, back) \in Urls
  <1>1. /\ \A page \in Pages : Url(page) \in Urls
        /\ \A page \in Pages : LoginUrl(page) \in Urls
        /\ \A url \in Urls : url.page \in Pages /\ url.back \in Pages \union {Nil}
    <2>1. "login" \in Pages
      BY DEF Pages, LoginPages
    <2>2. \A page \in Pages : \A back \in Pages \union {Nil} :
            [page |-> page, back |-> back] \in Urls
      BY DEF Urls
    <2>3. \A page \in Pages : Url(page) \in Urls
      BY <2>2 DEF Url
    <2>4. \A page \in Pages : LoginUrl(page) \in Urls
      BY <2>1, <2>2 DEF LoginUrl
    <2>5. \A url \in Urls : url.page \in Pages /\ url.back \in Pages \union {Nil}
      BY DEF Urls
    <2>6. QED
      BY <2>3, <2>4, <2>5
  <1>2. "blank" \notin Pages
    BY DEF Pages, LoginPages, ShellPages
  <1>3. Blank.back = Nil /\ Blank \notin Urls
    BY <1>1, <1>2 DEF Blank, Url
  <1>4. {"myPrograms", "dashboard", "firstAccess", "login"} \subseteq Pages
    BY DEF Pages, LoginPages, ShellPages
  <1>5. \A t : Home(t) \in Urls
    BY <1>1, <1>4 DEF Home
  <1>6. \A t : \A back \in Pages \union {Nil} : PostLogin(t, back) \in Urls
    BY <1>1, <1>4, <1>5 DEF PostLogin
  <1>7. QED
    BY <1>1, <1>3, <1>5, <1>6

\* authGuard sends to a URL of the application, or nowhere.
LEMMA GuardUrl ==
    ASSUME NEW t, NEW to \in Urls
    PROVE  AuthGuard(t, to) \in Urls \union {Nil}
  <1>1. {"dashboard", "firstAccess"} \subseteq Pages
    BY DEF Pages, ShellPages
  <1>2. QED
    BY <1>1, PageFacts DEF AuthGuard

-----------------------------------------------------------------------------
(* The functions on a tab. *)

\* u is t on another page or with another navigation.
Moved(t, u) ==
    /\ u \in Tab
    /\ u.session = t.session /\ u.own = t.own /\ u.local = t.local
    /\ u.latch = t.latch /\ u.cookie = t.cookie
    /\ u.loading = t.loading /\ u.mixed = t.mixed

LEMMA MovedOK ==
    ASSUME NEW t, NEW u, NEW n, TabOK(t, n), Moved(t, u)
    PROVE  TabOK(u, n)
  BY DEF TabOK, Moved, SessionOK, ReadStored

LEMMA NavigateMoves ==
    ASSUME NEW t \in Tab, NEW to \in Urls
    PROVE  Moved(t, Navigate(t, to))
  <1> DEFINE nav == IF to = t.at THEN Nil ELSE [to |-> to, waits |-> Nil, hop |-> 0]
  <1>1. nav \in Navigation \union {Nil}
    BY DEF Navigation
  <1>2. Navigate(t, to) = [t EXCEPT !.nav = nav]
    BY DEF Navigate
  <1> HIDE DEF nav
  <1>3. QED
    BY <1>1, <1>2 DEF Moved, Tab

LEMMA RedirectMoves ==
    ASSUME NEW t \in Tab, t.nav # Nil, NEW to \in Urls
    PROVE  Moved(t, Redirect(t, to))
  <1> DEFINE nav == IF to = t.at THEN Nil
                    ELSE [to |-> to, waits |-> Nil, hop |-> 1 - t.nav.hop]
  <1>1. t.nav \in Navigation
    BY DEF Tab
  <1>2. 1 - t.nav.hop \in {0, 1}
    BY <1>1 DEF Navigation
  <1>3. nav \in Navigation \union {Nil}
    BY <1>2 DEF Navigation
  <1>4. Redirect(t, to) = [t EXCEPT !.nav = nav]
    BY DEF Redirect
  <1> HIDE DEF nav
  <1>5. QED
    BY <1>3, <1>4 DEF Moved, Tab

LEMMA ActivateMoves ==
    ASSUME NEW t \in Tab, t.nav # Nil
    PROVE  Moved(t, Activate(t))
  <1>1. t.nav.to \in Urls
    BY DEF Tab, Navigation
  <1>2. QED
    BY <1>1 DEF Moved, Tab, Activate

LEMMA LoginGuardMoves ==
    ASSUME NEW t \in Tab, NEW s, NEW valid
    PROVE  Moved(t, LoginGuardDone(t, s, valid))
  <1>1. Moved(t, t)
    BY DEF Moved
  <1>2. ASSUME t.nav # Nil
        PROVE  PostLogin(t, t.nav.to.back) \in Urls
    <2>1. t.nav.to \in Urls
      BY <1>2 DEF Tab, Navigation
    <2>2. QED
      BY <2>1, PageFacts
  <1>3. QED
    BY <1>1, <1>2, ActivateMoves, RedirectMoves DEF LoginGuardDone

Lowered(t, down) == [t EXCEPT !.down = down]

LEMMA LoweredMoves ==
    ASSUME NEW t \in Tab, NEW down \in BOOLEAN
    PROVE  Moved(t, Lowered(t, down))
  BY DEF Moved, Lowered, Tab

LEMMA MovedTwice ==
    ASSUME NEW t, NEW u, NEW v, Moved(t, u), Moved(u, v)
    PROVE  Moved(t, v)
  BY DEF Moved

LEMMA ClearOK ==
    ASSUME NEW t, NEW n, TabOK(t, n)
    PROVE  /\ TabOK(ClearSessionState(t), n)
           /\ ClearSessionState(t).loading = t.loading
           /\ ClearSessionState(t).latch = t.latch
  BY DEF TabOK, ClearSessionState, SessionOK, ReadStored, Tab

\* u is t with another session, kept in one storage.
Persisted(t, u, session) ==
    /\ u \in Tab
    /\ u.session = session /\ ReadStored(u) = session
    /\ u.own = Nil \/ u.local = Nil
    /\ u.latch = FALSE /\ u.cookie = t.cookie
    /\ u.loading = t.loading /\ u.mixed = t.mixed

LEMMA PersistFacts ==
    ASSUME NEW t \in Tab, NEW session \in Session, NEW remember \in BOOLEAN
    PROVE  Persisted(t, PersistSession(t, session, remember), session)
  <1> DEFINE own == IF remember THEN Nil ELSE session
             local == IF remember THEN session ELSE Nil
             u == [[t EXCEPT !.session = Nil, !.own = Nil, !.local = Nil]
                     EXCEPT !.session = session, !.own = own, !.local = local, !.latch = FALSE]
  <1>1. PersistSession(t, session, remember) = u
    BY DEF PersistSession, ClearSessionState
  <1>2. /\ own \in Session \union {Nil} /\ local \in Session \union {Nil}
        /\ own = Nil \/ local = Nil
        /\ (IF own # Nil THEN own ELSE local) = session
    OBVIOUS
  <1> HIDE DEF own, local
  <1>3. /\ u \in Tab /\ u.session = session /\ u.own = own /\ u.local = local
        /\ u.latch = FALSE /\ u.cookie = t.cookie
        /\ u.loading = t.loading /\ u.mixed = t.mixed
    BY <1>2, ZenonT(40) DEF Tab
  <1> HIDE DEF u
  <1>4. QED
    BY <1>1, <1>2, <1>3 DEF ReadStored, Persisted

\* u is t with a session that has just been opened.
JustOpened(t, u, n) == TabOK(u, n) /\ u.loading = t.loading /\ u.latch = FALSE

LEMMA OpensOK ==
    ASSUME NEW t, NEW n \in Nat, n <= MaxTokens, TabOK(t, n),
           NEW session \in Session, session.token \in 1 .. n, NEW remember \in BOOLEAN
    PROVE  JustOpened(t, Opens(t, session, remember), n)
  <1> DEFINE p == PersistSession(t, session, remember)
             u == [p EXCEPT !.cookie = session.token, !.mixed = FALSE]
  <1>1. /\ p \in Tab /\ p.session = session /\ ReadStored(p) = session
        /\ p.own = Nil \/ p.local = Nil
        /\ p.latch = FALSE /\ p.loading = t.loading
    <2>1. t \in Tab
      BY DEF TabOK
    <2>2. Persisted(t, p, session)
      BY <2>1, PersistFacts
    <2>3. QED
      BY <2>2 DEF Persisted
  <1>2. Opens(t, session, remember) = u
    BY DEF Opens
  <1> HIDE DEF p
  <1>3. session.token \in 1 .. MaxTokens
    BY DEF Session
  <1>4. /\ u \in Tab /\ u.session = session /\ u.own = p.own /\ u.local = p.local
        /\ u.latch = FALSE /\ u.cookie = session.token /\ u.loading = t.loading
    BY <1>1, <1>3 DEF Tab
  <1> HIDE DEF u
  <1>5. ReadStored(u) = session
    BY <1>1, <1>4 DEF ReadStored
  <1>6. TabOK(u, n)
    BY <1>1, <1>4, <1>5 DEF TabOK, SessionOK
  <1>7. QED
    BY <1>2, <1>4, <1>6 DEF JustOpened

\* A validation brings the session of its own token.
Revalidated(t, session, token) ==
    [PersistSession(t, session, StoredInLocal(t)) EXCEPT !.mixed = token # t.cookie]

LEMMA RevalidatedOK ==
    ASSUME NEW t, NEW n, TabOK(t, n), NEW session \in Session,
           NEW token, session.token = token
    PROVE  /\ TabOK(Revalidated(t, session, token), n)
           /\ Revalidated(t, session, token).loading = t.loading
           /\ Revalidated(t, session, token).latch = FALSE
  <1> DEFINE p == PersistSession(t, session, StoredInLocal(t))
  <1>1. PICK o \in BOOLEAN : o = (token # t.cookie)
    OBVIOUS
  <1> DEFINE u == [p EXCEPT !.mixed = o]
  <1>2. /\ p \in Tab /\ p.session = session /\ ReadStored(p) = session
        /\ p.own = Nil \/ p.local = Nil
        /\ p.latch = FALSE /\ p.loading = t.loading /\ p.cookie = t.cookie
    <2>1. t \in Tab /\ StoredInLocal(t) \in BOOLEAN
      BY DEF TabOK, StoredInLocal
    <2>2. Persisted(t, p, session)
      BY <2>1, PersistFacts
    <2>3. QED
      BY <2>2 DEF Persisted
  <1>3. Revalidated(t, session, token) = u
    BY <1>1 DEF Revalidated
  <1> HIDE DEF p
  <1>4. /\ u \in Tab /\ u.session = session /\ u.own = p.own /\ u.local = p.local
        /\ u.latch = FALSE /\ u.cookie = t.cookie /\ u.loading = t.loading /\ u.mixed = o
    BY <1>2 DEF Tab
  <1> HIDE DEF u
  <1>5. ReadStored(u) = session
    BY <1>2, <1>4 DEF ReadStored
  <1>6. TabOK(u, n)
    BY <1>1, <1>2, <1>4, <1>5 DEF TabOK, SessionOK
  <1>7. QED
    BY <1>3, <1>4, <1>6

LEMMA MarkOK ==
    ASSUME NEW t, NEW n, TabOK(t, n)
    PROVE  LET u == MarkPasswordChangeRequired(t)
           IN  TabOK(u, n) /\ u.loading = t.loading /\ (u.latch => t.latch)
  <1>1. CASE t.session = Nil
    BY <1>1 DEF MarkPasswordChangeRequired
  <1>2. CASE t.session # Nil
    <2> DEFINE session == [t.session EXCEPT !.must = TRUE]
               u == PersistSession(t, session, StoredInLocal(t))
    <2>1. t.session \in Session
      BY <1>2 DEF TabOK, Tab
    <2>2. session \in Session /\ session.token = t.session.token
      BY <2>1 DEF Session
    <2> HIDE DEF session
    <2>3. /\ u \in Tab /\ u.session = session /\ ReadStored(u) = session
          /\ u.own = Nil \/ u.local = Nil
          /\ u.latch = FALSE /\ u.loading = t.loading /\ u.cookie = t.cookie
          /\ u.mixed = t.mixed
      <3>1. t \in Tab /\ StoredInLocal(t) \in BOOLEAN
        BY DEF TabOK, StoredInLocal
      <3>2. Persisted(t, u, session)
        BY <2>2, <3>1, PersistFacts
      <3>3. QED
        BY <3>2 DEF Persisted
    <2>4. MarkPasswordChangeRequired(t) = u
      BY <1>2 DEF MarkPasswordChangeRequired, session
    <2> HIDE DEF u
    <2>5. TabOK(u, n)
      BY <1>2, <2>2, <2>3 DEF TabOK, SessionOK
    <2>6. QED
      BY <2>3, <2>4, <2>5
  <1>3. QED
    BY <1>1, <1>2

Expired(t) == [ClearSessionState(t) EXCEPT !.latch = TRUE]

LEMMA ExpiredOK ==
    ASSUME NEW t, NEW n, TabOK(t, n)
    PROVE  TabOK(Expired(t), n) /\ Expired(t).loading = t.loading
  <1> DEFINE c == ClearSessionState(t)
  <1>1. TabOK(c, n) /\ c.loading = t.loading
    BY ClearOK
  <1> HIDE DEF c
  <1> DEFINE u == [c EXCEPT !.latch = TRUE]
  <1>2. /\ u \in Tab /\ u.session = c.session /\ u.own = c.own /\ u.local = c.local
        /\ u.cookie = c.cookie /\ u.mixed = c.mixed /\ u.loading = c.loading
    BY <1>1, ZenonT(40) DEF TabOK, Tab
  <1>3. u = Expired(t)
    BY DEF c, Expired
  <1> HIDE DEF u
  <1>4. TabOK(u, n)
    BY <1>1, <1>2 DEF TabOK, SessionOK, ReadStored
  <1>5. QED
    BY <1>1, <1>2, <1>3, <1>4

\* The end of a logout takes the cookie away.
LoggedOutTab(t) == [Release(t) EXCEPT !.cookie = Nil, !.mixed = @ \/ t.session # Nil]

LEMMA LoggedOutOK ==
    ASSUME NEW t, NEW n, TabOK(t, n)
    PROVE  /\ TabOK(LoggedOutTab(t), n)
           /\ LoggedOutTab(t).loading = t.loading /\ LoggedOutTab(t).latch = FALSE
  <1>1. PICK o \in BOOLEAN : o = (t.mixed \/ t.session # Nil)
    OBVIOUS
  <1> DEFINE u == [[t EXCEPT !.latch = FALSE] EXCEPT !.cookie = Nil, !.mixed = o]
  <1>2. LoggedOutTab(t) = u
    BY <1>1 DEF LoggedOutTab, Release, TabOK, Tab
  <1>3. /\ u \in Tab /\ u.session = t.session /\ u.own = t.own /\ u.local = t.local
        /\ u.latch = FALSE /\ u.cookie = Nil /\ u.loading = t.loading /\ u.mixed = o
    BY ZenonT(40) DEF TabOK, Tab
  <1> HIDE DEF u
  <1>4. TabOK(u, n)
    BY <1>1, <1>3 DEF TabOK, SessionOK, ReadStored
  <1>5. QED
    BY <1>2, <1>3, <1>4

LEMMA ReleaseOK ==
    ASSUME NEW t, NEW n, TabOK(t, n)
    PROVE  /\ TabOK(Release(t), n)
           /\ Release(t).loading = t.loading /\ Release(t).latch = FALSE
  BY DEF TabOK, Release, SessionOK, ReadStored, Tab
-----------------------------------------------------------------------------
(* A tab with its requests. *)

LEMMA LeftOK ==
    ASSUME NEW r, NEW n, r # Nil, RequestOK(r, n)
    PROVE  RequestOK(Left(r), n) /\ Left(r) # Nil /\ Left(r).kind = r.kind
  <1> DEFINE u == [r EXCEPT !.here = FALSE]
  <1>1. /\ u \in Request /\ u.kind = r.kind /\ u.token = r.token /\ u.answer = r.answer
        /\ u.acct = r.acct
    BY ZenonT(40) DEF RequestOK, Request
  <1> HIDE DEF u
  <1>2. RequestOK(u, n) /\ u # Nil
    BY <1>1 DEF RequestOK, AnswerOK
  <1>3. Left(r) \in {r, u}
    BY DEF Left, u
  <1>4. QED
    BY <1>1, <1>2, <1>3 DEF RequestOK

\* Leaving a page changes no request that counts.
LEMMA BecomesOK ==
    ASSUME NEW t, NEW rs, NEW n, Becomes(t, rs), Pair(t, rs, n)
    PROVE  Pair(tab', requests', n)
  <1>1. tab' = t /\ requests' = [s \in Slots |-> requests'[s]]
    BY DEF Becomes
  <1>2. ASSUME NEW s \in Slots
        PROVE  /\ requests'[s] # Nil <=> rs[s] # Nil
               /\ rs[s] # Nil => /\ RequestOK(requests'[s], n)
                                 /\ requests'[s].kind = rs[s].kind
    <2>1. requests'[s] \in {rs[s], Left(rs[s])}
      BY DEF Becomes
    <2>2. CASE rs[s] = Nil
      BY <2>1, <2>2 DEF Left
    <2>3. CASE rs[s] # Nil
      BY <2>1, <2>3, LeftOK DEF Pair, RequestsOK
    <2>4. QED
      BY <2>2, <2>3
  <1>3. Busy(requests') = Busy(rs)
    BY <1>2 DEF Busy
  <1>4. \A s \in Slots : requests'[s] \in Request \union {Nil}
    BY <1>2 DEF RequestOK
  <1>5. RequestsOK(requests', n)
    BY <1>1, <1>2, <1>4 DEF RequestsOK
  <1>6. t.latch => \E s \in Busy(requests') : requests'[s].kind = "logout"
    BY <1>2, <1>3 DEF Pair, Busy
  <1>7. QED
    BY <1>1, <1>3, <1>5, <1>6 DEF Pair

LEMMA BusyFacts ==
    ASSUME NEW rs
    PROVE  IsFiniteSet(Busy(rs)) /\ Cardinality(Busy(rs)) \in Nat
  <1>1. Busy(rs) \in SUBSET Slots
    BY DEF Busy
  <1>2. QED
    BY <1>1, FS_Subset, FS_CardinalityType

\* A page that is replaced, and a navigation that begins or ends, touch no request.
LEMMA MoveOK ==
    ASSUME NEW u, NEW n, Pair(tab, requests, n), Moved(tab, u), Becomes(u, requests)
    PROVE  Pair(tab', requests', n)
  <1>1. TabOK(u, n) /\ u.loading = tab.loading /\ u.latch = tab.latch
    BY MovedOK DEF Pair, Moved
  <1>2. Pair(u, requests, n)
    BY <1>1 DEF Pair
  <1>3. QED
    BY <1>2, BecomesOK

Loaded(t, l) == [t EXCEPT !.loading = l]

LEMMA LoadedOK ==
    ASSUME NEW t, NEW n, TabOK(t, n), NEW l \in Indicator
    PROVE  /\ TabOK(Loaded(t, l), n)
           /\ Loaded(t, l).loading = l /\ Loaded(t, l).latch = t.latch
  <1> DEFINE u == [t EXCEPT !.loading = l]
  <1>1. /\ u \in Tab /\ u.session = t.session /\ u.own = t.own /\ u.local = t.local
        /\ u.latch = t.latch /\ u.cookie = t.cookie /\ u.loading = l /\ u.mixed = t.mixed
    BY DEF TabOK, Tab
  <1>2. u = Loaded(t, l)
    BY DEF Loaded
  <1> HIDE DEF u
  <1>3. TabOK(u, n)
    BY <1>1 DEF TabOK, SessionOK, ReadStored
  <1>4. QED
    BY <1>1, <1>2, <1>3

LEMMA FirstFree ==
    ASSUME NEW F \in SUBSET Nat, F # {}
    PROVE  Min(F) \in F
  <1>1. PICK m \in F : \A y \in F : ~ (<<y, m>> \in OpToRel(<, Nat))
    BY WFMin, NatLessThanWellFounded
  <1>2. ASSUME NEW y \in F
        PROVE  m <= y
    <2>1. y \in Nat /\ m \in Nat
      OBVIOUS
    <2>2. <<y, m>> \in Nat \X Nat
      BY <2>1
    <2>3. ~ y < m
      BY <1>1, <2>2 DEF OpToRel
    <2>4. QED
      BY <2>1, <2>3
  <1>3. QED
    BY <1>2 DEF Min

\* A request is sent from the first free slot.
LEMMA SendsOK ==
    ASSUME NEW t, NEW r, NEW n, Pair(tab, requests, n), Sends(t, r),
           TabOK(t, n), t.loading = tab.loading, t.latch => tab.latch,
           RequestOK(r, n)
    PROVE  Pair(tab', requests', n)
  <1> DEFINE m == Min(Slots \ UnderWay)
             rs == [requests EXCEPT ![m] = r]
  <1>1. UnderWay = Busy(requests) /\ UnderWay # Slots /\ UnderWay \subseteq Slots
    BY DEF UnderWay, Busy, Sends
  <1>2. m \in Slots /\ m \notin UnderWay
    BY <1>1, FirstFree
  <1>3. Begins(t) = Loaded(t, Begun(t.loading)) /\ Becomes(Begins(t), rs)
    BY DEF Begins, Loaded, Sends
  <1> HIDE DEF m
  <1>4. r \in Request /\ r # Nil /\ requests \in [Slots -> Request \union {Nil}]
    BY DEF RequestOK, Pair, RequestsOK
  <1>5. /\ rs \in [Slots -> Request \union {Nil}]
        /\ \A s \in Slots : rs[s] = IF s = m THEN r ELSE requests[s]
    BY <1>2, <1>4
  <1> HIDE DEF rs
  <1>6. Busy(rs) = Busy(requests) \union {m}
    BY <1>1, <1>2, <1>4, <1>5 DEF Busy
  <1>7. Cardinality(Busy(rs)) = Cardinality(Busy(requests)) + 1
    BY <1>1, <1>2, <1>6, BusyFacts, FS_AddElement
  <1>8. IndicatorOK(Begun(t.loading), Cardinality(Busy(rs)))
    BY <1>7, BusyFacts, IndicatorBegins DEF Pair
  <1>9. /\ TabOK(Begins(t), n) /\ Begins(t).loading = Begun(t.loading)
        /\ Begins(t).latch = t.latch
    BY <1>3, <1>8, LoadedOK DEF IndicatorOK
  <1>10. RequestsOK(rs, n)
    BY <1>5 DEF Pair, RequestsOK
  <1>11. t.latch => \E s \in Busy(rs) : rs[s].kind = "logout"
    BY <1>1, <1>2, <1>5, <1>6 DEF Pair, Busy
  <1>12. Pair(Begins(t), rs, n)
    BY <1>8, <1>9, <1>10, <1>11 DEF Pair
  <1>13. QED
    BY <1>3, <1>12, BecomesOK

\* A request that ends frees its slot; a logout that ends releases the latch.
LEMMA FinishesOK ==
    ASSUME NEW s \in Slots, requests[s] # Nil, NEW t, NEW n, Pair(tab, requests, n),
           Finishes(s, t), TabOK(t, n), t.loading = tab.loading,
           t.latch => tab.latch /\ requests[s].kind # "logout"
    PROVE  Pair(tab', requests', n)
  <1> DEFINE rs == [requests EXCEPT ![s] = Nil]
  <1>1. Ends(t) = Loaded(t, Ended(t.loading)) /\ Becomes(Ends(t), rs)
    BY DEF Ends, Loaded, Finishes
  <1>2. /\ rs \in [Slots -> Request \union {Nil}]
        /\ \A q \in Slots : rs[q] = IF q = s THEN Nil ELSE requests[q]
    BY DEF Pair, RequestsOK
  <1> HIDE DEF rs
  <1>3. Busy(rs) = Busy(requests) \ {s} /\ s \in Busy(requests)
    BY <1>2 DEF Busy
  <1>4. Cardinality(Busy(rs)) = Cardinality(Busy(requests)) - 1
    <2>1. IsFiniteSet(Busy(requests))
      BY BusyFacts
    <2>2. Cardinality(Busy(requests) \ {s}) = Cardinality(Busy(requests)) - 1
      BY <2>1, <1>3, FS_RemoveElement
    <2>3. QED
      BY <2>2, <1>3
  <1>5. Cardinality(Busy(requests)) \in Nat \ {0}
    BY <1>4, BusyFacts
  <1>6. IndicatorOK(Ended(t.loading), Cardinality(Busy(rs)))
    BY <1>4, <1>5, IndicatorEnds DEF Pair
  <1>7. /\ TabOK(Ends(t), n) /\ Ends(t).loading = Ended(t.loading)
        /\ Ends(t).latch = t.latch
    BY <1>1, <1>6, LoadedOK DEF IndicatorOK
  <1>8. RequestsOK(rs, n)
    BY <1>2 DEF Pair, RequestsOK
  <1>9. t.latch => \E q \in Busy(rs) : rs[q].kind = "logout"
    BY <1>2, <1>3 DEF Pair, Busy
  <1>10. Pair(Ends(t), rs, n)
    BY <1>6, <1>7, <1>8, <1>9 DEF Pair
  <1>11. QED
    BY <1>1, <1>10, BecomesOK

\* A request that ends and begins a logout.
LEMMA LogoutFollows ==
    ASSUME NEW s \in Slots, requests[s] # Nil, NEW t, NEW n, NEW r, Pair(tab, requests, n),
           TabOK(t, n), IndicatorOK(t.loading, Cardinality(Busy(requests))),
           RequestOK(r, n), r.kind = "logout",
           Becomes(t, [requests EXCEPT ![s] = r])
    PROVE  Pair(tab', requests', n)
  <1> DEFINE rs == [requests EXCEPT ![s] = r]
  <1>1. r \in Request /\ r # Nil /\ requests \in [Slots -> Request \union {Nil}]
    BY DEF RequestOK, Pair, RequestsOK
  <1>2. /\ rs \in [Slots -> Request \union {Nil}]
        /\ \A q \in Slots : rs[q] = IF q = s THEN r ELSE requests[q]
    BY <1>1
  <1>3. Becomes(t, rs)
    OBVIOUS
  <1> HIDE DEF rs
  <1>4. Busy(rs) = Busy(requests) /\ s \in Busy(rs)
    BY <1>1, <1>2 DEF Busy
  <1>5. RequestsOK(rs, n)
    BY <1>2 DEF Pair, RequestsOK
  <1>6. \E q \in Busy(rs) : rs[q].kind = "logout"
    BY <1>2, <1>4
  <1>7. Pair(t, rs, n)
    BY <1>4, <1>5, <1>6 DEF Pair
  <1>8. QED
    BY <1>3, <1>7, BecomesOK

\* The server answers.
LEMMA AnsweredOK ==
    ASSUME NEW s \in Slots, requests[s] # Nil, NEW n, Pair(tab, requests, n),
           NEW code \in Codes, NEW session \in Session \union {Nil},
           Answers(s, code, session),
           session # Nil => session.token \in 1 .. n,
           code = "ok" /\ requests[s].kind \in {"login", "change", "validate"} => session # Nil,
           requests[s].kind = "validate" /\ session # Nil => session.token = requests[s].token
    PROVE  Pair(tab', requests', n) /\ steps' = steps
  <1> DEFINE answer == [code |-> code, session |-> session]
             r == [requests[s] EXCEPT !.answer = answer]
  <1>1. tab' = tab /\ steps' = steps /\ requests' = [requests EXCEPT ![s].answer = answer]
    BY DEF Answers
  <1>2. /\ RequestOK(requests[s], n) /\ requests[s] \in Request
        /\ requests \in [Slots -> Request \union {Nil}]
    BY DEF Pair, RequestsOK, RequestOK
  <1>3. answer \in Answer /\ answer.code = code /\ answer.session = session
    BY DEF Answer
  <1> HIDE DEF answer
  <1>4. /\ r \in Request /\ r.kind = requests[s].kind /\ r.token = requests[s].token
        /\ r.answer = answer /\ r.acct = requests[s].acct
    BY <1>2, <1>3 DEF Request
  <1>5. requests' = [requests EXCEPT ![s] = r]
    BY <1>1, <1>2
  <1> HIDE DEF r
  <1>6. /\ requests' \in [Slots -> Request \union {Nil}]
        /\ \A q \in Slots : requests'[q] = IF q = s THEN r ELSE requests[q]
    BY <1>2, <1>4, <1>5
  <1>7. RequestOK(r, n)
    BY <1>2, <1>3, <1>4 DEF RequestOK, AnswerOK
  <1>8. RequestsOK(requests', n)
    BY <1>6, <1>7 DEF Pair, RequestsOK
  <1>9. Busy(requests') = Busy(requests) /\ \A q \in Slots : requests'[q].kind = requests[q].kind
    BY <1>4, <1>6 DEF Busy
  <1>10. tab.latch => \E q \in Busy(requests') : requests'[q].kind = "logout"
    BY <1>9 DEF Pair, Busy
  <1>11. QED
    BY <1>1, <1>8, <1>9, <1>10 DEF Pair

\* A token more on the server changes nothing for what is there.
LEMMA TokensGrow ==
    ASSUME NEW t, NEW rs, NEW n \in Nat, NEW m \in Nat, n <= m, Pair(t, rs, n)
    PROVE  Pair(t, rs, m)
  <1>1. TabOK(t, m)
    BY DEF Pair, TabOK
  <1>2. ASSUME NEW r, RequestOK(r, n)
        PROVE  RequestOK(r, m)
    BY <1>2 DEF RequestOK, AnswerOK
  <1>3. RequestsOK(rs, m)
    BY <1>2 DEF Pair, RequestsOK
  <1>4. QED
    BY <1>1, <1>3 DEF Pair

-----------------------------------------------------------------------------
(* What the tab sends. *)

Kinds == {"validate", "login", "change", "logout", "protected"}

LEMMA PublicOK ==
    ASSUME NEW kind \in Kinds
    PROVE  /\ Public(kind) \in Request /\ Public(kind).kind = kind
           /\ Public(kind).token = Nil /\ Public(kind).answer = Nil
  BY DEF Public, Request, Kinds

\* r with the fields of its caller.
Asking(r, page, had) == [r EXCEPT !.page = page, !.had = had]

LEMMA AskingTyped ==
    ASSUME NEW r \in Request, NEW page \in Pages \union {Nil}, NEW had \in BOOLEAN
    PROVE  /\ Asking(r, page, had) \in Request
           /\ Asking(r, page, had).token = r.token
           /\ Asking(r, page, had).answer = r.answer
           /\ Asking(r, page, had).kind = r.kind /\ Asking(r, page, had).acct = r.acct
  BY ZenonT(40) DEF Asking, Request

LEMMA AskingOK ==
    ASSUME NEW r, NEW n, RequestOK(r, n), r.answer = Nil,
           NEW page \in Pages \union {Nil}, NEW had \in BOOLEAN
    PROVE  RequestOK(Asking(r, page, had), n)
  <1>1. /\ Asking(r, page, had) \in Request
        /\ Asking(r, page, had).token = r.token
        /\ Asking(r, page, had).answer = r.answer
        /\ Asking(r, page, had).kind = r.kind /\ Asking(r, page, had).acct = r.acct
    BY AskingTyped DEF RequestOK
  <1>2. QED
    BY <1>1 DEF RequestOK

Stamped(r, token, unsafe, csrf) == [r EXCEPT !.token = token, !.unsafe = unsafe, !.csrf = csrf]

MaybeToken == (1 .. MaxTokens) \union {Nil}

LEMMA StampedOK ==
    ASSUME NEW r \in Request, NEW token \in MaybeToken,
           NEW unsafe \in BOOLEAN, NEW csrf \in MaybeToken
    PROVE  /\ Stamped(r, token, unsafe, csrf) \in Request
           /\ Stamped(r, token, unsafe, csrf).token = token
           /\ Stamped(r, token, unsafe, csrf).answer = r.answer
           /\ Stamped(r, token, unsafe, csrf).kind = r.kind
  BY ZenonT(40) DEF Stamped, Request, MaybeToken

LEMMA AuthenticatedOK ==
    ASSUME NEW kind \in Kinds \ {"login"}, NEW unsafe \in BOOLEAN, NEW n, TabOK(tab, n)
    PROVE  RequestOK(Authenticated(kind, unsafe), n) /\ Authenticated(kind, unsafe).answer = Nil
  <1> DEFINE csrf == IF unsafe /\ ReadStored(tab) # Nil THEN ReadStored(tab).token ELSE Nil
             p == Public(kind)
             r == Stamped(p, tab.cookie, unsafe, csrf)
  <1>1. p \in Request /\ p.kind = kind /\ p.answer = Nil
    BY PublicOK
  <1>2. tab.cookie \in MaybeToken /\ tab.cookie \in {Nil} \union 1 .. n
    BY DEF TabOK, Tab, MaybeToken
  <1>3. ReadStored(tab) \in Session \union {Nil}
    BY DEF TabOK, Tab, ReadStored
  <1>4. csrf \in MaybeToken
    BY <1>3 DEF Session, MaybeToken
  <1>5. r = Authenticated(kind, unsafe)
    BY DEF Authenticated, Stamped
  <1> HIDE DEF p, csrf
  <1>6. r \in Request /\ r.token = tab.cookie /\ r.answer = p.answer /\ r.kind = p.kind
    BY <1>1, <1>2, <1>4, StampedOK
  <1> HIDE DEF r
  <1>7. QED
    BY <1>1, <1>2, <1>5, <1>6 DEF RequestOK

LEMMA LogoutOK ==
    ASSUME NEW after \in {"nothing", "login", "validation"}, NEW n
    PROVE  RequestOK(Logout(after), n) /\ Logout(after).kind = "logout"
  <1>1. /\ Public("logout") \in Request /\ Public("logout").kind = "logout"
        /\ Public("logout").token = Nil /\ Public("logout").answer = Nil
    BY DEF Public, Request
  <1>2. QED
    BY <1>1 DEF Logout, RequestOK, Request
LoggingIn(acct, remember, back) ==
    [Public("login") EXCEPT !.acct = acct, !.remember = remember, !.back = back]

LEMMA LoggingInOK ==
    ASSUME NEW acct \in Accounts, NEW remember \in BOOLEAN, NEW back \in Pages \union {Nil},
           NEW n
    PROVE  RequestOK(LoggingIn(acct, remember, back), n)
  <1> DEFINE p == Public("login")
             r == [p EXCEPT !.acct = acct, !.remember = remember, !.back = back]
  <1>1. p \in Request /\ p.token = Nil /\ p.answer = Nil
    BY PublicOK DEF Kinds
  <1>2. r = LoggingIn(acct, remember, back)
    BY DEF LoggingIn
  <1> HIDE DEF p
  <1>3. r \in Request /\ r.token = p.token /\ r.answer = p.answer /\ r.acct = acct
    BY <1>1, ZenonT(40) DEF Request
  <1> HIDE DEF r
  <1>4. QED
    BY <1>1, <1>2, <1>3 DEF RequestOK

-----------------------------------------------------------------------------
(* Steps of the router and of the user. *)

\* A step that leaves the server alone.
LEMMA SameServer ==
    ASSUME IInv, UNCHANGED Server, steps' \in 0 .. MaxSteps,
           Pair(tab', requests', Len(issued))
    PROVE  IInv'
  BY DEF IInv, Server, ServerOK

LEMMA CountFacts ==
    ASSUME IInv
    PROVE  /\ Len(issued) \in Nat /\ Len(issued) <= MaxTokens
           /\ tab \in Tab /\ TabOK(tab, Len(issued))
           /\ Acts => steps' \in 0 .. MaxSteps
           /\ UNCHANGED steps => steps' \in 0 .. MaxSteps
           /\ Pair(tab, requests, Len(issued))
  BY DEF IInv, ServerOK, Pair, TabOK, Acts

LEMMA InitIInv == Init => IInv
  <1> SUFFICES ASSUME Init
               PROVE  IInv
    OBVIOUS
  <1>1. /\ must \in [Accounts -> BOOLEAN] /\ steps \in 0 .. MaxSteps
        /\ requests = [s \in Slots |-> Nil]
    <2>1. \A a \in Accounts : (a \in Temporary) \in BOOLEAN
      OBVIOUS
    <2>2. must = [a \in Accounts |-> a \in Temporary]
      BY DEF Init
    <2>3. QED
      BY <2>1, <2>2 DEF Init
  <1>2. ASSUME NEW page \in Visited, NEW session \in Session \union {Nil}, NEW n \in Nat,
               tab = Opening(page, session), session # Nil => session.token \in 1 .. n
        PROVE  Pair(tab, requests, n)
    <2> DEFINE nav == [to |-> Url(page), waits |-> Nil, hop |-> 0]
               cookie == IF session = Nil THEN Nil ELSE session.token
    <2>1. Busy(requests) = {} /\ Cardinality(Busy(requests)) = 0
      <3>1. Busy(requests) = {}
        BY <1>1 DEF Busy
      <3>2. QED
        BY <3>1, FS_EmptySet
    <2>2. nav \in Navigation
      BY PageFacts DEF Navigation
    <2>3. /\ cookie \in (1 .. MaxTokens) \union {Nil}
          /\ cookie \in {Nil} \union 1 .. n
          /\ session # Nil => cookie = session.token
      BY <1>2 DEF Session
    <2>4. Idle \in Indicator /\ IndicatorOK(Idle, 0)
      BY DEF Idle, Indicator, IndicatorOK
    <2>5. tab = [session |-> session, own |-> Nil, local |-> session, latch |-> FALSE,
                 cookie |-> cookie, at |-> Blank, nav |-> nav, down |-> FALSE,
                 loading |-> Idle, mixed |-> FALSE]
      BY <1>2 DEF Opening
    <2> HIDE DEF nav, cookie
    <2>6. /\ tab \in Tab
          /\ tab.session = session /\ tab.own = Nil /\ tab.local = session
          /\ tab.latch = FALSE /\ tab.cookie = cookie /\ tab.loading = Idle
      BY <2>2, <2>3, <2>4, <2>5 DEF Tab
    <2>7. TabOK(tab, n)
      BY <2>3, <2>6 DEF TabOK, SessionOK, ReadStored
    <2>8. RequestsOK(requests, n)
      BY <1>1 DEF RequestsOK
    <2>9. QED
      BY <2>1, <2>4, <2>6, <2>7, <2>8 DEF Pair
  <1>3. PICK page \in Visited :
          \/ tab = Opening(page, Nil) /\ issued = <<>>
          \/ \E a \in Remembered :
               /\ tab = Opening(page, [acct |-> a, token |-> 1, must |-> must[a]])
               /\ issued = <<[acct |-> a, live |-> TRUE]>>
    BY DEF Init
  <1>4. CASE tab = Opening(page, Nil) /\ issued = <<>>
    <2>1. Len(issued) = 0 /\ issued \in Seq([acct : Accounts, live : BOOLEAN])
      BY <1>4
    <2>2. Pair(tab, requests, 0)
      BY <1>2, <1>4
    <2>3. QED
      BY <1>1, <2>1, <2>2 DEF IInv, ServerOK
  <1>5. ASSUME NEW a \in Remembered,
               tab = Opening(page, [acct |-> a, token |-> 1, must |-> must[a]]),
               issued = <<[acct |-> a, live |-> TRUE]>>
        PROVE  IInv
    <2> DEFINE session == [acct |-> a, token |-> 1, must |-> must[a]]
               token == [acct |-> a, live |-> TRUE]
    <2>1. a \in Accounts /\ must[a] \in BOOLEAN
      BY <1>1
    <2>2. session \in Session /\ session.token \in 1 .. 1
      BY <2>1 DEF Session
    <2>3. token \in [acct : Accounts, live : BOOLEAN]
      BY <2>1
    <2>4. tab = Opening(page, session) /\ issued = <<token>>
      BY <1>5
    <2> HIDE DEF session, token
    <2>5. Len(issued) = 1 /\ issued \in Seq([acct : Accounts, live : BOOLEAN])
      BY <2>3, <2>4
    <2>6. Pair(tab, requests, 1)
      BY <1>2, <2>2, <2>4
    <2>7. QED
      BY <1>1, <2>5, <2>6 DEF IInv, ServerOK
  <1>6. QED
    BY <1>3, <1>4, <1>5

\* A guard that decides by itself only moves the tab.
LEMMA GuardMoves ==
    ASSUME IInv, tab.nav # Nil, GuardProtected \/ GuardResetLink \/ Unguarded
    PROVE  \E u : Moved(tab, u) /\ Becomes(u, requests)
  <1>1. tab \in Tab /\ tab.nav.to \in Urls
    BY CountFacts DEF Tab, Navigation
  <1>2. CASE GuardProtected
    <2> DEFINE url == AuthGuard(tab, tab.nav.to)
    <2>1. url \in Urls \union {Nil}
      BY <1>1, GuardUrl
    <2>2. Becomes(IF url = Nil THEN Activate(tab) ELSE Redirect(tab, url), requests)
      BY <1>2 DEF GuardProtected
    <2> HIDE DEF url
    <2>3. Moved(tab, IF url = Nil THEN Activate(tab) ELSE Redirect(tab, url))
      BY <1>1, <2>1, ActivateMoves, RedirectMoves
    <2>4. QED
      BY <2>2, <2>3
  <1>3. CASE GuardResetLink
    <2>1. Becomes(Redirect(tab, Url("reset")), requests)
      BY <1>3 DEF GuardResetLink
    <2>2. Url("reset") \in Urls
      BY PageFacts DEF Pages
    <2>3. Moved(tab, Redirect(tab, Url("reset")))
      BY <1>1, <2>2, RedirectMoves
    <2>4. QED
      BY <2>1, <2>3
  <1>4. CASE Unguarded
    <2>1. Becomes(Activate(tab), requests)
      BY <1>4 DEF Unguarded
    <2>2. Moved(tab, Activate(tab))
      BY <1>1, ActivateMoves
    <2>3. QED
      BY <2>1, <2>2
  <1>5. QED
    BY <1>2, <1>3, <1>4

LEMMA GuardInv ==
    ASSUME IInv, Guard
    PROVE  IInv'
  <1>1. /\ tab.nav # Nil /\ tab.nav \in Navigation /\ tab.nav.to \in Urls
        /\ UNCHANGED Server /\ UNCHANGED steps
    BY CountFacts DEF Guard, Tab, Navigation
  <1>2. CASE GuardProtected \/ GuardResetLink \/ Unguarded
    <2>1. PICK u : Moved(tab, u) /\ Becomes(u, requests)
      BY <1>1, <1>2, GuardMoves
    <2>2. QED
      BY <1>1, <2>1, CountFacts, MoveOK, SameServer
  <1>3. CASE GuardLogin
    <2> DEFINE m == Min(Slots \ UnderWay)
               t == [tab EXCEPT !.nav.waits = m]
               r == [Authenticated("validate", FALSE) EXCEPT !.had = tab.session # Nil]
    <2>1. Sends(t, r)
      BY <1>3 DEF GuardLogin
    <2>2. m \in Slots
      <3>1. UnderWay \subseteq Slots /\ UnderWay # Slots
        BY <2>1 DEF Sends, UnderWay
      <3>2. QED
        BY <3>1, FirstFree
    <2> HIDE DEF m
    <2> DEFINE nav == [tab.nav EXCEPT !.waits = m]
    <2>3. nav \in Navigation
      BY <1>1, <2>2 DEF Navigation
    <2>4. t = [tab EXCEPT !.nav = nav]
      BY CountFacts DEF Tab
    <2> HIDE DEF nav
    <2>5. Moved(tab, t)
      BY <2>3, <2>4, CountFacts DEF Moved, Tab
    <2> HIDE DEF t
    <2>6. PICK had \in BOOLEAN : had = (tab.session # Nil)
      OBVIOUS
    <2> DEFINE a == Authenticated("validate", FALSE)
    <2>7. RequestOK(a, Len(issued)) /\ a.answer = Nil /\ a.page = Nil
      <3>1. RequestOK(a, Len(issued)) /\ a.answer = Nil
        BY CountFacts, AuthenticatedOK DEF Kinds
      <3>2. a.page = Nil
        BY DEF Authenticated, Public
      <3>3. QED
        BY <3>1, <3>2
    <2>8. r = Asking(a, Nil, had)
      <3>1. a \in Request
        BY <2>7 DEF RequestOK
      <3>2. r = [a EXCEPT !.had = had]
        BY <2>6
      <3> HIDE DEF a
      <3>3. [a EXCEPT !.had = had] = [a EXCEPT !.page = Nil, !.had = had]
        BY <2>7, <3>1 DEF Request
      <3>4. QED
        BY <3>2, <3>3 DEF Asking
    <2> HIDE DEF a, r
    <2>9. RequestOK(r, Len(issued))
      BY <2>7, <2>8, AskingOK
    <2>10. /\ TabOK(t, Len(issued)) /\ t.loading = tab.loading /\ t.latch = tab.latch
      BY <2>5, CountFacts, MovedOK DEF Moved
    <2>11. Pair(tab', requests', Len(issued))
      BY <2>1, <2>9, <2>10, CountFacts, SendsOK
    <2>12. QED
      BY <1>1, <2>11, CountFacts, SameServer
  <1>4. QED
    BY <1>2, <1>3 DEF Guard

LEMMA GotoInv ==
    ASSUME IInv, NEW page \in Visited, Goto(page)
    PROVE  IInv'
  <1>1. Acts /\ Becomes(Navigate(tab, Url(page)), requests) /\ UNCHANGED Server
    BY DEF Goto
  <1>2. Moved(tab, Navigate(tab, Url(page)))
    BY CountFacts, PageFacts, NavigateMoves
  <1>3. QED
    BY <1>1, <1>2, CountFacts, MoveOK, SameServer

LEMMA SubmitLoginInv ==
    ASSUME IInv, NEW acct \in Accounts, NEW remember \in BOOLEAN, SubmitLogin(acct, remember)
    PROVE  IInv'
  <1> DEFINE r == LoggingIn(acct, remember, tab.at.back)
  <1>1. Acts /\ Sends(tab, r) /\ UNCHANGED Server
    BY DEF SubmitLogin, LoggingIn
  <1>2. tab.at.back \in Pages \union {Nil}
    BY CountFacts, PageFacts DEF Tab
  <1>3. RequestOK(r, Len(issued))
    BY <1>2, LoggingInOK
  <1> HIDE DEF r
  <1>4. QED
    BY <1>1, <1>3, CountFacts, SendsOK, SameServer

LEMMA SubmitChangeInv ==
    ASSUME IInv, SubmitChange
    PROVE  IInv'
  <1>1. Acts /\ Sends(tab, Authenticated("change", TRUE)) /\ UNCHANGED Server
    BY DEF SubmitChange
  <1>2. RequestOK(Authenticated("change", TRUE), Len(issued))
    BY CountFacts, AuthenticatedOK DEF Kinds
  <1>3. QED
    BY <1>1, <1>2, CountFacts, SendsOK, SameServer

LEMMA AskInv ==
    ASSUME IInv, NEW unsafe \in BOOLEAN, Ask(unsafe)
    PROVE  IInv'
  <1> DEFINE a == Authenticated("protected", unsafe)
             r == [a EXCEPT !.page = tab.at.page]
  <1>1. Acts /\ Sends(tab, r) /\ UNCHANGED Server /\ tab.at.page \in ShellPages
    BY DEF Ask
  <1>2. RequestOK(a, Len(issued)) /\ a.answer = Nil /\ a \in Request
    BY CountFacts, AuthenticatedOK DEF Kinds, RequestOK
  <1>3. tab.at.page \in Pages
    BY <1>1 DEF Pages
  <1> HIDE DEF a
  <1>4. r = Asking(a, tab.at.page, a.had) /\ a.had \in BOOLEAN
    BY <1>2 DEF Asking, Request
  <1> HIDE DEF r
  <1>5. RequestOK(r, Len(issued))
    BY <1>2, <1>3, <1>4, AskingOK
  <1>6. QED
    BY <1>1, <1>5, CountFacts, SendsOK, SameServer

LEMMA LogOutInv ==
    ASSUME IInv, LogOut
    PROVE  IInv'
  <1>1. PICK after \in {"nothing", "login", "validation"} :
          Sends(ClearSessionState(tab), Logout(after))
    BY DEF LogOut
  <1>2. Acts /\ UNCHANGED Server
    BY DEF LogOut
  <1>3. RequestOK(Logout(after), Len(issued))
    BY LogoutOK
  <1>4. QED
    BY <1>1, <1>2, <1>3, CountFacts, ClearOK, SendsOK, SameServer

LEMMA ContinueInv ==
    ASSUME IInv, ContinueToDashboard
    PROVE  IInv'
  <1> DEFINE to == PostLogin(tab, tab.at.back)
  <1>1. Acts /\ Becomes(Navigate(tab, to), requests) /\ UNCHANGED Server
    BY DEF ContinueToDashboard
  <1>2. to \in Urls
    BY CountFacts, PageFacts DEF Tab
  <1> HIDE DEF to
  <1>3. Moved(tab, Navigate(tab, to))
    BY <1>2, CountFacts, NavigateMoves
  <1>4. QED
    BY <1>1, <1>3, CountFacts, MoveOK, SameServer

LEMMA GoAnywayInv ==
    ASSUME IInv, GoToLoginAnyway
    PROVE  IInv'
  <1> DEFINE u == Lowered(tab, FALSE)
             v == Navigate(u, Url("offlineLogin"))
  <1>1. Acts /\ Becomes(v, requests) /\ UNCHANGED Server
    BY DEF GoToLoginAnyway, Lowered
  <1>2. Moved(tab, u) /\ u \in Tab
    BY CountFacts, LoweredMoves DEF Moved
  <1>3. Url("offlineLogin") \in Urls
    BY PageFacts DEF Pages, LoginPages
  <1>4. Moved(u, v)
    BY <1>2, <1>3, NavigateMoves
  <1>5. Moved(tab, v)
    BY <1>2, <1>4, MovedTwice
  <1> HIDE DEF v
  <1>6. QED
    BY <1>1, <1>5, CountFacts, MoveOK, SameServer
\* A page that is loaded again reads the session it has kept.
LEMMA ReloadInv ==
    ASSUME IInv, NEW own \in {tab.own, Nil}, Reload(own)
    PROVE  IInv'
  <1> DEFINE session == IF own # Nil THEN own ELSE tab.local
             nav == [to |-> tab.at, waits |-> Nil, hop |-> 0]
             t == [tab EXCEPT !.session = session, !.own = own, !.latch = FALSE, !.at = Blank,
                              !.nav = nav, !.down = FALSE, !.loading = Idle]
  <1>1. tab \in Tab /\ own \in Session \union {Nil} /\ session \in Session \union {Nil}
    BY CountFacts DEF Tab
  <1>2. ReadStored([tab EXCEPT !.own = own]) = session
    BY <1>1 DEF ReadStored, Tab
  <1>3. Acts /\ UNCHANGED Server /\ tab.at # Blank /\ requests' = [s \in Slots |-> Nil]
        /\ tab' = t
    BY <1>2 DEF Reload
  <1>4. nav \in Navigation
    BY <1>1, <1>3 DEF Tab, Navigation
  <1>5. Idle \in Indicator /\ IndicatorOK(Idle, 0)
    BY DEF Idle, Indicator, IndicatorOK
  <1>6. session = IF own # Nil THEN own ELSE tab.local
    OBVIOUS
  <1> HIDE DEF nav, session
  <1>7. /\ t \in Tab /\ t.session = session /\ t.own = own /\ t.local = tab.local
        /\ t.latch = FALSE /\ t.cookie = tab.cookie /\ t.loading = Idle /\ t.mixed = tab.mixed
    BY <1>1, <1>4, <1>5, ZenonT(40) DEF Tab
  <1> HIDE DEF t
  <1>8. ReadStored(t) = session
    BY <1>6, <1>7 DEF ReadStored
  <1>9. tab.mixed \/ (session # Nil => session.token = tab.cookie)
    BY <1>6, CountFacts DEF TabOK, SessionOK, ReadStored
  <1>10. SessionOK(t)
    BY <1>7, <1>8, <1>9, CountFacts DEF TabOK, SessionOK
  <1>11. TabOK(t, Len(issued))
    BY <1>7, <1>10, CountFacts DEF TabOK
  <1>12. Busy(requests') = {} /\ Cardinality(Busy(requests')) = 0
    <2>1. Busy(requests') = {}
      BY <1>3 DEF Busy
    <2>2. QED
      BY <2>1, FS_EmptySet
  <1>13. RequestsOK(requests', Len(issued))
    BY <1>3 DEF RequestsOK
  <1>14. Pair(tab', requests', Len(issued))
    BY <1>3, <1>5, <1>7, <1>11, <1>12, <1>13 DEF Pair
  <1>15. QED
    BY <1>3, <1>14, CountFacts, SameServer

-----------------------------------------------------------------------------
(* Steps of the server and of the other tabs. *)

TokenRows == [acct : Accounts, live : BOOLEAN]

LEMMA Revoking ==
    ASSUME IInv, NEW acct
    PROVE  RevokedOf(acct) \in Seq(TokenRows) /\ Len(RevokedOf(acct)) = Len(issued)
  <1>1. issued \in Seq(TokenRows) /\ Tokens = 1 .. Len(issued) /\ Len(issued) \in Nat
    BY DEF IInv, ServerOK, TokenRows, Tokens
  <1>2. ASSUME NEW t \in Tokens
        PROVE  [issued[t] EXCEPT !.live = issued[t].live /\ issued[t].acct # acct] \in TokenRows
    <2>1. issued[t] \in TokenRows
      BY <1>1, <1>2
    <2>2. PICK o \in BOOLEAN : o = (issued[t].live /\ issued[t].acct # acct)
      BY <2>1 DEF TokenRows
    <2> DEFINE row == issued[t]
    <2> HIDE DEF row
    <2>3. row \in TokenRows => [row EXCEPT !.live = o] \in TokenRows
      BY DEF TokenRows
    <2>4. QED
      BY <2>1, <2>2, <2>3 DEF row
  <1>3. RevokedOf(acct)
          = [t \in Tokens |-> [issued[t] EXCEPT !.live = issued[t].live /\ issued[t].acct # acct]]
    BY DEF RevokedOf
  <1>4. RevokedOf(acct) \in [1 .. Len(issued) -> TokenRows]
    BY <1>1, <1>2, <1>3
  <1>5. \A f : f \in [1 .. Len(issued) -> TokenRows] =>
           f \in Seq(TokenRows) /\ Len(f) = Len(issued)
    BY <1>1
  <1>6. QED
    BY <1>4, <1>5

LEMMA RevokeInv ==
    ASSUME IInv, NEW acct \in Accounts, Revoke(acct)
    PROVE  IInv'
  <1>1. /\ Acts /\ issued' = RevokedOf(acct) /\ UNCHANGED <<tab, requests>>
        /\ must' \in {must, [must EXCEPT ![acct] = TRUE]}
    BY DEF Revoke
  <1>2. must' \in [Accounts -> BOOLEAN]
    BY <1>1 DEF IInv, ServerOK
  <1>3. issued' \in Seq(TokenRows) /\ Len(issued') = Len(issued)
    BY <1>1, Revoking
  <1>4. QED
    BY <1>1, <1>2, <1>3, CountFacts DEF IInv, ServerOK, TokenRows

\* The server issues one more token, for the account, perhaps after revoking
\* others.
LEMMA Issuing ==
    ASSUME IInv, NEW acct \in Accounts, NEW old \in Seq(TokenRows), Len(old) = Len(issued),
           Len(issued) < MaxTokens,
           issued' = Append(old, [acct |-> acct, live |-> TRUE])
    PROVE  /\ issued' \in Seq(TokenRows) /\ Len(issued') = Len(issued) + 1
           /\ Len(issued') <= MaxTokens
           /\ Len(issued) + 1 \in 1 .. Len(issued')
           /\ NewSession(acct) \in Session /\ NewSession(acct).token = Len(issued) + 1
  <1> DEFINE row == [acct |-> acct, live |-> TRUE]
  <1>1. row \in TokenRows
    BY DEF TokenRows
  <1> HIDE DEF row
  <1>2. issued' = Append(old, row)
    BY DEF row
  <1>3. issued' \in Seq(TokenRows) /\ Len(issued') = Len(issued) + 1
    BY <1>1, <1>2
  <1>4. Len(issued) \in Nat /\ must[acct] \in BOOLEAN
    BY DEF IInv, ServerOK
  <1>5. Len(issued) + 1 \in 1 .. MaxTokens
    BY <1>4
  <1>6. NewSession(acct) \in Session /\ NewSession(acct).token = Len(issued) + 1
    BY <1>4, <1>5 DEF NewSession, Session
  <1>7. QED
    BY <1>3, <1>4, <1>6

LEMMA IssueFacts ==
    ASSUME IInv, NEW acct \in Accounts, Issue(acct)
    PROVE  /\ issued' \in Seq(TokenRows) /\ Len(issued') = Len(issued) + 1
           /\ Len(issued') <= MaxTokens
           /\ Len(issued) + 1 \in 1 .. Len(issued')
           /\ NewSession(acct) \in Session /\ NewSession(acct).token = Len(issued) + 1
  BY Issuing DEF Issue, IInv, ServerOK, TokenRows

\* Another tab changes the cookie and the local storage.
Shared(t, cookie, local) == [t EXCEPT !.cookie = cookie, !.local = local, !.mixed = TRUE]

LEMMA SharedOK ==
    ASSUME NEW t \in Tab, NEW n \in Nat, n <= MaxTokens, NEW cookie \in {Nil} \union 1 .. n,
           NEW local \in Session \union {Nil}
    PROVE  /\ TabOK(Shared(t, cookie, local), n)
           /\ Shared(t, cookie, local).loading = t.loading
           /\ Shared(t, cookie, local).latch = t.latch
  <1> DEFINE u == [t EXCEPT !.cookie = cookie, !.local = local, !.mixed = TRUE]
  <1>1. cookie \in (1 .. MaxTokens) \union {Nil}
    OBVIOUS
  <1>2. u \in Tab /\ u.cookie = cookie /\ u.mixed = TRUE /\ u.loading = t.loading
        /\ u.latch = t.latch
    BY <1>1, ZenonT(40) DEF Tab
  <1>3. u = Shared(t, cookie, local)
    BY DEF Shared
  <1> HIDE DEF u
  <1>4. QED
    BY <1>2, <1>3 DEF TabOK, SessionOK

LEMMA OtherTabLogsInInv ==
    ASSUME IInv, NEW acct \in Accounts, NEW remember \in BOOLEAN,
           OtherTabLogsIn(acct, remember)
    PROVE  IInv'
  <1> DEFINE local == IF remember THEN NewSession(acct) ELSE Nil
             n == Len(issued')
  <1>1. /\ Acts /\ Issue(acct) /\ UNCHANGED <<requests, must>>
        /\ tab' = Shared(tab, Len(issued) + 1, local)
    BY DEF OtherTabLogsIn, Shared
  <1>2. /\ issued' \in Seq(TokenRows) /\ n = Len(issued) + 1
        /\ n <= MaxTokens /\ Len(issued) + 1 \in 1 .. n
        /\ NewSession(acct) \in Session
    BY <1>1, IssueFacts
  <1>3. local \in Session \union {Nil} /\ n \in Nat
    BY <1>2, CountFacts
  <1> HIDE DEF local, n
  <1>4. TabOK(tab', n) /\ tab'.loading = tab.loading /\ tab'.latch = tab.latch
    BY <1>1, <1>2, <1>3, CountFacts, SharedOK
  <1>5. Pair(tab, requests, n)
    BY <1>2, <1>3, CountFacts, TokensGrow
  <1>6. Pair(tab', requests', n)
    BY <1>1, <1>4, <1>5 DEF Pair
  <1>7. QED
    BY <1>1, <1>2, <1>6, CountFacts DEF IInv, ServerOK, TokenRows, n

LEMMA OtherTabLogsOutInv ==
    ASSUME IInv, OtherTabLogsOut
    PROVE  IInv'
  <1>1. /\ Acts /\ UNCHANGED Server /\ requests' = requests
        /\ tab' = Shared(tab, Nil, Nil)
    BY DEF OtherTabLogsOut, Shared
  <1>2. TabOK(tab', Len(issued)) /\ tab'.loading = tab.loading /\ tab'.latch = tab.latch
    BY <1>1, CountFacts, SharedOK
  <1>3. Pair(tab', requests', Len(issued))
    BY <1>1, <1>2, CountFacts DEF Pair
  <1>4. QED
    BY <1>1, <1>3, CountFacts, SameServer

\* What is known of a request under way, and of the token it carries.
LEMMA RequestFacts ==
    ASSUME IInv, NEW s \in Slots, requests[s] # Nil
    PROVE  /\ requests[s] \in Request /\ RequestOK(requests[s], Len(issued))
           /\ Code(requests[s]) \in Codes
           /\ Code(requests[s]) = "ok" => requests[s].token \in 1 .. Len(issued)
           /\ \A t \in 1 .. Len(issued) : issued[t].acct \in Accounts
  <1>1. requests[s] \in Request /\ RequestOK(requests[s], Len(issued))
    BY DEF IInv, Pair, RequestsOK, RequestOK
  <1>2. Code(requests[s]) \in Codes
    BY DEF Code, Codes
  <1>3. Code(requests[s]) = "ok" => requests[s].token # Nil
    BY DEF Code
  <1>4. \A t \in 1 .. Len(issued) : issued[t] \in TokenRows
    <2>1. issued \in Seq(TokenRows)
      BY DEF IInv, ServerOK, TokenRows
    <2>2. QED
      BY <2>1
  <1>5. QED
    BY <1>1, <1>2, <1>3, <1>4 DEF RequestOK, TokenRows

LEMMA ServeLoginInv ==
    ASSUME IInv, NEW s \in Slots, requests[s] # Nil, ServeLogin(s)
    PROVE  IInv'
  <1> DEFINE acct == requests[s].acct
             n == Len(issued')
  <1>1. requests[s].kind = "login" /\ acct \in Accounts
    BY RequestFacts DEF ServeLogin, RequestOK, Request
  <1>2. CASE Answers(s, "failed", Nil) /\ UNCHANGED Server
    BY <1>2, CountFacts, AnsweredOK, SameServer DEF Codes
  <1>3. CASE Issue(acct) /\ Answers(s, "ok", NewSession(acct)) /\ UNCHANGED must
    <2>1. /\ issued' \in Seq(TokenRows) /\ n = Len(issued) + 1
          /\ n <= MaxTokens /\ Len(issued) + 1 \in 1 .. n
          /\ NewSession(acct) \in Session /\ NewSession(acct).token = Len(issued) + 1
      BY <1>1, <1>3, IssueFacts
    <2>2. n \in Nat /\ Len(issued) \in Nat
      BY <2>1, CountFacts
    <2> HIDE DEF n, acct
    <2>3. Pair(tab, requests, n)
      BY <2>1, <2>2, CountFacts, TokensGrow
    <2> DEFINE session == NewSession(acct)
    <2>4. session \in Session /\ session # Nil /\ session.token \in 1 .. n
      BY <2>1
    <2>5. Answers(s, "ok", session)
      BY <1>3
    <2> HIDE DEF session
    <2>6. Pair(tab', requests', n) /\ steps' = steps
      BY <2>3, <2>4, <2>5, <1>1, AnsweredOK DEF Codes
    <2>7. QED
      BY <1>3, <2>1, <2>6, CountFacts DEF IInv, ServerOK, TokenRows, n
  <1>4. QED
    BY <1>2, <1>3 DEF ServeLogin

LEMMA ServeChangeInv ==
    ASSUME IInv, NEW s \in Slots, requests[s] # Nil, ServeChange(s)
    PROVE  IInv'
  <1> DEFINE r == requests[s]
             acct == issued[r.token].acct
             n == Len(issued')
  <1>1. r.kind = "change"
    BY DEF ServeChange
  <1>2. CASE Code(r) # "ok" /\ Answers(s, Code(r), Nil) /\ UNCHANGED Server
    BY <1>2, CountFacts, RequestFacts, AnsweredOK, SameServer
  <1>3. CASE Answers(s, "failed", Nil) /\ UNCHANGED Server
    BY <1>3, CountFacts, AnsweredOK, SameServer DEF Codes
  <1>4. CASE /\ Code(r) = "ok"
             /\ Len(issued) < MaxTokens
             /\ issued' = Append(RevokedOf(acct), [acct |-> acct, live |-> TRUE])
             /\ must' = [must EXCEPT ![acct] = FALSE]
             /\ Answers(s, "ok", [NewSession(acct) EXCEPT !.must = FALSE])
    <2>1. acct \in Accounts
      BY <1>4, RequestFacts
    <2> HIDE DEF acct
    <2>2. RevokedOf(acct) \in Seq(TokenRows) /\ Len(RevokedOf(acct)) = Len(issued)
      BY Revoking
    <2>3. /\ issued' \in Seq(TokenRows) /\ n = Len(issued) + 1
          /\ n <= MaxTokens /\ Len(issued) + 1 \in 1 .. n
          /\ NewSession(acct) \in Session /\ NewSession(acct).token = Len(issued) + 1
      BY <1>4, <2>1, <2>2, Issuing
    <2>4. n \in Nat /\ Len(issued) \in Nat
      BY <2>3, CountFacts
    <2> HIDE DEF n
    <2>5. Pair(tab, requests, n)
      BY <2>3, <2>4, CountFacts, TokensGrow
    <2> DEFINE first == NewSession(acct)
               session == [first EXCEPT !.must = FALSE]
    <2>6. Answers(s, "ok", session) /\ first \in Session /\ first.token = Len(issued) + 1
      BY <1>4, <2>3
    <2> HIDE DEF first
    <2>7. session \in Session /\ session.token = Len(issued) + 1
      BY <2>6 DEF Session
    <2> HIDE DEF session
    <2>8. session # Nil /\ session.token \in 1 .. n
      BY <2>3, <2>7
    <2>9. Pair(tab', requests', n) /\ steps' = steps
      BY <2>5, <2>6, <2>7, <2>8, <1>1, AnsweredOK DEF Codes
    <2>10. must' \in [Accounts -> BOOLEAN]
      BY <1>4 DEF IInv, ServerOK
    <2>11. QED
      BY <2>3, <2>9, <2>10, CountFacts DEF IInv, ServerOK, TokenRows, n
  <1>5. QED
    BY <1>2, <1>3, <1>4 DEF ServeChange

LEMMA ServeOtherInv ==
    ASSUME IInv, NEW s \in Slots, requests[s] # Nil, ServeOther(s)
    PROVE  IInv'
  <1> DEFINE r == requests[s]
             code == IF r.kind = "logout" THEN "ok" ELSE Code(r)
             opened == [acct |-> issued[r.token].acct, token |-> r.token,
                        must |-> must[issued[r.token].acct]]
             session == IF r.kind = "validate" /\ code = "ok" THEN opened ELSE Nil
  <1>1. /\ Answers(s, code, session) /\ UNCHANGED Server
        /\ r.kind \in {"validate", "protected", "logout"}
    BY DEF ServeOther
  <1>2. code \in Codes
    BY RequestFacts DEF Codes
  <1>3. ASSUME r.kind = "validate", code = "ok"
        PROVE  opened \in Session /\ opened.token = r.token /\ r.token \in 1 .. Len(issued)
    <2>1. r.token \in 1 .. Len(issued) /\ issued[r.token].acct \in Accounts
      BY <1>3, RequestFacts
    <2>2. must[issued[r.token].acct] \in BOOLEAN /\ r.token \in 1 .. MaxTokens
      BY <2>1, CountFacts DEF IInv, ServerOK
    <2>3. QED
      BY <2>1, <2>2 DEF Session
  <1> HIDE DEF opened
  <1>4. /\ session \in Session \union {Nil}
        /\ session # Nil => session.token \in 1 .. Len(issued)
        /\ r.kind = "validate" /\ session # Nil => session.token = r.token
        /\ code = "ok" /\ r.kind \in {"login", "change", "validate"} => session # Nil
    BY <1>1, <1>3
  <1> HIDE DEF code, session
  <1>5. Pair(tab', requests', Len(issued)) /\ steps' = steps
    BY <1>1, <1>2, <1>4, CountFacts, AnsweredOK
  <1>6. QED
    BY <1>1, <1>5, CountFacts, SameServer
-----------------------------------------------------------------------------
(* Answers, and requests that get none. *)

\* The error interceptor, for a request that is no logout.
LEMMA FailsOK ==
    ASSUME IInv, NEW s \in Slots, requests[s] # Nil, requests[s].kind # "logout",
           NEW code, Fails(s, code)
    PROVE  Pair(tab', requests', Len(issued))
  <1> DEFINE n == Len(issued)
  <1>1. TabOK(tab, n) /\ Pair(tab, requests, n) /\ tab \in Tab
    BY CountFacts
  <1> HIDE DEF n
  <1>2. CASE code = "mustChange"
    <2> DEFINE u == MarkPasswordChangeRequired(tab)
               v == Navigate(u, Url("firstAccess"))
    <2>1. Finishes(s, v)
      BY <1>2 DEF Fails
    <2>2. TabOK(u, n) /\ u.loading = tab.loading /\ (u.latch => tab.latch) /\ u \in Tab
      <3>1. TabOK(u, n) /\ u.loading = tab.loading /\ (u.latch => tab.latch)
        BY <1>1, MarkOK
      <3>2. QED
        BY <3>1 DEF TabOK
    <2>3. Url("firstAccess") \in Urls
      BY PageFacts DEF Pages
    <2>4. Moved(u, v)
      BY <2>2, <2>3, NavigateMoves
    <2> HIDE DEF u, v
    <2>5. TabOK(v, n) /\ v.loading = tab.loading /\ (v.latch => tab.latch)
      BY <2>2, <2>4, MovedOK DEF Moved
    <2>6. QED
      BY <1>1, <2>1, <2>5, FinishesOK DEF n
  <1>3. CASE code = "forbidden"
    <2> DEFINE v == Navigate(tab, Home(tab))
    <2>1. Finishes(s, v)
      BY <1>3 DEF Fails
    <2>2. Moved(tab, v)
      BY <1>1, PageFacts, NavigateMoves
    <2> HIDE DEF v
    <2>3. TabOK(v, n) /\ v.loading = tab.loading /\ v.latch = tab.latch
      BY <1>1, <2>2, MovedOK DEF Moved
    <2>4. QED
      BY <1>1, <2>1, <2>3, FinishesOK DEF n
  <1>4. CASE code = "session" /\ ~ tab.latch
    <2> DEFINE u == Expired(tab)
               b == Loaded(u, Begun(u.loading))
               v == Loaded(b, Ended(b.loading))
               r == Logout("login")
    <2>1. Becomes(v, [requests EXCEPT ![s] = r])
      BY <1>4 DEF Fails, Ends, Begins, Loaded, ExpireSession, Expired
    <2>2. TabOK(u, n) /\ u.loading = tab.loading
      BY <1>1, ExpiredOK
    <2> HIDE DEF u
    <2> DEFINE c == Cardinality(Busy(requests))
    <2>3. c \in Nat
      BY BusyFacts
    <2>4. IndicatorOK(tab.loading, c)
      BY <1>1 DEF Pair
    <2> HIDE DEF c
    <2>5. IndicatorOK(Begun(u.loading), c + 1)
      BY <2>2, <2>3, <2>4, IndicatorBegins
    <2>6. TabOK(b, n) /\ b.loading = Begun(u.loading)
      BY <2>2, <2>5, LoadedOK DEF IndicatorOK
    <2> HIDE DEF b
    <2>7. IndicatorOK(Ended(b.loading), (c + 1) - 1)
      BY <2>3, <2>5, <2>6, IndicatorEnds
    <2>8. TabOK(v, n) /\ v.loading = Ended(b.loading)
      BY <2>6, <2>7, LoadedOK DEF IndicatorOK
    <2>9. IndicatorOK(v.loading, c)
      <3>1. (c + 1) - 1 = c
        BY <2>3
      <3>2. QED
        BY <2>7, <2>8, <3>1
    <2>10. RequestOK(r, n) /\ r.kind = "logout"
      BY LogoutOK
    <2> HIDE DEF v, r
    <2>11. QED
      BY <1>1, <2>1, <2>8, <2>9, <2>10, LogoutFollows DEF c, n
  <1>5. CASE code \notin {"mustChange", "forbidden"} /\ ~ (code = "session" /\ ~ tab.latch)
    <2>1. Finishes(s, tab)
      BY <1>5 DEF Fails
    <2>2. QED
      BY <1>1, <2>1, FinishesOK DEF n
  <1>6. QED
    BY <1>2, <1>3, <1>4, <1>5

\* A login or a change that succeeds opens its session and navigates on.
LEMMA OpenedOK ==
    ASSUME IInv, NEW s \in Slots, requests[s] # Nil,
           requests[s].kind \in {"login", "change"},
           requests[s].answer # Nil, requests[s].answer.code = "ok",
           NEW remember \in BOOLEAN, NEW to \in Urls,
           Finishes(s, Navigate(Opens(tab, requests[s].answer.session, remember), to))
    PROVE  Pair(tab', requests', Len(issued))
  <1> DEFINE n == Len(issued)
             session == requests[s].answer.session
             u == Opens(tab, session, remember)
             v == Navigate(u, to)
  <1>1. /\ TabOK(tab, n) /\ Pair(tab, requests, n) /\ n \in Nat /\ n <= MaxTokens
    BY CountFacts
  <1>2. session \in Session /\ session.token \in 1 .. n
    <2>1. RequestOK(requests[s], n) /\ requests[s] \in Request
      BY RequestFacts
    <2>2. requests[s].answer \in Answer
      BY <2>1 DEF Request
    <2>3. session # Nil /\ session.token \in 1 .. n
      BY <2>1 DEF RequestOK, AnswerOK
    <2>4. QED
      BY <2>2, <2>3 DEF Answer
  <1> HIDE DEF n, session
  <1>3. TabOK(u, n) /\ u.loading = tab.loading /\ u.latch = FALSE
    <2>1. JustOpened(tab, u, n)
      BY <1>1, <1>2, OpensOK
    <2>2. QED
      BY <2>1 DEF JustOpened
  <1>4. Finishes(s, v)
    BY DEF session
  <1> HIDE DEF u
  <1>5. Moved(u, v)
    BY <1>3, NavigateMoves DEF TabOK
  <1> HIDE DEF v
  <1>6. TabOK(v, n) /\ v.loading = tab.loading /\ v.latch = FALSE
    BY <1>3, <1>5, MovedOK DEF Moved
  <1>7. QED
    BY <1>1, <1>4, <1>6, FinishesOK DEF n

LEMMA LoggedInOK ==
    ASSUME IInv, NEW s \in Slots, requests[s] # Nil, requests[s].answer # Nil, LoggedIn(s)
    PROVE  Pair(tab', requests', Len(issued))
  <1> DEFINE r == requests[s]
             t == Opens(tab, r.answer.session, r.remember)
             to == PostLogin(t, IF r.here THEN tab.at.back ELSE r.back)
  <1>1. r \in Request /\ r.kind = "login"
    BY RequestFacts DEF LoggedIn
  <1>2. CASE r.answer.code # "ok"
    BY <1>1, <1>2, FailsOK DEF LoggedIn
  <1>3. CASE r.answer.code = "ok"
    <2>1. Finishes(s, Navigate(t, to))
      BY <1>3 DEF LoggedIn
    <2>2. tab.at.back \in Pages \union {Nil} /\ r.back \in Pages \union {Nil}
      BY <1>1, CountFacts, PageFacts DEF Tab, Request
    <2>3. to \in Urls
      BY <2>2, PageFacts
    <2>4. r.remember \in BOOLEAN
      BY <1>1 DEF Request
    <2>5. QED
      BY <1>1, <1>3, <2>1, <2>3, <2>4, OpenedOK
  <1>4. QED
    BY <1>2, <1>3

LEMMA PasswordChangedOK ==
    ASSUME IInv, NEW s \in Slots, requests[s] # Nil, requests[s].answer # Nil,
           PasswordChanged(s)
    PROVE  Pair(tab', requests', Len(issued))
  <1> DEFINE r == requests[s]
             t == Opens(tab, r.answer.session, StoredInLocal(tab))
  <1>1. r.kind = "change"
    BY DEF PasswordChanged
  <1>2. CASE r.answer.code # "ok"
    BY <1>1, <1>2, FailsOK DEF PasswordChanged
  <1>3. CASE r.answer.code = "ok"
    <2>1. Finishes(s, Navigate(t, PostLogin(t, Nil)))
      BY <1>3 DEF PasswordChanged
    <2>2. PostLogin(t, Nil) \in Urls
      BY PageFacts
    <2>3. StoredInLocal(tab) \in BOOLEAN
      BY DEF StoredInLocal
    <2>4. QED
      BY <1>1, <1>3, <2>1, <2>2, <2>3, OpenedOK
  <1>4. QED
    BY <1>2, <1>3

LEMMA ValidatedOK ==
    ASSUME IInv, NEW s \in Slots, requests[s] # Nil, requests[s].answer # Nil, Validated(s)
    PROVE  Pair(tab', requests', Len(issued))
  <1> DEFINE n == Len(issued)
             r == requests[s]
             session == r.answer.session
             gone == ClearSessionState(tab)
  <1>1. /\ TabOK(tab, n) /\ Pair(tab, requests, n) /\ r.kind = "validate"
    BY CountFacts DEF Validated
  <1>2. RequestOK(r, n) /\ r \in Request /\ r.answer \in Answer
    BY RequestFacts DEF Request
  <1>3. /\ TabOK(gone, n) /\ gone.loading = tab.loading /\ gone.latch = tab.latch
    BY <1>1, ClearOK
  <1>4. CASE r.answer.code = "ok"
    <2> DEFINE u == Revalidated(tab, session, r.token)
               v == LoginGuardDone(u, s, TRUE)
    <2>1. Finishes(s, v)
      BY <1>4 DEF Validated, Revalidated
    <2>2. session # Nil /\ session.token = r.token
      BY <1>1, <1>2, <1>4 DEF RequestOK, AnswerOK
    <2>3. session \in Session
      BY <1>2, <2>2 DEF Answer
    <2>4. TabOK(u, n) /\ u.loading = tab.loading /\ u.latch = FALSE
      BY <1>1, <2>2, <2>3, RevalidatedOK
    <2> HIDE DEF u
    <2>5. Moved(u, v)
      BY <2>4, LoginGuardMoves DEF TabOK
    <2> HIDE DEF v
    <2>6. TabOK(v, n) /\ v.loading = tab.loading /\ v.latch = FALSE
      BY <2>4, <2>5, MovedOK DEF Moved
    <2>7. QED
      BY <1>1, <2>1, <2>6, FinishesOK
  <1>5. CASE r.answer.code # "ok" /\ r.had
    <2> DEFINE e == Loaded(gone, Ended(gone.loading))
               v == Loaded(e, Begun(e.loading))
               q == Logout("validation")
               c == Cardinality(Busy(requests))
    <2>1. Becomes(v, [requests EXCEPT ![s] = q])
      BY <1>5 DEF Validated, Ends, Begins, Loaded
    <2>2. c \in Nat \ {0}
      <3>1. s \in Busy(requests)
        BY DEF Busy
      <3>2. Cardinality(Busy(requests)) # 0
        BY <3>1, BusyFacts, FS_EmptySet
      <3>3. QED
        BY <3>2, BusyFacts
    <2>3. IndicatorOK(gone.loading, c)
      BY <1>1, <1>3 DEF Pair
    <2> HIDE DEF c, gone
    <2>4. IndicatorOK(Ended(gone.loading), c - 1) /\ c - 1 \in Nat
      BY <2>2, <2>3, IndicatorEnds
    <2>5. TabOK(e, n) /\ e.loading = Ended(gone.loading)
      BY <1>3, <2>4, LoadedOK DEF IndicatorOK
    <2> HIDE DEF e
    <2>6. IndicatorOK(Begun(e.loading), (c - 1) + 1)
      BY <2>4, <2>5, IndicatorBegins
    <2>7. TabOK(v, n) /\ v.loading = Begun(e.loading)
      BY <2>5, <2>6, LoadedOK DEF IndicatorOK
    <2>8. IndicatorOK(v.loading, c)
      <3>1. (c - 1) + 1 = c
        BY <2>2
      <3>2. QED
        BY <2>6, <2>7, <3>1
    <2>9. RequestOK(q, n) /\ q.kind = "logout"
      BY LogoutOK
    <2> HIDE DEF v, q
    <2>10. QED
      BY <1>1, <2>1, <2>7, <2>8, <2>9, LogoutFollows DEF c
  <1>6. CASE r.answer.code # "ok" /\ ~ r.had
    <2> DEFINE v == LoginGuardDone(gone, s, FALSE)
    <2>1. Finishes(s, v)
      BY <1>6 DEF Validated
    <2> HIDE DEF gone
    <2>2. Moved(gone, v)
      BY <1>3, LoginGuardMoves DEF TabOK
    <2> HIDE DEF v
    <2>3. TabOK(v, n) /\ v.loading = tab.loading /\ v.latch = tab.latch
      BY <1>3, <2>2, MovedOK DEF Moved
    <2>4. QED
      BY <1>1, <2>1, <2>3, FinishesOK
  <1>7. QED
    BY <1>4, <1>5, <1>6

\* What waits for a logout goes on, in the tab t that the logout leaves.
LEMMA LogoutGoesOn ==
    ASSUME NEW s, NEW t \in Tab
    PROVE  Moved(t, LogoutDone(s, t))
  <1>1. Moved(t, t)
    BY DEF Moved
  <1>2. Url("login") \in Urls
    BY PageFacts DEF Pages, LoginPages
  <1>3. Moved(t, Navigate(t, Url("login")))
    BY <1>2, NavigateMoves
  <1>4. QED
    BY <1>1, <1>3, LoginGuardMoves DEF LogoutDone

LEMMA LoggedOutEnds ==
    ASSUME IInv, NEW s \in Slots, requests[s] # Nil, LoggedOut(s)
    PROVE  Pair(tab', requests', Len(issued))
  <1> DEFINE n == Len(issued)
             u == LoggedOutTab(tab)
             v == LogoutDone(s, u)
  <1>1. TabOK(tab, n) /\ Pair(tab, requests, n)
    BY CountFacts
  <1>2. Finishes(s, v)
    BY DEF LoggedOut, LoggedOutTab
  <1>3. TabOK(u, n) /\ u.loading = tab.loading /\ u.latch = FALSE
    BY <1>1, LoggedOutOK
  <1> HIDE DEF u
  <1>4. Moved(u, v)
    BY <1>3, LogoutGoesOn DEF TabOK
  <1> HIDE DEF v
  <1>5. TabOK(v, n) /\ v.loading = tab.loading /\ v.latch = FALSE
    BY <1>3, <1>4, MovedOK DEF Moved
  <1>6. QED
    BY <1>1, <1>2, <1>5, FinishesOK

LEMMA DeliverInv ==
    ASSUME IInv, NEW s \in Slots, Deliver(s)
    PROVE  IInv'
  <1>1. /\ requests[s] # Nil /\ requests[s].answer # Nil
        /\ UNCHANGED Server /\ UNCHANGED steps
    BY DEF Deliver
  <1>2. ASSUME Protected(s)
        PROVE  Pair(tab', requests', Len(issued))
    BY <1>1, <1>2, FailsOK DEF Protected
  <1>3. Pair(tab', requests', Len(issued))
    BY <1>1, <1>2, LoggedInOK, PasswordChangedOK, ValidatedOK, LoggedOutEnds DEF Deliver
  <1>4. QED
    BY <1>1, <1>3, CountFacts, SameServer

\* What a lost request leaves of the tab: its session, and the latch only if it was
\* no logout.
LEMMA LoseKeeps ==
    ASSUME IInv, NEW s \in Slots, Lose(s)
    PROVE  \E v : /\ Finishes(s, v) /\ TabOK(v, Len(issued))
                  /\ v.session = tab.session /\ v.loading = tab.loading
                  /\ v.latch => tab.latch /\ requests[s].kind # "logout"
  <1> DEFINE n == Len(issued)
             r == requests[s]
  <1>1. TabOK(tab, n) /\ tab \in Tab
    BY CountFacts
  <1>2. PICK down \in BOOLEAN : Finishes(s, Abandoned(s, Lowered(tab, down)))
    <2>1. PICK down \in {TRUE, r.kind # "validate" \/ tab.down} :
            Finishes(s, Abandoned(s, [tab EXCEPT !.down = down]))
      BY DEF Lose
    <2>2. (r.kind # "validate" \/ tab.down) \in BOOLEAN
      OBVIOUS
    <2>3. down \in BOOLEAN
      BY <2>1, <2>2
    <2>4. QED
      BY <2>1, <2>3 DEF Lowered
  <1> DEFINE t == Lowered(tab, down)
             v == Abandoned(s, t)
  <1>3. /\ TabOK(t, n) /\ t \in Tab /\ t.session = tab.session
        /\ t.loading = tab.loading /\ t.latch = tab.latch
    <2>1. Moved(tab, t)
      BY <1>1, LoweredMoves
    <2>2. QED
      BY <1>1, <2>1, MovedOK DEF Moved
  <1>4. Finishes(s, v)
    BY <1>2
  <1> HIDE DEF t
  <1>5. CASE r.kind = "logout"
    <2> DEFINE u == Release(t)
    <2>1. v = LogoutDone(s, u)
      BY <1>5 DEF Abandoned
    <2>2. TabOK(u, n) /\ u.loading = tab.loading /\ u.latch = FALSE
      BY <1>3, ReleaseOK
    <2>3. u.session = tab.session
      BY <1>3 DEF Release, Tab
    <2> HIDE DEF u
    <2>4. Moved(u, v)
      BY <2>1, <2>2, LogoutGoesOn DEF TabOK
    <2>5. TabOK(v, n) /\ v.session = tab.session /\ v.loading = tab.loading /\ v.latch = FALSE
      BY <2>2, <2>3, <2>4, MovedOK DEF Moved
    <2> HIDE DEF v
    <2>6. QED
      BY <1>4, <2>5
  <1>6. CASE r.kind # "logout"
    <2>1. v = LoginGuardDone(t, s, FALSE) \/ v = t
      <3>1. CASE r.kind = "validate"
        BY <3>1 DEF Abandoned
      <3>2. CASE r.kind # "validate"
        BY <3>2, <1>6 DEF Abandoned
      <3>3. QED
        BY <3>1, <3>2
    <2>2. Moved(t, LoginGuardDone(t, s, FALSE)) /\ Moved(t, t)
      <3>1. Moved(t, t)
        BY <1>3 DEF Moved
      <3>2. QED
        BY <3>1, <1>3, LoginGuardMoves
    <2>3. Moved(t, v)
      BY <2>1, <2>2
    <2>4. TabOK(v, n) /\ v.session = tab.session /\ v.loading = tab.loading /\ v.latch = tab.latch
      BY <1>3, <2>3, MovedOK DEF Moved
    <2> HIDE DEF v
    <2>5. QED
      BY <1>4, <1>6, <2>4
  <1>7. QED
    BY <1>5, <1>6

LEMMA LoseInv ==
    ASSUME IInv, NEW s \in Slots, Lose(s)
    PROVE  IInv'
  <1>1. requests[s] # Nil /\ UNCHANGED Server /\ UNCHANGED steps
    BY DEF Lose
  <1>2. PICK v : /\ Finishes(s, v) /\ TabOK(v, Len(issued)) /\ v.loading = tab.loading
                 /\ v.latch => tab.latch /\ requests[s].kind # "logout"
    BY LoseKeeps
  <1>3. Pair(tab', requests', Len(issued))
    BY <1>1, <1>2, CountFacts, FinishesOK
  <1>4. QED
    BY <1>1, <1>3, CountFacts, SameServer

LEMMA TimerInv ==
    ASSUME IInv, ShowTimer \/ HideTimer
    PROVE  IInv'
  <1> DEFINE n == Len(issued)
             c == Cardinality(Busy(requests))
  <1>1. PICK l \in {Shown(tab.loading), Hidden(tab.loading)} : tab' = Loaded(tab, l)
    BY DEF ShowTimer, HideTimer, Loaded
  <1>2. UNCHANGED <<requests, Server, steps>>
    BY DEF ShowTimer, HideTimer
  <1>3. TabOK(tab, n) /\ Pair(tab, requests, n)
    BY CountFacts
  <1>4. IndicatorOK(l, c)
    BY <1>1, <1>3, BusyFacts, TimersEnd DEF Pair
  <1>5. TabOK(tab', n) /\ tab'.loading = l /\ tab'.latch = tab.latch
    BY <1>1, <1>3, <1>4, LoadedOK DEF IndicatorOK
  <1>6. Pair(tab', requests', n)
    BY <1>2, <1>3, <1>4, <1>5 DEF Pair
  <1>7. QED
    BY <1>2, <1>6, CountFacts, SameServer

THEOREM NextIInv == IInv /\ [Next]_vars => IInv'
  <1> SUFFICES ASSUME IInv, [Next]_vars
               PROVE  IInv'
    OBVIOUS
  <1>1. CASE Guard
    BY <1>1, GuardInv
  <1>2. CASE User
    BY <1>2, GotoInv, SubmitLoginInv, SubmitChangeInv, LogOutInv, ContinueInv, GoAnywayInv,
       AskInv, ReloadInv DEF User
  <1>3. CASE Others
    BY <1>3, RevokeInv, OtherTabLogsInInv, OtherTabLogsOutInv DEF Others
  <1>4. CASE ShowTimer \/ HideTimer
    BY <1>4, TimerInv
  <1>5. ASSUME NEW s \in Slots, Serve(s)
        PROVE  IInv'
    BY <1>5, ServeLoginInv, ServeChangeInv, ServeOtherInv DEF Serve
  <1>6. ASSUME NEW s \in Slots, Deliver(s) \/ Lose(s)
        PROVE  IInv'
    BY <1>6, DeliverInv, LoseInv
  <1>7. CASE UNCHANGED vars
    BY <1>7 DEF vars, IInv, ServerOK
  <1>8. QED
    BY <1>1, <1>2, <1>3, <1>4, <1>5, <1>6, <1>7 DEF Next

\* In every reachable state the tab, its requests and the tokens of the server
\* agree.
THEOREM TabStaysConsistent == Spec => []IInv
  <1>1. IInv /\ [Next]_vars => IInv'
    BY NextIInv
  <1>2. QED
    BY <1>1, InitIInv, PTL DEF Spec

-----------------------------------------------------------------------------
(* Why a session that the server accepts may end.  An answer about it can only *)
(* be one that the server has given about another token, or refused for its    *)
(* CSRF token: what every answer under way says stays true until it arrives.   *)

\* What an answer of the request r says of the server's tokens.
Grounded(r, rows) ==
    /\ r.answer.code = "session" => \/ r.token = Nil
                                    \/ ~ rows[r.token].live
                                    \/ r.unsafe /\ r.csrf # r.token
    /\ r.kind = "change" /\ r.answer.code = "ok" => r.token # Nil /\ ~ rows[r.token].live
    /\ r.kind = "validate" => r.answer.code \in {"ok", "session"}

Answered(r) == r # Nil /\ r.answer # Nil

AnswersGrounded == \A s \in Slots : Answered(requests[s]) => Grounded(requests[s], issued)

\* The same request with the same answer.
SameAsked(r, q) ==
    /\ q.kind = r.kind /\ q.answer = r.answer /\ q.token = r.token
    /\ q.unsafe = r.unsafe /\ q.csrf = r.csrf

\* A step that answers nothing.
Quiet ==
    \A s \in Slots : Answered(requests'[s]) =>
                       Answered(requests[s]) /\ SameAsked(requests[s], requests'[s])

\* A token that is dead stays so.
DeadStay ==
    \A t \in 1 .. Len(issued) : issued'[t].live => issued[t].live

LEMMA LeftSame ==
    ASSUME NEW r \in Request
    PROVE  SameAsked(r, Left(r)) /\ Left(r) # Nil
  <1> DEFINE u == [r EXCEPT !.here = FALSE]
  <1>1. /\ u \in Request /\ u.kind = r.kind /\ u.token = r.token /\ u.answer = r.answer
        /\ u.unsafe = r.unsafe /\ u.csrf = r.csrf
    BY ZenonT(40) DEF Request
  <1> HIDE DEF u
  <1>2. Left(r) \in {r, u}
    BY DEF Left, u
  <1>3. QED
    BY <1>1, <1>2 DEF SameAsked

LEMMA RequestsTyped ==
    ASSUME IInv, NEW s \in Slots, requests[s] # Nil
    PROVE  /\ requests[s] \in Request
           /\ requests[s].token \in {Nil} \union 1 .. Len(issued)
           /\ requests[s].kind = "login" => requests[s].token = Nil
  BY DEF IInv, Pair, RequestsOK, RequestOK

LEMMA BecomesQuiet ==
    ASSUME IInv, NEW t, NEW rs, Becomes(t, rs),
           \A s \in Slots : \/ rs[s] \in {requests[s], Nil}
                            \/ rs[s].answer = Nil /\ Left(rs[s]).answer = Nil
    PROVE  Quiet
  <1> SUFFICES ASSUME NEW s \in Slots, Answered(requests'[s])
               PROVE  Answered(requests[s]) /\ SameAsked(requests[s], requests'[s])
    BY DEF Quiet
  <1>1. requests'[s] \in {rs[s], Left(rs[s])}
    BY DEF Becomes
  <1>2. rs[s] = requests[s] /\ requests[s] # Nil
    <2>1. rs[s] # Nil
      BY <1>1 DEF Answered, Left
    <2>2. ~ (rs[s].answer = Nil /\ Left(rs[s]).answer = Nil)
      BY <1>1 DEF Answered
    <2>3. QED
      BY <2>1, <2>2
  <1>3. SameAsked(requests[s], requests[s]) /\ SameAsked(requests[s], Left(requests[s]))
    BY <1>2, RequestsTyped, LeftSame DEF SameAsked
  <1>4. SameAsked(requests[s], requests'[s])
    BY <1>1, <1>2, <1>3
  <1>5. QED
    BY <1>2, <1>4 DEF Answered, SameAsked

LEMMA MovesQuiet ==
    ASSUME IInv, NEW t, Becomes(t, requests)
    PROVE  Quiet
  BY BecomesQuiet

\* A request that ends, or makes room for a logout, answers nothing.
LEMMA ReplacesQuiet ==
    ASSUME IInv, NEW t, NEW s \in Slots,
           \/ Becomes(t, [requests EXCEPT ![s] = Nil])
           \/ \E after : Becomes(t, [requests EXCEPT ![s] = Logout(after)])
    PROVE  Quiet
  <1>1. requests \in [Slots -> Request \union {Nil}]
    BY DEF IInv, Pair, RequestsOK
  <1>2. \A after : Logout(after).answer = Nil /\ Left(Logout(after)).answer = Nil
    BY DEF Logout, Public, Left
  <1>3. CASE Becomes(t, [requests EXCEPT ![s] = Nil])
    <2>1. \A q \in Slots : [requests EXCEPT ![s] = Nil][q] \in {requests[q], Nil}
      BY <1>1
    <2>2. QED
      BY <1>3, <2>1, BecomesQuiet
  <1>4. ASSUME NEW after, Becomes(t, [requests EXCEPT ![s] = Logout(after)])
        PROVE  Quiet
    <2> DEFINE r == Logout(after)
    <2>1. r.answer = Nil /\ Left(r).answer = Nil
      BY <1>2
    <2>2. Becomes(t, [requests EXCEPT ![s] = r])
      BY <1>4
    <2> HIDE DEF r
    <2>3. \A q \in Slots : [requests EXCEPT ![s] = r][q] = IF q = s THEN r ELSE requests[q]
      BY <1>1
    <2>4. QED
      BY <2>1, <2>2, <2>3, BecomesQuiet
  <1>5. QED
    BY <1>3, <1>4

LEMMA SendsQuiet ==
    ASSUME IInv, NEW t, NEW r, Sends(t, r), r.answer = Nil, Left(r).answer = Nil
    PROVE  Quiet
  <1> DEFINE m == Min(Slots \ UnderWay)
  <1>1. Becomes(Begins(t), [requests EXCEPT ![m] = r])
    BY DEF Sends
  <1> HIDE DEF m
  <1>2. requests \in [Slots -> Request \union {Nil}]
    BY DEF IInv, Pair, RequestsOK
  <1>3. \A q \in Slots : [requests EXCEPT ![m] = r][q] = IF q = m THEN r ELSE requests[q]
    BY <1>2
  <1>4. QED
    BY <1>1, <1>3, BecomesQuiet

LEMMA GuardQuiet ==
    ASSUME IInv, Guard
    PROVE  Quiet
  <1>1. CASE GuardProtected \/ GuardResetLink \/ Unguarded
    BY <1>1, GuardMoves, MovesQuiet DEF Guard
  <1>2. CASE GuardLogin
    <2> DEFINE r == [Authenticated("validate", FALSE) EXCEPT !.had = tab.session # Nil]
    <2>1. \E t : Sends(t, r)
      BY <1>2 DEF GuardLogin
    <2>2. r.answer = Nil /\ Left(r).answer = Nil
      BY DEF Authenticated, Public, Left
    <2> HIDE DEF r
    <2>3. QED
      BY <2>1, <2>2, SendsQuiet
  <1>3. QED
    BY <1>1, <1>2 DEF Guard

LEMMA UserQuiet ==
    ASSUME IInv, User
    PROVE  Quiet
  <1>1. CASE \/ \E page \in Visited : Goto(page)
             \/ ContinueToDashboard \/ GoToLoginAnyway
    BY <1>1, MovesQuiet DEF Goto, ContinueToDashboard, GoToLoginAnyway
  <1>2. ASSUME NEW acct \in Accounts, NEW remember \in BOOLEAN, SubmitLogin(acct, remember)
        PROVE  Quiet
    <2> DEFINE r == LoggingIn(acct, remember, tab.at.back)
    <2>1. Sends(tab, r)
      BY <1>2 DEF SubmitLogin, LoggingIn
    <2>2. r.answer = Nil /\ Left(r).answer = Nil
      BY DEF LoggingIn, Public, Left
    <2> HIDE DEF r
    <2>3. QED
      BY <2>1, <2>2, SendsQuiet
  <1>3. CASE SubmitChange
    <2> DEFINE r == Authenticated("change", TRUE)
    <2>1. Sends(tab, r)
      BY <1>3 DEF SubmitChange
    <2>2. r.answer = Nil /\ Left(r).answer = Nil
      BY DEF Authenticated, Public, Left
    <2> HIDE DEF r
    <2>3. QED
      BY <2>1, <2>2, SendsQuiet
  <1>4. CASE LogOut
    <2>1. PICK after \in {"nothing", "login"} : Sends(ClearSessionState(tab), Logout(after))
      BY <1>4 DEF LogOut
    <2>2. Logout(after).answer = Nil /\ Left(Logout(after)).answer = Nil
      BY DEF Logout, Public, Left
    <2>3. QED
      BY <2>1, <2>2, SendsQuiet
  <1>5. ASSUME NEW unsafe \in BOOLEAN, Ask(unsafe)
        PROVE  Quiet
    <2> DEFINE r == [Authenticated("protected", unsafe) EXCEPT !.page = tab.at.page]
    <2>1. Sends(tab, r)
      BY <1>5 DEF Ask
    <2>2. r.answer = Nil /\ Left(r).answer = Nil
      BY DEF Authenticated, Public, Left
    <2> HIDE DEF r
    <2>3. QED
      BY <2>1, <2>2, SendsQuiet
  <1>6. ASSUME NEW own, Reload(own)
        PROVE  Quiet
    BY <1>6 DEF Reload, Quiet, Answered
  <1>7. QED
    BY <1>1, <1>2, <1>3, <1>4, <1>5, <1>6 DEF User

LEMMA FailsQuiet ==
    ASSUME IInv, NEW s \in Slots, NEW code, Fails(s, code)
    PROVE  Quiet
  BY ReplacesQuiet DEF Fails, Finishes

LEMMA DeliverQuiet ==
    ASSUME IInv, NEW s \in Slots, Deliver(s)
    PROVE  Quiet
  <1>1. CASE LoggedIn(s)
    BY <1>1, FailsQuiet, ReplacesQuiet DEF LoggedIn, Finishes
  <1>2. CASE PasswordChanged(s)
    BY <1>2, FailsQuiet, ReplacesQuiet DEF PasswordChanged, Finishes
  <1>3. CASE Validated(s)
    BY <1>3, ReplacesQuiet DEF Validated, Finishes
  <1>4. CASE LoggedOut(s)
    BY <1>4, ReplacesQuiet DEF LoggedOut, Finishes
  <1>5. CASE Protected(s)
    BY <1>5, FailsQuiet DEF Protected
  <1>6. QED
    BY <1>1, <1>2, <1>3, <1>4, <1>5 DEF Deliver

LEMMA LoseQuiet ==
    ASSUME IInv, NEW s \in Slots, Lose(s)
    PROVE  Quiet
  <1>1. PICK v : Finishes(s, v)
    BY DEF Lose
  <1>2. QED
    BY <1>1, ReplacesQuiet DEF Finishes

LEMMA QuietGrounds ==
    ASSUME IInv, AnswersGrounded, Quiet, DeadStay
    PROVE  AnswersGrounded'
  <1> SUFFICES ASSUME NEW s \in Slots, Answered(requests'[s])
               PROVE  Grounded(requests'[s], issued')
    BY DEF AnswersGrounded, Answered
  <1> DEFINE r == requests[s]
             q == requests'[s]
  <1>1. Answered(r) /\ SameAsked(r, q)
    BY DEF Quiet
  <1>2. Grounded(r, issued) /\ r.token \in {Nil} \union 1 .. Len(issued)
    BY <1>1, RequestsTyped DEF AnswersGrounded, Answered
  <1>3. r.token # Nil /\ ~ issued[r.token].live => ~ issued'[r.token].live
    BY <1>2 DEF DeadStay
  <1> HIDE DEF r, q
  <1>4. Grounded(q, issued')
    BY <1>1, <1>2, <1>3 DEF SameAsked, Grounded
  <1>5. QED
    BY <1>4 DEF q

LEMMA RevokedDead ==
    ASSUME IInv, NEW acct, NEW t \in 1 .. Len(issued)
    PROVE  RevokedOf(acct)[t].live <=> issued[t].live /\ issued[t].acct # acct
  <1>1. issued \in Seq(TokenRows) /\ Tokens = 1 .. Len(issued)
    BY DEF IInv, ServerOK, TokenRows, Tokens
  <1> DEFINE row == issued[t]
  <1>2. row \in TokenRows
    BY <1>1
  <1>3. RevokedOf(acct)[t] = [row EXCEPT !.live = row.live /\ row.acct # acct]
    BY <1>1 DEF RevokedOf
  <1> HIDE DEF row
  <1>4. [row EXCEPT !.live = row.live /\ row.acct # acct].live <=> row.live /\ row.acct # acct
    BY <1>2 DEF TokenRows
  <1>5. QED
    BY <1>3, <1>4 DEF row

\* Another token issued leaves those there are.
LEMMA IssuedStay ==
    ASSUME IInv, NEW acct \in Accounts, NEW old \in Seq(TokenRows), Len(old) = Len(issued),
           issued' = Append(old, [acct |-> acct, live |-> TRUE])
    PROVE  \A t \in 1 .. Len(issued) : issued'[t] = old[t]
  <1> DEFINE row == [acct |-> acct, live |-> TRUE]
  <1>1. row \in TokenRows
    BY DEF TokenRows
  <1> HIDE DEF row
  <1>2. issued' = Append(old, row)
    BY DEF row
  <1>3. QED
    BY <1>1, <1>2

LEMMA IssueStays ==
    ASSUME IInv, NEW acct \in Accounts, Issue(acct)
    PROVE  DeadStay
  <1>1. issued \in Seq(TokenRows)
    BY DEF IInv, ServerOK, TokenRows
  <1>2. QED
    BY <1>1, IssuedStay DEF Issue, DeadStay

\* What the server finds wrong with a request is so.
LEMMA CodeGrounds ==
    ASSUME NEW r
    PROVE  /\ Code(r) = "session" => \/ r.token = Nil \/ ~ issued[r.token].live
                                     \/ r.unsafe /\ r.csrf # r.token
           /\ r.kind = "validate" => Code(r) \in {"ok", "session"}
  BY DEF Code

\* The answer that the server gives to request s says what is so after the step.
LEMMA AnswerGrounds ==
    ASSUME IInv, AnswersGrounded, DeadStay, NEW s \in Slots, requests[s] # Nil,
           NEW code, NEW session, Answers(s, code, session),
           LET r == requests[s]
           IN  /\ code = "session" => \/ r.token = Nil \/ ~ issued'[r.token].live
                                      \/ r.unsafe /\ r.csrf # r.token
               /\ r.kind = "change" /\ code = "ok" => r.token # Nil /\ ~ issued'[r.token].live
               /\ r.kind = "validate" => code \in {"ok", "session"}
    PROVE  AnswersGrounded'
  <1> DEFINE answer == [code |-> code, session |-> session]
             r == [requests[s] EXCEPT !.answer = answer]
  <1>1. requests \in [Slots -> Request \union {Nil}]
    BY DEF IInv, Pair, RequestsOK
  <1>2. requests' = [requests EXCEPT ![s] = r]
    BY <1>1 DEF Answers
  <1>3. requests[s] \in Request
    BY RequestsTyped
  <1>4. answer.code = code
    OBVIOUS
  <1> HIDE DEF answer
  <1>5. /\ r.kind = requests[s].kind /\ r.token = requests[s].token /\ r.answer = answer
        /\ r.unsafe = requests[s].unsafe /\ r.csrf = requests[s].csrf
    BY <1>3 DEF Request
  <1> HIDE DEF r
  <1>6. Grounded(r, issued')
    BY <1>4, <1>5 DEF Grounded
  <1> SUFFICES ASSUME NEW q \in Slots, Answered(requests'[q])
               PROVE  Grounded(requests'[q], issued')
    BY DEF AnswersGrounded, Answered
  <1>7. CASE q = s
    BY <1>1, <1>2, <1>6, <1>7
  <1>8. CASE q # s
    <2>1. requests'[q] = requests[q]
      BY <1>1, <1>2, <1>8
    <2>2. Grounded(requests[q], issued) /\ requests[q].token \in {Nil} \union 1 .. Len(issued)
      BY <2>1, RequestsTyped DEF AnswersGrounded, Answered
    <2>3. requests[q].token # Nil /\ ~ issued[requests[q].token].live
            => ~ issued'[requests[q].token].live
      BY <2>2 DEF DeadStay
    <2>4. QED
      BY <2>1, <2>2, <2>3 DEF Grounded
  <1>9. QED
    BY <1>7, <1>8

LEMMA ServeGrounded ==
    ASSUME IInv, AnswersGrounded, NEW s \in Slots, Serve(s)
    PROVE  AnswersGrounded'
  <1> DEFINE r == requests[s]
  <1>1. /\ r # Nil /\ r \in Request
        /\ r.token \in {Nil} \union 1 .. Len(issued)
        /\ \A t \in 1 .. Len(issued) : issued[t].acct \in Accounts
    BY RequestsTyped, RequestFacts DEF Serve
  <1>2. UNCHANGED Server => DeadStay /\ issued' = issued
    BY DEF Server, DeadStay
  <1>3. CASE ServeLogin(s)
    <2>1. r.kind = "login" /\ r.acct \in Accounts
      BY <1>1, <1>3, RequestFacts DEF ServeLogin, RequestOK, Request
    <2>2. CASE Answers(s, "failed", Nil) /\ UNCHANGED Server
      BY <1>1, <1>2, <2>1, <2>2, AnswerGrounds
    <2>3. CASE Issue(r.acct) /\ Answers(s, "ok", NewSession(r.acct))
      <3>1. DeadStay
        BY <2>1, <2>3, IssueStays
      <3>2. QED
        BY <1>1, <2>1, <2>3, <3>1, AnswerGrounds
    <2>4. QED
      BY <1>3, <2>2, <2>3 DEF ServeLogin
  <1>4. CASE ServeChange(s)
    <2> DEFINE acct == issued[r.token].acct
    <2>1. r.kind = "change"
      BY <1>4 DEF ServeChange
    <2>2. CASE Code(r) # "ok" /\ Answers(s, Code(r), Nil) /\ UNCHANGED Server
      BY <1>1, <1>2, <2>1, <2>2, CodeGrounds, AnswerGrounds
    <2>3. CASE Answers(s, "failed", Nil) /\ UNCHANGED Server
      BY <1>1, <1>2, <2>1, <2>3, AnswerGrounds
    <2>4. CASE /\ Code(r) = "ok"
               /\ issued' = Append(RevokedOf(acct), [acct |-> acct, live |-> TRUE])
               /\ Answers(s, "ok", [NewSession(acct) EXCEPT !.must = FALSE])
      <3>1. r.token \in 1 .. Len(issued) /\ acct \in Accounts
        BY <1>1, <2>4, RequestFacts
      <3>2. RevokedOf(acct) \in Seq(TokenRows) /\ Len(RevokedOf(acct)) = Len(issued)
        BY <3>1, Revoking
      <3>3. \A t \in 1 .. Len(issued) : issued'[t] = RevokedOf(acct)[t]
        BY <2>4, <3>1, <3>2, IssuedStay
      <3>4. \A t \in 1 .. Len(issued) :
              issued'[t].live <=> issued[t].live /\ issued[t].acct # acct
        BY <3>3, RevokedDead
      <3>5. DeadStay
        BY <3>4 DEF DeadStay
      <3>6. r.token # Nil /\ ~ issued'[r.token].live
        BY <3>1, <3>4
      <3> DEFINE session == [NewSession(acct) EXCEPT !.must = FALSE]
      <3>7. Answers(s, "ok", session)
        BY <2>4
      <3> HIDE DEF session, acct
      <3>8. QED
        BY <1>1, <2>1, <3>5, <3>6, <3>7, AnswerGrounds
    <2>5. QED
      BY <1>4, <2>2, <2>3, <2>4 DEF ServeChange
  <1>5. CASE ServeOther(s)
    <2> DEFINE code == IF r.kind = "logout" THEN "ok" ELSE Code(r)
    <2>1. PICK session : Answers(s, code, session)
      BY <1>5 DEF ServeOther
    <2>2. UNCHANGED Server /\ r.kind \in {"validate", "protected", "logout"}
      BY <1>5 DEF ServeOther
    <2>3. code = "session" => \/ r.token = Nil \/ ~ issued[r.token].live
                              \/ r.unsafe /\ r.csrf # r.token
      BY CodeGrounds
    <2>4. r.kind = "validate" => code \in {"ok", "session"}
      BY CodeGrounds
    <2> HIDE DEF code
    <2>5. QED
      BY <1>1, <1>2, <2>1, <2>2, <2>3, <2>4, AnswerGrounds
  <1>6. QED
    BY <1>3, <1>4, <1>5 DEF Serve

THEOREM NextGrounded == IInv /\ AnswersGrounded /\ [Next]_vars => AnswersGrounded'
  <1> SUFFICES ASSUME IInv, AnswersGrounded, [Next]_vars
               PROVE  AnswersGrounded'
    OBVIOUS
  <1>1. UNCHANGED Server => DeadStay
    BY DEF Server, DeadStay
  <1>2. CASE Guard
    BY <1>1, <1>2, GuardQuiet, QuietGrounds DEF Guard
  <1>3. CASE User
    <2>1. UNCHANGED Server
      BY <1>3 DEF User, Goto, SubmitLogin, SubmitChange, LogOut, ContinueToDashboard,
                  GoToLoginAnyway, Ask, Reload
    <2>2. QED
      BY <1>1, <1>3, <2>1, UserQuiet, QuietGrounds
  <1>4. CASE Others
    <2>1. UNCHANGED requests
      BY <1>4 DEF Others, Revoke, OtherTabLogsIn, OtherTabLogsOut
    <2>2. Quiet
      BY <2>1 DEF Quiet, SameAsked
    <2>3. ASSUME NEW acct \in Accounts, Revoke(acct)
          PROVE  DeadStay
      BY <2>3, RevokedDead DEF Revoke, DeadStay
    <2>4. DeadStay
      BY <1>1, <1>4, <2>3, IssueStays DEF Others, OtherTabLogsIn, OtherTabLogsOut
    <2>5. QED
      BY <2>2, <2>4, QuietGrounds
  <1>5. CASE ShowTimer \/ HideTimer \/ UNCHANGED vars
    <2>1. UNCHANGED requests /\ UNCHANGED Server
      BY <1>5 DEF ShowTimer, HideTimer, vars, Server
    <2>2. Quiet
      BY <2>1 DEF Quiet, SameAsked
    <2>3. QED
      BY <1>1, <2>1, <2>2, QuietGrounds
  <1>6. ASSUME NEW s \in Slots, Deliver(s) \/ Lose(s)
        PROVE  AnswersGrounded'
    BY <1>1, <1>6, DeliverQuiet, LoseQuiet, QuietGrounds DEF Deliver, Lose
  <1>7. QED
    BY <1>2, <1>3, <1>4, <1>5, <1>6, ServeGrounded DEF Next

-----------------------------------------------------------------------------
(* What a step makes of the tab's session. *)

\* The session is gone, or another one.
SessionLost == tab'.session = Nil \/ tab'.session.token # tab.session.token

Cause(s) ==
    \/ requests[s].token # tab.session.token
    \/ /\ requests[s].answer.code = "session"
       /\ requests[s].unsafe /\ requests[s].csrf # requests[s].token

LEMMA FinishedSession ==
    ASSUME NEW s, NEW t \in Tab, Finishes(s, t)
    PROVE  tab'.session = t.session
  <1>1. tab' = Ends(t)
    BY DEF Finishes, Becomes
  <1>2. QED
    BY <1>1 DEF Ends, Tab

\* Of the errors, only a refusal of the session touches it.
LEMMA FailsSession ==
    ASSUME IInv, NEW s \in Slots, NEW code, Fails(s, code), tab.session # Nil, SessionLost
    PROVE  code = "session"
  <1>1. tab \in Tab /\ tab.session \in Session
    BY CountFacts DEF Tab
  <1>2. CASE code = "mustChange"
    <2> DEFINE session == [tab.session EXCEPT !.must = TRUE]
               u == PersistSession(tab, session, StoredInLocal(tab))
               v == Navigate(u, Url("firstAccess"))
    <2>1. session \in Session /\ session.token = tab.session.token
      BY <1>1 DEF Session
    <2>2. Finishes(s, v)
      BY <1>2 DEF Fails, MarkPasswordChangeRequired
    <2> HIDE DEF session
    <2>3. u \in Tab /\ u.session = session
      <3>1. StoredInLocal(tab) \in BOOLEAN
        BY DEF StoredInLocal
      <3>2. Persisted(tab, u, session)
        BY <1>1, <2>1, <3>1, PersistFacts
      <3>3. QED
        BY <3>2 DEF Persisted
    <2>4. Url("firstAccess") \in Urls
      BY PageFacts DEF Pages
    <2> HIDE DEF u
    <2>5. v \in Tab /\ v.session = session
      BY <2>3, <2>4, NavigateMoves DEF Moved
    <2> HIDE DEF v
    <2>6. tab'.session = session
      BY <2>2, <2>5, FinishedSession
    <2>7. QED
      BY <2>1, <2>6 DEF SessionLost
  <1>3. CASE code = "forbidden"
    <2> DEFINE v == Navigate(tab, Home(tab))
    <2>1. Finishes(s, v)
      BY <1>3 DEF Fails
    <2>2. v \in Tab /\ v.session = tab.session
      BY <1>1, PageFacts, NavigateMoves DEF Moved
    <2> HIDE DEF v
    <2>3. QED
      BY <2>1, <2>2, FinishedSession DEF SessionLost
  <1>4. CASE code \notin {"mustChange", "forbidden", "session"}
    <2>1. Finishes(s, tab)
      BY <1>4 DEF Fails
    <2>2. QED
      BY <1>1, <2>1, FinishedSession DEF SessionLost
  <1>5. QED
    BY <1>2, <1>3, <1>4

\* Every answer that ends or replaces a live session has its cause.
LEMMA DeliverForCause ==
    ASSUME IInv, AnswersGrounded, NEW s \in Slots, Deliver(s), Alive, SessionLost
    PROVE  Cause(s)
  <1> DEFINE r == requests[s]
  <1>1. /\ tab \in Tab /\ tab.session # Nil /\ tab.session \in Session
        /\ tab.session.token # Nil /\ issued[tab.session.token].live
    BY CountFacts DEF Alive, Tab, Session
  <1>2. /\ r \in Request /\ r.answer \in Answer /\ Grounded(r, issued)
        /\ r.kind = "login" => r.token = Nil
    BY RequestsTyped DEF Deliver, Request, AnswersGrounded, Answered
  <1>3. r.answer.code = "session" => Cause(s)
    BY <1>1, <1>2 DEF Grounded, Cause
  <1>4. CASE LoggedIn(s)
    BY <1>1, <1>2, <1>4 DEF LoggedIn, Cause
  <1>5. CASE PasswordChanged(s)
    <2>1. r.kind = "change"
      BY <1>5 DEF PasswordChanged
    <2>2. CASE r.answer.code = "ok"
      BY <1>1, <1>2, <2>1, <2>2 DEF Grounded, Cause
    <2>3. CASE r.answer.code # "ok"
      BY <1>1, <1>3, <1>5, <2>3, FailsSession DEF PasswordChanged
    <2>4. QED
      BY <2>2, <2>3
  <1>6. CASE Validated(s)
    <2> DEFINE session == r.answer.session
               u == Revalidated(tab, session, r.token)
               v == LoginGuardDone(u, s, TRUE)
    <2>1. r.kind = "validate"
      BY <1>6 DEF Validated
    <2>2. CASE r.answer.code = "ok"
      <3>1. Finishes(s, v)
        BY <1>6, <2>2 DEF Validated, Revalidated
      <3>2. session # Nil /\ session.token = r.token /\ session \in Session
        <4>1. AnswerOK(r, Len(issued))
          BY RequestFacts DEF Deliver, RequestOK
        <4>2. QED
          BY <1>2, <2>1, <2>2, <4>1 DEF AnswerOK, Answer
      <3>3. TabOK(u, Len(issued)) /\ u.session = session
        <4>1. TabOK(u, Len(issued))
          BY <3>2, CountFacts, RevalidatedOK
        <4> DEFINE p == PersistSession(tab, session, StoredInLocal(tab))
        <4>2. StoredInLocal(tab) \in BOOLEAN
          BY DEF StoredInLocal
        <4>3. Persisted(tab, p, session)
          BY <1>1, <3>2, <4>2, PersistFacts
        <4>4. u = [p EXCEPT !.mixed = r.token # tab.cookie]
          BY DEF Revalidated
        <4> HIDE DEF p, u
        <4>5. u.session = session
          BY <4>3, <4>4 DEF Persisted, Tab
        <4>6. QED
          BY <4>1, <4>5
      <3> HIDE DEF u
      <3>4. Moved(u, v)
        BY <3>3, LoginGuardMoves DEF TabOK
      <3> HIDE DEF v
      <3>5. tab'.session = session
        BY <3>1, <3>3, <3>4, FinishedSession DEF Moved
      <3>6. QED
        BY <3>2, <3>5 DEF SessionLost, Cause
    <2>3. CASE r.answer.code # "ok"
      BY <1>2, <1>3, <2>1, <2>3 DEF Grounded
    <2>4. QED
      BY <2>2, <2>3
  <1>7. CASE LoggedOut(s)
    <2> DEFINE u == LoggedOutTab(tab)
               v == LogoutDone(s, u)
    <2>1. Finishes(s, v)
      BY <1>7 DEF LoggedOut, LoggedOutTab
    <2>2. u \in Tab
      BY CountFacts, LoggedOutOK DEF TabOK
    <2>3. u.session = tab.session
      BY <1>1 DEF LoggedOutTab, Release, Tab
    <2> HIDE DEF u
    <2>4. v \in Tab /\ v.session = tab.session
      BY <2>2, <2>3, LogoutGoesOn DEF Moved
    <2> HIDE DEF v
    <2>5. QED
      BY <1>1, <2>1, <2>4, FinishedSession DEF SessionLost
  <1>8. CASE Protected(s)
    BY <1>1, <1>3, <1>8, FailsSession DEF Protected
  <1>9. QED
    BY <1>4, <1>5, <1>6, <1>7, <1>8 DEF Deliver

\* The guards, the server's answers, the timers and a lost request leave it.
LEMMA OthersKeepSession ==
    ASSUME IInv, \/ Guard \/ ShowTimer \/ HideTimer \/ UNCHANGED vars
                 \/ \E s \in Slots : Serve(s) \/ Lose(s)
    PROVE  tab'.session = tab.session
  <1>1. tab \in Tab
    BY CountFacts
  <1>2. CASE Guard
    <2>1. CASE GuardProtected \/ GuardResetLink \/ Unguarded
      <3>1. PICK u : Moved(tab, u) /\ Becomes(u, requests)
        BY <1>2, <2>1, GuardMoves DEF Guard
      <3>2. QED
        BY <3>1 DEF Moved, Becomes
    <2>2. CASE GuardLogin
      <3> DEFINE m == Min(Slots \ UnderWay)
                 t == [tab EXCEPT !.nav.waits = m]
      <3>1. tab' = Begins(t)
        BY <2>2 DEF GuardLogin, Sends, Becomes
      <3> HIDE DEF m
      <3>2. QED
        BY <1>1, <3>1 DEF Begins, Tab
    <2>3. QED
      BY <1>2, <2>1, <2>2 DEF Guard
  <1>3. CASE ShowTimer \/ HideTimer \/ UNCHANGED vars
    BY <1>1, <1>3 DEF ShowTimer, HideTimer, vars, Tab
  <1>4. ASSUME NEW s \in Slots, Serve(s)
        PROVE  tab' = tab
    BY <1>4 DEF Serve, ServeLogin, ServeChange, ServeOther, Answers
  <1>5. ASSUME NEW s \in Slots, Lose(s)
        PROVE  tab'.session = tab.session
    BY <1>5, LoseKeeps, FinishedSession DEF TabOK
  <1>6. QED
    BY <1>2, <1>3, <1>4, <1>5

\* A step that neither the user nor anybody else takes, and that takes a live
\* session away, delivers an answer with a cause.
LEMMA StepForCause ==
    ASSUME IInv, AnswersGrounded, [Next]_vars, Alive, steps' = steps, SessionLost
    PROVE  \E s \in UnderWay : Deliver(s) /\ Cause(s)
  <1>1. steps \in Nat
    BY DEF IInv
  <1>2. ~ Acts
    BY <1>1 DEF Acts
  <1>3. ~ User /\ ~ Others
    BY <1>2 DEF User, Others, Goto, SubmitLogin, SubmitChange, LogOut, ContinueToDashboard,
                GoToLoginAnyway, Ask, Reload, Revoke, OtherTabLogsIn, OtherTabLogsOut
  <1>4. tab'.session # tab.session
    BY DEF SessionLost, Alive
  <1>5. PICK s \in Slots : Deliver(s)
    BY <1>3, <1>4, OthersKeepSession DEF Next
  <1>6. s \in UnderWay
    BY <1>5 DEF Deliver, UnderWay
  <1>7. QED
    BY <1>5, <1>6, DeliverForCause

-----------------------------------------------------------------------------
(* The properties. *)

\* Type correctness: every URL is one of the application's, and every token one
\* that the server has issued.
THEOREM TypeCorrect == Spec => []TypeOK
  <1>1. IInv => TypeOK
    <2> SUFFICES ASSUME IInv
                 PROVE  TypeOK
      OBVIOUS
    <2>1. tab \in Tab /\ requests \in [Slots -> Request \union {Nil}]
      BY DEF IInv, Pair, TabOK, RequestsOK
    <2>2. issued \in Seq(TokenRows) /\ Len(issued) <= MaxTokens
      BY DEF IInv, ServerOK, TokenRows
    <2>3. \A t \in Tokens : t <= MaxTokens /\ issued[t] \in TokenRows
      BY <2>2 DEF Tokens
    <2>4. QED
      BY <2>1, <2>3 DEF IInv, ServerOK, TokenRows, TypeOK
  <1>2. QED
    BY <1>1, TabStaysConsistent, PTL

\* However a logout ends, the latch it was begun with is released: the next expired
\* session is handled.
THEOREM LatchEnds == Spec => []LatchIsReleased
  <1>1. IInv => LatchIsReleased
    BY DEF IInv, Pair, LatchIsReleased, UnderWay, Busy
  <1>2. QED
    BY <1>1, TabStaysConsistent, PTL

\* The session shown, the stored copy and the cookie are of one token, whatever
\* answers arrive in whatever order.
THEOREM SessionStaysInStep == Spec => []SessionInStep
  <1>1. IInv => SessionInStep
    BY DEF IInv, Pair, TabOK, SessionOK, SessionInStep
  <1>2. QED
    BY <1>1, TabStaysConsistent, PTL

\* The indicator counts the requests under way, and never stays behind them.
THEOREM IndicatorIsRight == Spec => []IndicatorFollows
  <1>1. IInv => IndicatorFollows
    BY DEF IInv, Pair, IndicatorOK, IndicatorFollows, UnderWay, Busy
  <1>2. QED
    BY <1>1, TabStaysConsistent, PTL

\* A session that the server accepts ends without the user or another tab only by
\* the answer to a request with another cookie, or with a CSRF token not its own:
\* neither a lost request nor a refusal of anything else takes it away.
THEOREM LiveSessionsAreKept == Spec => LiveSessionsEndForCause
  <1>1. Init => AnswersGrounded
    BY DEF Init, AnswersGrounded, Answered
  <1>2. IInv /\ AnswersGrounded /\ [Next]_vars => AnswersGrounded'
    BY NextGrounded
  <1>3. IInv /\ AnswersGrounded /\ [Next]_vars
          => [Alive /\ steps' = steps
                /\ (tab'.session = Nil \/ tab'.session.token # tab.session.token)
              => \E s \in UnderWay :
                   /\ Deliver(s)
                   /\ \/ requests[s].token # tab.session.token
                      \/ /\ requests[s].answer.code = "session"
                         /\ requests[s].unsafe /\ requests[s].csrf # requests[s].token]_vars
    BY StepForCause DEF SessionLost, Cause
  <1>4. QED
    BY <1>1, <1>2, <1>3, TabStaysConsistent, PTL DEF Spec, LiveSessionsEndForCause
=============================================================================
