--------------------------- MODULE ListPages_proofs ---------------------------
(***************************************************************************)
(* Proofs of the safety properties of ListPages and CachedList, for every  *)
(* set of services, filters and pages, every cooldown and every bound.      *)
(***************************************************************************)
EXTENDS ListPages, TLAPS

USE NilAssumption, CooldownAssumption

-----------------------------------------------------------------------------
(* One cell of a cache, whose resource has changed v times on the server.   *)

\* Nothing is under way, or one request, which is in flight: what the server
\* has read for it is no older than what has been shown, and lacks the change
\* last acknowledged only if it was under way at that moment.
RequestOK(c, v) ==
    \/ c.requests = <<>> /\ ~ c.inFlight
    \/ /\ c.inFlight
       /\ \E x \in {Nil} \union 0 .. v :
            /\ c.requests = <<x>>
            /\ x # Nil => c.seen <= x /\ (x < c.own => c.overtaken)

CellOK(c, v) ==
    /\ c \in Cell
    /\ RequestOK(c, v)
    /\ c.busy # "no" => c.inFlight
    /\ c.next = c.timer
    /\ c.seen <= v /\ c.own <= v
    /\ c.data # Nil => /\ c.seen <= c.data /\ c.data <= v
                       /\ c.data < c.own => c.overtaken

\* The sequences that a cell has, without the operators on sequences.
LEMMA Singletons ==
    ASSUME NEW S, NEW x \in S
    PROVE  /\ <<x>> \in Seq(S) /\ <<>> \in Seq(S)
           /\ Append(<<>>, x) = <<x>>
           /\ Len(<<x>>) = 1 /\ Len(<<>>) = 0 /\ <<x>>[1] = x /\ <<x>> # <<>>
           /\ DOMAIN <<x>> = {1} /\ DOMAIN <<>> = {}
           /\ RemoveAt(<<x>>, 1) = <<>>
           /\ \A y \in S : [<<x>> EXCEPT ![1] = y] = <<y>>
  <1>1. /\ <<x>> \in Seq(S) /\ <<>> \in Seq(S)
        /\ Append(<<>>, x) = <<x>>
        /\ Len(<<x>>) = 1 /\ Len(<<>>) = 0 /\ <<x>>[1] = x /\ <<x>> # <<>>
    OBVIOUS
  <1>2. DOMAIN <<x>> = {1} /\ DOMAIN <<>> = {}
    BY <1>1
  <1>3. RemoveAt(<<x>>, 1) = <<>>
    BY DEF RemoveAt
  <1>4. ASSUME NEW y \in S
        PROVE  [<<x>> EXCEPT ![1] = y] = <<y>>
    OBVIOUS
  <1>5. QED
    BY <1>1, <1>2, <1>3, <1>4

LEMMA EmptyCellOK == CellOK(EmptyCell, 0)
  BY Singletons DEF CellOK, RequestOK, EmptyCell, Cell

\* The server changes the resource: nothing in the cell becomes newer.
LEMMA CellAges ==
    ASSUME NEW c, NEW v \in Nat, NEW w \in Nat, v <= w, CellOK(c, v)
    PROVE  CellOK(c, w)
  BY DEF CellOK, RequestOK, Cell

\* load sends a request only when none is in flight.
LEMMA LoadOK ==
    ASSUME NEW c, NEW v \in Nat, CellOK(c, v)
    PROVE  /\ CellOK(Load(c), v)
           /\ Load(c).own = c.own /\ Load(c).overtaken = c.overtaken
           /\ Load(c).data = c.data
           /\ c.inFlight => Load(c) = c
           /\ ~ c.inFlight => Load(c).requests = <<Nil>>
  <1>1. CASE c.inFlight
    BY <1>1 DEF Load, CellOK, RequestOK
  <1>2. CASE ~ c.inFlight
    <2>1. c.requests = <<>>
      BY <1>2 DEF CellOK, RequestOK
    <2>2. Load(c) = [c EXCEPT !.busy = IF c.data = Nil THEN "loading" ELSE "refreshing",
                              !.inFlight = TRUE, !.requests = <<Nil>>]
      BY <1>2, <2>1, Singletons DEF Load
    <2>3. <<Nil>> \in Seq(Nat \union {Nil})
      BY Singletons
    <2>4. /\ Load(c) \in Cell
          /\ Load(c).own = c.own /\ Load(c).overtaken = c.overtaken
          /\ Load(c).data = c.data /\ Load(c).next = c.next
          /\ Load(c).timer = c.timer /\ Load(c).seen = c.seen
          /\ Load(c).inFlight /\ Load(c).requests = <<Nil>>
      BY <2>2, <2>3 DEF CellOK, Cell
    <2>5. RequestOK(Load(c), v)
      BY <2>4 DEF RequestOK
    <2>6. QED
      BY <1>2, <2>4, <2>5 DEF CellOK
  <1>3. QED
    BY <1>1, <1>2

LEMMA EnsuredOK ==
    ASSUME NEW c, NEW v \in Nat, CellOK(c, v)
    PROVE  CellOK(Ensured(c), v)
  BY LoadOK DEF Ensured

LEMMA RefreshedOK ==
    ASSUME NEW c, NEW v \in Nat, CellOK(c, v)
    PROVE  CellOK(Refreshed(c), v)
  BY LoadOK DEF Refreshed

LEMMA GotOrLoadedOK ==
    ASSUME NEW c, NEW v \in Nat, CellOK(c, v)
    PROVE  CellOK(GotOrLoaded(c), v)
  BY LoadOK DEF GotOrLoaded

LEMMA InvalidatedOK ==
    ASSUME NEW c, NEW v \in Nat, CellOK(c, v)
    PROVE  /\ CellOK(Invalidated(c), v)
           /\ Invalidated(c).inFlight = c.inFlight
           /\ Invalidated(c).requests = c.requests
           /\ Invalidated(c).data = Nil /\ Invalidated(c).busy = "no"
  BY DEF Invalidated, CellOK, RequestOK, Cell

\* The server reads the resource for the request of the cell.
LEMMA ReadOK ==
    ASSUME NEW c, NEW v \in Nat, CellOK(c, v), c.requests # <<>>
    PROVE  CellOK([c EXCEPT !.requests = <<v>>], v)
  <1> DEFINE n == [c EXCEPT !.requests = <<v>>]
  <1>1. <<v>> \in Seq(Nat \union {Nil})
    BY Singletons
  <1>2. /\ n \in Cell /\ n.requests = <<v>> /\ n.inFlight = c.inFlight
        /\ n.data = c.data /\ n.busy = c.busy /\ n.next = c.next /\ n.timer = c.timer
        /\ n.seen = c.seen /\ n.own = c.own /\ n.overtaken = c.overtaken
    BY <1>1 DEF CellOK, Cell
  <1>3. c.inFlight /\ c.seen <= v /\ c.own <= v /\ c.seen \in Nat /\ c.own \in Nat
    BY DEF CellOK, RequestOK, Cell
  <1> HIDE DEF n
  <1>4. RequestOK(n, v)
    BY <1>2, <1>3 DEF RequestOK
  <1>5. CellOK(n, v)
    BY <1>2, <1>4 DEF CellOK
  <1>6. QED
    BY <1>5 DEF n

LEMMA AnsweredOK ==
    ASSUME NEW c, NEW v \in Nat, CellOK(c, v), c.requests # <<>>, c.requests[1] # Nil
    PROVE  CellOK(Answered(c, 1), v)
  <1>1. PICK x \in 0 .. v : /\ c.requests = <<x>> /\ c.requests[1] = x
                            /\ c.seen <= x /\ (x < c.own => c.overtaken)
    BY DEF CellOK, RequestOK
  <1>2. RemoveAt(c.requests, 1) = <<>>
    BY <1>1, Singletons, ZenonT(40)
  <1>3. PICK overtaken \in BOOLEAN : overtaken = (c.overtaken /\ x < c.own)
    OBVIOUS
  <1> DEFINE seen == IF c.seen < x THEN x ELSE c.seen
             n == [c EXCEPT !.data = x, !.busy = "no", !.next = Cooldown,
                            !.timer = Cooldown, !.inFlight = FALSE, !.requests = <<>>,
                            !.seen = seen, !.overtaken = overtaken]
  <1>4. c.seen \in Nat /\ c.own \in Nat /\ c.overtaken \in BOOLEAN
    BY DEF CellOK, Cell
  <1>5. seen = x /\ x \in Nat /\ (x < c.own => overtaken)
    BY <1>1, <1>3, <1>4
  <1>6. <<>> \in Seq(Nat \union {Nil})
    BY Singletons
  <1>7. Answered(c, 1) = n
    BY <1>1, <1>2, <1>3 DEF Answered, CellOK, Cell
  <1> HIDE DEF seen
  <1>8. /\ n \in Cell /\ n.data = x /\ n.busy = "no" /\ n.next = Cooldown
        /\ n.timer = Cooldown /\ ~ n.inFlight /\ n.requests = <<>>
        /\ n.seen = x /\ n.overtaken = overtaken /\ n.own = c.own
    BY <1>4, <1>5, <1>6 DEF CellOK, Cell
  <1> HIDE DEF n
  <1>9. RequestOK(n, v)
    BY <1>8 DEF RequestOK
  <1>10. c.own <= v
    BY DEF CellOK
  <1>11. CellOK(n, v)
    BY <1>5, <1>8, <1>9, <1>10 DEF CellOK
  <1>12. QED
    BY <1>7, <1>11

LEMMA FailedOK ==
    ASSUME NEW c, NEW v \in Nat, CellOK(c, v), c.requests # <<>>
    PROVE  CellOK(Failed(c, 1), v)
  <1> DEFINE n == [c EXCEPT !.busy = "no", !.inFlight = FALSE, !.requests = <<>>]
  <1>1. RemoveAt(c.requests, 1) = <<>>
    <2>1. PICK x \in {Nil} \union 0 .. v : c.requests = <<x>>
      BY DEF CellOK, RequestOK
    <2>2. QED
      BY <2>1, Singletons
  <1>2. Failed(c, 1) = n
    BY <1>1 DEF Failed
  <1>3. <<>> \in Seq(Nat \union {Nil})
    BY Singletons
  <1>4. /\ n \in Cell /\ n.data = c.data /\ n.busy = "no" /\ n.next = c.next
        /\ n.timer = c.timer /\ ~ n.inFlight /\ n.requests = <<>>
        /\ n.seen = c.seen /\ n.own = c.own /\ n.overtaken = c.overtaken
    BY <1>3 DEF CellOK, Cell
  <1> HIDE DEF n
  <1>5. RequestOK(n, v)
    BY <1>4 DEF RequestOK
  <1>6. CellOK(n, v)
    BY <1>4, <1>5 DEF CellOK
  <1>7. QED
    BY <1>2, <1>6

\* Time and the timer move the lock and nothing else.
Relocked(c, left) == [c EXCEPT !.next = left, !.timer = left]

LEMMA RelockedOK ==
    ASSUME NEW c, NEW v \in Nat, CellOK(c, v), NEW left \in Nat \union {Nil}
    PROVE  CellOK(Relocked(c, left), v)
  <1> DEFINE n == Relocked(c, left)
  <1>1. /\ n \in Cell /\ n.data = c.data /\ n.busy = c.busy /\ n.next = left
        /\ n.timer = left /\ n.inFlight = c.inFlight /\ n.requests = c.requests
        /\ n.seen = c.seen /\ n.own = c.own /\ n.overtaken = c.overtaken
    BY DEF CellOK, Cell, Relocked
  <1> HIDE DEF n
  <1>2. RequestOK(n, v)
    BY <1>1 DEF CellOK, RequestOK
  <1>3. CellOK(n, v)
    BY <1>1, <1>2 DEF CellOK
  <1>4. QED
    BY <1>3 DEF n

LEMMA AgedOK ==
    ASSUME NEW c, NEW v \in Nat, CellOK(c, v)
    PROVE  CellOK(Aged(c), v)
  <1> DEFINE left == IF c.next \in {Nil, 0} THEN c.next ELSE c.next - 1
  <1>1. c.next = c.timer /\ c.next \in Nat \union {Nil}
    BY DEF CellOK, Cell
  <1>2. left \in Nat \union {Nil}
    BY <1>1
  <1>3. Aged(c) = Relocked(c, left)
    BY <1>1 DEF Aged, CellOK, Cell, Relocked
  <1> HIDE DEF left
  <1>4. QED
    BY <1>2, <1>3, RelockedOK

LEMMA UnlockedOK ==
    ASSUME NEW c, NEW v \in Nat, CellOK(c, v)
    PROVE  CellOK(Unlocked(c), v)
  <1>1. Unlocked(c) = Relocked(c, Nil)
    BY DEF Unlocked, CellOK, Cell, Relocked
  <1>2. QED
    BY <1>1, RelockedOK

\* After an acknowledgement the request of the cell is a new one, unless one was
\* under way.
LEMMA AcknowledgedOK ==
    ASSUME NEW c, NEW v \in Nat, CellOK(c, v), NEW made \in 0 .. v
    PROVE  CellOK(Acknowledged(c, made), v)
  <1> DEFINE e == Ensured(Invalidated(c))
  <1>1. /\ CellOK(e, v) /\ e = Load(Invalidated(c)) /\ e.data = Nil
        /\ ~ c.inFlight => e.requests = <<Nil>>
    BY InvalidatedOK, LoadOK DEF Ensured
  <1>2. PICK shared \in BOOLEAN : shared = c.inFlight
    BY DEF CellOK, Cell
  <1> DEFINE a == [e EXCEPT !.own = made, !.overtaken = shared]
  <1> HIDE DEF e
  <1>3. /\ a \in Cell /\ a.own = made /\ a.overtaken = shared
        /\ a.requests = e.requests /\ a.inFlight = e.inFlight /\ a.data = Nil
        /\ a.busy = e.busy /\ a.next = e.next /\ a.timer = e.timer /\ a.seen = e.seen
    <2>1. e \in Cell /\ e.data = Nil
      BY <1>1 DEF CellOK
    <2>2. made \in Nat
      OBVIOUS
    <2>3. QED
      BY <2>1, <2>2 DEF Cell
  <1> HIDE DEF a
  <1>4. RequestOK(a, v)
    <2>1. CASE c.inFlight
      BY <1>1, <1>2, <1>3, <2>1 DEF CellOK, RequestOK
    <2>2. CASE ~ c.inFlight
      BY <1>1, <1>2, <1>3, <2>2, Singletons DEF CellOK, RequestOK
    <2>3. QED
      BY <2>1, <2>2
  <1>5. CellOK(a, v)
    BY <1>1, <1>3, <1>4 DEF CellOK
  <1>6. QED
    BY <1>2, <1>5 DEF Acknowledged, a, e

-----------------------------------------------------------------------------
(* The inductive invariant.                                                 *)

\* A dialog is the editor of a list; benefits have one query.
PageOK(c) ==
    /\ c \in Component
    /\ c.dialog => c.page \in Resources
    /\ c.page = "benefits" => c.query = FirstPage

\* A save made a change that the server has counted; while it is open its page is.
SaveOK(s, page, versions) ==
    /\ s \in Save /\ s.page \in Resources
    /\ s.made # Nil => s.made <= versions[s.page]
    /\ s.open => s.page = page

CellsOK ==
    /\ store \in [Keys -> Cell]
    /\ \A k \in Keys : CellOK(store[k], version[k[1]])

SubmittedIsSaved == comp.submitting => \E s \in saves : s.open /\ s.kind # "toggle"

IInv ==
    /\ scope \in Scopes
    /\ version \in [Resources -> 0 .. MaxVersion]
    /\ CellsOK
    /\ PageOK(comp)
    /\ \A s \in saves : SaveOK(s, comp.page, version)
    /\ SubmittedIsSaved

LEMMA KeysOfResources ==
    /\ \A k \in Keys : k[1] \in Resources
    /\ \A r \in Resources, q \in Queries : r # "benefits" => <<r, q>> \in Keys
    /\ \A r \in Resources : <<r, FirstPage>> \in Keys
    /\ FirstPage \in Queries
  <1>1. FirstPage \in Queries
    BY PagesAssumption DEF FirstPage, Query, Queries
  <1>2. QED
    BY <1>1 DEF Keys, Resources

\* Versions count changes.
LEMMA VersionsAreNumbers ==
    ASSUME IInv, NEW k \in Keys
    PROVE  version[k[1]] \in Nat /\ version[k[1]] \in 0 .. MaxVersion
  BY KeysOfResources, PagesAssumption DEF IInv

\* load() asks for a query of the page.
LEMMA LoadQueryOK ==
    ASSUME NEW c, PageOK(c), c.page \in Resources
    PROVE  /\ LoadQuery(c) \in Queries
           /\ c.page = "benefits" => LoadQuery(c) = FirstPage
           /\ <<c.page, LoadQuery(c)>> \in Keys
  <1>1. /\ c.query \in Queries /\ c.typed \in Searches
        /\ [c.query EXCEPT !.search = c.typed] \in Queries
    BY DEF PageOK, Component, Queries
  <1>2. /\ c.page = "administrators" => LoadQuery(c) = [c.query EXCEPT !.search = c.typed]
        /\ c.page = "programs" => LoadQuery(c) = [c.query EXCEPT !.search = c.typed]
        /\ c.page = "benefits" => LoadQuery(c) = FirstPage
        /\ c.page = "beneficiaries" => LoadQuery(c) = c.query
        /\ c.page = "deliveries" => LoadQuery(c) = c.query
    BY DEF LoadQuery, AdministratorsLoad, ProgramsLoad, BenefitsLoad,
           BeneficiariesLoad, DeliveriesLoad
  <1>3. LoadQuery(c) \in Queries
    BY <1>1, <1>2, KeysOfResources DEF Resources
  <1>4. QED
    BY <1>2, <1>3, KeysOfResources

-----------------------------------------------------------------------------
(* The kinds of step.                                                       *)

\* One cell is replaced.
LEMMA OneCell ==
    ASSUME IInv, UNCHANGED version, NEW k, NEW n,
           k \in Keys => CellOK(n, version[k[1]]),
           store' = [store EXCEPT ![k] = n]
    PROVE  CellsOK'
  BY DEF IInv, CellsOK, CellOK

\* A step of the editor or the filter form.
LEMMA PageStep ==
    ASSUME IInv, UNCHANGED <<scope, store, saves, version>>,
           PageOK(comp'), comp'.page = comp.page,
           comp'.submitting = comp.submitting
    PROVE  IInv'
  BY DEF IInv, CellsOK, SubmittedIsSaved

\* A step of a list, which leaves the page and its saves alone.
LEMMA CellStep ==
    ASSUME IInv, UNCHANGED <<scope, comp, saves, version>>, CellsOK'
    PROVE  IInv'
  BY DEF IInv, SubmittedIsSaved

\* The server changes a resource, within the bound.
LEMMA MadeOK ==
    ASSUME IInv, NEW r \in Resources, Made(r)
    PROVE  /\ version' \in [Resources -> 0 .. MaxVersion]
           /\ version'[r] = version[r] + 1
           /\ \A q \in Resources : version'[q] \in Nat /\ version[q] <= version'[q]
  <1>1. /\ MaxVersion \in Nat
        /\ \A q \in Resources : version[q] \in 0 .. MaxVersion
        /\ version' = [version EXCEPT ![r] = version[r] + 1]
    BY PagesAssumption DEF IInv, Made
  <1>2. version[r] + 1 <= MaxVersion
    BY <1>1 DEF Made, Changes, Resources
  <1>3. QED
    BY <1>1, <1>2 DEF IInv

LEMMA ChangeKeepsCells ==
    ASSUME IInv, NEW r \in Resources, Made(r), UNCHANGED store
    PROVE  CellsOK'
  <1>1. ASSUME NEW k \in Keys
        PROVE  CellOK(store'[k], version'[k[1]])
    <2>1. k[1] \in Resources
      BY KeysOfResources
    <2>2. version[k[1]] \in Nat /\ version'[k[1]] \in Nat /\ version[k[1]] <= version'[k[1]]
      BY <2>1, MadeOK, VersionsAreNumbers
    <2>3. QED
      BY <2>2, CellAges DEF IInv, CellsOK
  <1>2. QED
    BY <1>1 DEF IInv, CellsOK

-----------------------------------------------------------------------------
(* The user on the page.                                                    *)

LEMMA OpenedOK ==
    ASSUME NEW p \in Pages
    PROVE  PageOK(Opened(p)) /\ Opened(p).page = p /\ ~ Opened(p).submitting
  BY KeysOfResources, PagesAssumption
     DEF Opened, PageOK, Component, Pages, Resources

LEMMA OpenInv ==
    ASSUME IInv, NEW p \in Pages, Open(p)
    PROVE  IInv'
  <1>1. /\ comp' = Opened(p) /\ UNCHANGED <<scope, version, lost>>
        /\ saves' = {IF s.open THEN [s EXCEPT !.open = FALSE, !.query = LoadQuery(comp)]
                     ELSE s : s \in saves}
        /\ store' = [k \in Keys |->
                      IF k \in RefreshKeys(Opened(p)) THEN Ensured(store[k])
                      ELSE IF k \in BeneficiaryOptions(p) THEN GotOrLoaded(store[k])
                      ELSE store[k]]
    BY DEF Open
  <1>2. \A k \in Keys : CellOK(store'[k], version[k[1]])
    BY <1>1, VersionsAreNumbers, EnsuredOK, GotOrLoadedOK DEF IInv, CellsOK
  <1>3. CellsOK'
    BY <1>1, <1>2 DEF CellsOK, CellOK
  <1>4. ASSUME NEW t \in saves'
        PROVE  SaveOK(t, comp'.page, version')
    <2>1. PICK s \in saves :
            t = IF s.open THEN [s EXCEPT !.open = FALSE, !.query = LoadQuery(comp)]
                ELSE s
      BY <1>1
    <2>2. SaveOK(s, comp.page, version)
      BY DEF IInv
    <2>3. CASE s.open
      <3>1. LoadQuery(comp) \in Queries
        BY <2>2, <2>3, LoadQueryOK DEF IInv, SaveOK
      <3>2. /\ t \in Save /\ ~ t.open /\ t.page = s.page /\ t.made = s.made
        BY <2>1, <2>2, <2>3, <3>1 DEF SaveOK, Save
      <3>3. QED
        BY <1>1, <2>2, <3>2 DEF SaveOK
    <2>4. CASE ~ s.open
      BY <1>1, <2>1, <2>2, <2>4 DEF SaveOK
    <2>5. QED
      BY <2>3, <2>4
  <1>5. QED
    BY <1>1, <1>3, <1>4, OpenedOK DEF IInv, SubmittedIsSaved

LEMMA TypeInv ==
    ASSUME IInv, NEW text \in Searches, Type(text)
    PROVE  IInv'
  <1>1. comp' = [comp EXCEPT !.typed = text] /\ UNCHANGED <<scope, store, saves, version>>
    BY DEF Type
  <1>2. /\ PageOK(comp') /\ comp'.page = comp.page
        /\ comp'.submitting = comp.submitting
    BY <1>1 DEF IInv, PageOK, Component
  <1>3. QED
    BY <1>1, <1>2, PageStep

\* load() for another query of the page.
LEMMA LoadedInv ==
    ASSUME IInv, NEW q \in Queries, comp.page \in Paged,
           Loaded([comp EXCEPT !.query = q])
    PROVE  IInv'
  <1> DEFINE c == [comp EXCEPT !.query = q]
             loaded == LoadQuery(c)
             typed == IF c.page \in UrlPages THEN c.query.search ELSE c.typed
             k == <<c.page, loaded>>
  <1>1. comp \in Component /\ PageOK(comp)
    BY DEF IInv, PageOK
  <1>2. /\ c \in Component /\ c.page = comp.page /\ c.query = q
        /\ c.typed = comp.typed /\ c.submitting = comp.submitting
        /\ c.dialog = comp.dialog
    BY <1>1 DEF Component
  <1>3. /\ c.page \in Resources /\ c.page # "benefits"
    BY <1>2 DEF Paged, Pages
  <1>4. /\ comp' = [c EXCEPT !.query = loaded, !.typed = typed]
        /\ store' = [store EXCEPT ![k] = Ensured(store[k])]
        /\ UNCHANGED <<scope, saves, version>>
    BY DEF Loaded
  <1> HIDE DEF c
  <1>5. PageOK(c)
    BY <1>1, <1>2, <1>3 DEF PageOK
  <1>6. loaded \in Queries /\ k \in Keys
    BY <1>3, <1>5, LoadQueryOK
  <1>7. typed \in Searches
    BY <1>2 DEF Component, Queries
  <1> HIDE DEF loaded, typed
  <1>8. /\ comp' \in Component /\ comp'.page = c.page /\ comp'.dialog = c.dialog
        /\ comp'.submitting = c.submitting
    BY <1>2, <1>4, <1>6, <1>7 DEF Component
  <1>9. PageOK(comp')
    BY <1>3, <1>8 DEF PageOK
  <1>10. CellOK(Ensured(store[k]), version[k[1]])
    BY <1>6, VersionsAreNumbers, EnsuredOK DEF IInv, CellsOK
  <1> HIDE DEF k
  <1>11. CellsOK'
    BY <1>4, <1>10, OneCell
  <1>12. QED
    BY <1>2, <1>4, <1>8, <1>9, <1>11 DEF IInv, SubmittedIsSaved

LEMMA SearchInv ==
    ASSUME IInv, NEW p \in Pages, Search(p)
    PROVE  IInv'
  <1>1. Query(comp.typed, 1) \in Queries
    BY PagesAssumption DEF IInv, PageOK, Component, Query, Queries
  <1>2. comp.page \in Paged /\ Loaded([comp EXCEPT !.query = Query(comp.typed, 1)])
    BY DEF Search, OnList
  <1>3. QED
    BY <1>1, <1>2, LoadedInv

LEMMA ChangePageInv ==
    ASSUME IInv, NEW p \in Pages, NEW n \in PageNumbers, ChangePage(p, n)
    PROVE  IInv'
  <1> DEFINE q == [comp.query EXCEPT !.page = n]
  <1>1. comp \in Component /\ q \in Queries
    BY DEF IInv, PageOK, Component, Queries
  <1>2. [comp EXCEPT !.query.page = n] = [comp EXCEPT !.query = q]
    BY <1>1 DEF Component
  <1>3. comp.page \in Paged /\ Loaded([comp EXCEPT !.query = q])
    BY <1>2 DEF ChangePage, OnList
  <1> HIDE DEF q
  <1>4. QED
    BY <1>1, <1>3, LoadedInv

LEMMA RefreshInv ==
    ASSUME IInv, NEW p \in Pages, Refresh(p)
    PROVE  IInv'
  <1>1. /\ UNCHANGED <<scope, comp, saves, version>>
        /\ store' = [k \in Keys |-> IF k \in RefreshKeys(comp) THEN Refreshed(store[k])
                                    ELSE store[k]]
    BY DEF Refresh
  <1>2. \A k \in Keys : CellOK(store'[k], version[k[1]])
    BY <1>1, VersionsAreNumbers, RefreshedOK DEF IInv, CellsOK
  <1>3. CellsOK'
    BY <1>1, <1>2 DEF CellsOK, CellOK
  <1>4. QED
    BY <1>1, <1>3, CellStep

LEMMA ChooseProgramInv ==
    ASSUME IInv, ChooseProgram
    PROVE  IInv'
  <1> DEFINE k == <<"beneficiaries", OfProgram>>
  <1>1. /\ UNCHANGED <<scope, comp, saves, version>>
        /\ store' = [store EXCEPT ![k] = GotOrLoaded(store[k])]
    BY DEF ChooseProgram
  <1>2. k \in Keys => CellOK(GotOrLoaded(store[k]), version[k[1]])
    BY VersionsAreNumbers, GotOrLoadedOK DEF IInv, CellsOK
  <1> HIDE DEF k
  <1>3. CellsOK'
    BY <1>1, <1>2, OneCell
  <1>4. QED
    BY <1>1, <1>3, CellStep

-----------------------------------------------------------------------------
(* The editor.                                                              *)

\* The steps of the editor keep the page, its query and its submission.
LEMMA EditorOK ==
    ASSUME NEW c, PageOK(c), c.page \in Resources
    PROVE  /\ PageOK(StartCreate(c)) /\ PageOK(StartEditing(c)) /\ PageOK(Cancel(c))
           /\ \A v \in Nat : PageOK(Select(c, v))
           /\ \A d \in {StartCreate(c), StartEditing(c), Cancel(c)}
                         \union {Select(c, v) : v \in Nat} :
                d.page = c.page /\ d.submitting = c.submitting
  <1>1. c \in Component
    BY DEF PageOK
  <1>2. /\ PageOK(StartCreate(c)) /\ StartCreate(c).page = c.page
        /\ StartCreate(c).submitting = c.submitting
    BY <1>1 DEF StartCreate, PageOK, Component
  <1>3. ASSUME NEW v \in Nat
        PROVE  /\ PageOK(Select(c, v)) /\ Select(c, v).page = c.page
               /\ Select(c, v).submitting = c.submitting
    BY <1>1 DEF Select, PageOK, Component
  <1>4. /\ PageOK(StartEditing(c)) /\ StartEditing(c).page = c.page
        /\ StartEditing(c).submitting = c.submitting
    BY <1>1 DEF StartEditing, PageOK, Component
  <1>5. Cancel(c) = StartCreate(c) \/ \E v \in Nat : Cancel(c) = Select(c, v)
    BY <1>1 DEF Cancel, Component
  <1>6. QED
    BY <1>2, <1>3, <1>4, <1>5

\* A dialog opens or closes over the list.
LEMMA DialogOK ==
    ASSUME NEW c, PageOK(c), c.page \in Resources, NEW open \in BOOLEAN
    PROVE  LET d == [c EXCEPT !.dialog = open] IN
           PageOK(d) /\ d.page = c.page /\ d.submitting = c.submitting
  BY DEF PageOK, Component

LEMMA OpenCreateInv ==
    ASSUME IInv, NEW p \in Pages, OpenCreate(p)
    PROVE  IInv'
  <1> DEFINE c == StartCreate(comp)
  <1>1. /\ comp.page \in Resources
        /\ comp' = [c EXCEPT !.dialog = TRUE]
        /\ UNCHANGED <<scope, store, saves, version>>
    BY DEF OpenCreate, OnList, Pages
  <1>2. /\ PageOK(c) /\ c.page = comp.page /\ c.submitting = comp.submitting
    BY <1>1, EditorOK DEF IInv
  <1> HIDE DEF c
  <1>3. /\ PageOK(comp') /\ comp'.page = comp.page
        /\ comp'.submitting = comp.submitting
    BY <1>1, <1>2, DialogOK
  <1>4. QED
    BY <1>1, <1>3, PageStep

LEMMA OpenItemInv ==
    ASSUME IInv, NEW p \in Pages, OpenItem(p)
    PROVE  IInv'
  <1> DEFINE v == store[MainKey(comp)].data
             c == Select(comp, v)
  <1>1. /\ comp.page \in Resources /\ v # Nil
        /\ comp' = [c EXCEPT !.dialog = TRUE]
        /\ UNCHANGED <<scope, store, saves, version>>
    BY DEF OpenItem, OnList, Pages
  <1>2. v \in Nat
    <2>1. /\ comp.query \in Queries
          /\ comp.page = "benefits" => comp.query = FirstPage
      BY DEF IInv, PageOK, Component
    <2>2. MainKey(comp) \in Keys
      BY <1>1, <2>1, KeysOfResources DEF MainKey
    <2>3. QED
      BY <1>1, <2>2 DEF IInv, CellsOK, Cell
  <1> HIDE DEF v
  <1>3. /\ PageOK(c) /\ c.page = comp.page /\ c.submitting = comp.submitting
    BY <1>1, <1>2, EditorOK DEF IInv
  <1> HIDE DEF c
  <1>4. /\ PageOK(comp') /\ comp'.page = comp.page
        /\ comp'.submitting = comp.submitting
    BY <1>1, <1>3, DialogOK
  <1>5. QED
    BY <1>1, <1>4, PageStep

LEMMA EditItemInv ==
    ASSUME IInv, EditItem
    PROVE  IInv'
  <1>1. /\ comp.page \in Resources /\ comp' = StartEditing(comp)
        /\ UNCHANGED <<scope, store, saves, version>>
    BY DEF EditItem, Edited, Pages
  <1>2. QED
    BY <1>1, EditorOK, PageStep DEF IInv

LEMMA CloseDialogInv ==
    ASSUME IInv, CloseDialog
    PROVE  IInv'
  <1>1. /\ comp.page \in Resources /\ comp' = [comp EXCEPT !.dialog = FALSE]
        /\ UNCHANGED <<scope, store, saves, version>>
    BY DEF CloseDialog, InDialog, IInv, PageOK
  <1>2. /\ PageOK(comp') /\ comp'.page = comp.page
        /\ comp'.submitting = comp.submitting
    BY <1>1, DialogOK DEF IInv
  <1>3. QED
    BY <1>1, <1>2, PageStep

LEMMA CancelEditorInv ==
    ASSUME IInv, CancelEditor
    PROVE  IInv'
  <1> DEFINE c == Cancel(comp)
  <1>1. /\ comp.page \in Resources /\ comp' = [c EXCEPT !.dialog = FALSE]
        /\ UNCHANGED <<scope, store, saves, version>>
    BY DEF CancelEditor, Edited, Pages
  <1>2. /\ PageOK(c) /\ c.page = comp.page /\ c.submitting = comp.submitting
    BY <1>1, EditorOK DEF IInv
  <1> HIDE DEF c
  <1>3. /\ PageOK(comp') /\ comp'.page = comp.page
        /\ comp'.submitting = comp.submitting
    BY <1>1, <1>2, DialogOK
  <1>4. QED
    BY <1>1, <1>3, PageStep

\* What is sent is a save of the open page.
LEMMA SentOK ==
    ASSUME IInv, comp.page \in Resources, NEW kind \in {"create", "update", "toggle"}
    PROVE  /\ SaveOK(Sent(kind), comp.page, version)
           /\ Sent(kind).open /\ Sent(kind).kind = kind
  BY KeysOfResources DEF Sent, SaveOK, Save, Pages

LEMMA SubmitInv ==
    ASSUME IInv, Submit
    PROVE  IInv'
  <1>1. PICK kind \in {"create", "update"} : saves' = saves \union {Sent(kind)}
    BY DEF Submit
  <1>2. /\ comp.page \in Resources /\ comp' = [comp EXCEPT !.submitting = TRUE]
        /\ UNCHANGED <<scope, store, version>>
    BY DEF Submit, InDialog, IInv, PageOK
  <1>3. PageOK(comp') /\ comp'.page = comp.page
    BY <1>2 DEF IInv, PageOK, Component
  <1>4. \A s \in saves' : SaveOK(s, comp'.page, version')
    BY <1>1, <1>2, <1>3, SentOK DEF IInv
  <1>5. SubmittedIsSaved'
    BY <1>1, <1>2, SentOK DEF SubmittedIsSaved
  <1>6. QED
    BY <1>2, <1>3, <1>4, <1>5 DEF IInv, CellsOK

LEMMA ToggleStatusInv ==
    ASSUME IInv, ToggleStatus
    PROVE  IInv'
  <1>1. /\ saves' = saves \union {Sent("toggle")} /\ comp.page \in Resources
        /\ UNCHANGED <<scope, store, comp, version>>
    BY DEF ToggleStatus, InDialog, IInv, PageOK
  <1>2. \A s \in saves' : SaveOK(s, comp'.page, version')
    BY <1>1, SentOK DEF IInv
  <1>3. SubmittedIsSaved'
    BY <1>1 DEF IInv, SubmittedIsSaved
  <1>4. QED
    BY <1>1, <1>2, <1>3 DEF IInv, CellsOK

-----------------------------------------------------------------------------
(* The server.                                                              *)

LEMMA DoSaveInv ==
    ASSUME IInv, NEW s \in saves, DoSave(s)
    PROVE  IInv'
  <1> DEFINE done == [s EXCEPT !.made = version'[s.page]]
  <1>1. /\ Made(s.page) /\ saves' = (saves \ {s}) \union {done}
        /\ UNCHANGED <<scope, store, comp>>
    BY DEF DoSave
  <1>2. SaveOK(s, comp.page, version) /\ s.page \in Resources
    BY DEF IInv, SaveOK
  <1>3. /\ version' \in [Resources -> 0 .. MaxVersion]
        /\ \A q \in Resources : /\ version[q] \in Nat /\ version'[q] \in Nat
                                /\ version[q] <= version'[q]
    BY <1>1, <1>2, MadeOK, PagesAssumption DEF IInv
  <1>4. /\ done \in Save /\ done.page = s.page /\ done.open = s.open
        /\ done.kind = s.kind /\ done.made = version'[s.page]
    BY <1>2, <1>3 DEF SaveOK, Save
  <1> HIDE DEF done
  <1>5. SaveOK(done, comp.page, version')
    BY <1>2, <1>3, <1>4 DEF SaveOK
  <1>6. ASSUME NEW t \in saves
        PROVE  SaveOK(t, comp.page, version')
    <2>1. SaveOK(t, comp.page, version) /\ t.page \in Resources
      BY DEF IInv, SaveOK
    <2>2. t.made \in Nat \union {Nil}
      BY <2>1 DEF SaveOK, Save
    <2>3. t.made # Nil => t.made <= version'[t.page]
      BY <1>3, <2>1, <2>2 DEF SaveOK
    <2>4. QED
      BY <2>1, <2>3 DEF SaveOK
  <1>7. \A t \in saves' : SaveOK(t, comp'.page, version')
    BY <1>1, <1>5, <1>6
  <1>8. SubmittedIsSaved'
    BY <1>1, <1>4 DEF IInv, SubmittedIsSaved
  <1>9. CellsOK'
    BY <1>1, <1>2, ChangeKeepsCells
  <1>10. QED
    BY <1>1, <1>3, <1>7, <1>8, <1>9 DEF IInv

LEMMA ChangeElsewhereInv ==
    ASSUME IInv, NEW r \in Resources, ChangeElsewhere(r)
    PROVE  IInv'
  <1>1. Made(r) /\ UNCHANGED <<scope, store, comp, saves>>
    BY DEF ChangeElsewhere
  <1>2. /\ version' \in [Resources -> 0 .. MaxVersion]
        /\ \A q \in Resources : /\ version[q] \in Nat /\ version'[q] \in Nat
                                /\ version[q] <= version'[q]
    BY <1>1, MadeOK, PagesAssumption DEF IInv
  <1>3. ASSUME NEW t \in saves
        PROVE  SaveOK(t, comp.page, version')
    <2>1. SaveOK(t, comp.page, version) /\ t.page \in Resources
      BY DEF IInv, SaveOK
    <2>2. t.made \in Nat \union {Nil}
      BY <2>1 DEF SaveOK, Save
    <2>3. t.made # Nil => t.made <= version'[t.page]
      BY <1>2, <2>1, <2>2 DEF SaveOK
    <2>4. QED
      BY <2>1, <2>3 DEF SaveOK
  <1>4. CellsOK'
    BY <1>1, ChangeKeepsCells
  <1>5. QED
    BY <1>1, <1>2, <1>3, <1>4 DEF IInv, SubmittedIsSaved

\* A cell has at most one request.
LEMMA OneRequest ==
    ASSUME IInv, NEW k \in Keys, NEW i \in DOMAIN store[k].requests
    PROVE  /\ i = 1 /\ store[k].requests # <<>>
           /\ store[k].requests = <<store[k].requests[1]>>
           /\ CellOK(store[k], version[k[1]])
           /\ store[k].requests[1] \in Nat \union {Nil}
  <1>1. CellOK(store[k], version[k[1]])
    BY DEF IInv, CellsOK
  <1>2. version[k[1]] \in Nat
    BY VersionsAreNumbers
  <1>3. CASE store[k].requests = <<>>
    BY <1>3, Singletons
  <1>4. CASE \E x \in {Nil} \union 0 .. version[k[1]] : store[k].requests = <<x>>
    BY <1>1, <1>2, <1>4, Singletons
  <1>5. QED
    BY <1>1, <1>3, <1>4 DEF CellOK, RequestOK

LEMMA ReadListInv ==
    ASSUME IInv, NEW k \in Keys, NEW i \in DOMAIN store[k].requests, ReadList(k, i)
    PROVE  IInv'
  <1> DEFINE c == store[k]
             v == version[k[1]]
             n == [c EXCEPT !.requests = <<v>>]
  <1>1. /\ UNCHANGED <<scope, comp, saves, version>>
        /\ store' = [store EXCEPT ![k].requests[i] = v]
    BY DEF ReadList
  <1>2. /\ i = 1 /\ c.requests # <<>> /\ c.requests = <<c.requests[1]>>
        /\ CellOK(c, v) /\ c.requests[1] \in Nat \union {Nil} /\ v \in Nat
    BY OneRequest, VersionsAreNumbers
  <1>3. [c.requests EXCEPT ![1] = v] = <<v>>
    BY <1>2, Singletons
  <1>4. store' = [store EXCEPT ![k] = n]
    <2>1. store[k] \in Cell
      BY DEF IInv, CellsOK
    <2>2. [c EXCEPT !.requests[1] = v] = n
      BY <1>3, <2>1 DEF Cell
    <2>3. store' = [store EXCEPT ![k] = [c EXCEPT !.requests[1] = v]]
      BY <1>1, <1>2
    <2>4. QED
      BY <2>2, <2>3
  <1>5. CellOK(n, v)
    BY <1>2, ReadOK
  <1> HIDE DEF n
  <1>6. CellsOK'
    BY <1>1, <1>4, <1>5, OneCell
  <1>7. QED
    BY <1>1, <1>6, CellStep

-----------------------------------------------------------------------------
(* Answers, failures and time.                                              *)

LEMMA AnswerListInv ==
    ASSUME IInv, NEW k \in Keys, NEW i \in DOMAIN store[k].requests, AnswerList(k, i)
    PROVE  IInv'
  <1>1. /\ UNCHANGED <<scope, comp, saves, version>>
        /\ i = 1 /\ store[k].requests # <<>> /\ store[k].requests[1] # Nil
        /\ CellOK(store[k], version[k[1]]) /\ version[k[1]] \in Nat
        /\ store' = [store EXCEPT ![k] = Answered(store[k], 1)]
    BY OneRequest, VersionsAreNumbers DEF AnswerList
  <1>2. CellOK(Answered(store[k], 1), version[k[1]])
    BY <1>1, AnsweredOK
  <1>3. CellsOK'
    BY <1>1, <1>2, OneCell
  <1>4. QED
    BY <1>1, <1>3, CellStep

LEMMA LoseListInv ==
    ASSUME IInv, NEW k \in Keys, NEW i \in DOMAIN store[k].requests, LoseList(k, i)
    PROVE  IInv'
  <1>1. /\ UNCHANGED <<scope, comp, saves, version>>
        /\ i = 1 /\ store[k].requests # <<>>
        /\ CellOK(store[k], version[k[1]]) /\ version[k[1]] \in Nat
        /\ store' = [store EXCEPT ![k] = Failed(store[k], 1)]
    BY OneRequest, VersionsAreNumbers DEF LoseList
  <1>2. CellOK(Failed(store[k], 1), version[k[1]])
    BY <1>1, FailedOK
  <1>3. CellsOK'
    BY <1>1, <1>2, OneCell
  <1>4. QED
    BY <1>1, <1>3, CellStep

\* The answer to a save leaves the page that sent it ready for another.
LEMMA SavedOK ==
    ASSUME NEW c, PageOK(c), c.page \in Resources,
           NEW kind \in {"create", "update", "toggle"}
    PROVE  /\ PageOK(Saved(c, kind)) /\ Saved(c, kind).page = c.page
           /\ kind = "toggle" => Saved(c, kind).submitting = c.submitting
           /\ kind # "toggle" => ~ Saved(c, kind).submitting
  <1>1. CASE kind = "toggle"
    BY <1>1 DEF Saved
  <1>2. CASE kind # "toggle"
    <2>1. PICK credential \in BOOLEAN : credential = (kind = "create")
      OBVIOUS
    <2> DEFINE d == [c EXCEPT !.credential = credential]
    <2>2. d \in Component /\ d.page = c.page /\ d.query = c.query
      BY DEF PageOK, Component
    <2>3. Saved(c, kind) = [StartCreate(d) EXCEPT !.submitting = FALSE, !.dialog = FALSE]
      BY <1>2, <2>1 DEF Saved
    <2> HIDE DEF d
    <2>4. /\ Saved(c, kind) \in Component /\ Saved(c, kind).page = c.page
          /\ Saved(c, kind).query = c.query
          /\ ~ Saved(c, kind).submitting /\ ~ Saved(c, kind).dialog
      BY <2>2, <2>3 DEF StartCreate, Component
    <2>5. QED
      BY <1>2, <2>4 DEF PageOK
  <1>3. QED
    BY <1>1, <1>2

LEMMA AnswerSaveInv ==
    ASSUME IInv, NEW s \in saves, AnswerSave(s)
    PROVE  IInv'
  <1> DEFINE q == IF s.open THEN LoadQuery(comp) ELSE s.query
             k == <<s.page, q>>
             n == Acknowledged(store[k], s.made)
             c == Saved(comp, s.kind)
  <1>1. /\ s.made # Nil /\ saves' = saves \ {s}
        /\ comp' = IF s.open THEN [c EXCEPT !.query = q] ELSE comp
        /\ store' = [store EXCEPT ![k] = n]
        /\ UNCHANGED <<scope, version>>
    BY DEF AnswerSave
  <1>2. /\ s \in Save /\ s.page \in Resources /\ (s.open => s.page = comp.page)
        /\ s.made \in 0 .. version[s.page]
    <2>1. SaveOK(s, comp.page, version) /\ version[s.page] \in Nat
      BY PagesAssumption DEF IInv, SaveOK
    <2>2. QED
      BY <1>1, <2>1 DEF SaveOK, Save
  <1>3. CellsOK'
    <2>1. k \in Keys => CellOK(n, version[k[1]])
      <3>1. k[1] = s.page
        OBVIOUS
      <3>2. k \in Keys => CellOK(store[k], version[k[1]]) /\ version[k[1]] \in Nat
        BY VersionsAreNumbers DEF IInv, CellsOK
      <3> HIDE DEF k
      <3>3. QED
        BY <1>2, <3>1, <3>2, AcknowledgedOK
    <2> HIDE DEF k, n
    <2>2. QED
      BY <1>1, <2>1, OneCell
  <1>4. /\ PageOK(comp') /\ comp'.page = comp.page
        /\ s.open /\ s.kind # "toggle" => ~ comp'.submitting
        /\ ~ s.open \/ s.kind = "toggle" => comp'.submitting = comp.submitting
    <2>1. CASE ~ s.open
      BY <1>1, <2>1 DEF IInv
    <2>2. CASE s.open
      <3>1. s.kind \in {"create", "update", "toggle"}
        BY <1>2 DEF Save
      <3>2. /\ PageOK(c) /\ c.page = comp.page
            /\ s.kind = "toggle" => c.submitting = comp.submitting
            /\ s.kind # "toggle" => ~ c.submitting
        BY <1>2, <2>2, <3>1, SavedOK DEF IInv
      <3>3. /\ q \in Queries
            /\ comp.page = "benefits" => q = FirstPage
        BY <1>2, <2>2, LoadQueryOK DEF IInv
      <3>4. comp' = [c EXCEPT !.query = q]
        BY <1>1, <2>2
      <3> HIDE DEF c, q
      <3>5. /\ PageOK(comp') /\ comp'.page = c.page
            /\ comp'.submitting = c.submitting
        BY <3>2, <3>3, <3>4 DEF PageOK, Component
      <3>6. QED
        BY <2>2, <3>2, <3>5
    <2>3. QED
      BY <2>1, <2>2
  <1>5. \A t \in saves' : SaveOK(t, comp'.page, version')
    BY <1>1, <1>4 DEF IInv
  <1>6. SubmittedIsSaved'
    BY <1>1, <1>4 DEF IInv, SubmittedIsSaved
  <1>7. QED
    BY <1>1, <1>3, <1>4, <1>5, <1>6 DEF IInv

LEMMA LoseSaveInv ==
    ASSUME IInv, NEW s \in saves, LoseSave(s)
    PROVE  IInv'
  <1>1. /\ saves' = saves \ {s} /\ UNCHANGED <<scope, store, version>>
        /\ comp' = IF s.open /\ s.kind # "toggle" THEN [comp EXCEPT !.submitting = FALSE]
                   ELSE comp
    BY DEF LoseSave
  <1>2. /\ PageOK(comp') /\ comp'.page = comp.page
        /\ s.open /\ s.kind # "toggle" => ~ comp'.submitting
        /\ ~ (s.open /\ s.kind # "toggle") => comp' = comp
    BY <1>1 DEF IInv, PageOK, Component
  <1>3. \A t \in saves' : SaveOK(t, comp'.page, version')
    BY <1>1, <1>2 DEF IInv
  <1>4. SubmittedIsSaved'
    BY <1>1, <1>2 DEF IInv, SubmittedIsSaved
  <1>5. QED
    BY <1>1, <1>2, <1>3, <1>4 DEF IInv, CellsOK

LEMMA TickInv ==
    ASSUME IInv, Tick
    PROVE  IInv'
  <1>1. /\ UNCHANGED <<scope, comp, saves, version>>
        /\ store' = [k \in Keys |-> Aged(store[k])]
    BY DEF Tick
  <1>2. \A k \in Keys : CellOK(store'[k], version[k[1]])
    BY <1>1, VersionsAreNumbers, AgedOK DEF IInv, CellsOK
  <1>3. CellsOK'
    BY <1>1, <1>2 DEF CellsOK, CellOK
  <1>4. QED
    BY <1>1, <1>3, CellStep

LEMMA UnlockInv ==
    ASSUME IInv, NEW k \in Keys, Unlock(k)
    PROVE  IInv'
  <1>1. /\ UNCHANGED <<scope, comp, saves, version>>
        /\ store' = [store EXCEPT ![k] = Unlocked(store[k])]
    BY DEF Unlock
  <1>2. CellOK(Unlocked(store[k]), version[k[1]])
    BY VersionsAreNumbers, UnlockedOK DEF IInv, CellsOK
  <1>3. CellsOK'
    BY <1>1, <1>2, OneCell
  <1>4. QED
    BY <1>1, <1>3, CellStep

-----------------------------------------------------------------------------
(* The theorems.                                                            *)

LEMMA InitIInv ==
    ASSUME Init
    PROVE  IInv
  <1>1. /\ scope \in Scopes /\ store = [k \in Keys |-> EmptyCell]
        /\ comp = Opened(Nil) /\ saves = {} /\ version = [r \in Resources |-> 0]
    BY DEF Init
  <1>2. version \in [Resources -> 0 .. MaxVersion]
    BY <1>1, PagesAssumption
  <1>3. CellsOK
    <2>1. ASSUME NEW k \in Keys
          PROVE  CellOK(store[k], version[k[1]])
      BY <1>1, KeysOfResources, EmptyCellOK
    <2>2. EmptyCell \in Cell
      BY EmptyCellOK DEF CellOK
    <2>3. QED
      BY <1>1, <2>1, <2>2 DEF CellsOK
  <1>4. PageOK(comp) /\ ~ comp.submitting
    BY <1>1, KeysOfResources, PagesAssumption DEF Opened, PageOK, Component
  <1>5. QED
    BY <1>1, <1>2, <1>3, <1>4 DEF IInv, SubmittedIsSaved

LEMMA NextIInv ==
    ASSUME IInv, [Next]_vars
    PROVE  IInv'
  <1>1. ASSUME NEW p \in Pages,
               Open(p) \/ Search(p) \/ Refresh(p) \/ OpenCreate(p) \/ OpenItem(p)
        PROVE  IInv'
    BY <1>1, OpenInv, SearchInv, RefreshInv, OpenCreateInv, OpenItemInv
  <1>2. ASSUME NEW p \in Pages, NEW n \in PageNumbers, ChangePage(p, n)
        PROVE  IInv'
    BY <1>2, ChangePageInv
  <1>3. ASSUME NEW text \in Searches, Type(text)
        PROVE  IInv'
    BY <1>3, TypeInv
  <1>4. CASE \/ ChooseProgram \/ EditItem \/ CloseDialog \/ CancelEditor \/ Submit
             \/ ToggleStatus
    BY <1>4, ChooseProgramInv, EditItemInv, CloseDialogInv, CancelEditorInv, SubmitInv,
       ToggleStatusInv
  <1>5. ASSUME NEW s \in saves, DoSave(s) \/ AnswerSave(s) \/ LoseSave(s)
        PROVE  IInv'
    BY <1>5, DoSaveInv, AnswerSaveInv, LoseSaveInv
  <1>6. ASSUME NEW r \in Resources, ChangeElsewhere(r)
        PROVE  IInv'
    BY <1>6, ChangeElsewhereInv
  <1>7. ASSUME NEW k \in Keys, NEW i \in DOMAIN store[k].requests,
               ReadList(k, i) \/ AnswerList(k, i) \/ LoseList(k, i)
        PROVE  IInv'
    BY <1>7, ReadListInv, AnswerListInv, LoseListInv
  <1>8. CASE Tick
    BY <1>8, TickInv
  <1>9. ASSUME NEW k \in Keys, Unlock(k)
        PROVE  IInv'
    BY <1>9, UnlockInv
  <1>10. CASE UNCHANGED vars
    BY <1>10 DEF vars, IInv, CellsOK, SubmittedIsSaved
  <1>11. QED
    BY <1>1, <1>2, <1>3, <1>4, <1>5, <1>6, <1>7, <1>8, <1>9, <1>10 DEF Next

\* In every reachable state each cell has at most one request, which is in flight,
\* and knows how old what it shows may be.
THEOREM CellsStayConsistent == Spec => []IInv
  <1>1. IInv /\ [Next]_vars => IInv'
    BY NextIInv
  <1>2. QED
    BY <1>1, InitIInv, PTL DEF Spec

\* Type correctness, with one request per key at a time.
THEOREM TypeCorrect == Spec => []TypeOK
  <1>1. IInv => TypeOK
    <2> SUFFICES ASSUME IInv
                 PROVE  TypeOK
      OBVIOUS
    <2>1. ASSUME NEW k \in Keys
          PROVE  Len(store[k].requests) <= 1
      <3>1. CellOK(store[k], version[k[1]])
        BY DEF IInv, CellsOK
      <3>2. \/ store[k].requests = <<>>
            \/ \E x \in {Nil} \union 0 .. version[k[1]] : store[k].requests = <<x>>
        BY <3>1 DEF CellOK, RequestOK
      <3>3. CASE store[k].requests = <<>>
        BY <3>3
      <3>4. CASE \E x \in {Nil} \union 0 .. version[k[1]] : store[k].requests = <<x>>
        BY <3>4
      <3>5. QED
        BY <3>2, <3>3, <3>4
    <2>2. saves \subseteq Save
      BY DEF IInv, SaveOK
    <2>3. QED
      BY <2>1, <2>2 DEF IInv, CellsOK, PageOK, TypeOK
  <1>2. QED
    BY <1>1, CellsStayConsistent, PTL

\* What says that it is under way is.
THEOREM BusyEnds == Spec => []BusyIsUnderWay
  <1>1. IInv => BusyIsUnderWay
    <2> SUFFICES ASSUME IInv
                 PROVE  BusyIsUnderWay
      OBVIOUS
    <2>1. ASSUME NEW k \in Keys, store[k].busy # "no"
          PROVE  store[k].requests # <<>>
      <3>1. CellOK(store[k], version[k[1]]) /\ store[k].inFlight
        BY <2>1 DEF IInv, CellsOK, CellOK
      <3>2. \E x \in {Nil} \union 0 .. version[k[1]] : store[k].requests = <<x>>
        BY <3>1 DEF CellOK, RequestOK
      <3>3. QED
        BY <3>2, Singletons
    <2>2. QED
      BY <2>1 DEF IInv, SubmittedIsSaved, BusyIsUnderWay
  <1>2. QED
    BY <1>1, CellsStayConsistent, PTL

\* A list once shown is never replaced by an older one.
THEOREM ListsOnlyAdvance == Spec => []ListsNeverGoBack
  <1>1. IInv => ListsNeverGoBack
    BY DEF IInv, CellsOK, CellOK, Cell, ListsNeverGoBack
  <1>2. QED
    BY <1>1, CellsStayConsistent, PTL

\* A list lacks the change of its own page only if it shared a request.
THEOREM StaleListsWereShared == Spec => []StaleOnlyIfShared
  <1>1. IInv => StaleOnlyIfShared
    BY DEF IInv, CellsOK, CellOK, StaleOnlyIfShared
  <1>2. QED
    BY <1>1, CellsStayConsistent, PTL

\* Every lock has the timer that ends it.
THEOREM LocksEnd == Spec => []LocksHaveTimers
  <1>1. IInv => LocksHaveTimers
    BY DEF IInv, CellsOK, CellOK, LocksHaveTimers
  <1>2. QED
    BY <1>1, CellsStayConsistent, PTL
=============================================================================
