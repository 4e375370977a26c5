------------------------------ MODULE ListPages ------------------------------
(***************************************************************************)
(* The list pages of the front end over the caches of their services: one    *)
(* page at a time, the requests of pages that were left, and the server.     *)
(*                                                                         *)
(* A service's cache outlives its pages; what a page keeps (query, filter     *)
(* form, editor) dies with it, but the callbacks of a save it sent do not.    *)
(* The content of a list is the number of changes of its resource the server *)
(* had made when it answered; one item stands for the rows of a page.         *)
(***************************************************************************)
EXTENDS CachedList

CONSTANTS
    Scopes,        \* the services a behaviour may be about
    Searches,      \* what can be typed in a filter; NoSearch is the empty text
    NoSearch,
    PageNumbers,   \* pages of a list, from 1 to what the server has
    MaxVersion,    \* bound on the changes of all resources
    MaxSteps,      \* bound on what the user does in a behaviour about these services
    MaxLost        \* bound on the requests that fail or time out

Resources == {"administrators", "programs", "benefits", "beneficiaries", "deliveries"}

Pages == Resources \union {"dashboard"}

ASSUME PagesAssumption ==
    /\ Scopes \subseteq SUBSET Resources
    /\ NoSearch \in Searches
    /\ 1 \in PageNumbers /\ PageNumbers \subseteq Nat
    /\ MaxVersion \in Nat /\ MaxSteps \in [Scopes -> Nat] /\ MaxLost \in Nat

VARIABLES
    scope,    \* the services of this behaviour: caches of others share nothing with them
    store,    \* the cells of every cache, by resource and query
    comp,     \* the page that is open
    saves,    \* the saves under way, those of pages that were left included
    version,  \* the changes of each resource the server has made
    steps,    \* what the user has done, for MaxSteps
    lost      \* requests that failed, for MaxLost

vars == <<scope, store, comp, saves, version, steps, lost>>

-----------------------------------------------------------------------------
(* Keys. *)

\* search stands for every filter and the page size.
Query(search, page) == [search |-> search, page |-> page]

Queries == [search : Searches, page : PageNumbers]

FirstPage == Query(NoSearch, 1)

\* The queries without a page fill the options of a form.
AllOf == Query("all", 0)

ActiveOnly == Query("active", 0)

OfProgram == Query("ofProgram", 0)

\* createListCacheKey drops what is undefined or empty, so that the dashboard and
\* a page without a filter share a key.
Keys ==
    (Resources \X {FirstPage})
    \union ((Resources \ {"benefits"}) \X Queries)
    \union {<<"programs", AllOf>>, <<"programs", ActiveOnly>>, <<"benefits", AllOf>>,
            <<"beneficiaries", AllOf>>, <<"beneficiaries", OfProgram>>}

-----------------------------------------------------------------------------
(* A page. *)

\* typed is the filter form's text; selected, mode and dialog are the editor.
Component == [page : Pages \union {Nil},
              query : Queries,
              typed : Searches,
              selected : Nat \union {Nil},
              mode : {"create", "view", "edit"},
              dialog : BOOLEAN,
              submitting : BOOLEAN,
              credential : BOOLEAN]

Opened(p) == [page |-> p, query |-> FirstPage, typed |-> NoSearch,
              selected |-> Nil, mode |-> "create", dialog |-> FALSE,
              submitting |-> FALSE, credential |-> FALSE]

\* A save: of which page, whether that page is still open, the version it made
\* (Nil while the server has not done it) and the query load() would use.
Save == [page : Pages, kind : {"create", "update", "toggle"}, open : BOOLEAN,
         made : Nat \union {Nil}, query : Queries]

TypeOK ==
    /\ scope \in Scopes
    /\ store \in [Keys -> Cell]
    /\ \A k \in Keys : Len(store[k].requests) <= 1
    /\ comp \in Component
    /\ saves \subseteq Save
    /\ version \in [Resources -> 0 .. MaxVersion]

ReadOnly(c) == c.mode = "view"

\* The editor of CrudFormController.
StartCreate(c) == [c EXCEPT !.selected = Nil, !.mode = "create", !.credential = FALSE]

Select(c, v) == [c EXCEPT !.selected = v, !.mode = "view", !.credential = FALSE]

StartEditing(c) == IF c.selected = Nil THEN c ELSE [c EXCEPT !.mode = "edit"]

Cancel(c) == IF c.selected # Nil THEN Select(c, c.selected) ELSE StartCreate(c)

-----------------------------------------------------------------------------
(* What differs between the pages. *)

\* load(): the query it uses.  Administrators and programs take whatever is in
\* the filter form, sent or not; benefits have one query; beneficiaries and
\* deliveries take the query of the URL.
AdministratorsLoad(c) == [c.query EXCEPT !.search = c.typed]

ProgramsLoad(c) == [c.query EXCEPT !.search = c.typed]

BenefitsLoad(c) == FirstPage

BeneficiariesLoad(c) == c.query

DeliveriesLoad(c) == c.query

LoadQuery(c) ==
    CASE c.page = "administrators" -> AdministratorsLoad(c)
      [] c.page = "programs" -> ProgramsLoad(c)
      [] c.page = "benefits" -> BenefitsLoad(c)
      [] c.page = "beneficiaries" -> BeneficiariesLoad(c)
      [] c.page = "deliveries" -> DeliveriesLoad(c)

\* The lists a page asks for besides its own.
AdministratorsOptions == {<<"programs", ActiveOnly>>}

BeneficiariesOptions == {<<"programs", AllOf>>}

DeliveriesOptions == {<<"programs", ActiveOnly>>, <<"benefits", AllOf>>}

DashboardLists == {<<r, FirstPage>> : r \in Resources}

\* Keys of this behaviour.
InScope(keys) == {k \in keys : k[1] \in scope}

OptionKeys(p) ==
    CASE p = "administrators" -> AdministratorsOptions
      [] p = "beneficiaries" -> BeneficiariesOptions
      [] p = "deliveries" -> DeliveriesOptions
      [] OTHER -> {}

\* The list on the page, and all that its refresh button is about.
MainKey(c) == <<c.page, c.query>>

ShownKeys(c) == InScope(IF c.page = "dashboard" THEN DashboardLists ELSE {MainKey(c)})

RefreshKeys(c) == InScope(ShownKeys(c) \union OptionKeys(c.page))

\* loadBeneficiaryOptions: the beneficiaries of every program, or of the chosen
\* one; they go through getOrLoad, the other lists through ensure.
BeneficiaryOptions(p) ==
    InScope(IF p = "deliveries" THEN {<<"beneficiaries", AllOf>>} ELSE {})

UrlPages == {"beneficiaries", "deliveries"}

Paged == Pages \ {"dashboard", "benefits"}

Edited == Pages \ {"dashboard", "deliveries"}

Toggled == Pages \intersect {"programs", "benefits"}

Init ==
    /\ scope \in Scopes
    /\ store = [k \in Keys |-> EmptyCell]
    /\ comp = Opened(Nil)
    /\ saves = {}
    /\ version = [r \in Resources |-> 0]
    /\ steps = 0
    /\ lost = 0

\* The bound on what the user does.
User == steps < MaxSteps[scope] /\ steps' = steps + 1

\* The dialog is modal: behind it nothing can be reached.
OnList(p) == comp.page = p /\ ~ comp.dialog /\ User

InDialog == comp.dialog /\ User

-----------------------------------------------------------------------------
(* The user on the page. *)

\* The router opens a page; its dialogs close and its saves go on without it.
Open(p) ==
    /\ User
    /\ p # comp.page /\ p \in scope \union {"dashboard"}
    /\ comp' = Opened(p)
    /\ saves' = {IF s.open THEN [s EXCEPT !.open = FALSE, !.query = LoadQuery(comp)]
                           ELSE s : s \in saves}
    /\ store' = [k \in Keys |->
                   IF k \in RefreshKeys(Opened(p)) THEN Ensured(store[k])
                   ELSE IF k \in BeneficiaryOptions(p) THEN GotOrLoaded(store[k])
                   ELSE store[k]]
    /\ UNCHANGED <<scope, version, lost>>

Type(text) ==
    /\ comp.page \in Paged /\ OnList(comp.page)
    /\ text # comp.typed
    /\ comp' = [comp EXCEPT !.typed = text]
    /\ UNCHANGED <<scope, store, saves, version, lost>>

\* load() for the query the page has now; the URL's query is put back into the
\* filter form.
Loaded(c) ==
    /\ comp' = [c EXCEPT !.query = LoadQuery(c),
                         !.typed = IF c.page \in UrlPages THEN c.query.search ELSE @]
    /\ store' = [store EXCEPT ![<<c.page, LoadQuery(c)>>] = Ensured(@)]
    /\ UNCHANGED <<scope, saves, version, lost>>

Search(p) ==
    /\ p \in Paged /\ OnList(p)
    /\ Loaded([comp EXCEPT !.query = Query(comp.typed, 1)])

\* A list that is not there has one page.
ChangePage(p, n) ==
    /\ p \in Paged /\ OnList(p)
    /\ store[MainKey(comp)].data # Nil
    /\ n # comp.query.page
    /\ Loaded([comp EXCEPT !.query.page = n])

\* The button is locked while a list it is about is refreshed or cooling down;
\* the store locks the lists of the options by itself.
Refresh(p) ==
    /\ OnList(p)
    /\ \A k \in ShownKeys(comp) : store[k].busy # "refreshing" /\ store[k].next = Nil
    /\ store' = [k \in Keys |-> IF k \in RefreshKeys(comp) THEN Refreshed(store[k])
                                ELSE store[k]]
    /\ UNCHANGED <<scope, comp, saves, version, lost>>

ChooseProgram ==
    /\ OnList("deliveries") /\ "beneficiaries" \in scope
    /\ store' = [store EXCEPT ![<<"beneficiaries", OfProgram>>] = GotOrLoaded(@)]
    /\ UNCHANGED <<scope, comp, saves, version, lost>>

-----------------------------------------------------------------------------
(* The editor. *)

OpenCreate(p) ==
    /\ p # "dashboard" /\ OnList(p)
    /\ ~ comp.submitting
    /\ comp' = [StartCreate(comp) EXCEPT !.dialog = TRUE]
    /\ UNCHANGED <<scope, store, saves, version, lost>>

OpenItem(p) ==
    /\ p # "dashboard" /\ OnList(p)
    /\ store[MainKey(comp)].data # Nil
    /\ comp' = [Select(comp, store[MainKey(comp)].data) EXCEPT !.dialog = TRUE]
    /\ UNCHANGED <<scope, store, saves, version, lost>>

EditItem ==
    /\ InDialog
    /\ comp.page \in Edited /\ comp.selected # Nil /\ ReadOnly(comp) /\ ~ comp.submitting
    /\ comp' = StartEditing(comp)
    /\ UNCHANGED <<scope, store, saves, version, lost>>

\* The dialog can be closed at any time, also while a save is under way.
CloseDialog ==
    /\ InDialog
    /\ comp' = [comp EXCEPT !.dialog = FALSE]
    /\ UNCHANGED <<scope, store, saves, version, lost>>

CancelEditor ==
    /\ InDialog
    /\ comp.page \in Edited /\ ~ comp.submitting
    /\ comp' = [Cancel(comp) EXCEPT !.dialog = FALSE]
    /\ UNCHANGED <<scope, store, saves, version, lost>>

Sent(kind) == [page |-> comp.page, kind |-> kind, open |-> TRUE, made |-> Nil,
               query |-> FirstPage]

Submit ==
    /\ InDialog
    /\ ~ comp.submitting /\ ~ ReadOnly(comp)
    /\ saves' = saves \union {Sent(IF comp.selected = Nil THEN "create" ELSE "update")}
    /\ comp' = [comp EXCEPT !.submitting = TRUE]
    /\ UNCHANGED <<scope, store, version, lost>>

\* toggleStatus marks nothing as under way.
ToggleStatus ==
    /\ InDialog
    /\ comp.page \in Toggled /\ comp.selected # Nil
    /\ ~ comp.submitting /\ ~ ReadOnly(comp)
    /\ saves' = saves \union {Sent("toggle")}
    /\ UNCHANGED <<scope, store, comp, version, lost>>

-----------------------------------------------------------------------------
(* The server. *)

\* The changes of all resources, for MaxVersion.
Changes == version["administrators"] + version["programs"] + version["benefits"]
             + version["beneficiaries"] + version["deliveries"]

Made(r) ==
    /\ Changes < MaxVersion
    /\ version' = [version EXCEPT ![r] = @ + 1]

DoSave(s) ==
    /\ s.made = Nil
    /\ Made(s.page)
    /\ saves' = (saves \ {s}) \union {[s EXCEPT !.made = version'[s.page]]}
    /\ UNCHANGED <<scope, store, comp, steps, lost>>

\* Somebody else changes the resource.
ChangeElsewhere(r) ==
    /\ r \in scope /\ Made(r)
    /\ UNCHANGED <<scope, store, comp, saves, steps, lost>>

ReadList(k, i) ==
    /\ store[k].requests[i] = Nil
    /\ store' = [store EXCEPT ![k].requests[i] = version[k[1]]]
    /\ UNCHANGED <<scope, comp, saves, version, steps, lost>>

-----------------------------------------------------------------------------
(* Answers, failures and time. *)

AnswerList(k, i) ==
    /\ store[k].requests[i] # Nil
    /\ store' = [store EXCEPT ![k] = Answered(@, i)]
    /\ UNCHANGED <<scope, comp, saves, version, steps, lost>>

LoseList(k, i) ==
    /\ lost < MaxLost /\ lost' = lost + 1
    /\ store' = [store EXCEPT ![k] = Failed(@, i)]
    /\ UNCHANGED <<scope, comp, saves, version, steps>>

\* What the answer to a save does to the editor: a credential is shown, and the
\* editor starts over at once.
Saved(c, kind) ==
    IF kind = "toggle" THEN c
    ELSE [StartCreate([c EXCEPT !.credential = kind = "create"])
            EXCEPT !.submitting = FALSE, !.dialog = FALSE]

\* Deviation of Acknowledged: load() instead of load(true).
AcknowledgedOnly(c, made) ==
    [Ensured(c) EXCEPT !.own = made, !.overtaken = c.inFlight]

\* load(true), and what is remembered of it.
Acknowledged(c, made) ==
    [Ensured(Invalidated(c)) EXCEPT !.own = made, !.overtaken = c.inFlight]

AnswerSave(s) ==
    LET q == IF s.open THEN LoadQuery(comp) ELSE s.query
    IN  /\ s.made # Nil
        /\ saves' = saves \ {s}
        /\ comp' = IF s.open THEN [Saved(comp, s.kind) EXCEPT !.query = q] ELSE comp
        /\ store' = [store EXCEPT ![<<s.page, q>>] = Acknowledged(@, s.made)]
        /\ UNCHANGED <<scope, version, steps, lost>>

\* A save is refused or fails, whether or not the server has done it.
LoseSave(s) ==
    /\ lost < MaxLost /\ lost' = lost + 1
    /\ saves' = saves \ {s}
    /\ comp' = IF s.open /\ s.kind # "toggle" THEN [comp EXCEPT !.submitting = FALSE]
               ELSE comp
    /\ UNCHANGED <<scope, store, version, steps>>

Tick ==
    /\ store' = [k \in Keys |-> Aged(store[k])]
    /\ UNCHANGED <<scope, comp, saves, version, steps, lost>>

Unlock(k) ==
    /\ store[k].timer = 0
    /\ store' = [store EXCEPT ![k] = Unlocked(@)]
    /\ UNCHANGED <<scope, comp, saves, version, steps, lost>>

Next ==
    \/ \E p \in Pages : Open(p) \/ Search(p) \/ Refresh(p) \/ OpenCreate(p) \/ OpenItem(p)
    \/ \E p \in Pages, n \in PageNumbers : ChangePage(p, n)
    \/ \E text \in Searches : Type(text)
    \/ ChooseProgram \/ EditItem \/ CloseDialog \/ CancelEditor \/ Submit \/ ToggleStatus
    \/ \E s \in saves : DoSave(s) \/ AnswerSave(s) \/ LoseSave(s)
    \/ \E r \in Resources : ChangeElsewhere(r)
    \/ \E k \in Keys : \E i \in DOMAIN store[k].requests :
         ReadList(k, i) \/ AnswerList(k, i) \/ LoseList(k, i)
    \/ Tick
    \/ \E k \in Keys : Unlock(k)

Spec == Init /\ [][Next]_vars

-----------------------------------------------------------------------------
(* Properties. *)

\* What says that it is under way is: a list that loads or refreshes has a request
\* that will end it, and a page that submits has a save of its own.  Otherwise the
\* list could not be loaded, or the form not be sent, ever again.
BusyIsUnderWay ==
    /\ \A k \in Keys : store[k].busy # "no" => store[k].requests # <<>>
    /\ comp.submitting => \E s \in saves : s.open /\ s.kind # "toggle"

\* Whatever is invalidated, refreshed or shared, a list once shown is never
\* replaced by an older one: the store has one request per key at a time, the one
\* that an invalidation found under way included.
ListsNeverGoBack ==
    \A k \in Keys : store[k].data # Nil => store[k].data >= store[k].seen

\* After a save the page's list lacks the change only if a request of that list
\* was already under way when the save was acknowledged, and was shared instead
\* of asking again.
StaleOnlyIfShared ==
    \A k \in Keys :
      store[k].data # Nil /\ store[k].data < store[k].own => store[k].overtaken

\* A list that is locked against refreshing has the timer that will unlock it,
\* whatever answers, failures, refreshes and invalidations came between.
LocksHaveTimers ==
    \A k \in Keys : store[k].next # Nil => store[k].timer = store[k].next
=============================================================================
