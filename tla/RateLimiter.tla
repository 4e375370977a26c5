----------------------------- MODULE RateLimiter -----------------------------
(***************************************************************************)
(* AuthRateLimitService, its in-memory store, and the four handlers that use *)
(* it.  Login and reset-password ask before their awaits and register the    *)
(* outcome after them; forgot-password and the public metrics ask and        *)
(* register at once.                                                         *)
(*                                                                         *)
(* Time is counted in ticks and kept relative: an entry knows how long ago   *)
(* its window started and how long its block has still to run.  Clients of   *)
(* different addresses share no entry, so there is one address: an entry is  *)
(* its ip key (Ip) or the ip-identifier key of one identifier.               *)
(***************************************************************************)
EXTENDS Integers, FiniteSets

CONSTANTS
    Deferred,      \* actions registered after an await: login, reset-password
    Immediate,     \* actions registered at once: forgot-password, public-metrics
    WithDemo,      \* those that know the demo account: login
    Limit,         \* attempts of each action that start a block
    Block,         \* ticks each action's block lasts
    Window,        \* ticks a window lasts (WINDOW_MS)
    Identifiers,   \* what a client says of itself: a login, an email, a token
    Said,          \* those it says with each action (the metrics have one)
    Ip,            \* the client's address
    Requests,      \* concurrent requests (bounds the interleaving)
    Nil            \* an absent value

Actions == Deferred \union Immediate

ASSUME LimitsAssumption ==
    /\ Deferred \intersect Immediate = {} /\ WithDemo \subseteq Deferred
    /\ Window \in Nat \ {0}
    /\ Limit \in [Actions -> Nat \ {0}]
    /\ Said \in [Actions -> SUBSET Identifiers]
    /\ Block \in [Actions -> Nat \ {0}]
    /\ \A a \in Actions : Block[a] >= Window
    /\ IsFiniteSet(Requests)

ASSUME NamesAssumption ==
    Ip \notin Identifiers /\ Nil \notin Identifiers \union {Ip} \union Actions

VARIABLES
    store,    \* the limiter's entries
    req,      \* the requests in flight
    recent    \* history: immediate requests let through in the last ticks

vars == <<store, req, recent>>

-----------------------------------------------------------------------------
(* Entries. *)

\* buildKeys: the address alone, and the address with the identifier.
KeysOf(a, id) == {<<a, Ip>>, <<a, id>>}

Keys == UNION {UNION {KeysOf(a, id) : id \in Said[a]} : a \in Actions}

\* age is the time since windowStartedAt (Window once it is over); left the time
\* to blockedUntil: 0 when it has passed, Nil when there is none.
Entry == [attempts : Nat, age : 0 .. Window, left : Nat \union {Nil}]

\* A request that has been let through and awaits its outcome.
RequestSlot == [action : Deferred, id : Identifiers]

ASSUME NilAssumption == Nil \notin Nat \union Entry \union RequestSlot

\* recent[a][t] counts those of this tick and of the t before it.
TypeOK ==
    /\ store \in [Keys -> {Nil} \union Entry]
    /\ \A k \in Keys : store[k] # Nil => store[k].left \in {Nil} \union 0 .. Block[k[1]]
    /\ req \in [Requests -> {Nil} \union RequestSlot]
    /\ recent \in [Immediate -> [0 .. Window - 1 -> Nat]]

Blocking(e) == e # Nil /\ e.left \notin {Nil, 0}

\* Deviation of Kept: an entry goes when its window is over, block or not.
KeptInWindow(e) == IF e # Nil /\ e.age = Window THEN Nil ELSE e

\* pruneExpired: what it leaves of an entry.
Kept(e) == IF e # Nil /\ e.age = Window /\ ~ Blocking(e) THEN Nil ELSE e

\* getState: a block that runs counts; a window or a block that is over does not.
State(e) == IF e = Nil \/ Blocking(e) \/ (e.age < Window /\ e.left = Nil)
            THEN e ELSE Nil

\* The entries after a call of the limiter about the keys given, before it
\* registers anything.
Pruned(keys) ==
    [k \in Keys |-> IF k \in keys THEN State(Kept(store[k])) ELSE Kept(store[k])]

\* getRetryAfterSeconds returns more than 0.
Blocked(keys) == \E k \in keys : Blocking(Kept(store[k]))

\* Deviations of Registered: the block starts after the limit is passed; the
\* block is not written.
RegisteredLate(e, a) ==
    LET old == IF e = Nil THEN [attempts |-> 0, age |-> 0, left |-> Nil] ELSE e
    IN  [old EXCEPT !.attempts = @ + 1,
                    !.left = IF old.attempts >= Limit[a] THEN Block[a] ELSE @]

RegisteredUnblocked(e, a) ==
    LET old == IF e = Nil THEN [attempts |-> 0, age |-> 0, left |-> Nil] ELSE e
    IN  [old EXCEPT !.attempts = @ + 1]

\* register, for one key: the attempt that reaches the limit starts a block, and
\* so does every later one.
Registered(e, a) ==
    LET old == IF e = Nil THEN [attempts |-> 0, age |-> 0, left |-> Nil] ELSE e
    IN  [old EXCEPT !.attempts = @ + 1,
                    !.left = IF old.attempts + 1 >= Limit[a] THEN Block[a] ELSE @]

Register(a, id) ==
    store' = [k \in Keys |-> IF k \in KeysOf(a, id)
                             THEN Registered(Pruned(KeysOf(a, id))[k], a)
                             ELSE Pruned({})[k]]

\* registerSuccess deletes the keys and prunes nothing.
Clear(a, id) ==
    store' = [k \in Keys |-> IF k \in KeysOf(a, id) THEN Nil ELSE store[k]]

Init ==
    /\ store = [k \in Keys |-> Nil]
    /\ req = [r \in Requests |-> Nil]
    /\ recent = [a \in Immediate |-> [t \in 0 .. Window - 1 |-> 0]]

-----------------------------------------------------------------------------
(* login and reset-password. *)

\* The question before the awaits.
Ask(r, a, id) ==
    /\ req[r] = Nil
    /\ ~ Blocked(KeysOf(a, id))
    /\ store' = Pruned(KeysOf(a, id))
    /\ req' = [req EXCEPT ![r] = [action |-> a, id |-> id]]
    /\ UNCHANGED recent

\* Deviation of Refuse: asking while blocked starts the block again.
RefuseExtending(a, id) ==
    /\ Blocked(KeysOf(a, id))
    /\ store' = [k \in Keys |-> IF k \in KeysOf(a, id) /\ Blocking(store[k])
                                THEN [store[k] EXCEPT !.left = Block[a]]
                                ELSE Kept(store[k])]
    /\ UNCHANGED <<req, recent>>

\* A request that is refused, of any action, leaves only the pruning behind.
Refuse(a, id) ==
    /\ Blocked(KeysOf(a, id))
    /\ store' = Pruned(KeysOf(a, id))
    /\ UNCHANGED <<req, recent>>

\* Wrong credentials or a token that is not valid: registerFailure.
Fail(r) ==
    /\ req[r] # Nil
    /\ Register(req[r].action, req[r].id)
    /\ req' = [req EXCEPT ![r] = Nil]
    /\ UNCHANGED recent

\* registerSuccess.
Succeed(r) ==
    /\ req[r] # Nil
    /\ Clear(req[r].action, req[r].id)
    /\ req' = [req EXCEPT ![r] = Nil]
    /\ UNCHANGED recent

\* The demo account is recognised before any await; without an identifier of its
\* own in the store it still clears its address.
DemoLogin(a, id) ==
    /\ ~ Blocked(KeysOf(a, id))
    /\ Clear(a, id)
    /\ UNCHANGED <<req, recent>>

\* A statement fails between the question and the registration.
Abort(r) ==
    /\ req[r] # Nil
    /\ req' = [req EXCEPT ![r] = Nil]
    /\ UNCHANGED <<store, recent>>

-----------------------------------------------------------------------------
(* forgot-password and the public metrics. *)

AskAndRegister(a, id) ==
    /\ ~ Blocked(KeysOf(a, id))
    /\ Register(a, id)
    /\ recent' = [recent EXCEPT ![a] = [t \in 0 .. Window - 1 |-> @[t] + 1]]
    /\ UNCHANGED req

-----------------------------------------------------------------------------
(* Time and restarts. *)

\* Deviation of Tick: a block that is over runs on.
TickPastBlock ==
    /\ store' = [k \in Keys |->
                   IF store[k] = Nil \/ store[k].left = Nil THEN store[k]
                   ELSE [store[k] EXCEPT !.left = @ - 1]]
    /\ UNCHANGED <<req, recent>>

Tick ==
    /\ store' = [k \in Keys |->
                   IF store[k] = Nil THEN Nil
                   ELSE [store[k] EXCEPT
                           !.age = IF @ = Window THEN @ ELSE @ + 1,
                           !.left = IF @ \in {Nil, 0} THEN @ ELSE @ - 1]]
    /\ recent' = [a \in Immediate |-> [t \in 0 .. Window - 1 |->
                    IF t = 0 THEN 0 ELSE recent[a][t - 1]]]
    /\ UNCHANGED req

\* The store and the requests are in the memory of one process.
Restart ==
    /\ store' = [k \in Keys |-> Nil]
    /\ req' = [r \in Requests |-> Nil]
    /\ recent' = [a \in Immediate |-> [t \in 0 .. Window - 1 |-> 0]]

Next ==
    \/ \E a \in Deferred : \E id \in Said[a] : \E r \in Requests : Ask(r, a, id)
    \/ \E a \in WithDemo : \E id \in Said[a] : DemoLogin(a, id)
    \/ \E a \in Immediate : \E id \in Said[a] : AskAndRegister(a, id)
    \/ \E a \in Actions : \E id \in Said[a] : Refuse(a, id)
    \/ \E r \in Requests : Fail(r) \/ Succeed(r) \/ Abort(r)
    \/ Tick
    \/ Restart

Spec == Init /\ [][Next]_vars

\* Time passes; nobody has to send or to answer anything.
FairSpec == Spec /\ WF_vars(Tick)

-----------------------------------------------------------------------------
(* Properties. *)

\* Logins that are checked together all pass: a key counts at most the limit
\* less one, and one more for each request that was in flight.  Late failures
\* extend the block, so that no new request joins them.
OvershootBounded ==
    \A k \in Keys : store[k] # Nil =>
      store[k].attempts <= Limit[k[1]] - 1
                             + (IF k[1] \in Deferred THEN Cardinality(Requests) ELSE 1)

\* In any Window ticks, across window boundaries, at most twice the limit less
\* two requests of an immediate action are let through (or its limit, if that is
\* more): the window is fixed, not sliding, but a block outlives it.
RateBounded ==
    \A a \in Immediate :
      recent[a][Window - 1] <= IF Limit[a] > 2 THEN 2 * Limit[a] - 2 ELSE Limit[a]

\* A block lasts to its end, also past the end of the window that counted its
\* attempts: only time shortens it, unless the process restarts or a request that
\* was let through before it succeeds.  Nobody clears a block by what he does
\* after it began, with the demo account neither.
BlocksLast ==
    [][\A k \in Keys : Blocking(store[k]) =>
         \/ Blocking(store'[k]) /\ store'[k].left >= store[k].left
         \/ Tick
         \/ \E r \in Requests :
              /\ req[r] # Nil /\ k \in KeysOf(req[r].action, req[r].id)
              /\ Succeed(r)
         \/ Restart]_vars

\* Every block ends, however often its address asks meanwhile.
BlocksEnd == \A k \in Keys : Blocking(store[k]) ~> ~ Blocking(store[k])
=============================================================================
