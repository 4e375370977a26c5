----------------------------- MODULE CachedList -----------------------------
(***************************************************************************)
(* CachedListStore: what one key of a list cache keeps and how each call     *)
(* changes it.  A list is known by the version of its resource that the      *)
(* server read to answer it, so that "older" has a meaning.                  *)
(*                                                                         *)
(* Time is relative: next is the time left to nextRefreshAt, 0 once it has    *)
(* passed; timer is the same of the deadline the unlock timer was armed for.  *)
(***************************************************************************)
EXTENDS Integers, Sequences, SequencesExt

CONSTANTS
    Cooldown,    \* ticks a manual refresh is locked after an answer
    Nil          \* an absent value

ASSUME CooldownAssumption == Cooldown \in Nat \ {0}

ASSUME NilAssumption == Nil \notin Nat

\* data, loading or refreshing, nextRefreshAt; inFlight; refreshTimers.
\* requests holds what the server has read for each request still unanswered.
\* seen, own and overtaken are history: the newest list shown, the newest change
\* acknowledged with this list on the page, and whether a request was under way
\* at that moment.
Cell == [data : Nat \union {Nil},
         busy : {"no", "loading", "refreshing"},
         next : Nat \union {Nil},
         timer : Nat \union {Nil},
         inFlight : BOOLEAN,
         requests : Seq(Nat \union {Nil}),
         seen : Nat,
         own : Nat,
         overtaken : BOOLEAN]

EmptyCell == [data |-> Nil, busy |-> "no", next |-> Nil, timer |-> Nil,
              inFlight |-> FALSE, requests |-> <<>>,
              seen |-> 0, own |-> 0, overtaken |-> FALSE]

\* Deviation of Load: every call asks the server.
LoadUnshared(c) ==
    [c EXCEPT !.busy = IF c.data = Nil THEN "loading" ELSE "refreshing",
              !.inFlight = TRUE,
              !.requests = Append(@, Nil)]

\* load: a request in flight is shared.
Load(c) ==
    IF c.inFlight THEN c
    ELSE [c EXCEPT !.busy = IF c.data = Nil THEN "loading" ELSE "refreshing",
                   !.inFlight = TRUE,
                   !.requests = Append(@, Nil)]

Ensured(c) == IF c.data # Nil \/ c.busy # "no" THEN c ELSE Load(c)

Refreshed(c) ==
    IF c.busy # "no" \/ (c.next # Nil /\ c.next > 0) THEN c ELSE Load(c)

GotOrLoaded(c) == IF c.data # Nil THEN c ELSE Load(c)

\* Deviation of Invalidated: the request in flight is forgotten.
InvalidatedForgetful(c) ==
    [c EXCEPT !.data = Nil, !.busy = "no", !.next = Nil, !.timer = Nil,
              !.inFlight = FALSE]

\* Deviation of Invalidated: the timer goes but the lock stays.
InvalidatedLocked(c) ==
    [c EXCEPT !.data = Nil, !.busy = "no", !.timer = Nil]

\* invalidate: the state and the timer go, the request in flight stays.
Invalidated(c) ==
    [c EXCEPT !.data = Nil, !.busy = "no", !.next = Nil, !.timer = Nil]

\* The i-th request is answered: the state is replaced and the lock is armed.
Answered(c, i) ==
    [c EXCEPT !.data = c.requests[i],
              !.busy = "no",
              !.next = Cooldown,
              !.timer = Cooldown,
              !.inFlight = FALSE,
              !.requests = RemoveAt(@, i),
              !.seen = IF @ < c.requests[i] THEN c.requests[i] ELSE @,
              !.overtaken = @ /\ c.requests[i] < c.own]

\* Deviation of Failed: the flags stay as they are.
FailedBusy(c, i) ==
    [c EXCEPT !.inFlight = FALSE, !.requests = RemoveAt(@, i)]

\* It fails or times out: the former list and its lock stay.
Failed(c, i) ==
    [c EXCEPT !.busy = "no", !.inFlight = FALSE, !.requests = RemoveAt(@, i)]

Aged(c) ==
    [c EXCEPT !.next = IF @ \in {Nil, 0} THEN @ ELSE @ - 1,
              !.timer = IF @ \in {Nil, 0} THEN @ ELSE @ - 1]

\* The timer that finds its deadline over, or replaced.
Unlocked(c) ==
    [c EXCEPT !.timer = Nil,
              !.next = IF @ = c.timer THEN Nil ELSE @]
=============================================================================
