------------------------- MODULE RateLimiter_proofs --------------------------
(***************************************************************************)
(* Proofs of the safety properties of RateLimiter, for every set of actions, *)
(* identifiers and concurrent requests, every limit and block and every      *)
(* length of the window.                                                     *)
(***************************************************************************)
EXTENDS RateLimiter, FiniteSetTheorems, TLAPS

USE LimitsAssumption, NilAssumption

-----------------------------------------------------------------------------
(* The inductive invariant. *)

\* The requests in flight that will register their outcome under k.
Holding(k) == {r \in Requests : req[r] # Nil /\ k \in KeysOf(req[r].action, req[r].id)}

Overshoot(a) == IF a \in Deferred THEN Cardinality(Requests) ELSE 1

\* An entry of action a, with held requests in flight for its key: an entry that
\* has no block is below the limit, and those in flight may still pass it.
EntryOK(e, a, held) ==
    /\ e \in {Nil} \union Entry
    /\ e # Nil => /\ e.left \in {Nil} \union 0 .. Block[a]
                  /\ e.attempts >= 1
                  /\ e.left = Nil => e.attempts <= Limit[a] - 1
                  /\ e.attempts + held <= Limit[a] - 1 + Overshoot(a)

\* What the window before may add to the window that runs.
Spare(a) == IF Limit[a] > 2 THEN Limit[a] - 2 ELSE 0

\* What the address entry e of immediate action a knows of the requests R let
\* through: the first of its window is as old as the window, so that one less is
\* younger; none is younger than its block.
WindowOK(e, R, a) ==
    /\ \A t \in 1 .. Window - 1 : R[t - 1] <= R[t]
    /\ e = Nil => R[Window - 1] <= Spare(a)
    /\ e # Nil => /\ e.age > 0 => R[e.age - 1] <= e.attempts - 1
                  /\ e.age < Window => R[Window - 1] <= e.attempts + Spare(a)
                  /\ e.left # Nil =>
                       \A t \in 0 .. Window - 1 : t < Block[a] - e.left => R[t] = 0

Histories == [0 .. Window - 1 -> Nat]

Asked == \A r \in Requests : req[r] # Nil => req[r].id \in Said[req[r].action]

EntriesOK == \A k \in Keys : EntryOK(store[k], k[1], Cardinality(Holding(k)))

WindowsOK ==
    \A a \in Immediate :
      IF Said[a] = {} THEN \A t \in 0 .. Window - 1 : recent[a][t] = 0
      ELSE WindowOK(store[<<a, Ip>>], recent[a], a)

IInv ==
    /\ store \in [Keys -> {Nil} \union Entry]
    /\ req \in [Requests -> {Nil} \union RequestSlot]
    /\ recent \in [Immediate -> Histories]
    /\ Asked
    /\ EntriesOK
    /\ WindowsOK

-----------------------------------------------------------------------------
(* The keys and the requests that hold them. *)

LEMMA KeyFacts ==
    /\ \A a \in Actions : \A id \in Said[a] : KeysOf(a, id) \subseteq Keys
    /\ \A a \in Actions : Said[a] # {} => <<a, Ip>> \in Keys
    /\ \A k \in Keys : k[1] \in Actions
    /\ \A a, id : \A k \in KeysOf(a, id) : k[1] = a
  <1>1. \A a, id : \A k \in KeysOf(a, id) : k[1] = a
    BY DEF KeysOf
  <1>2. \A a \in Actions : \A id \in Said[a] : KeysOf(a, id) \subseteq Keys
    BY DEF Keys
  <1>3. \A a \in Actions : Said[a] # {} => <<a, Ip>> \in Keys
    BY <1>2 DEF KeysOf
  <1>4. \A k \in Keys : k[1] \in Actions
    BY <1>1 DEF Keys
  <1>5. QED
    BY <1>1, <1>2, <1>3, <1>4

\* There are at most as many as there are requests, and none of an immediate
\* action.
LEMMA HoldingBounds ==
    ASSUME req \in [Requests -> {Nil} \union RequestSlot], NEW k
    PROVE  /\ IsFiniteSet(Holding(k))
           /\ Cardinality(Holding(k)) \in Nat
           /\ Cardinality(Requests) \in Nat
           /\ Cardinality(Holding(k)) <= Cardinality(Requests)
           /\ k[1] \in Immediate => Cardinality(Holding(k)) = 0
  <1>1. Holding(k) \in SUBSET Requests /\ IsFiniteSet(Requests)
    BY DEF Holding
  <1>2. /\ IsFiniteSet(Holding(k)) /\ Cardinality(Holding(k)) \in Nat
        /\ Cardinality(Requests) \in Nat
        /\ Cardinality(Holding(k)) <= Cardinality(Requests)
    BY <1>1, FS_Subset, FS_CardinalityType
  <1>3. ASSUME k[1] \in Immediate
        PROVE  Holding(k) = {}
    <2>1. ASSUME NEW r \in Holding(k)
          PROVE  FALSE
      <3>1. req[r] \in RequestSlot /\ k \in KeysOf(req[r].action, req[r].id)
        BY <2>1 DEF Holding
      <3>2. req[r].action \in Deferred /\ k[1] = req[r].action
        BY <3>1, KeyFacts DEF RequestSlot
      <3>3. QED
        BY <3>2, <1>3
    <2>2. QED
      BY <2>1
  <1>4. QED
    BY <1>2, <1>3, FS_EmptySet

-----------------------------------------------------------------------------
(* Entries. *)

\* Fewer requests in flight leave an entry in order.
LEMMA FewerHeld ==
    ASSUME NEW e, NEW a \in Actions, NEW m \in Nat, NEW n \in Nat, n <= m,
           Overshoot(a) \in Nat, EntryOK(e, a, m)
    PROVE  EntryOK(e, a, n)
  BY DEF EntryOK, Entry

\* So do pruneExpired and getState, which keep an entry or drop it.
LEMMA PruningKeeps ==
    ASSUME NEW e, NEW a \in Actions, NEW n \in Nat, EntryOK(e, a, n)
    PROVE  EntryOK(Kept(e), a, n) /\ EntryOK(State(Kept(e)), a, n)
  <1>1. Kept(e) \in {Nil, e} /\ State(Kept(e)) \in {Nil, e}
    BY DEF Kept, State
  <1>2. EntryOK(Nil, a, n)
    BY DEF EntryOK
  <1>3. QED
    BY <1>1, <1>2

\* What getState returns when no block runs is below the limit.
LEMMA StateIsFresh ==
    ASSUME NEW e, NEW a \in Actions, NEW n \in Nat, EntryOK(e, a, n),
           ~ Blocking(Kept(e))
    PROVE  \/ State(Kept(e)) = Nil
           \/ /\ State(Kept(e)) = e /\ e \in Entry /\ e # Nil /\ e.left = Nil
              /\ e.age < Window /\ e.attempts <= Limit[a] - 1
  BY DEF Kept, State, EntryOK

\* A registration counts one more attempt.
LEMMA RegisteredEntry ==
    ASSUME NEW e \in {Nil} \union Entry, NEW a \in Actions
    PROVE  /\ Registered(e, a) \in Entry
           /\ Registered(e, a).attempts = (IF e = Nil THEN 0 ELSE e.attempts) + 1
           /\ Registered(e, a).age = IF e = Nil THEN 0 ELSE e.age
           /\ Registered(e, a).left = IF Registered(e, a).attempts >= Limit[a] THEN Block[a]
                                      ELSE IF e = Nil THEN Nil ELSE e.left
  <1> DEFINE old == IF e = Nil THEN [attempts |-> 0, age |-> 0, left |-> Nil] ELSE e
             new == [old EXCEPT !.attempts = @ + 1,
                                !.left = IF old.attempts + 1 >= Limit[a] THEN Block[a] ELSE @]
  <1>1. old \in Entry
    BY DEF Entry
  <1>2. Registered(e, a) = new
    BY DEF Registered
  <1>3. Block[a] \in Nat /\ Limit[a] \in Nat
    OBVIOUS
  <1>4. /\ e = Nil => old.attempts = 0 /\ old.age = 0 /\ old.left = Nil
        /\ e # Nil => old = e
    OBVIOUS
  <1> HIDE DEF old
  <1>5. /\ new \in Entry /\ new.attempts = old.attempts + 1 /\ new.age = old.age
        /\ new.left = IF new.attempts >= Limit[a] THEN Block[a] ELSE old.left
    <2> DEFINE left == IF old.attempts + 1 >= Limit[a] THEN Block[a] ELSE old.left
    <2>1. left \in Nat \union {Nil} /\ old.attempts + 1 \in Nat
      BY <1>1, <1>3 DEF Entry
    <2>2. new = [old EXCEPT !.attempts = old.attempts + 1, !.left = left]
      OBVIOUS
    <2>3. left = IF old.attempts + 1 >= Limit[a] THEN Block[a] ELSE old.left
      OBVIOUS
    <2> HIDE DEF left, new
    <2>4. /\ new \in Entry /\ new.attempts = old.attempts + 1 /\ new.age = old.age
          /\ new.left = left
      BY <1>1, <2>1, <2>2 DEF Entry
    <2>5. QED
      BY <2>3, <2>4
  <1>6. QED
    BY <1>2, <1>4, <1>5

\* The request that registers leaves its place in the bound to the attempt.
LEMMA RegisteringKeeps ==
    ASSUME NEW e, NEW a \in Actions, NEW m \in Nat, NEW n \in Nat,
           Cardinality(Requests) \in Nat, EntryOK(e, a, m),
           m <= Overshoot(a),
           \/ a \in Deferred /\ m = n + 1
           \/ a \in Immediate /\ n = 0 /\ ~ Blocking(Kept(e))
    PROVE  EntryOK(Registered(State(Kept(e)), a), a, n)
  <1> DEFINE old == State(Kept(e))
             new == Registered(old, a)
  <1>1. EntryOK(old, a, m)
    BY PruningKeeps
  <1>2. old = Nil \/ (old \in Entry /\ old # Nil)
    BY <1>1 DEF EntryOK
  <1>3. /\ new \in Entry
        /\ new.attempts = (IF old = Nil THEN 0 ELSE old.attempts) + 1
        /\ new.left = IF new.attempts >= Limit[a] THEN Block[a]
                      ELSE IF old = Nil THEN Nil ELSE old.left
    BY <1>2, RegisteredEntry
  <1>4. a \in Immediate => old = Nil \/ old.attempts <= Limit[a] - 1
    BY StateIsFresh
  <1>5. /\ Limit[a] \in Nat \ {0} /\ Block[a] \in Nat
        /\ Overshoot(a) = IF a \in Deferred THEN Cardinality(Requests) ELSE 1
    BY DEF Overshoot
  <1> HIDE DEF old, new
  <1>6. new.left \in {Nil} \union 0 .. Block[a]
    BY <1>1, <1>2, <1>3, <1>5 DEF EntryOK
  <1>7. new.attempts \in Nat /\ new.attempts >= 1
    BY <1>2, <1>3 DEF Entry
  <1>8. new.left = Nil => new.attempts <= Limit[a] - 1
    BY <1>3, <1>5, <1>7
  <1>9. new.attempts + n <= Limit[a] - 1 + Overshoot(a)
    <2>1. CASE old = Nil
      BY <2>1, <1>3, <1>5
    <2>2. CASE old # Nil
      BY <2>2, <1>1, <1>2, <1>3, <1>4, <1>5 DEF EntryOK, Entry
    <2>3. QED
      BY <2>1, <2>2
  <1>10. EntryOK(new, a, n)
    BY <1>3, <1>6, <1>7, <1>8, <1>9 DEF EntryOK
  <1>11. QED
    BY <1>10 DEF new, old
-----------------------------------------------------------------------------
(* The window of an address. *)

\* pruneExpired and getState drop an entry whose window is over, or whose block
\* is: then less than the limit, by two, is left of it in the last Window ticks.
LEMMA WindowPruned ==
    ASSUME NEW e, NEW a \in Immediate, NEW R \in Histories, EntryOK(e, a, 0),
           WindowOK(e, R, a)
    PROVE  WindowOK(Kept(e), R, a) /\ WindowOK(State(Kept(e)), R, a)
  <1>1. /\ a \in Actions /\ Window \in Nat \ {0} /\ Block[a] \in Nat /\ Block[a] >= Window
        /\ Limit[a] \in Nat \ {0} /\ Spare(a) \in Nat /\ R[Window - 1] \in Nat
        /\ Window - 1 \in 0 .. Window - 1
    BY DEF Actions, Histories, Spare
  <1>2. ASSUME e # Nil, e.age = Window, e.left = Nil
        PROVE  R[Window - 1] <= Spare(a)
    BY <1>1, <1>2 DEF EntryOK, WindowOK, Entry, Spare
  <1>3. ASSUME e # Nil, e.left = 0
        PROVE  R[Window - 1] <= Spare(a)
    BY <1>1, <1>3 DEF WindowOK
  <1>4. \A n : n = Nil /\ R[Window - 1] <= Spare(a) => WindowOK(n, R, a)
    BY DEF WindowOK
  <1>5. Kept(e) = e \/ (Kept(e) = Nil /\ e # Nil /\ e.age = Window /\ e.left \in {Nil, 0})
    BY DEF Kept, Blocking
  <1>6. WindowOK(Kept(e), R, a)
    BY <1>2, <1>3, <1>4, <1>5
  <1>7. \/ State(e) = e
        \/ State(e) = Nil /\ e # Nil /\ e.left = 0
        \/ State(e) = Nil /\ e # Nil /\ e.left = Nil /\ e.age = Window
    BY <1>1 DEF State, Blocking, EntryOK, Entry
  <1>8. State(Nil) = Nil
    BY DEF State
  <1>9. QED
    BY <1>2, <1>3, <1>4, <1>5, <1>6, <1>7, <1>8

Counted(R) == [t \in 0 .. Window - 1 |-> R[t] + 1]

\* A request let through is counted by the entry and by every age.
LEMMA WindowRegistered ==
    ASSUME NEW e, NEW a \in Immediate, NEW R \in Histories, EntryOK(e, a, 0),
           WindowOK(e, R, a), ~ Blocking(Kept(e))
    PROVE  WindowOK(Registered(State(Kept(e)), a), Counted(R), a)
  <1> DEFINE old == State(Kept(e))
             new == Registered(old, a)
  <1>1. /\ a \in Actions /\ Window \in Nat \ {0} /\ Block[a] \in Nat
        /\ Limit[a] \in Nat \ {0} /\ Spare(a) \in Nat
    BY DEF Actions, Spare
  <1>2. WindowOK(old, R, a) /\ EntryOK(old, a, 0)
    BY <1>1, WindowPruned, PruningKeeps
  <1>3. old \in {Nil} \union Entry
    BY <1>2 DEF EntryOK
  <1>4. /\ new \in Entry /\ new # Nil
        /\ new.attempts = (IF old = Nil THEN 0 ELSE old.attempts) + 1
        /\ new.age = IF old = Nil THEN 0 ELSE old.age
        /\ new.left = IF new.attempts >= Limit[a] THEN Block[a]
                      ELSE IF old = Nil THEN Nil ELSE old.left
    BY <1>1, <1>3, RegisteredEntry
  <1>5. old # Nil => old.left = Nil
    BY <1>1, StateIsFresh
  <1> HIDE DEF old, new
  <1>6. /\ Counted(R) \in Histories
        /\ \A t \in 0 .. Window - 1 : Counted(R)[t] = R[t] + 1 /\ R[t] \in Nat
    BY DEF Counted, Histories
  <1> DEFINE C == Counted(R)
  <1> HIDE DEF C
  <1>7. \A t \in 0 .. Window - 1 : C[t] = R[t] + 1 /\ R[t] \in Nat
    BY <1>6 DEF C
  <1>8. \A t \in 1 .. Window - 1 : C[t - 1] <= C[t]
    <2> SUFFICES ASSUME NEW t \in 1 .. Window - 1
                 PROVE  C[t - 1] <= C[t]
      OBVIOUS
    <2>1. t - 1 \in 0 .. Window - 1 /\ t \in 0 .. Window - 1
      BY <1>1
    <2>2. R[t - 1] <= R[t]
      BY <1>2 DEF WindowOK
    <2>3. QED
      BY <2>1, <2>2, <1>7
  <1>9. new.age > 0 => C[new.age - 1] <= new.attempts - 1
    <2> SUFFICES ASSUME new.age > 0
                 PROVE  C[new.age - 1] <= new.attempts - 1
      OBVIOUS
    <2>1. old # Nil /\ new.age = old.age /\ old \in Entry
      BY <1>3, <1>4
    <2>2. old.age - 1 \in 0 .. Window - 1 /\ old.attempts \in Nat
      BY <2>1, <1>1 DEF Entry
    <2>3. R[old.age - 1] <= old.attempts - 1
      BY <2>1, <1>2 DEF WindowOK
    <2>4. QED
      BY <2>1, <2>2, <2>3, <1>4, <1>7
  <1>10. new.age < Window => C[Window - 1] <= new.attempts + Spare(a)
    <2> SUFFICES ASSUME new.age < Window
                 PROVE  C[Window - 1] <= new.attempts + Spare(a)
      OBVIOUS
    <2>1. Window - 1 \in 0 .. Window - 1
      BY <1>1
    <2>2. C[Window - 1] = R[Window - 1] + 1 /\ R[Window - 1] \in Nat
      BY <2>1, <1>7
    <2>3. CASE old = Nil
      BY <2>3, <2>2, <1>1, <1>2, <1>4 DEF WindowOK
    <2>4. CASE old # Nil
      <3>1. R[Window - 1] <= old.attempts + Spare(a) /\ old.attempts \in Nat
        BY <2>4, <1>2, <1>3, <1>4 DEF WindowOK, Entry
      <3>2. QED
        BY <3>1, <2>2, <2>4, <1>1, <1>4
    <2>5. QED
      BY <2>3, <2>4
  <1>11. new.left # Nil => \A t \in 0 .. Window - 1 : t < Block[a] - new.left => C[t] = 0
    <2>1. new.left # Nil => new.left = Block[a]
      BY <1>4, <1>5
    <2>2. QED
      BY <2>1, <1>1
  <1>12. WindowOK(new, C, a)
    BY <1>4, <1>8, <1>9, <1>10, <1>11 DEF WindowOK
  <1>13. QED
    BY <1>12 DEF new, old, C

\* What a tick does to an entry and to the requests let through.
Ticked(e) ==
    IF e = Nil THEN Nil
    ELSE [e EXCEPT !.age = IF @ = Window THEN @ ELSE @ + 1,
                   !.left = IF @ \in {Nil, 0} THEN @ ELSE @ - 1]

Shifted(R) == [t \in 0 .. Window - 1 |-> IF t = 0 THEN 0 ELSE R[t - 1]]

LEMMA TickedEntry ==
    ASSUME NEW e \in Entry
    PROVE  /\ Ticked(e) \in Entry /\ Ticked(e) # Nil
           /\ Ticked(e).attempts = e.attempts
           /\ Ticked(e).age = IF e.age = Window THEN Window ELSE e.age + 1
           /\ Ticked(e).left = IF e.left \in {Nil, 0} THEN e.left ELSE e.left - 1
  <1> DEFINE new == [e EXCEPT !.age = IF @ = Window THEN @ ELSE @ + 1,
                              !.left = IF @ \in {Nil, 0} THEN @ ELSE @ - 1]
  <1>1. Ticked(e) = new
    BY DEF Ticked
  <1>2. /\ e.age \in 0 .. Window /\ e.left \in Nat \union {Nil} /\ Window \in Nat
    BY DEF Entry
  <1>3. (IF e.left \in {Nil, 0} THEN e.left ELSE e.left - 1) \in Nat \union {Nil}
    BY <1>2
  <1>4. (IF e.age = Window THEN e.age ELSE e.age + 1) \in 0 .. Window
    BY <1>2
  <1>5. /\ new \in Entry /\ new.attempts = e.attempts
        /\ new.age = IF e.age = Window THEN Window ELSE e.age + 1
        /\ new.left = IF e.left \in {Nil, 0} THEN e.left ELSE e.left - 1
    BY <1>3, <1>4 DEF Entry
  <1>6. QED
    BY <1>1, <1>5

LEMMA TickKeepsEntry ==
    ASSUME NEW e, NEW a \in Actions, NEW n \in Nat, EntryOK(e, a, n)
    PROVE  EntryOK(Ticked(e), a, n)
  <1>1. CASE e = Nil
    BY <1>1 DEF EntryOK, Ticked
  <1>2. CASE e # Nil
    <2>1. e \in Entry
      BY <1>2 DEF EntryOK
    <2>2. e.left \in {Nil} \union 0 .. Block[a] /\ Block[a] \in Nat
      BY <1>2 DEF EntryOK
    <2>3. Ticked(e).left \in {Nil} \union 0 .. Block[a]
      BY <2>1, <2>2, TickedEntry
    <2>4. Ticked(e).left = Nil => e.left = Nil
      BY <2>1, <2>2, TickedEntry
    <2>5. QED
      BY <1>2, <2>1, <2>3, <2>4, TickedEntry DEF EntryOK
  <1>3. QED
    BY <1>1, <1>2

LEMMA WindowTicks ==
    ASSUME NEW e, NEW a \in Immediate, NEW R \in Histories, EntryOK(e, a, 0),
           WindowOK(e, R, a)
    PROVE  WindowOK(Ticked(e), Shifted(R), a)
  <1> DEFINE S == Shifted(R)
             W == Window
  <1>1. /\ a \in Actions /\ W \in Nat \ {0} /\ Block[a] \in Nat
        /\ Limit[a] \in Nat \ {0} /\ Spare(a) \in Nat
    BY DEF Actions, Spare
  <1>2. /\ S \in Histories
        /\ \A t \in 0 .. W - 1 : S[t] = IF t = 0 THEN 0 ELSE R[t - 1]
    BY DEF Shifted, Histories
  <1>3. \A t \in 0 .. W - 1 : R[t] \in Nat
    BY DEF Histories
  <1>4. \A t \in 1 .. W - 1 : R[t - 1] <= R[t]
    BY DEF WindowOK
  <1> HIDE DEF S, W
  <1>5. \A t \in 1 .. W - 1 : S[t - 1] <= S[t]
    <2> SUFFICES ASSUME NEW t \in 1 .. W - 1
                 PROVE  S[t - 1] <= S[t]
      OBVIOUS
    <2>1. t - 1 \in 0 .. W - 1 /\ t \in 0 .. W - 1 /\ S[t] = R[t - 1] /\ R[t - 1] \in Nat
      BY <1>1, <1>2, <1>3
    <2>2. CASE t = 1
      BY <2>1, <2>2, <1>2
    <2>3. CASE t # 1
      <3>1. t - 1 \in 1 .. W - 1 /\ t - 1 # 0
        BY <2>3, <1>1
      <3>2. S[t - 1] = R[(t - 1) - 1] /\ R[(t - 1) - 1] <= R[t - 1]
        BY <3>1, <2>1, <1>2, <1>4
      <3>3. QED
        BY <3>2, <2>1
    <2>4. QED
      BY <2>2, <2>3
  <1>6. S[W - 1] <= R[W - 1] /\ R[W - 1] \in Nat /\ S[W - 1] \in Nat
    <2>1. W - 1 \in 0 .. W - 1
      BY <1>1
    <2>2. CASE W = 1
      BY <2>1, <2>2, <1>1, <1>2, <1>3
    <2>3. CASE W # 1
      <3>1. W - 1 \in 1 .. W - 1 /\ (W - 1) - 1 \in 0 .. W - 1 /\ W - 1 # 0
        BY <2>3, <1>1
      <3>2. S[W - 1] = R[(W - 1) - 1] /\ R[(W - 1) - 1] <= R[W - 1]
        BY <3>1, <2>1, <1>2, <1>4
      <3>3. QED
        BY <3>1, <3>2, <2>1, <1>3
    <2>4. QED
      BY <2>2, <2>3
  <1>7. CASE e = Nil
    <2>1. Ticked(e) = Nil
      BY <1>7 DEF Ticked
    <2>2. R[W - 1] <= Spare(a)
      BY <1>7 DEF WindowOK, W
    <2>3. S[W - 1] <= Spare(a)
      BY <2>2, <1>1, <1>6
    <2>4. WindowOK(Ticked(e), S, a)
      BY <2>1, <2>3, <1>5 DEF WindowOK, W
    <2>5. QED
      BY <2>4 DEF S
  <1>8. CASE e # Nil
    <2> DEFINE n == Ticked(e)
    <2>1. /\ e \in Entry /\ e.attempts >= 1 /\ e.attempts \in Nat /\ e.age \in 0 .. W
          /\ e.left \in {Nil} \union 0 .. Block[a]
      BY <1>8 DEF EntryOK, Entry, W
    <2>2. /\ n # Nil /\ n.attempts = e.attempts
          /\ n.age = IF e.age = W THEN W ELSE e.age + 1
          /\ n.left = IF e.left \in {Nil, 0} THEN e.left ELSE e.left - 1
      BY <2>1, TickedEntry DEF W
    <2>3. /\ e.age > 0 => R[e.age - 1] <= e.attempts - 1
          /\ e.age < W => R[W - 1] <= e.attempts + Spare(a)
          /\ e.left # Nil => \A t \in 0 .. W - 1 : t < Block[a] - e.left => R[t] = 0
      BY <1>8 DEF WindowOK, W
    <2> HIDE DEF n
    <2>4. S[n.age - 1] <= n.attempts - 1
      <3>1. CASE e.age = W
        <4>1. n.age = W /\ R[W - 1] <= e.attempts - 1
          BY <3>1, <2>2, <2>3, <1>1
        <4>2. QED
          BY <4>1, <2>1, <2>2, <1>6
      <3>2. CASE e.age # W /\ e.age > 0
        <4>1. n.age = e.age + 1 /\ e.age \in 0 .. W - 1 /\ e.age # 0 /\ n.age - 1 = e.age
          BY <3>2, <2>1, <2>2, <1>1
        <4>2. S[e.age] = R[e.age - 1]
          BY <4>1, <1>2
        <4>3. QED
          BY <4>1, <4>2, <3>2, <2>2, <2>3
      <3>3. CASE e.age # W /\ ~ e.age > 0
        <4>1. n.age - 1 = 0 /\ 0 \in 0 .. W - 1
          BY <3>3, <2>1, <2>2, <1>1
        <4>2. S[0] = 0
          BY <4>1, <1>2
        <4>3. QED
          BY <4>1, <4>2, <2>1, <2>2
      <3>4. QED
        BY <3>1, <3>2, <3>3
    <2>5. n.age < W => S[W - 1] <= n.attempts + Spare(a)
      <3>1. n.age < W => e.age < W
        BY <2>1, <2>2, <1>1
      <3>2. QED
        BY <3>1, <2>1, <2>2, <2>3, <1>1, <1>6
    <2>6. ASSUME n.left # Nil, NEW t \in 0 .. W - 1, t < Block[a] - n.left
          PROVE  S[t] = 0
      <3>1. CASE t = 0
        BY <3>1, <1>2
      <3>2. CASE t # 0
        <4>1. t - 1 \in 0 .. W - 1 /\ S[t] = R[t - 1]
          BY <3>2, <1>1, <1>2
        <4>2. e.left # Nil /\ e.left \in 0 .. Block[a]
          BY <2>6, <2>1, <2>2
        <4>3. t - 1 < Block[a] - e.left
          BY <4>2, <2>6, <2>2, <1>1
        <4>4. QED
          BY <4>1, <4>2, <4>3, <2>3
      <3>3. QED
        BY <3>1, <3>2
    <2>7. WindowOK(n, S, a)
      BY <2>2, <2>4, <2>5, <2>6, <1>5 DEF WindowOK, W
    <2>8. QED
      BY <2>7 DEF n, S
  <1>9. QED
    BY <1>7, <1>8
-----------------------------------------------------------------------------
(* Steps. *)

\* What pruning makes of an entry, or leaves of it.
Remains(e) == {Nil, e, Kept(e), State(Kept(e))}

LEMMA HeldEntries ==
    ASSUME IInv
    PROVE  \A k \in Keys : EntryOK(store[k], k[1], Cardinality(Holding(k)))
  BY DEF IInv, EntriesOK

LEMMA AddressEntries ==
    ASSUME IInv, NEW a \in Immediate, Said[a] # {}
    PROVE  /\ a \in Actions /\ <<a, Ip>> \in Keys
           /\ EntryOK(store[<<a, Ip>>], a, 0)
           /\ recent[a] \in Histories
           /\ WindowOK(store[<<a, Ip>>], recent[a], a)
  <1>1. a \in Actions /\ <<a, Ip>> \in Keys
    BY KeyFacts DEF Actions
  <1>2. Cardinality(Holding(<<a, Ip>>)) = 0
    BY HoldingBounds DEF IInv
  <1>3. EntryOK(store[<<a, Ip>>], <<a, Ip>>[1], 0)
    BY <1>1, <1>2, HeldEntries
  <1>4. QED
    BY <1>1, <1>3 DEF IInv, WindowsOK

\* Pruning, and a request that ends, keep every entry in order.
LEMMA EntriesRemain ==
    ASSUME IInv,
           store' = [k \in Keys |-> store'[k]],
           \A k \in Keys : store'[k] \in Remains(store[k]),
           \A r \in Requests : req'[r] \in {Nil, req[r]}
    PROVE  /\ EntriesOK'
           /\ store' \in [Keys -> {Nil} \union Entry]
  <1>1. ASSUME NEW k \in Keys
        PROVE  EntryOK(store'[k], k[1], Cardinality(Holding(k)'))
    <2>1. k[1] \in Actions
      BY KeyFacts
    <2>2. EntryOK(store[k], k[1], Cardinality(Holding(k)))
      BY HeldEntries
    <2>3. Holding(k)' \in SUBSET Holding(k)
      BY DEF Holding
    <2>4. /\ Cardinality(Holding(k)) \in Nat /\ Cardinality(Holding(k)') \in Nat
          /\ Cardinality(Holding(k)') <= Cardinality(Holding(k))
          /\ Overshoot(k[1]) \in Nat
      BY <2>3, HoldingBounds, FS_Subset, FS_CardinalityType DEF IInv, Overshoot
    <2>5. EntryOK(store'[k], k[1], Cardinality(Holding(k)))
      BY <2>1, <2>2, <2>4, PruningKeeps DEF Remains, EntryOK
    <2>6. QED
      BY <2>1, <2>4, <2>5, FewerHeld
  <1>2. QED
    BY <1>1 DEF EntriesOK, EntryOK

LEMMA WindowsRemain ==
    ASSUME IInv, UNCHANGED recent,
           \A k \in Keys : k[1] \in Immediate =>
             store'[k] \in {store[k], Kept(store[k]), State(Kept(store[k]))}
    PROVE  WindowsOK'
  <1>1. ASSUME NEW a \in Immediate, Said[a] # {}
        PROVE  WindowOK(store'[<<a, Ip>>], recent[a], a)
    BY <1>1, AddressEntries, WindowPruned
  <1>2. QED
    BY <1>1 DEF IInv, WindowsOK

LEMMA InitIInv == Init => IInv
  <1> SUFFICES ASSUME Init
               PROVE  IInv
    OBVIOUS
  <1>1. /\ store \in [Keys -> {Nil} \union Entry]
        /\ req \in [Requests -> {Nil} \union RequestSlot]
        /\ recent \in [Immediate -> Histories]
    BY DEF Init, Histories
  <1>2. Asked /\ EntriesOK
    BY DEF Init, Asked, EntriesOK, EntryOK
  <1>3. ASSUME NEW a \in Immediate
        PROVE  /\ \A t \in 0 .. Window - 1 : recent[a][t] = 0
               /\ Said[a] # {} => WindowOK(store[<<a, Ip>>], recent[a], a)
    <2>1. \A t \in 0 .. Window - 1 : recent[a][t] = 0
      BY DEF Init
    <2>2. ASSUME Said[a] # {}
          PROVE  store[<<a, Ip>>] = Nil
      BY <2>2, KeyFacts DEF Init, Actions
    <2>3. Spare(a) \in Nat /\ Window \in Nat \ {0}
      BY DEF Spare, Actions
    <2>4. \A t \in 1 .. Window - 1 : recent[a][t - 1] <= recent[a][t]
      <3>1. \A t \in 1 .. Window - 1 : t - 1 \in 0 .. Window - 1 /\ t \in 0 .. Window - 1
        BY <2>3
      <3>2. QED
        BY <3>1, <2>1
    <2>5. recent[a][Window - 1] <= Spare(a)
      BY <2>1, <2>3
    <2>6. QED
      BY <2>1, <2>2, <2>4, <2>5 DEF WindowOK
  <1>4. WindowsOK
    BY <1>3 DEF WindowsOK
  <1>5. QED
    BY <1>1, <1>2, <1>4 DEF IInv

LEMMA AskInv ==
    ASSUME IInv, NEW a \in Deferred, NEW id \in Said[a], NEW r \in Requests, Ask(r, a, id)
    PROVE  IInv'
  <1> DEFINE slot == [action |-> a, id |-> id]
  <1>1. a \in Actions /\ KeysOf(a, id) \subseteq Keys
    BY KeyFacts DEF Actions
  <1>2. slot \in RequestSlot /\ slot.action = a /\ slot.id = id
    BY <1>1 DEF RequestSlot
  <1> HIDE DEF slot
  <1>3. /\ req[r] = Nil /\ req' = [req EXCEPT ![r] = slot]
        /\ ~ Blocked(KeysOf(a, id)) /\ store' = Pruned(KeysOf(a, id)) /\ recent' = recent
    BY DEF Ask, slot
  <1>4. req' \in [Requests -> {Nil} \union RequestSlot] /\ Asked'
    BY <1>2, <1>3 DEF IInv, Asked
  <1>5. ASSUME NEW k \in Keys
        PROVE  EntryOK(store'[k], k[1], Cardinality(Holding(k)'))
    <2>1. /\ k[1] \in Actions /\ EntryOK(store[k], k[1], Cardinality(Holding(k)))
          /\ Cardinality(Holding(k)) \in Nat
      BY KeyFacts, HeldEntries, HoldingBounds DEF IInv
    <2>2. CASE k \in KeysOf(a, id)
      <3>1. k[1] = a /\ store'[k] = State(Kept(store[k])) /\ ~ Blocking(Kept(store[k]))
        BY <2>2, <1>3, KeyFacts DEF Pruned, Blocked
      <3>2. \/ store'[k] = Nil
            \/ /\ store'[k] \in Entry /\ store'[k].left = Nil
               /\ store'[k].attempts <= Limit[a] - 1
               /\ store'[k].attempts >= 1
        BY <3>1, <2>1, StateIsFresh DEF EntryOK
      <3>3. Cardinality(Holding(k)') <= Overshoot(a) /\ Cardinality(Holding(k)') \in Nat
            /\ Overshoot(a) \in Nat
        <4>1. Holding(k)' \in SUBSET Requests
          BY DEF Holding
        <4>2. QED
          BY <4>1, FS_Subset, FS_CardinalityType DEF Overshoot
      <3>4. ASSUME store'[k] # Nil
            PROVE  store'[k].attempts + Cardinality(Holding(k)') <= Limit[a] - 1 + Overshoot(a)
        BY <3>2, <3>3, <3>4, <1>1 DEF Entry
      <3>5. QED
        BY <3>1, <3>2, <3>4 DEF EntryOK
    <2>3. CASE k \notin KeysOf(a, id)
      <3>1. store'[k] = Kept(store[k])
        BY <2>3, <1>3 DEF Pruned
      <3>2. Holding(k)' = Holding(k)
        BY <2>3, <1>2, <1>3 DEF Holding, IInv
      <3>3. QED
        BY <3>1, <3>2, <2>1, PruningKeeps
    <2>4. QED
      BY <2>2, <2>3
  <1>6. EntriesOK' /\ store' \in [Keys -> {Nil} \union Entry]
    BY <1>5, <1>3 DEF EntriesOK, EntryOK, Pruned
  <1>7. WindowsOK'
    BY <1>3, WindowsRemain DEF Pruned
  <1>8. QED
    BY <1>3, <1>4, <1>6, <1>7 DEF IInv

LEMMA RefuseInv ==
    ASSUME IInv, NEW a \in Actions, NEW id \in Said[a], Refuse(a, id)
    PROVE  IInv'
  <1>1. store' = Pruned(KeysOf(a, id)) /\ UNCHANGED <<req, recent>>
    BY DEF Refuse
  <1>2. \A k \in Keys : store'[k] \in {Kept(store[k]), State(Kept(store[k]))}
    BY <1>1 DEF Pruned
  <1>3. store' = [k \in Keys |-> store'[k]]
    BY <1>1 DEF Pruned
  <1>4. EntriesOK' /\ store' \in [Keys -> {Nil} \union Entry]
    BY <1>1, <1>2, <1>3, EntriesRemain DEF Remains
  <1>5. WindowsOK'
    BY <1>1, <1>2, WindowsRemain
  <1>6. QED
    BY <1>1, <1>4, <1>5 DEF IInv, Asked

\* An entry that is deleted is of a deferred action.
LEMMA ClearKeeps ==
    ASSUME IInv, NEW a \in Deferred, NEW id, Clear(a, id), UNCHANGED recent,
           \A r \in Requests : req'[r] \in {Nil, req[r]}
    PROVE  EntriesOK' /\ store' \in [Keys -> {Nil} \union Entry] /\ WindowsOK'
  <1>1. \A k \in Keys : store'[k] = IF k \in KeysOf(a, id) THEN Nil ELSE store[k]
    BY DEF Clear
  <1>2. store' = [k \in Keys |-> store'[k]]
    BY DEF Clear
  <1>3. EntriesOK' /\ store' \in [Keys -> {Nil} \union Entry]
    BY <1>1, <1>2, EntriesRemain DEF Remains
  <1>4. \A k \in Keys : k[1] \in Immediate => store'[k] = store[k]
    BY <1>1, KeyFacts
  <1>5. QED
    BY <1>3, <1>4, WindowsRemain

\* A request that ends frees its slot and leaves what the others hold alone.
LEMMA SlotFreed ==
    ASSUME IInv, NEW r \in Requests, req' = [req EXCEPT ![r] = Nil]
    PROVE  /\ req' \in [Requests -> {Nil} \union RequestSlot] /\ Asked'
           /\ \A q \in Requests : req'[q] \in {Nil, req[q]}
           /\ \A k : Holding(k)' = Holding(k) \ {r}
  <1>1. /\ req' \in [Requests -> {Nil} \union RequestSlot] /\ Asked'
        /\ \A q \in Requests : req'[q] \in {Nil, req[q]}
    BY DEF IInv, Asked
  <1>2. \A q \in Requests : req'[q] = IF q = r THEN Nil ELSE req[q]
    BY DEF IInv
  <1>3. QED
    BY <1>1, <1>2 DEF Holding

LEMMA SucceedInv ==
    ASSUME IInv, NEW r \in Requests, Succeed(r)
    PROVE  IInv'
  <1>1. /\ req[r] \in RequestSlot /\ req' = [req EXCEPT ![r] = Nil] /\ recent' = recent
        /\ Clear(req[r].action, req[r].id)
    BY DEF Succeed, IInv
  <1>2. req[r].action \in Deferred
    BY <1>1 DEF RequestSlot
  <1>3. QED
    BY <1>1, <1>2, SlotFreed, ClearKeeps DEF IInv

LEMMA DemoLoginInv ==
    ASSUME IInv, NEW a \in WithDemo, NEW id \in Said[a], DemoLogin(a, id)
    PROVE  IInv'
  <1>1. a \in Deferred /\ Clear(a, id) /\ UNCHANGED <<req, recent>>
    BY DEF DemoLogin
  <1>2. EntriesOK' /\ store' \in [Keys -> {Nil} \union Entry] /\ WindowsOK'
    BY <1>1, ClearKeeps
  <1>3. QED
    BY <1>1, <1>2 DEF IInv, Asked

LEMMA AbortInv ==
    ASSUME IInv, NEW r \in Requests, Abort(r)
    PROVE  IInv'
  <1>1. req' = [req EXCEPT ![r] = Nil] /\ UNCHANGED <<store, recent>>
    BY DEF Abort
  <1>2. store' = [k \in Keys |-> store'[k]] /\ \A k \in Keys : store'[k] = store[k]
    BY <1>1 DEF IInv
  <1>3. EntriesOK' /\ WindowsOK'
    BY <1>1, <1>2, SlotFreed, EntriesRemain, WindowsRemain DEF Remains
  <1>4. QED
    BY <1>1, <1>3, SlotFreed DEF IInv

LEMMA FailInv ==
    ASSUME IInv, NEW r \in Requests, Fail(r)
    PROVE  IInv'
  <1> DEFINE a == req[r].action
             id == req[r].id
  <1>1. /\ req[r] \in RequestSlot /\ req[r] # Nil /\ req' = [req EXCEPT ![r] = Nil]
        /\ recent' = recent
        /\ store' = [k \in Keys |-> IF k \in KeysOf(a, id)
                                    THEN Registered(Pruned(KeysOf(a, id))[k], a)
                                    ELSE Pruned({})[k]]
    BY DEF Fail, Register, IInv
  <1>2. a \in Deferred /\ a \in Actions /\ KeysOf(a, id) \subseteq Keys
    BY <1>1, KeyFacts DEF RequestSlot, Actions, IInv, Asked
  <1>3. ASSUME NEW k \in Keys
        PROVE  store'[k] = IF k \in KeysOf(a, id) THEN Registered(State(Kept(store[k])), a)
                           ELSE Kept(store[k])
    BY <1>1 DEF Pruned
  <1>4. ASSUME NEW k \in Keys
        PROVE  EntryOK(store'[k], k[1], Cardinality(Holding(k)'))
    <2>1. /\ k[1] \in Actions /\ EntryOK(store[k], k[1], Cardinality(Holding(k)))
          /\ Cardinality(Holding(k)) \in Nat /\ IsFiniteSet(Holding(k))
          /\ Cardinality(Requests) \in Nat
          /\ Cardinality(Holding(k)) <= Cardinality(Requests)
      BY KeyFacts, HeldEntries, HoldingBounds DEF IInv
    <2>2. Holding(k)' = Holding(k) \ {r}
      BY <1>1, SlotFreed
    <2>3. CASE k \in KeysOf(a, id)
      <3>1. k[1] = a /\ r \in Holding(k)
        BY <2>3, <1>1, KeyFacts DEF Holding
      <3>2. /\ Cardinality(Holding(k)') \in Nat
            /\ Cardinality(Holding(k)) = Cardinality(Holding(k)') + 1
        <4>1. /\ IsFiniteSet(Holding(k) \ {r})
              /\ Cardinality(Holding(k) \ {r}) = Cardinality(Holding(k)) - 1
          BY <2>1, <3>1, FS_RemoveElement
        <4>2. Cardinality(Holding(k) \ {r}) \in Nat
          BY <4>1, FS_CardinalityType
        <4>3. QED
          BY <2>1, <2>2, <4>1, <4>2
      <3>3. Cardinality(Holding(k)) <= Overshoot(a)
        BY <2>1, <1>2 DEF Overshoot
      <3>4. EntryOK(Registered(State(Kept(store[k])), a), a, Cardinality(Holding(k)'))
        BY <2>1, <3>1, <3>2, <3>3, <1>2, RegisteringKeeps
      <3>5. QED
        BY <3>1, <3>4, <1>3, <2>3
    <2>4. CASE k \notin KeysOf(a, id)
      <3>1. r \notin Holding(k)
        BY <2>4 DEF Holding
      <3>2. Holding(k)' = Holding(k)
        BY <2>2, <3>1
      <3>3. QED
        BY <2>1, <2>4, <3>2, <1>3, PruningKeeps
    <2>5. QED
      BY <2>3, <2>4
  <1>5. EntriesOK' /\ store' \in [Keys -> {Nil} \union Entry]
    BY <1>4, <1>1 DEF EntriesOK, EntryOK
  <1>6. \A k \in Keys : k[1] \in Immediate => store'[k] = Kept(store[k])
    BY <1>2, <1>3, KeyFacts
  <1>7. WindowsOK'
    BY <1>1, <1>6, WindowsRemain
  <1>8. QED
    BY <1>1, <1>5, <1>7, SlotFreed DEF IInv

LEMMA AskAndRegisterInv ==
    ASSUME IInv, NEW a \in Immediate, NEW id \in Said[a], AskAndRegister(a, id)
    PROVE  IInv'
  <1>1. /\ ~ Blocked(KeysOf(a, id)) /\ req' = req
        /\ recent' = [recent EXCEPT ![a] = Counted(recent[a])]
        /\ store' = [k \in Keys |-> IF k \in KeysOf(a, id)
                                    THEN Registered(Pruned(KeysOf(a, id))[k], a)
                                    ELSE Pruned({})[k]]
    BY DEF AskAndRegister, Register, Counted, IInv
  <1>2. a \in Actions /\ KeysOf(a, id) \subseteq Keys /\ <<a, Ip>> \in KeysOf(a, id)
    BY KeyFacts DEF Actions, KeysOf
  <1>3. ASSUME NEW k \in Keys
        PROVE  store'[k] = IF k \in KeysOf(a, id) THEN Registered(State(Kept(store[k])), a)
                           ELSE Kept(store[k])
    BY <1>1 DEF Pruned
  <1>4. \A k \in KeysOf(a, id) : ~ Blocking(Kept(store[k]))
    BY <1>1 DEF Blocked
  <1>5. ASSUME NEW k \in Keys
        PROVE  EntryOK(store'[k], k[1], Cardinality(Holding(k)'))
    <2>1. /\ k[1] \in Actions /\ EntryOK(store[k], k[1], Cardinality(Holding(k)))
          /\ Cardinality(Holding(k)) \in Nat /\ Cardinality(Requests) \in Nat
          /\ k[1] \in Immediate => Cardinality(Holding(k)) = 0
      BY KeyFacts, HeldEntries, HoldingBounds DEF IInv
    <2>2. Holding(k)' = Holding(k)
      BY <1>1 DEF Holding
    <2>3. CASE k \in KeysOf(a, id)
      <3>1. k[1] = a
        BY <2>3, KeyFacts
      <3>2. Overshoot(a) = 1
        BY DEF Overshoot
      <3>3. EntryOK(Registered(State(Kept(store[k])), a), a, 0)
        BY <2>1, <2>3, <3>1, <3>2, <1>2, <1>4, RegisteringKeeps
      <3>4. QED
        BY <2>1, <2>2, <2>3, <3>1, <3>3, <1>3
    <2>4. CASE k \notin KeysOf(a, id)
      BY <2>1, <2>2, <2>4, <1>3, PruningKeeps
    <2>5. QED
      BY <2>3, <2>4
  <1>6. EntriesOK' /\ store' \in [Keys -> {Nil} \union Entry]
    BY <1>5, <1>1 DEF EntriesOK, EntryOK
  <1>7. recent' \in [Immediate -> Histories]
    BY <1>1, SMTT(40) DEF IInv, Histories, Counted
  <1>8. ASSUME NEW b \in Immediate, Said[b] # {}
        PROVE  WindowOK(store'[<<b, Ip>>], recent'[b], b)
    <2>1. /\ <<b, Ip>> \in Keys /\ EntryOK(store[<<b, Ip>>], b, 0)
          /\ recent[b] \in Histories /\ WindowOK(store[<<b, Ip>>], recent[b], b)
      BY <1>8, AddressEntries
    <2>2. CASE b = a
      <3>1. recent'[b] = Counted(recent[b])
        BY <2>2, <1>1 DEF IInv
      <3>2. store'[<<b, Ip>>] = Registered(State(Kept(store[<<b, Ip>>])), b)
        BY <2>1, <2>2, <1>2, <1>3
      <3>3. ~ Blocking(Kept(store[<<b, Ip>>]))
        BY <2>2, <1>2, <1>4
      <3>4. QED
        BY <2>1, <3>1, <3>2, <3>3, WindowRegistered
    <2>3. CASE b # a
      <3>1. <<b, Ip>> \notin KeysOf(a, id)
        BY <2>3 DEF KeysOf
      <3>2. recent'[b] = recent[b] /\ store'[<<b, Ip>>] = Kept(store[<<b, Ip>>])
        BY <2>1, <2>3, <3>1, <1>1, <1>3 DEF IInv
      <3>3. QED
        BY <2>1, <3>2, WindowPruned
    <2>4. QED
      BY <2>2, <2>3
  <1>9. ASSUME NEW b \in Immediate, Said[b] = {}
        PROVE  \A t \in 0 .. Window - 1 : recent'[b][t] = 0
    BY <1>1, <1>9 DEF IInv, WindowsOK
  <1>10. WindowsOK'
    BY <1>8, <1>9 DEF WindowsOK
  <1>11. QED
    BY <1>1, <1>6, <1>7, <1>10 DEF IInv, Asked

LEMMA TickInv ==
    ASSUME IInv, Tick
    PROVE  IInv'
  <1>1. /\ store' = [k \in Keys |-> Ticked(store[k])]
        /\ recent' = [a \in Immediate |-> Shifted(recent[a])]
        /\ req' = req
    BY DEF Tick, Ticked, Shifted
  <1>2. ASSUME NEW k \in Keys
        PROVE  EntryOK(store'[k], k[1], Cardinality(Holding(k)'))
    <2>1. /\ k[1] \in Actions /\ EntryOK(store[k], k[1], Cardinality(Holding(k)))
          /\ Cardinality(Holding(k)) \in Nat
      BY KeyFacts, HeldEntries, HoldingBounds DEF IInv
    <2>2. Holding(k)' = Holding(k) /\ store'[k] = Ticked(store[k])
      BY <1>1 DEF Holding
    <2>3. QED
      BY <2>1, <2>2, TickKeepsEntry
  <1>3. EntriesOK' /\ store' \in [Keys -> {Nil} \union Entry]
    BY <1>2, <1>1 DEF EntriesOK, EntryOK
  <1>4. \A a \in Immediate : recent'[a] = Shifted(recent[a]) /\ recent[a] \in Histories
    BY <1>1 DEF IInv
  <1>5. \A R \in Histories : Shifted(R) \in Histories
    BY DEF Histories, Shifted
  <1>6. recent' \in [Immediate -> Histories]
    BY <1>1, <1>4, <1>5
  <1>7. ASSUME NEW a \in Immediate, Said[a] # {}
        PROVE  WindowOK(store'[<<a, Ip>>], recent'[a], a)
    BY <1>1, <1>4, <1>7, AddressEntries, WindowTicks
  <1>8. ASSUME NEW a \in Immediate, Said[a] = {}
        PROVE  \A t \in 0 .. Window - 1 : recent'[a][t] = 0
    <2>1. \A t \in 0 .. Window - 1 : recent[a][t] = 0
      BY <1>8 DEF IInv, WindowsOK
    <2>2. ASSUME NEW t \in 0 .. Window - 1
          PROVE  Shifted(recent[a])[t] = 0
      <3>1. CASE t = 0
        BY <3>1 DEF Shifted
      <3>2. CASE t # 0
        <4>1. t - 1 \in 0 .. Window - 1
          BY <3>2
        <4>2. Shifted(recent[a])[t] = recent[a][t - 1]
          BY <3>2 DEF Shifted
        <4>3. QED
          BY <2>1, <4>1, <4>2
      <3>3. QED
        BY <3>1, <3>2
    <2>3. QED
      BY <2>2, <1>4
  <1>9. WindowsOK'
    BY <1>7, <1>8 DEF WindowsOK
  <1>10. QED
    BY <1>1, <1>3, <1>6, <1>9 DEF IInv, Asked

LEMMA RestartInv ==
    ASSUME Restart
    PROVE  IInv'
  <1>1. Init'
    BY DEF Restart, Init
  <1>2. QED
    BY <1>1, InitIInv, PTL
THEOREM NextIInv == IInv /\ [Next]_vars => IInv'
  <1> SUFFICES ASSUME IInv, [Next]_vars
               PROVE  IInv'
    OBVIOUS
  <1>1. ASSUME NEW a \in Deferred, NEW id \in Said[a], NEW r \in Requests, Ask(r, a, id)
        PROVE  IInv'
    BY <1>1, AskInv
  <1>2. ASSUME NEW a \in WithDemo, NEW id \in Said[a], DemoLogin(a, id)
        PROVE  IInv'
    BY <1>2, DemoLoginInv
  <1>3. ASSUME NEW a \in Immediate, NEW id \in Said[a], AskAndRegister(a, id)
        PROVE  IInv'
    BY <1>3, AskAndRegisterInv
  <1>4. ASSUME NEW a \in Actions, NEW id \in Said[a], Refuse(a, id)
        PROVE  IInv'
    BY <1>4, RefuseInv
  <1>5. ASSUME NEW r \in Requests, Fail(r) \/ Succeed(r) \/ Abort(r)
        PROVE  IInv'
    BY <1>5, FailInv, SucceedInv, AbortInv
  <1>6. CASE Tick
    BY <1>6, TickInv
  <1>7. CASE Restart
    BY <1>7, RestartInv
  <1>8. CASE UNCHANGED vars
    BY <1>8 DEF vars, IInv, Asked, EntriesOK, Holding, WindowsOK
  <1>9. QED
    BY <1>1, <1>2, <1>3, <1>4, <1>5, <1>6, <1>7, <1>8 DEF Next

\* In every reachable state each entry is within its limit, counting the requests
\* that may still register under it, and agrees with the requests let through.
THEOREM EntriesStayConsistent == Spec => []IInv
  <1>1. IInv /\ [Next]_vars => IInv'
    BY NextIInv
  <1>2. QED
    BY <1>1, InitIInv, PTL DEF Spec

-----------------------------------------------------------------------------
(* The properties. *)

\* Type correctness: a block is never longer than its action's.
THEOREM TypeCorrect == Spec => []TypeOK
  <1>1. IInv => TypeOK
    BY KeyFacts DEF IInv, TypeOK, EntriesOK, EntryOK, Histories
  <1>2. QED
    BY <1>1, EntriesStayConsistent, PTL

\* However many logins are checked together, a key counts at most its limit less
\* one, and one more for each request that can be in flight.
THEOREM OvershootIsBounded == Spec => []OvershootBounded
  <1>1. IInv => OvershootBounded
    <2> SUFFICES ASSUME IInv, NEW k \in Keys, store[k] # Nil
                 PROVE  store[k].attempts <= Limit[k[1]] - 1 + Overshoot(k[1])
      BY DEF OvershootBounded, Overshoot
    <2>1. /\ k[1] \in Actions /\ EntryOK(store[k], k[1], Cardinality(Holding(k)))
          /\ Cardinality(Holding(k)) \in Nat /\ Cardinality(Requests) \in Nat
      BY KeyFacts, HeldEntries, HoldingBounds DEF IInv
    <2>2. store[k].attempts \in Nat /\ Limit[k[1]] \in Nat /\ Overshoot(k[1]) \in Nat
      BY <2>1 DEF EntryOK, Entry, Overshoot
    <2>3. QED
      BY <2>1, <2>2 DEF EntryOK
  <1>2. QED
    BY <1>1, EntriesStayConsistent, PTL

\* In any Window ticks, at most twice the limit less two requests of an immediate
\* action are let through, or its limit: the fixed window allows no more at its
\* boundary, because a block outlives it.
THEOREM RateIsBounded == Spec => []RateBounded
  <1>1. IInv => RateBounded
    <2> SUFFICES ASSUME IInv, NEW a \in Immediate
                 PROVE  recent[a][Window - 1]
                          <= IF Limit[a] > 2 THEN 2 * Limit[a] - 2 ELSE Limit[a]
      BY DEF RateBounded
    <2>1. /\ a \in Actions /\ Limit[a] \in Nat \ {0} /\ Window \in Nat \ {0}
          /\ recent[a] \in Histories
      BY DEF Actions, IInv
    <2>2. Window - 1 \in 0 .. Window - 1 /\ recent[a][Window - 1] \in Nat
      BY <2>1 DEF Histories
    <2>3. CASE Said[a] = {}
      <3>1. recent[a][Window - 1] = 0
        BY <2>2, <2>3 DEF IInv, WindowsOK
      <3>2. QED
        BY <3>1, <2>1
    <2>4. CASE Said[a] # {}
      <3> DEFINE e == store[<<a, Ip>>]
      <3>1. EntryOK(e, a, 0) /\ WindowOK(e, recent[a], a)
        BY <2>4, AddressEntries
      <3> HIDE DEF e
      <3>2. CASE e = Nil
        BY <3>1, <3>2, <2>1, <2>2 DEF WindowOK, Spare
      <3>3. CASE e # Nil
        <4>1. e.attempts \in Nat /\ e.attempts <= Limit[a] /\ e.age \in 0 .. Window
          BY <3>1, <3>3, <2>1 DEF EntryOK, Entry, Overshoot
        <4>2. CASE e.age = Window
          BY <4>1, <4>2, <3>1, <3>3, <2>1, <2>2 DEF WindowOK
        <4>3. CASE e.age # Window
          BY <4>1, <4>3, <3>1, <3>3, <2>1, <2>2 DEF WindowOK, Spare
        <4>4. QED
          BY <4>2, <4>3
      <3>4. QED
        BY <3>2, <3>3
    <2>5. QED
      BY <2>3, <2>4
  <1>2. QED
    BY <1>1, EntriesStayConsistent, PTL

\* What pruning leaves of an entry that blocks is that entry.
LEMMA BlocksRemain ==
    ASSUME NEW e, Blocking(e)
    PROVE  Kept(e) = e /\ State(Kept(e)) = e
  BY DEF Kept, State, Blocking

\* A block is ended by time, by the success of a request let through before it or
\* by a restart, and by nothing else; a registration only makes it longer.
THEOREM BlocksLastToTheirEnd == Spec => BlocksLast
  <1> DEFINE Lasts(k) ==
               \/ Blocking(store'[k]) /\ store'[k].left >= store[k].left
               \/ Tick
               \/ \E r \in Requests :
                    /\ req[r] # Nil /\ k \in KeysOf(req[r].action, req[r].id)
                    /\ Succeed(r)
               \/ Restart
  <1>1. ASSUME IInv, [Next]_vars, NEW k \in Keys, Blocking(store[k])
        PROVE  Lasts(k)
    <2>1. /\ k[1] \in Actions /\ EntryOK(store[k], k[1], Cardinality(Holding(k)))
      BY <1>1, KeyFacts, HeldEntries
    <2>2. store[k] \in Entry /\ store[k] # Nil /\ store[k].left \in 1 .. Block[k[1]]
      BY <1>1, <2>1 DEF Blocking, EntryOK
    <2>3. ASSUME store'[k] = store[k]
          PROVE  Lasts(k)
      BY <2>2, <2>3, <1>1
    <2>4. ASSUME store'[k] \in {store[k], Kept(store[k]), State(Kept(store[k]))}
          PROVE  Lasts(k)
      BY <1>1, <2>3, <2>4, BlocksRemain
    <2>5. ASSUME NEW a \in Actions, NEW id \in Said[a], Register(a, id)
          PROVE  Lasts(k)
      <3>1. CASE k \in KeysOf(a, id)
        <4>1. k[1] = a /\ store'[k] = Registered(store[k], a)
          BY <1>1, <2>5, <3>1, KeyFacts, BlocksRemain DEF Register, Pruned
        <4>2. /\ store'[k] \in Entry
              /\ store'[k].left \in {Block[a], store[k].left}
          BY <2>2, <4>1, <2>5, RegisteredEntry
        <4>3. store'[k].left >= store[k].left /\ store'[k].left \notin {Nil, 0}
          BY <2>2, <4>1, <4>2
        <4>4. QED
          BY <4>2, <4>3 DEF Blocking
      <3>2. CASE k \notin KeysOf(a, id)
        BY <2>4, <2>5, <3>2 DEF Register, Pruned
      <3>3. QED
        BY <3>1, <3>2
    <2>6. ASSUME NEW a, NEW id, Clear(a, id), k \notin KeysOf(a, id)
          PROVE  Lasts(k)
      BY <2>3, <2>6, <1>1 DEF Clear
    <2>7. ASSUME NEW r \in Requests, req[r] # Nil
          PROVE  req[r].action \in Actions /\ req[r].id \in Said[req[r].action]
      BY <1>1, <2>7 DEF IInv, Asked, RequestSlot, Actions
    <2>8. ASSUME NEW a \in Deferred, NEW id \in Said[a], NEW r \in Requests, Ask(r, a, id)
          PROVE  Lasts(k)
      BY <2>4, <2>8 DEF Ask, Pruned
    <2>9. ASSUME NEW a \in Actions, NEW id \in Said[a], Refuse(a, id)
          PROVE  Lasts(k)
      BY <2>4, <2>9 DEF Refuse, Pruned
    <2>10. ASSUME NEW a \in WithDemo, NEW id \in Said[a], DemoLogin(a, id)
           PROVE  Lasts(k)
      <3>1. Clear(a, id) /\ ~ Blocked(KeysOf(a, id))
        BY <2>10 DEF DemoLogin
      <3>2. k \notin KeysOf(a, id)
        BY <1>1, <3>1, BlocksRemain DEF Blocked
      <3>3. QED
        BY <3>1, <3>2, <2>6
    <2>11. ASSUME NEW a \in Immediate, NEW id \in Said[a], AskAndRegister(a, id)
           PROVE  Lasts(k)
      <3>1. a \in Actions /\ Register(a, id)
        BY <2>11 DEF AskAndRegister, Actions
      <3>2. QED
        BY <3>1, <2>5
    <2>12. ASSUME NEW r \in Requests, Fail(r) \/ Succeed(r) \/ Abort(r)
           PROVE  Lasts(k)
      <3>1. CASE Fail(r)
        BY <2>5, <2>7, <3>1 DEF Fail
      <3>2. CASE Succeed(r)
        <4>1. req[r] # Nil /\ Clear(req[r].action, req[r].id)
          BY <3>2 DEF Succeed
        <4>2. CASE k \in KeysOf(req[r].action, req[r].id)
          BY <3>2, <4>1, <4>2
        <4>3. CASE k \notin KeysOf(req[r].action, req[r].id)
          BY <2>6, <4>1, <4>3
        <4>4. QED
          BY <4>2, <4>3
      <3>3. CASE Abort(r)
        BY <2>3, <3>3 DEF Abort
      <3>4. QED
        BY <2>12, <3>1, <3>2, <3>3
    <2>13. CASE UNCHANGED vars
      BY <2>3, <2>13 DEF vars
    <2>14. QED
      BY <1>1, <2>8, <2>9, <2>10, <2>11, <2>12, <2>13 DEF Next
  <1> HIDE DEF Lasts
  <1>2. IInv /\ [Next]_vars => [\A k \in Keys : Blocking(store[k]) => Lasts(k)]_vars
    BY <1>1
  <1>3. QED
    <2>1. Spec => [][\A k \in Keys : Blocking(store[k]) => Lasts(k)]_vars
      BY <1>2, EntriesStayConsistent, PTL DEF Spec
    <2>2. QED
      BY <2>1 DEF BlocksLast, Lasts
=============================================================================
