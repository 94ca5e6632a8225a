------------------------------ MODULE IdlePool ------------------------------
(***************************************************************************)
(* The pool of idle upstream connections: one entry for each key, a        *)
(* bounded number of entries, a lifetime for each.  Every operation holds  *)
(* the mutex throughout, but for the judgement that a value is reusable:   *)
(* it precedes the mutex in a put and is made under it in a take.          *)
(***************************************************************************)
EXTENDS Naturals, FiniteSets

CONSTANTS Users, Keys, Values,
          Capacity, Lifetime,
          Width,     \* the counter of sequence numbers wraps at this value
          Horizon,   \* bound on the clock
          MaxPuts    \* bound on the entries made

PoolAssumption ==
  /\ Capacity \in Nat \ {0} /\ Lifetime \in Nat \ {0} /\ Width \in Nat \ {0}
  /\ Horizon \in Nat
  /\ MaxPuts \in Nat

VARIABLES
  entries,   \* a set of records [key, value, since, sequence, age]
  next,      \* next_sequence
  puts,      \* history: how many entries were made
  closed,    \* "no", "yes"
  now,
  live,      \* the values whose connection is still open
  hand,      \* what a user has: the values it holds
  judged     \* the user found reusable what it holds

vars == <<entries, next, puts, closed, now, live, hand, judged>>

\* prune_locked.
Fresh(e) == now - e.since < Lifetime
Pruned == {e \in entries : Fresh(e)}

Oldest(set) == CHOOSE e \in set : \A f \in set : e.sequence <= f.sequence

Inserted(set, e) == {f \in set : f.key # e.key} \cup {e}

Evicted(set) == IF Cardinality(set) > Capacity THEN set \ {Oldest(set)} ELSE set

\* wrapping_add.
Successor(n) == (n + 1) % Width

Open(u, v) ==
  /\ hand[u] = {} /\ v \notin live /\ \A e \in entries : e.value # v
  /\ \A w \in Users : v \notin hand[w]
  /\ live' = live \cup {v} /\ hand' = [hand EXCEPT ![u] = {v}]
  /\ UNCHANGED <<entries, next, puts, closed, now, judged>>

\* take_if_reusable: a value that is not reusable is dropped all the same.
Reusable(v) == v \in live

Take(u, k) ==
  /\ hand[u] = {}
  /\ entries' = IF closed = "yes" THEN Pruned ELSE {e \in Pruned : e.key # k}
  /\ hand' = [hand EXCEPT ![u] = IF closed = "yes" THEN {}
        ELSE {e.value : e \in {f \in Pruned : f.key = k /\ Reusable(f.value)}}]
  /\ UNCHANGED <<next, puts, closed, now, live, judged>>

\* put_if_reusable, before the mutex.
Judge(u) ==
  /\ hand[u] # {} /\ u \notin judged
  /\ IF \E v \in hand[u] : v \in live
     THEN judged' = judged \cup {u} /\ UNCHANGED hand
     ELSE hand' = [hand EXCEPT ![u] = {}] /\ UNCHANGED judged
  /\ UNCHANGED <<entries, next, puts, closed, now, live>>

\* A variant that does not look whether the pool is closed.
StoresAlways == TRUE
Stores == closed = "no"

Put(u, k) ==
  /\ u \in judged /\ puts < MaxPuts
  /\ IF Stores
     THEN /\ \E v \in hand[u] :
               entries' = Evicted(Inserted(Pruned,
                            [key |-> k, value |-> v, since |-> now,
                             sequence |-> next, age |-> puts]))
          /\ next' = Successor(next) /\ puts' = puts + 1
     ELSE entries' = Pruned /\ UNCHANGED <<next, puts>>
  /\ hand' = [hand EXCEPT ![u] = {}] /\ judged' = judged \ {u}
  /\ UNCHANGED <<closed, now, live>>

Prune ==
  /\ entries' = Pruned
  /\ UNCHANGED <<next, puts, closed, now, live, hand, judged>>

Close ==
  /\ closed = "no" /\ closed' = "yes" /\ entries' = {}
  /\ UNCHANGED <<next, puts, now, live, hand, judged>>

\* The origin closes the connection, or the user drops what it holds.
Dies(v) ==
  /\ v \in live /\ live' = live \ {v}
  /\ UNCHANGED <<entries, next, puts, closed, now, hand, judged>>

Tick ==
  /\ now < Horizon /\ now' = now + 1
  /\ UNCHANGED <<entries, next, puts, closed, live, hand, judged>>

Init ==
  /\ entries = {} /\ next = 0 /\ puts = 0 /\ closed = "no" /\ now = 0
  /\ live = {} /\ hand = [u \in Users |-> {}] /\ judged = {}

Next ==
  \/ Prune \/ Close \/ Tick
  \/ \E v \in Values : Dies(v) \/ \E u \in Users : Open(u, v)
  \/ \E u \in Users : Judge(u) \/ \E k \in Keys : Take(u, k) \/ Put(u, k)

Spec == Init /\ [][Next]_vars

-----------------------------------------------------------------------------
TypeOK ==
  /\ entries \subseteq [key : Keys, value : Values, since : 0..now,
                        sequence : 0..Width - 1, age : 0..puts]
  /\ next \in 0..Width - 1 /\ puts \in Nat /\ closed \in {"no", "yes"} /\ now \in 0..Horizon
  /\ live \subseteq Values /\ hand \in [Users -> SUBSET Values] /\ judged \subseteq Users

\* A connection is in one place: with one user, or in one entry.
OneOwner ==
  /\ \A e, f \in entries : e.value = f.value \/ e.key = f.key => e = f
  /\ \A u \in Users : Cardinality(hand[u]) <= 1 /\ \A e \in entries : e.value \notin hand[u]
  /\ \A u, w \in Users : u # w => hand[u] \cap hand[w] = {}

\* Between two operations the pool is within its capacity, and empty for good once
\* it is closed: a put that was judged before the close stores nothing.
Bounded ==
  /\ Cardinality(entries) <= Capacity
  /\ closed = "yes" => entries = {}

\* Nobody is given a connection that is dead or has been idle for its lifetime.
FreshHandout ==
  [][\A u \in Users : hand[u] = {} => \A e \in entries :
       e.value \in hand'[u] => e.value \in live /\ now - e.since < Lifetime]_vars

\* A put keeps what it stores; what it pushes out, apart from its own key and the
\* expired, is what was put first, for as long as the counter has not wrapped.
EvictsFirst ==
  [][puts' = puts + 1 /\ puts' <= Width =>
       /\ \E e \in entries' : e.age = puts
       /\ \A e \in Pruned \ entries' :
         \/ \E f \in entries' : f.key = e.key
         \/ \A f \in entries' : e.age < f.age]_vars

\* What the pool promises to its users.
PoolIsSound == FreshHandout /\ EvictsFirst /\ [](TypeOK /\ OneOwner /\ Bounded)
=============================================================================
