------------------------------ MODULE Pooling ------------------------------
(***************************************************************************)
(* The pool of idle connections, IdlePool, under a name of its own, beside *)
(* the modules that have a state and a Next too.                           *)
(***************************************************************************)
CONSTANTS Users, Keys, Values, Capacity, Lifetime, Width, Horizon, MaxPuts

VARIABLES entries, next, puts, closed, now, live, hand, judged

Pool == INSTANCE IdlePool

ASSUME PoolAssumption == Pool!PoolAssumption

poolVars == <<entries, next, puts, closed, now, live, hand, judged>>

\* A connection has one owner, is handed out alive and fresh, and makes room in the order
\* of its arrival, though it is judged before the lock is taken (IdlePool).
PoolIsSound == Pool!PoolIsSound
=============================================================================
