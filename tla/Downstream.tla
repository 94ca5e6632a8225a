----------------------------- MODULE Downstream -----------------------------
(***************************************************************************)
(* The proxy towards its clients: the supervisor of their tasks            *)
(* (ProxySupervisor) and the monitor that tells a task that its client has *)
(* gone while it waits for something else (PeerClose).  The two share      *)
(* nothing: what a task does when it is told is an end among others to the *)
(* supervisor.                                                             *)
(***************************************************************************)
EXTENDS ProxySupervisor

CONSTANTS
  Conns, Fds, TokenLimit, Capacity  \* of PeerClose

VARIABLES
  phase, fd, token, closed, states, next,  \* of PeerClose
  interest, ready, peer, dropped

Watch == INSTANCE PeerClose

ASSUME TokensAssumption == Watch!TokenAssumption

peerVars == <<phase, fd, token, closed, states, next, interest, ready, peer, dropped>>

\* A closed connection is told to its own waiter and to no other, although tokens and
\* descriptors are reused and any waiter takes the events of all (PeerClose).
PeerCloseIsTrue == Watch!PeerCloseIsTrue
=============================================================================
