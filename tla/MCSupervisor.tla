---------------------------- MODULE MCSupervisor ----------------------------
(***************************************************************************)
(* Downstream for TLC, in one state space of which each behaviour explores *)
(* one part: the supervisor, or the monitor of closed connections.         *)
(***************************************************************************)
EXTENDS Downstream

VARIABLE part  \* the one that is explored

all == <<part, vars, peerVars>>

\* Two of the connections are alike in all that is said of them: they come in this order.
InOrder == phase["c2"] = "new" => phase'["c3"] = "new"

OfSupervisor(A) == part = "supervisor" /\ A /\ UNCHANGED <<part, peerVars>>
OfClose(A) == part = "close" /\ A /\ UNCHANGED <<part, vars>>

PartsInit == part \in {"supervisor", "close"} /\ Init /\ Watch!Init
PartsNext == OfSupervisor(Next) \/ OfClose(Watch!Next /\ InOrder)

\* The fairness of both; of the connections, that of the one of which something is claimed.
PartsSpec ==
  /\ PartsInit /\ [][PartsNext]_all
  /\ WF_all(OfSupervisor(Tick) \/ OfClose(Watch!Check("c1")))
  /\ WF_all(OfSupervisor(Exit) \/ OfClose(Watch!Poll("c1")))
  /\ WF_all(OfSupervisor(Supervisor) \/ OfClose(Watch!Wake("c1")))
  /\ \A c \in Clients : WF_all(OfSupervisor(Aborted(c))) /\ WF_all(OfSupervisor(Reset(c)))

-----------------------------------------------------------------------------
(* Properties.                                                             *)

\* Nobody waits for ever: the supervisor neither for a client that hangs when it stops,
\* nor for a place when it accepts, and a task not for a client that has gone.
WaitsEnd == SupervisorMoves /\ Watch!GoneIsNoticed("c1")
=============================================================================
