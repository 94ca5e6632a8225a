---------------------------- MODULE Connections ----------------------------
(***************************************************************************)
(* The proxy towards the outside: the calls that connect to public origins *)
(* (PublicDial), and the tunnels that clients ask for, to a public service *)
(* or through the host broker to a local one (Tunnel).  The two share      *)
(* nothing but what is connected: a tunnel begins where a call has its     *)
(* stream.                                                                 *)
(***************************************************************************)
EXTENDS PublicDial

CONSTANTS
  Routes, ClientBytes, ServiceBytes, Window, ReadAhead, MaxPrefix, Buffer  \* of Tunnel

VARIABLES
  route, wire, shut, deaf, task, answer, host, pump, held,  \* of Tunnel
  said, got, stop, fault

Tube == INSTANCE Tunnel

ASSUME TubeAssumption == Tube!TunnelAssumption

tubeVars == <<route, wire, shut, deaf, task, answer, host, pump, held, said, got, stop, fault>>

\* What comes out of a tunnel is what went in, although heads and answers arrive together
\* with its first bytes, and its end is the end of what was sent (Tunnel).
TunnelIsFaithful == Tube!TunnelIsFaithful
=============================================================================
