--------------------------- MODULE MCConnections ---------------------------
(***************************************************************************)
(* Two parts of the proxy that share nothing, for TLC in one state space   *)
(* of which each behaviour explores one: PublicDial, with two calls and    *)
(* few addresses or with one call and the addresses at the bounds of the   *)
(* registries, and Tunnel.                                                 *)
(***************************************************************************)
EXTENDS Connections

VARIABLE part  \* the one that is explored

Max8 == 255
Max16 == 65535

\* The neighbours of a block: its first and last address and those just outside, where
\* they differ in the first groups.
Top(a) == IF IsV4(a) THEN Max8 ELSE Max16
Fill(a, n, v) == [i \in DOMAIN a |-> IF i <= n THEN a[i] ELSE v]
Bounds(row) ==
  LET a == row[1]
      n == IF row[2] % Width(a) = 0 THEN row[2] \div Width(a) ELSE row[2] \div Width(a) + 1
      size == IF row[2] % Width(a) = 0 THEN 1 ELSE 2^(Width(a) - (row[2] % Width(a)))
      last == [a EXCEPT ![n] = @ + size - 1]
  IN {a, Fill(last, n, Top(a))}
       \cup (IF a[n] > 0 THEN {Fill([a EXCEPT ![n] = @ - 1], n, Top(a))} ELSE {})
       \cup (IF last[n] < Top(a) THEN {Fill([last EXCEPT ![n] = @ + 1], n, 0)} ELSE {})
Others ==
  {<<8, 8, 8, 8>>, <<223, 255, 255, 255>>, <<224, 0, 0, 0>>, <<239, 255, 255, 255>>,
   <<8192, 0, 0, 0, 0, 0, 0, 0>>, <<16384, 0, 0, 0, 0, 0, 0, 1>>, <<65280, 0, 0, 0, 0, 0, 0, 1>>,
   <<0, 0, 0, 0, 0, 65535, 2056, 2056>>}
BoundAddresses == UNION {Bounds(r) : r \in Rows} \cup Others
FewAddresses == {<<8, 8, 8, 8>>, <<10, 0, 0, 1>>, <<9734, 0, 0, 0, 0, 0, 0, 1>>}

-----------------------------------------------------------------------------
(* One part moves, the others stay where they begin.                       *)

AllAddresses == BoundAddresses \cup FewAddresses
Few == INSTANCE PublicDial WITH Addresses <- FewAddresses
Wide == INSTANCE PublicDial WITH MaxAnswers <- 1

PartsInit ==
  /\ part \in {"dial", "bounds", "tunnel"}
  /\ Init
  /\ IF part = "tunnel" THEN Tube!Init ELSE route = "public" /\ Tube!Init

First == CHOOSE c \in Calls : TRUE
WideNext ==
  \/ Wide!Begin(First) \/ Wide!Step(First) \/ Wide!Network(First)
  \/ Wide!Expire(First) \/ Wide!Dropped(First) \/ Wide!CloseStream(First)
  \/ Wide!Cancel

OfDial(A) == part = "dial" /\ A /\ UNCHANGED <<part, tubeVars>>
OfBounds(A) == part = "bounds" /\ A /\ UNCHANGED <<part, tubeVars>>
OfTunnel(A) == part = "tunnel" /\ A /\ UNCHANGED <<part, vars>>

PartsNext == OfDial(Few!Next) \/ OfBounds(WideNext) \/ OfTunnel(Tube!Next)

all == <<part, vars, tubeVars>>

\* The fairness of each of them, for the call of which something is claimed.  As a
\* behaviour has one part, a condition on a step of each is a condition on every part.
PartsSpec ==
  /\ PartsInit /\ [][PartsNext]_all
  /\ WF_all(OfTunnel(Tube!Proxy) \/ OfDial(Few!Step(First)) \/ OfBounds(Wide!Step(First)))
  /\ WF_all(OfTunnel(Tube!Worker) \/ OfDial(Few!Expire(First)) \/ OfBounds(Wide!Expire(First)))
  /\ WF_all(OfTunnel(Tube!Patient("client")))
  /\ WF_all(OfTunnel(Tube!Patient("service")))
  /\ \A who \in Tube!Parties : WF_all(OfTunnel(Tube!Hear(who)))
  /\ \A q \in Tube!Pumps : WF_all(OfTunnel(Tube!Loop(q)))

-----------------------------------------------------------------------------
(* Properties.                                                             *)

\* Nothing waits for ever: a call ends though the network is silent, and a tunnel ends
\* once a side has left or force is used, and has delivered all if undisturbed.
ConnectionsEnd == CallEnds(First) /\ Tube!TunnelEnds
=============================================================================
