--------------------------- MODULE BoundedService ---------------------------
(***************************************************************************)
(* A service with a fixed number of places.  Users enter while it is open  *)
(* and a place is free, and leave when they like; once it is closing       *)
(* nobody enters, and it is closed only when everybody has left.           *)
(***************************************************************************)
EXTENDS Naturals, FiniteSets

CONSTANTS Users, Places

VARIABLES
  phase,     \* "open", "closing", "closed"
  inside     \* the users that have a place

vars == <<phase, inside>>

Init == phase = "open" /\ inside = {}

Enter(u) ==
  /\ phase = "open" /\ u \notin inside
  /\ Cardinality(inside) < Places
  /\ inside' = inside \cup {u}
  /\ UNCHANGED phase

Leave(u) ==
  /\ u \in inside
  /\ inside' = inside \ {u}
  /\ UNCHANGED phase

BeginClosing ==
  /\ phase = "open"
  /\ phase' = "closing"
  /\ UNCHANGED inside

Close ==
  /\ phase = "closing" /\ inside = {}
  /\ phase' = "closed"
  /\ UNCHANGED inside

Next == BeginClosing \/ Close \/ \E u \in Users : Enter(u) \/ Leave(u)

Spec == Init /\ [][Next]_vars
=============================================================================
