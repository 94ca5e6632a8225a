--------------------------- MODULE MCHttpExchange ---------------------------
(***************************************************************************)
(* HttpExchange for TLC: one client has two requests with a body, the      *)
(* first sent at once, the second when it is asked for; another has a      *)
(* request without; all of them use one origin connection.                 *)
(***************************************************************************)
EXTENDS HttpExchange

SomeRequests == [c \in {"c", "d"} |-> IF c = "c" THEN 2 ELSE 1]
SomeBody ==
  [r \in {<<"c", 1>>, <<"c", 2>>, <<"d", 1>>} |-> IF r[1] = "c" THEN 1 ELSE 0]
SomeExpects == {<<"c", 2>>}

\* Every request of the first client, which has requests of every kind, is answered or
\* its connection ends.
Answered == IsAnswered("c")
=============================================================================
