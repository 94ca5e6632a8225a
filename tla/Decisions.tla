------------------------------ MODULE Decisions ------------------------------
(***************************************************************************)
(* The two places where a destination is decided while commands change     *)
(* what is allowed: the proxy, for each request (Authorize), and the       *)
(* broker on the host, for each CONNECT to a loopback authority            *)
(* (LiveGrant); and what the commands tell of it (DenyReport).  Each reads *)
(* the files by itself; they share nothing else.                           *)
(***************************************************************************)
EXTENDS Authorize

CONSTANTS
  Authorities, Calls,            \* of LiveGrant
  Domains, Locals, Base, Harness, Projects, Runs   \* of DenyReport

VARIABLES
  files, retired, call, during,  \* of LiveGrant
  global, project, run, report   \* of DenyReport

Live == INSTANCE LiveGrant

Told == INSTANCE DenyReport WITH Authorities <- Locals

ASSUME NamesAssumption == Told!NamesAssumption

grantVars == <<files, retired, call, during>>
reportVars == <<global, project, run, report>>

\* What the broker grants was granted by one of the files during the call, and what was
\* granted all the while is granted (LiveGrant).
GrantIsLive == Live!GrantIsLive

\* What the user is told after a denial is what holds: which layers still allow an entry,
\* and that the batch was denied as a whole or not at all (DenyReport).
ReportIsTrue == Told!ReportIsTrue
==============================================================================
