---------------------------- MODULE AgentCustody ----------------------------
(***************************************************************************)
(* What a run promises about its agent container, whatever threads carry   *)
(* it out: the agent exists only behind a proxy, the proxy is taken away   *)
(* only once the agent is gone or has been reported as unaccounted for,    *)
(* and the run ends only then.                                             *)
(***************************************************************************)
VARIABLES
  egress,    \* "off" before the proxy, "on" behind it, "revoked" for good
  custody,   \* of the agent: "none", "held", "unaccounted" (and reported)
  over       \* the run has ended of its own accord

vars == <<egress, custody, over>>

TypeOK ==
  /\ egress \in {"off", "on", "revoked"}
  /\ custody \in {"none", "held", "unaccounted"}
  /\ over \in {"no", "yes"}

Init == egress = "off" /\ custody = "none" /\ over = "no"

Open ==
  /\ egress = "off" /\ over = "no"
  /\ egress' = "on"
  /\ UNCHANGED <<custody, over>>

Take ==
  /\ egress = "on" /\ custody = "none" /\ over = "no"
  /\ custody' = "held"
  /\ UNCHANGED <<egress, over>>

\* The container is gone: by itself, or removed and seen to be absent.
Lose ==
  /\ custody = "held"
  /\ custody' = "none"
  /\ UNCHANGED <<egress, over>>

\* Its removal could not be confirmed; the run says so.
Abandon ==
  /\ custody # "unaccounted" /\ over = "no"
  /\ custody' = "unaccounted"
  /\ UNCHANGED <<egress, over>>

Revoke ==
  /\ egress = "on" /\ custody # "held" /\ over = "no"
  /\ egress' = "revoked"
  /\ UNCHANGED <<custody, over>>

End ==
  /\ over = "no" /\ custody # "held"
  /\ over' = "yes"
  /\ UNCHANGED <<egress, custody>>

Next == Open \/ Take \/ Lose \/ Abandon \/ Revoke \/ End

Spec == Init /\ [][Next]_vars
=============================================================================
