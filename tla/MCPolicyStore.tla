--------------------------- MODULE MCPolicyStore ----------------------------
(***************************************************************************)
(* PolicyStore for TLC: of the runs and the commands only those of one     *)
(* group ever begin, chosen at the start: a run and two commands, or two   *)
(* runs and a command.                                                     *)
(***************************************************************************)
EXTENDS PolicyStore

CONSTANTS r1, r2, c1, c2
VARIABLE group

SomeGroups == {{r1, c1, c2}, {r1, r2, c1}}

GroupInit == Init /\ group \in SomeGroups

GroupNext ==
  /\ Next
  /\ UNCHANGED group
  /\ \A p \in Procs \ group : pc'[p] = "idle"

GroupSpec ==
  /\ GroupInit
  /\ [][GroupNext]_<<vars, group>>
  /\ \A p \in Procs : WF_vars(Step(p))

\* An operation of a run and one of a command end; the others are like them.
OperationsEnd == OperationEnds(r1) /\ OperationEnds(c1)
=============================================================================
