---------------------------- MODULE PolicyTable ----------------------------
(***************************************************************************)
(* What the policy directory promises: layers that are edited as a whole,  *)
(* and runs that are published once, complete and in some mode, have their *)
(* mode changed while they are published, and leave for good.              *)
(***************************************************************************)
CONSTANTS Runs, Entries

Layers == {"global", "project"}
Modes == {"enforce", "open"}

VARIABLES
  table,   \* what each layer allows
  run      \* of each run "new", its mode while it is published, then "out"

Init ==
  /\ table = [l \in Layers |-> {}]
  /\ run = [r \in Runs |-> "new"]

Allow(l, batch) ==
  /\ table' = [table EXCEPT ![l] = @ \cup batch]
  /\ UNCHANGED run

\* A batch is denied as a whole or not at all.
Deny(l, batch) ==
  /\ batch \subseteq table[l]
  /\ table' = [table EXCEPT ![l] = @ \ batch]
  /\ UNCHANGED run

PublishAs(r, m) ==
  /\ run[r] = "new"
  /\ run' = [run EXCEPT ![r] = m]
  /\ UNCHANGED table

SetMode(r, m) ==
  /\ run[r] \in Modes
  /\ run' = [run EXCEPT ![r] = m]
  /\ UNCHANGED table

Leave(r) ==
  /\ run' = [run EXCEPT ![r] = "out"]
  /\ UNCHANGED table

Next ==
  \/ \E l \in Layers, batch \in SUBSET Entries : Allow(l, batch) \/ Deny(l, batch)
  \/ \E r \in Runs : Leave(r) \/ \E m \in Modes : PublishAs(r, m) \/ SetMode(r, m)

Spec == Init /\ [][Next]_<<table, run>>
=============================================================================
