------------------------------- MODULE MCHost -------------------------------
(***************************************************************************)
(* What commands and launches that overlap do to the host's files, in      *)
(* three parts that share nothing, for TLC in one state space of which     *)
(* each behaviour explores one: Installation, StateSeed, and Preparation   *)
(* with a harness like claude, whose guide is in the mirror, and one like  *)
(* codex, with its guide in the state directory and a system config.       *)
(***************************************************************************)
EXTENDS HostFiles, Sequences, TLC

VARIABLE part   \* the one that is explored

MCSeeds == <<"login", "settings">>
MCDirs == <<".agents">>
MCFiles == <<"settings">>

Harness(l) == launch[l].harness

\* One part moves, the others stay where they begin.
PartsInit ==
  /\ part \in {"installation", "seed", "mirror", "mirrors"}
  /\ Init /\ Seed!Init
  /\ IF part \in {"mirror", "mirrors"} THEN Mirror!Init
     ELSE host = [s \in Mirror!Sources |-> 0] /\ Mirror!Init
  /\ part = "mirror" => host[<<"codex", "etc">>] = 1 /\ \A i \in {"settings", "etc"} : host[<<"claude", i>>] = 0
  /\ part = "mirrors" => \A s \in {<<"claude", "etc">>, <<"claude", "settings">>, <<"codex", "settings">>} : host[s] = 0

\* Launches of one harness, and one change, by the user or by an agent.
MirrorNext == Mirror!Next /\ \A l \in Procs : Harness(l)' # "claude"
\* Launches of two harnesses.
MirrorsNext == Mirror!Next /\ changes' = 0

PartsNext ==
  \/ part = "installation" /\ Next /\ UNCHANGED <<part, seedVars, mirrorVars>>
  \/ part = "seed" /\ Seed!Next /\ UNCHANGED <<part, vars, mirrorVars>>
  \/ part = "mirror" /\ MirrorNext /\ UNCHANGED <<part, vars, seedVars>>
  \/ part = "mirrors" /\ MirrorsNext /\ UNCHANGED <<part, vars, seedVars>>

PartsSpec == PartsInit /\ [][PartsNext]_<<part, vars, seedVars, mirrorVars>>

Symmetry == Permutations(Procs)
=============================================================================
