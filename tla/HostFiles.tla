------------------------------ MODULE HostFiles ------------------------------
(***************************************************************************)
(* What commands and launches that overlap do to the host's files: the     *)
(* installed harnesses (Installation), the seeds of the store that the     *)
(* container owns (StateSeed), and what a launch prepares before its agent *)
(* starts (Preparation).  They share no file.                              *)
(***************************************************************************)
EXTENDS Installation

CONSTANTS
  Seeds, Objects, Keys, RemoveKeys, Tries, Inodes, MaxKills, MaxTouches,   \* of StateSeed
  Agents,                                                                  \* of Preparation: its harnesses
  Projects, Blocked, SyncDirs, SyncFiles, InState, SystemConfig, MaxChanges

VARIABLES
  store, temps, inodes, seeding, left, kills, touches, \* of StateSeed
  host, mirror, launch, changes                        \* of Preparation

seedVars == <<store, temps, inodes, seeding, left, kills, touches>>
mirrorVars == <<host, mirror, launch, changes>>

Seed == INSTANCE StateSeed WITH
  MaxWrites <- MaxTouches, disk <- inodes, launch <- seeding, writes <- touches

Mirror == INSTANCE Preparation WITH
  Launches <- Procs, Harnesses <- Agents, Dirs <- SyncDirs, Files <- SyncFiles, disk <- mirror

ASSUME SeedingAssumption == Seed!TriesAssumption /\ Seed!InodesAssumption /\ Seed!SeedsAssumption
ASSUME PreparationAssumption == Mirror!BoundsAssumption /\ Mirror!PlanAssumption

\* Overlapping and killed launches seed what the container's store lacks, each file
\* whole and without the keys that stay on the host, and never touch what is there
\* (StateSeed).
SeedingIsSound == Seed!SeedingIsSound

\* An agent starts on its own harness's files, and if nobody disturbs its launch on the
\* host's config as it is, whatever launches before it left in the mirror, but for what
\* that launch failed to remove and what rsync takes for the same (Preparation).
MirrorIsSound == Mirror!MirrorIsSound
==============================================================================
