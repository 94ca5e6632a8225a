---------------------------- MODULE PolicyStore ----------------------------
(***************************************************************************)
(* The policy directory that vhrn processes share (cli/src/net.rs).  A run *)
(* publishes a directory of its own and retires it at its end; the `vhrn   *)
(* net` commands edit the layers, read them, and change the mode of every  *)
(* run.  Everything but retirement happens under the file lock; retirement *)
(* takes none, so that Drop and signal cleanup may use it.  A process may  *)
(* be killed between any two of its steps: its locks are then free, its    *)
(* files stay as they are.                                                 *)
(*                                                                         *)
(* Data left out: names, parsing and text of the files.  Domains and       *)
(* loopback authorities are edited by the same code twice, so a layer      *)
(* stands for either file; one project stands for each of them.  A write   *)
(* is the rename that write_atomic ends with.                              *)
(***************************************************************************)

CONSTANTS
  Runs,        \* processes `vhrn <harness>`, each publishing one run
  Commands,    \* processes `vhrn net ..`
  Entries,     \* what a layer may allow
  Kinds        \* the commands that are given, some of AllKinds

Procs == Runs \cup Commands
Layers == {"global", "project"}
Modes == {"enforce", "open"}
AllKinds == {"allow global", "allow project", "deny global", "deny project",
             "status", "guard", "open"}

ASSUME ProcsAssumption == Runs \cap Commands = {} /\ "free" \notin Procs
ASSUME KindsAssumption == Kinds \subseteq AllKinds

VARIABLES
  pc,          \* where each process is
  kind,        \* the operation it carries out
  lock,        \* holder of policy.lock, or "free"
  table,       \* the global and the project layer
  project,     \* the project's directory: "absent", "partial", "ready"
  entry,       \* under which name each run's directory is there
  files,       \* which files are in it
  mode,        \* the content of its mode file
  leases,      \* runs whose lease is locked
  log,         \* runs with a denial in log/denied.log
  todo,        \* directory entries a process has listed and not yet dealt with
  copy,        \* layers as a process has read them
  report,      \* runs with their mode as a process has read them
  doomed       \* history: abandoned runs when a process listed them for reaping

layerVars == <<table, project>>
runVars == <<entry, files, mode, leases, log>>
scratch == <<todo, copy, report, doomed>>
vars == <<pc, kind, lock, layerVars, runVars, scratch>>

\* The lease, and everything else a published run has.
Whole == {"lease", "rest"}

Critical == {"ensure", "reap", "project", "fill project", "edit", "write",
             "check log", "clear log", "build", "lease", "fill", "rename",
             "list modes", "modes", "read", "read runs", "deny"}
Still == {"idle", "over", "done", "failed", "killed"}
Outside == Still \cup {"start", "wait", "live", "retiring"}

Goto(p, there) == pc' = [pc EXCEPT ![p] = there]

Published == {r \in Runs : entry[r] = "run"}
Gone(r) == entry[r] # "run"
Abandoned == {r \in Runs : entry[r] # "none" /\ pc[r] = "killed"}

\* What a process has listed: a run, and the name it was listed under or how far
\* reaping has come with it.
Items == Runs \X {"run", "tmp", "dead", "opened", "unlocked"}

List(p, what) == todo' = [todo EXCEPT ![p] = what]
Drop(p, item) == todo' = [todo EXCEPT ![p] = @ \ {item}]

\* What an operation has listed and read is gone when it ends.
Forget(p) ==
  /\ todo' = [todo EXCEPT ![p] = {}]
  /\ copy' = [copy EXCEPT ![p] = [l \in Layers |-> {}]]
  /\ report' = [report EXCEPT ![p] = {}]
  /\ doomed' = [doomed EXCEPT ![p] = {}]

\* A variant that keeps the descriptor of the lock in the published run.
FinishWithLock(p, how) ==
  Goto(p, how) /\ Forget(p) /\ lock' = IF how = "live" THEN lock ELSE "free"
Finish(p, how) == Goto(p, how) /\ Forget(p) /\ lock' = "free"

\* A step inside the lock that ends the operation with an error.
Fail(p) ==
  /\ Finish(p, "failed")
  /\ UNCHANGED <<kind, layerVars, runVars>>

-----------------------------------------------------------------------------
(* locked: ensure under the lock, then the operation under the lock.  A    *)
(* process carries out one operation.                                      *)

Tasks(p) == IF p \in Runs THEN {"publish"} ELSE Kinds

Start(p) ==
  /\ pc[p] = "idle"
  /\ \E k \in Tasks(p) : kind' = [kind EXCEPT ![p] = k]
  /\ Goto(p, "start")
  /\ UNCHANGED <<lock, layerVars, runVars, scratch>>

\* A variant that does not wait for the lock.
LockAlways == TRUE
LockFree == lock = "free"

\* The lock is taken and the runs are listed.
Ensure(p) ==
  /\ pc[p] = "start" /\ LockFree
  /\ lock' = p
  /\ List(p, Published \X {"run"})
  /\ Goto(p, "ensure")
  /\ UNCHANGED <<kind, layerVars, runVars, copy, report, doomed>>

\* loopback.allow is there or is written; the directory may have been retired.
EnsureRun(p, r) ==
  /\ pc[p] = "ensure" /\ <<r, "run">> \in todo[p]
  /\ \/ Gone(r) /\ Fail(p)
     \/ /\ ~Gone(r) /\ Drop(p, <<r, "run">>)
        /\ UNCHANGED <<pc, kind, lock, layerVars, runVars, copy, report, doomed>>

Ensured(p) ==
  /\ pc[p] = "ensure" /\ todo[p] = {}
  /\ Finish(p, "wait")
  /\ UNCHANGED <<kind, layerVars, runVars>>

First(k) ==
  IF k = "allow global" THEN "edit"
  ELSE IF k = "allow project" THEN "project" ELSE "reap"

\* The second acquisition, and the listing with which reaping begins.
Acquire(p) ==
  /\ pc[p] = "wait" /\ LockFree
  /\ lock' = p
  /\ Goto(p, First(kind[p]))
  /\ IF First(kind[p]) = "reap"
     THEN List(p, {<<r, entry[r]>> : r \in {q \in Runs : entry[q] # "none"}})
     ELSE UNCHANGED todo
  /\ doomed' = [doomed EXCEPT ![p] = IF First(kind[p]) = "reap" THEN Abandoned ELSE {}]
  /\ UNCHANGED <<kind, layerVars, runVars, copy, report>>

-----------------------------------------------------------------------------
(* reap_runs_locked.                                                       *)

AfterReap(k) ==
  IF k = "publish" THEN "project"
  ELSE IF k \in {"guard", "open"} THEN "list modes" ELSE "read"

\* One entry is dealt with before the next is looked at.
Unopened(p) == \A r \in Runs : {<<r, "opened">>, <<r, "unlocked">>} \cap todo[p] = {}

\* A variant that leaves temporary and dead directories alone.
ReapDotNever(p, r, place) ==
  /\ Drop(p, <<r, place>>)
  /\ UNCHANGED <<pc, kind, lock, layerVars, runVars, copy, report, doomed>>

\* Temporary and dead directories are removed unconditionally; one that its
\* owner has removed meanwhile is an error.
ReapDot(p, r, place) ==
  \/ entry[r] # place /\ Fail(p)
  \/ /\ entry[r] = place
     /\ entry' = [entry EXCEPT ![r] = "none"]
     /\ files' = [files EXCEPT ![r] = {}]
     /\ Drop(p, <<r, place>>)
     /\ UNCHANGED <<pc, kind, lock, layerVars, mode, leases, log, copy, report, doomed>>

ReapDotted(p, r) ==
  /\ pc[p] = "reap" /\ Unopened(p)
  /\ \E place \in {"tmp", "dead"} :
       <<r, place>> \in todo[p] /\ ReapDot(p, r, place)

\* A missing lease is an error, whether the run is retired or damaged.
OpenLease(p, r) ==
  /\ pc[p] = "reap" /\ Unopened(p) /\ <<r, "run">> \in todo[p]
  /\ \/ (Gone(r) \/ "lease" \notin files[r]) /\ Fail(p)
     \/ /\ ~Gone(r) /\ "lease" \in files[r]
        /\ List(p, (todo[p] \ {<<r, "run">>}) \cup {<<r, "opened">>})
        /\ UNCHANGED <<pc, kind, lock, layerVars, runVars, copy, report, doomed>>

LeaseFree(r) == r \notin leases

TryLease(p, r) ==
  /\ pc[p] = "reap" /\ <<r, "opened">> \in todo[p]
  /\ List(p, (todo[p] \ {<<r, "opened">>})
             \cup IF LeaseFree(r) THEN {<<r, "unlocked">>} ELSE {})
  /\ UNCHANGED <<pc, kind, lock, layerVars, runVars, copy, report, doomed>>

\* remove_dir_all takes one file after the other, then the directory.
RemoveAbandoned(p, r) ==
  /\ pc[p] = "reap" /\ <<r, "unlocked">> \in todo[p]
  /\ \/ Gone(r) /\ Fail(p)
     \/ /\ ~Gone(r) /\ files[r] # {}
        /\ \E f \in files[r] : files' = [files EXCEPT ![r] = @ \ {f}]
        /\ UNCHANGED <<pc, kind, lock, layerVars, entry, mode, leases, log, scratch>>
     \/ /\ ~Gone(r) /\ files[r] = {}
        /\ entry' = [entry EXCEPT ![r] = "none"]
        /\ Drop(p, <<r, "unlocked">>)
        /\ UNCHANGED <<pc, kind, lock, layerVars, files, mode, leases, log,
                       copy, report, doomed>>

Reaped(p) ==
  /\ pc[p] = "reap" /\ todo[p] = {}
  /\ Goto(p, AfterReap(kind[p]))
  /\ UNCHANGED <<kind, lock, layerVars, runVars, scratch>>

Reap(p) ==
  \/ Reaped(p)
  \/ \E r \in Runs :
       ReapDotted(p, r) \/ OpenLease(p, r) \/ TryLease(p, r) \/ RemoveAbandoned(p, r)

-----------------------------------------------------------------------------
(* project_files_locked, for a publication and for an edit of the project. *)

ProjectDirectory(p) ==
  /\ pc[p] = "project"
  /\ project' = IF project = "absent" THEN "partial" ELSE project
  /\ Goto(p, "fill project")
  /\ UNCHANGED <<kind, lock, table, runVars, scratch>>

ProjectFiles(p) ==
  /\ pc[p] = "fill project"
  /\ project' = "ready"
  /\ Goto(p, IF kind[p] = "publish" THEN "check log" ELSE "edit")
  /\ UNCHANGED <<kind, lock, table, runVars, scratch>>

-----------------------------------------------------------------------------
(* publish_run, from the log on.                                           *)

\* A variant that clears the log whoever is published.
LogIdleAlways == TRUE
LogIdle == Published = {}

CheckLog(p) ==
  /\ pc[p] = "check log"
  /\ Goto(p, IF LogIdle THEN "clear log" ELSE "build")
  /\ UNCHANGED <<kind, lock, layerVars, runVars, scratch>>

ClearLog(p) ==
  /\ pc[p] = "clear log"
  /\ log' = {}
  /\ Goto(p, "build")
  /\ UNCHANGED <<kind, lock, layerVars, entry, files, mode, leases, scratch>>

CreateTemporary(r) ==
  /\ pc[r] = "build"
  /\ entry' = [entry EXCEPT ![r] = "tmp"]
  /\ Goto(r, "lease")
  /\ UNCHANGED <<kind, lock, layerVars, files, mode, leases, log, scratch>>

\* A variant that creates the lease and does not lock it.
LeaseUnlocked(r) == leases
LeaseLocked(r) == leases \cup {r}

LockLease(r) ==
  /\ pc[r] = "lease"
  /\ files' = [files EXCEPT ![r] = @ \cup {"lease"}]
  /\ leases' = LeaseLocked(r)
  /\ Goto(r, "fill")
  /\ UNCHANGED <<kind, lock, layerVars, entry, mode, log, scratch>>

Fill(r) ==
  /\ pc[r] = "fill"
  /\ files' = [files EXCEPT ![r] = @ \cup {"rest"}]
  /\ \E m \in Modes : mode' = [mode EXCEPT ![r] = m]
  /\ Goto(r, "rename")
  /\ UNCHANGED <<kind, lock, layerVars, entry, leases, log, scratch>>

PublishRun(r) ==
  /\ pc[r] = "rename"
  /\ entry' = [entry EXCEPT ![r] = "run"]
  /\ Finish(r, "live")
  /\ UNCHANGED <<kind, layerVars, files, mode, leases, log>>

\* A file cannot be written: what was built is removed, the lease closed.
BuildFails(r) ==
  /\ pc[r] \in {"build", "lease", "fill", "rename"}
  /\ entry' = [entry EXCEPT ![r] = "none"]
  /\ files' = [files EXCEPT ![r] = {}]
  /\ leases' = leases \ {r}
  /\ Finish(r, "failed")
  /\ UNCHANGED <<kind, layerVars, mode, log>>

Publish(r) ==
  \/ CreateTemporary(r) \/ LockLease(r) \/ Fill(r)
  \/ PublishRun(r) \/ BuildFails(r)

-----------------------------------------------------------------------------
(* retire_inner: without the lock, by the run's own process.  The second   *)
(* step finds the directory removed when somebody reaped it.               *)

RetireRename(r) ==
  /\ pc[r] = "live"
  /\ \/ Gone(r) /\ Goto(r, "over") /\ UNCHANGED entry
     \/ /\ ~Gone(r)
        /\ entry' = [entry EXCEPT ![r] = "dead"]
        /\ Goto(r, "retiring")
  /\ UNCHANGED <<kind, lock, layerVars, files, mode, leases, log, scratch>>

RetireRemove(r) ==
  /\ pc[r] = "retiring"
  /\ entry' = [entry EXCEPT ![r] = "none"]
  /\ files' = [files EXCEPT ![r] = {}]
  /\ Goto(r, "over")
  /\ UNCHANGED <<kind, lock, layerVars, mode, leases, log, scratch>>

-----------------------------------------------------------------------------
(* set_active_mode.  A run that disappears is passed over.                 *)

NewMode(k) == IF k = "open" THEN "open" ELSE "enforce"

ListModes(p) ==
  /\ pc[p] = "list modes"
  /\ List(p, Published \X {"run"})
  /\ Goto(p, "modes")
  /\ UNCHANGED <<kind, lock, layerVars, runVars, copy, report, doomed>>

WriteMode(p, r) ==
  /\ pc[p] = "modes" /\ <<r, "run">> \in todo[p]
  /\ mode' = IF Gone(r) THEN mode ELSE [mode EXCEPT ![r] = NewMode(kind[p])]
  /\ Drop(p, <<r, "run">>)
  /\ UNCHANGED <<pc, kind, lock, layerVars, entry, files, leases, log,
                 copy, report, doomed>>

ModesWritten(p) ==
  /\ pc[p] = "modes" /\ todo[p] = {}
  /\ Finish(p, "done")
  /\ UNCHANGED <<kind, layerVars, runVars>>

-----------------------------------------------------------------------------
(* snapshot_locked, for `status` and for `deny`.                           *)

\* A variant that lists the runs and reads them after releasing the lock.
LockReleased == lock' = "free"
LockHeld == UNCHANGED lock

\* A project directory that lacks a file is an error.
ReadLayers(p) ==
  /\ pc[p] = "read"
  /\ \/ project = "partial" /\ Fail(p)
     \/ /\ project # "partial"
        /\ copy' = [copy EXCEPT ![p] = table]
        /\ List(p, Published \X {"run"})
        /\ Goto(p, "read runs") /\ LockHeld
        /\ UNCHANGED <<kind, layerVars, runVars, report, doomed>>

\* So is a run that has been retired since it was listed.
ReadRun(p, r) ==
  /\ pc[p] = "read runs" /\ <<r, "run">> \in todo[p]
  /\ \/ (Gone(r) \/ files[r] # Whole) /\ Fail(p)
     \/ /\ ~Gone(r) /\ files[r] = Whole
        /\ report' = [report EXCEPT ![p] = @ \cup {<<r, mode[r]>>}]
        /\ Drop(p, <<r, "run">>)
        /\ UNCHANGED <<pc, kind, lock, layerVars, runVars, copy, doomed>>

SnapshotRead(p) ==
  /\ pc[p] = "read runs" /\ todo[p] = {}
  /\ IF kind[p] = "status" THEN Finish(p, "done")
     ELSE Goto(p, "deny") /\ UNCHANGED <<lock, scratch>>
  /\ UNCHANGED <<kind, layerVars, runVars>>

-----------------------------------------------------------------------------
(* The edits: mutate_*, whose callers only add, and deny.                  *)

LayerOf(k) == IF k \in {"allow global", "deny global"} THEN "global" ELSE "project"

ReadLayer(p) ==
  /\ pc[p] = "edit"
  /\ copy' = [copy EXCEPT ![p] = table]
  /\ Goto(p, "write")
  /\ UNCHANGED <<kind, lock, layerVars, runVars, todo, report, doomed>>

Allow(p) ==
  LET l == LayerOf(kind[p]) IN
  /\ pc[p] = "write"
  /\ \E batch \in (SUBSET Entries) \ {{}} :
       table' = [table EXCEPT ![l] = copy[p][l] \cup batch]
  /\ Finish(p, "done")
  /\ UNCHANGED <<kind, project, runVars>>

\* A batch one of whose entries is missing changes nothing and is reported.
Deny(p) ==
  LET l == LayerOf(kind[p]) IN
  /\ pc[p] = "deny"
  /\ \E batch \in (SUBSET Entries) \ {{}} :
       table' = IF batch \subseteq copy[p][l]
                THEN [table EXCEPT ![l] = copy[p][l] \ batch] ELSE table
  /\ Finish(p, "done")
  /\ UNCHANGED <<kind, project, runVars>>

-----------------------------------------------------------------------------
(* A process dies with something under way: its descriptors are closed.    *)

Die(p) ==
  /\ pc[p] \notin Still
  /\ lock' = IF lock = p THEN "free" ELSE lock
  /\ leases' = leases \ {p}
  /\ Goto(p, "killed") /\ Forget(p)
  /\ UNCHANGED <<kind, layerVars, entry, files, mode, log>>

\* The proxy of a published run appends to the log; it may outlive the process
\* that started it.
RecordDenial(r) ==
  /\ entry[r] = "run"
  /\ log' = log \cup {r}
  /\ UNCHANGED <<pc, kind, lock, layerVars, entry, files, mode, leases, scratch>>

Init ==
  /\ pc = [p \in Procs |-> "idle"]
  /\ kind = [p \in Procs |-> "none"]
  /\ lock = "free"
  /\ table = [l \in Layers |-> {}] /\ project = "absent"
  /\ entry = [r \in Runs |-> "none"]
  /\ files = [r \in Runs |-> {}]
  /\ mode = [r \in Runs |-> "enforce"]
  /\ leases = {} /\ log = {}
  /\ todo = [p \in Procs |-> {}]
  /\ copy = [p \in Procs |-> [l \in Layers |-> {}]]
  /\ report = [p \in Procs |-> {}]
  /\ doomed = [p \in Procs |-> {}]

Step(p) ==
  \/ Ensure(p) \/ Ensured(p) \/ Acquire(p) \/ Reap(p)
  \/ \E r \in Runs : EnsureRun(p, r) \/ WriteMode(p, r) \/ ReadRun(p, r)
  \/ ProjectDirectory(p) \/ ProjectFiles(p) \/ CheckLog(p) \/ ClearLog(p)
  \/ p \in Runs /\ Publish(p)
  \/ ListModes(p) \/ ModesWritten(p) \/ ReadLayers(p) \/ SnapshotRead(p)
  \/ ReadLayer(p) \/ Allow(p) \/ Deny(p)

Retire(r) == RetireRename(r) \/ RetireRemove(r)

Next ==
  \/ \E p \in Procs : Start(p) \/ Step(p) \/ Die(p)
  \/ \E r \in Runs : Retire(r) \/ RecordDenial(r)

Safety == Init /\ [][Next]_vars
Spec == Safety /\ \A p \in Procs : WF_vars(Step(p))
-----------------------------------------------------------------------------

TypeOK ==
  /\ pc \in [Procs -> Critical \cup Outside]
  /\ kind \in [Procs -> AllKinds \cup {"publish", "none"}]
  /\ lock \in Procs \cup {"free"}
  /\ table \in [Layers -> SUBSET Entries]
  /\ project \in {"absent", "partial", "ready"}
  /\ entry \in [Runs -> {"none", "tmp", "run", "dead"}]
  /\ files \in [Runs -> SUBSET Whole]
  /\ mode \in [Runs -> Modes]
  /\ leases \subseteq Runs /\ log \subseteq Runs
  /\ todo \in [Procs -> SUBSET Items]
  /\ copy \in [Procs -> [Layers -> SUBSET Entries]]
  /\ report \in [Procs -> SUBSET (Runs \X Modes)]
  /\ doomed \in [Procs -> SUBSET Runs]

\* Nobody but a run itself takes its directory away while its process lives:
\* reap_runs_locked spares a lease that is locked, and publish_run locks it before
\* the directory has a published name.
LiveRunsKept ==
  \A r \in Runs : pc[r] = "live" => entry[r] = "run" /\ files[r] = Whole

\* What `status` reports and `deny` decides on is the policy as it stands: both
\* layers, and every published run with its mode.
SnapshotIsCurrent ==
  \A p \in Procs : pc[p] \in {"read runs", "deny"} =>
    /\ copy[p] = table
    /\ \A r \in Published : <<r, "run">> \in todo[p] \/ <<r, mode[r]>> \in report[p]

\* set_active_mode ends with every published run in the mode it was given,
\* whatever is published, retired or changed by others meanwhile.
ModesReachAll ==
  \A p \in Procs : pc[p] = "modes" =>
    \A r \in Published : <<r, "run">> \in todo[p] \/ mode[r] = NewMode(kind[p])

\* Reaping that ends without an error has removed every directory whose process
\* had died when it began, under whatever name it was left.
ReapIsThorough ==
  \A p \in Procs : pc[p] \in {"project", "list modes", "read"} =>
    \A r \in doomed[p] : entry[r] = "none"

\* The log loses denials only while no run is published, although the check and
\* the write that clears it are apart.
DenialsKept == [][~(log \subseteq log') => Published = {}]_vars

\* For the proxies and for every reader the files amount to a table that edits
\* change as a whole, one at a time, and to runs that appear complete, once.
Role(r) ==
  IF entry[r] = "run" /\ files[r] = Whole THEN mode[r]
  ELSE IF pc[r] \in {"retiring", "over", "failed", "killed"} THEN "out" ELSE "new"
Policy == INSTANCE PolicyTable WITH run <- [r \in Runs |-> Role(r)]
IsPolicyTable == Policy!Spec

\* An operation that has begun ends: with its result, with an error, or because
\* its process died.  No file lock outlives the operation it was taken for.
OperationEnds(p) == pc[p] = "start" ~> pc[p] \in Still \cup {"live"}

\* The plan of the layered policy: "SIGKILL remains recoverable through lease
\* reaping".  Whatever is published when nobody is at work can be reaped.
Reapable ==
  lock = "free" => \A r \in Published : "lease" \in files[r]
=============================================================================
