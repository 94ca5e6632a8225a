------------------------- MODULE PolicyStoreProofs -------------------------
(***************************************************************************)
(* Proofs about PolicyStore, for all sets of runs, commands and entries:   *)
(* live runs are kept, snapshots are current, modes reach all, reaping is  *)
(* thorough, denials are kept, and the files implement PolicyTable.        *)
(***************************************************************************)
EXTENDS PolicyStore, TLAPS

-----------------------------------------------------------------------------
(* The inductive invariant.                                                *)

\* Who is at work holds the lock, and nobody else does.
Discipline ==
  \A p \in Procs : pc[p] \in Critical <=> lock = p

\* Where a run is decides under which name its directory is there, what is in it
\* and whether its lease is locked.
Shape ==
  \A r \in Runs :
    /\ pc[r] \notin {"lease", "fill", "rename", "live", "retiring", "over", "killed"}
         => entry[r] = "none"
    /\ pc[r] \in {"lease", "fill", "rename"} => entry[r] = "tmp"
    /\ pc[r] \in {"fill", "rename", "live"} => "lease" \in files[r] /\ r \in leases
    /\ pc[r] \in {"rename", "live"} => files[r] = Whole
    /\ pc[r] = "live" => entry[r] = "run"
    /\ pc[r] = "retiring" => entry[r] \in {"dead", "none"}
    /\ pc[r] = "over" => entry[r] = "none"
    /\ pc[r] = "killed" => r \notin leases

\* A lease that was opened is that of a run once published; one that could be
\* locked, that of a run no longer live.
Opened ==
  \A p \in Procs, r \in Runs :
    /\ <<r, "opened">> \in todo[p] => pc[r] \in {"live", "retiring", "over", "killed"}
    /\ <<r, "unlocked">> \in todo[p] => pc[r] \in {"retiring", "over", "killed"}

\* A layer is written back from what it contains.
EditIsCurrent == \A p \in Procs : pc[p] = "write" => copy[p] = table

\* Nothing is published between the check of the log and the write.
LogIsIdle == \A p \in Procs : pc[p] = "clear log" => Published = {}

\* What reaping still owes an abandoned run.
Owed(p, r) ==
  \/ entry[r] = "none"
  \/ /\ pc[p] = "reap"
     /\ \/ <<r, entry[r]>> \in todo[p]
        \/ entry[r] = "run" /\ (<<r, "opened">> \in todo[p] \/ <<r, "unlocked">> \in todo[p])
ReapProgress ==
  \A p \in Procs : pc[p] \in {"reap", "project", "list modes", "read"} =>
    \A r \in doomed[p] : pc[r] = "killed" /\ Owed(p, r)

IInv ==
  /\ TypeOK /\ Discipline /\ Shape /\ Opened
  /\ SnapshotIsCurrent /\ ModesReachAll /\ EditIsCurrent /\ LogIsIdle /\ ReapProgress

-----------------------------------------------------------------------------
(* Types.                                                                  *)

LEMMA ForgetTyped ==
  ASSUME TypeOK, NEW p \in Procs, Forget(p)
  PROVE  /\ todo' \in [Procs -> SUBSET Items]
         /\ copy' \in [Procs -> [Layers -> SUBSET Entries]]
         /\ report' \in [Procs -> SUBSET (Runs \X Modes)]
         /\ doomed' \in [Procs -> SUBSET Runs]
BY DEF TypeOK, Forget

\* An operation ends outside the lock, having written at most a layer, the name
\* and the files of a run, and leases.
LEMMA FinishTyped ==
  ASSUME TypeOK, NEW p \in Procs, NEW how \in Outside, Finish(p, how),
         UNCHANGED <<kind, project, mode, log>>,
         table' \in [Layers -> SUBSET Entries],
         entry' \in [Runs -> {"none", "tmp", "run", "dead"}],
         files' \in [Runs -> SUBSET Whole], leases' \subseteq Runs
  PROVE  TypeOK'
<1>1. pc' \in [Procs -> Critical \cup Outside] /\ lock' \in Procs \cup {"free"}
  BY DEF TypeOK, Finish, Goto
<1>2. QED
  BY <1>1, ForgetTyped DEF TypeOK, Finish

LEMMA EndTyped ==
  ASSUME TypeOK, NEW p \in Procs, NEW how \in {"wait", "done", "failed"},
         Finish(p, how), UNCHANGED <<kind, layerVars, runVars>>
  PROVE  TypeOK'
BY FinishTyped DEF TypeOK, layerVars, runVars, Outside, Still

LEMMA FailTyped ==
  ASSUME TypeOK, NEW p \in Procs, Fail(p)
  PROVE  TypeOK'
BY EndTyped DEF Fail

LEMMA GotoTyped ==
  ASSUME TypeOK, NEW p \in Procs, NEW there \in Critical \cup Outside, Goto(p, there)
  PROVE  pc' \in [Procs -> Critical \cup Outside]
BY DEF TypeOK, Goto

LEMMA ListTyped ==
  ASSUME TypeOK, NEW p \in Procs, NEW what \in SUBSET Items, List(p, what)
  PROVE  todo' \in [Procs -> SUBSET Items]
BY DEF TypeOK, List

\* Dealing with one item moves it on or drops it.
LEMMA ItemTyped ==
  ASSUME TypeOK, NEW p \in Procs, NEW item \in Items, NEW more \in SUBSET Items,
         List(p, (todo[p] \ {item}) \cup more)
  PROVE  todo' \in [Procs -> SUBSET Items]
<1>1. (todo[p] \ {item}) \cup more \in SUBSET Items
  BY DEF TypeOK
<1>2. QED
  BY <1>1, ListTyped

LEMMA DropTyped ==
  ASSUME TypeOK, NEW p \in Procs, NEW item, Drop(p, item)
  PROVE  todo' \in [Procs -> SUBSET Items]
BY DEF TypeOK, Drop

LEMMA PublishedListed == Published \X {"run"} \in SUBSET Items
BY DEF Published, Items

LEMMA TypeKept ==
  ASSUME TypeOK, [Next]_vars
  PROVE  TypeOK'
<1> USE DEF Critical, Outside, Still, layerVars, runVars, scratch
<1>1. CASE UNCHANGED vars
  BY <1>1 DEF vars, TypeOK
<1>2. ASSUME NEW p \in Procs, Start(p)  PROVE TypeOK'
  <2>1. PICK k \in Tasks(p) : kind' = [kind EXCEPT ![p] = k]
    BY <1>2 DEF Start
  <2>2. k \in AllKinds \cup {"publish", "none"}
    BY KindsAssumption DEF Tasks
  <2>3. kind' \in [Procs -> AllKinds \cup {"publish", "none"}]
    BY <2>1, <2>2 DEF TypeOK
  <2>4. QED
    BY <1>2, <2>3, GotoTyped DEF Start, TypeOK
<1>3. ASSUME NEW p \in Procs, Ensure(p)  PROVE TypeOK'
  BY <1>3, GotoTyped, ListTyped, PublishedListed DEF Ensure, TypeOK
<1>4. ASSUME NEW p \in Procs, NEW r \in Runs, EnsureRun(p, r)  PROVE TypeOK'
  <2>1. CASE Fail(p)
    BY <2>1, FailTyped
  <2>2. CASE ~Fail(p)
    BY <1>4, <2>2, DropTyped DEF EnsureRun, TypeOK
  <2>3. QED
    BY <2>1, <2>2
<1>5. ASSUME NEW p \in Procs, Ensured(p)  PROVE TypeOK'
  BY <1>5, EndTyped DEF Ensured
<1>6. ASSUME NEW p \in Procs, Acquire(p)  PROVE TypeOK'
  <2>1. First(kind[p]) \in Critical
    BY DEF First
  <2>2. CASE First(kind[p]) = "reap"
    <3>1. \A r \in Runs : entry[r] # "none" => <<r, entry[r]>> \in Items
      BY DEF TypeOK, Items
    <3>2. {<<r, entry[r]>> : r \in {q \in Runs : entry[q] # "none"}} \in SUBSET Items
      BY <3>1
    <3>3. todo' \in [Procs -> SUBSET Items]
      BY <1>6, <2>2, <3>2, ListTyped DEF Acquire
    <3>4. Abandoned \in SUBSET Runs
      BY DEF Abandoned
    <3>5. doomed' \in [Procs -> SUBSET Runs]
      BY <1>6, <2>2, <3>4 DEF Acquire, TypeOK
    <3>6. QED
      BY <1>6, <2>1, <3>3, <3>5, GotoTyped DEF Acquire, TypeOK
  <2>3. CASE First(kind[p]) # "reap"
    <3>1. doomed' \in [Procs -> SUBSET Runs]
      BY <1>6, <2>3 DEF Acquire, TypeOK
    <3>2. QED
      BY <1>6, <2>1, <2>3, <3>1, GotoTyped DEF Acquire, TypeOK
  <2>4. QED
    BY <2>2, <2>3
<1>7. ASSUME NEW p \in Procs, Reaped(p)  PROVE TypeOK'
  BY <1>7, GotoTyped DEF Reaped, AfterReap, TypeOK
<1>8. ASSUME NEW p \in Procs, NEW r \in Runs, ReapDotted(p, r)  PROVE TypeOK'
  <2>1. CASE Fail(p)
    BY <2>1, FailTyped
  <2>2. CASE ~Fail(p)
    <3>1. PICK place \in {"tmp", "dead"} : ReapDot(p, r, place)
      BY <1>8 DEF ReapDotted
    <3>2. /\ entry' = [entry EXCEPT ![r] = "none"] /\ files' = [files EXCEPT ![r] = {}]
          /\ Drop(p, <<r, place>>)
          /\ UNCHANGED <<pc, kind, lock, layerVars, mode, leases, log, copy, report, doomed>>
      BY <2>2, <3>1 DEF ReapDot
    <3>3. entry' \in [Runs -> {"none", "tmp", "run", "dead"}]
      BY <3>2 DEF TypeOK
    <3>4. files' \in [Runs -> SUBSET Whole]
      BY <3>2 DEF TypeOK
    <3>5. todo' \in [Procs -> SUBSET Items]
      BY <3>2, DropTyped
    <3>6. QED
      BY <3>2, <3>3, <3>4, <3>5 DEF TypeOK
  <2>3. QED
    BY <2>1, <2>2
<1>9. ASSUME NEW p \in Procs, NEW r \in Runs, OpenLease(p, r)  PROVE TypeOK'
  <2>1. CASE Fail(p)
    BY <2>1, FailTyped
  <2>2. CASE ~Fail(p)
    <3>1. <<r, "run">> \in Items /\ {<<r, "opened">>} \in SUBSET Items
      BY DEF Items
    <3>2. QED
      BY <1>9, <2>2, <3>1, ItemTyped DEF OpenLease, TypeOK
  <2>3. QED
    BY <2>1, <2>2
<1>10. ASSUME NEW p \in Procs, NEW r \in Runs, TryLease(p, r)  PROVE TypeOK'
  <2>1. /\ <<r, "opened">> \in Items
        /\ (IF LeaseFree(r) THEN {<<r, "unlocked">>} ELSE {}) \in SUBSET Items
    BY DEF Items
  <2>2. QED
    BY <1>10, <2>1, ItemTyped DEF TryLease, TypeOK
<1>11. ASSUME NEW p \in Procs, NEW r \in Runs, RemoveAbandoned(p, r)  PROVE TypeOK'
  <2>1. CASE Fail(p)
    BY <2>1, FailTyped
  <2>2. CASE ~Fail(p) /\ files[r] # {}
    <3>1. /\ \E f \in files[r] : files' = [files EXCEPT ![r] = files[r] \ {f}]
          /\ UNCHANGED <<pc, kind, lock, layerVars, entry, mode, leases, log, scratch>>
      BY <1>11, <2>2 DEF RemoveAbandoned
    <3>2. files' \in [Runs -> SUBSET Whole]
      <4>1. files \in [Runs -> SUBSET Whole]
        BY DEF TypeOK
      <4>2. PICK f \in files[r] : files' = [files EXCEPT ![r] = files[r] \ {f}]
        BY <3>1
      <4>3. files[r] \ {f} \in SUBSET Whole
        BY <4>1
      <4>4. QED
        BY <4>1, <4>2, <4>3
    <3>3. QED
      BY <3>1, <3>2 DEF TypeOK
  <2>3. CASE ~Fail(p) /\ files[r] = {}
    <3>1. /\ entry' = [entry EXCEPT ![r] = "none"] /\ Drop(p, <<r, "unlocked">>)
          /\ UNCHANGED <<pc, kind, lock, layerVars, files, mode, leases, log, copy, report,
                         doomed>>
      BY <1>11, <2>3 DEF RemoveAbandoned
    <3>2. entry' \in [Runs -> {"none", "tmp", "run", "dead"}]
      BY <3>1 DEF TypeOK
    <3>3. todo' \in [Procs -> SUBSET Items]
      BY <3>1, DropTyped
    <3>4. QED
      BY <3>1, <3>2, <3>3 DEF TypeOK
  <2>4. QED
    BY <2>1, <2>2, <2>3
<1>12. ASSUME NEW p \in Procs, ProjectDirectory(p)  PROVE TypeOK'
  BY <1>12, GotoTyped DEF ProjectDirectory, TypeOK
<1>13. ASSUME NEW p \in Procs, ProjectFiles(p)  PROVE TypeOK'
  BY <1>13, GotoTyped DEF ProjectFiles, TypeOK
<1>14. ASSUME NEW p \in Procs, CheckLog(p)  PROVE TypeOK'
  BY <1>14, GotoTyped DEF CheckLog, TypeOK
<1>15. ASSUME NEW p \in Procs, ClearLog(p)  PROVE TypeOK'
  BY <1>15, GotoTyped DEF ClearLog, TypeOK
<1>16. ASSUME NEW r \in Runs, CreateTemporary(r)  PROVE TypeOK'
  BY <1>16, GotoTyped DEF CreateTemporary, TypeOK, Procs
<1>17. ASSUME NEW r \in Runs, LockLease(r)  PROVE TypeOK'
  <2>1. files' \in [Runs -> SUBSET Whole] /\ leases' \subseteq Runs
    BY <1>17 DEF LockLease, LeaseLocked, TypeOK, Whole
  <2>2. pc' \in [Procs -> Critical \cup Outside]
    BY <1>17, GotoTyped DEF LockLease, Procs
  <2>3. QED
    BY <1>17, <2>1, <2>2 DEF LockLease, TypeOK
<1>18. ASSUME NEW r \in Runs, Fill(r)  PROVE TypeOK'
  <2>1. files' \in [Runs -> SUBSET Whole]
    BY <1>18 DEF Fill, TypeOK, Whole
  <2>2. mode' \in [Runs -> Modes]
    BY <1>18 DEF Fill, TypeOK
  <2>3. pc' \in [Procs -> Critical \cup Outside]
    BY <1>18, GotoTyped DEF Fill, Procs
  <2>4. QED
    BY <1>18, <2>1, <2>2, <2>3 DEF Fill, TypeOK
<1>19. ASSUME NEW r \in Runs, PublishRun(r)  PROVE TypeOK'
  BY <1>19, FinishTyped DEF PublishRun, TypeOK, Procs
<1>20. ASSUME NEW r \in Runs, BuildFails(r)  PROVE TypeOK'
  BY <1>20, FinishTyped DEF BuildFails, TypeOK, Procs
<1>21. ASSUME NEW r \in Runs, RetireRename(r)  PROVE TypeOK'
  <2>1. entry' \in [Runs -> {"none", "tmp", "run", "dead"}]
    BY <1>21 DEF RetireRename, TypeOK
  <2>2. pc' \in [Procs -> Critical \cup Outside]
    BY <1>21, GotoTyped DEF RetireRename, Procs
  <2>3. QED
    BY <1>21, <2>1, <2>2 DEF RetireRename, TypeOK
<1>22. ASSUME NEW r \in Runs, RetireRemove(r)  PROVE TypeOK'
  <2>1. /\ entry' \in [Runs -> {"none", "tmp", "run", "dead"}]
        /\ files' \in [Runs -> SUBSET Whole]
    BY <1>22 DEF RetireRemove, TypeOK
  <2>2. pc' \in [Procs -> Critical \cup Outside]
    BY <1>22, GotoTyped DEF RetireRemove, Procs
  <2>3. QED
    BY <1>22, <2>1, <2>2 DEF RetireRemove, TypeOK
<1>23. ASSUME NEW p \in Procs, ListModes(p)  PROVE TypeOK'
  BY <1>23, GotoTyped, ListTyped, PublishedListed DEF ListModes, TypeOK
<1>24. ASSUME NEW p \in Procs, NEW r \in Runs, WriteMode(p, r)  PROVE TypeOK'
  BY <1>24, DropTyped DEF WriteMode, NewMode, TypeOK, Modes
<1>25. ASSUME NEW p \in Procs, ModesWritten(p)  PROVE TypeOK'
  BY <1>25, EndTyped DEF ModesWritten
<1>26. ASSUME NEW p \in Procs, ReadLayers(p)  PROVE TypeOK'
  <2>1. CASE Fail(p)
    BY <2>1, FailTyped
  <2>2. CASE ~Fail(p)
    <3>1. /\ copy' = [copy EXCEPT ![p] = table]
          /\ List(p, Published \X {"run"}) /\ Goto(p, "read runs")
          /\ UNCHANGED <<kind, lock, layerVars, runVars, report, doomed>>
      BY <1>26, <2>2 DEF ReadLayers, LockHeld
    <3>2. copy' \in [Procs -> [Layers -> SUBSET Entries]]
      BY <3>1 DEF TypeOK
    <3>3. todo' \in [Procs -> SUBSET Items]
      BY <3>1, ListTyped, PublishedListed
    <3>4. pc' \in [Procs -> Critical \cup Outside]
      BY <3>1, GotoTyped
    <3>5. QED
      BY <3>1, <3>2, <3>3, <3>4 DEF TypeOK
  <2>3. QED
    BY <2>1, <2>2
<1>27. ASSUME NEW p \in Procs, NEW r \in Runs, ReadRun(p, r)  PROVE TypeOK'
  <2>1. CASE Fail(p)
    BY <2>1, FailTyped
  <2>2. CASE ~Fail(p)
    <3>1. report[p] \cup {<<r, mode[r]>>} \in SUBSET (Runs \X Modes)
      <4>1. <<r, mode[r]>> \in Runs \X Modes
        BY DEF TypeOK
      <4>2. report[p] \in SUBSET (Runs \X Modes)
        BY DEF TypeOK
      <4>3. QED
        BY <4>1, <4>2
    <3>2. report' = [report EXCEPT ![p] = report[p] \cup {<<r, mode[r]>>}]
      BY <1>27, <2>2 DEF ReadRun
    <3>3. report' \in [Procs -> SUBSET (Runs \X Modes)]
      BY <3>1, <3>2 DEF TypeOK
    <3>4. QED
      BY <1>27, <2>2, <3>3, DropTyped DEF ReadRun, TypeOK
  <2>3. QED
    BY <2>1, <2>2
<1>28. ASSUME NEW p \in Procs, SnapshotRead(p)  PROVE TypeOK'
  <2>1. CASE kind[p] = "status"
    BY <1>28, <2>1, EndTyped DEF SnapshotRead
  <2>2. CASE kind[p] # "status"
    BY <1>28, <2>2, GotoTyped DEF SnapshotRead, TypeOK
  <2>3. QED
    BY <2>1, <2>2
<1>29. ASSUME NEW p \in Procs, ReadLayer(p)  PROVE TypeOK'
  BY <1>29, GotoTyped DEF ReadLayer, TypeOK
<1>30. ASSUME NEW p \in Procs, Allow(p)  PROVE TypeOK'
  <2>1. table' \in [Layers -> SUBSET Entries]
    <3>1. PICK batch \in (SUBSET Entries) \ {{}} :
            table' = [table EXCEPT ![LayerOf(kind[p])] = copy[p][LayerOf(kind[p])] \cup batch]
      BY <1>30 DEF Allow
    <3>2. LayerOf(kind[p]) \in Layers
      BY DEF LayerOf, Layers
    <3>3. copy[p][LayerOf(kind[p])] \in SUBSET Entries
      <4>1. copy[p] \in [Layers -> SUBSET Entries]
        BY DEF TypeOK
      <4>2. QED
        BY <3>2, <4>1
    <3>4. copy[p][LayerOf(kind[p])] \cup batch \in SUBSET Entries
      BY <3>3
    <3>5. table \in [Layers -> SUBSET Entries]
      BY DEF TypeOK
    <3>6. QED
      BY <3>1, <3>4, <3>5
  <2>2. QED
    BY <1>30, <2>1, FinishTyped DEF Allow, TypeOK
<1>31. ASSUME NEW p \in Procs, Deny(p)  PROVE TypeOK'
  <2>1. table' \in [Layers -> SUBSET Entries]
    <3>1. PICK batch \in (SUBSET Entries) \ {{}} :
            table' = IF batch \subseteq copy[p][LayerOf(kind[p])]
                     THEN [table EXCEPT ![LayerOf(kind[p])] = copy[p][LayerOf(kind[p])] \ batch]
                     ELSE table
      BY <1>31 DEF Deny
    <3>2. LayerOf(kind[p]) \in Layers
      BY DEF LayerOf, Layers
    <3>3. copy[p][LayerOf(kind[p])] \in SUBSET Entries
      <4>1. copy[p] \in [Layers -> SUBSET Entries]
        BY DEF TypeOK
      <4>2. QED
        BY <3>2, <4>1
    <3>4. copy[p][LayerOf(kind[p])] \ batch \in SUBSET Entries
      BY <3>3
    <3>5. table \in [Layers -> SUBSET Entries]
      BY DEF TypeOK
    <3>6. QED
      BY <3>1, <3>4, <3>5
  <2>2. QED
    BY <1>31, <2>1, FinishTyped DEF Deny, TypeOK
<1>32. ASSUME NEW p \in Procs, Die(p)  PROVE TypeOK'
  BY <1>32, GotoTyped, ForgetTyped DEF Die, TypeOK
<1>33. ASSUME NEW r \in Runs, RecordDenial(r)  PROVE TypeOK'
  BY <1>33 DEF RecordDenial, TypeOK
<1>34. QED
  BY <1>1, <1>2, <1>3, <1>4, <1>5, <1>6, <1>7, <1>8, <1>9, <1>10, <1>11, <1>12,
     <1>13, <1>14, <1>15, <1>16, <1>17, <1>18, <1>19, <1>20, <1>21, <1>22, <1>23,
     <1>24, <1>25, <1>26, <1>27, <1>28, <1>29, <1>30, <1>31, <1>32, <1>33
  DEF Next, Step, Reap, Publish, Retire

-----------------------------------------------------------------------------
(* The lock.                                                               *)

\* A step inside the lock ends inside, or outside with the lock let go.
Inside(p) ==
  /\ pc[p] \in Critical
  /\ \E there \in Critical \cup Outside :
       /\ Goto(p, there)
       /\ lock' = IF there \in Critical THEN lock ELSE "free"

Enter(p) ==
  /\ pc[p] \notin Critical /\ lock = "free" /\ lock' = p
  /\ \E there \in Critical : Goto(p, there)

Beside(p) ==
  /\ pc[p] \notin Critical
  /\ \E there \in Outside : Goto(p, there)
  /\ UNCHANGED lock

LEMMA CriticalIsInside == Critical \cap Outside = {}
BY DEF Critical, Outside, Still

LEMMA StaysPut ==
  ASSUME TypeOK, NEW p \in Procs, pc[p] \in Critical, UNCHANGED <<pc, lock>>
  PROVE  Inside(p)
<1>1. pc' = [pc EXCEPT ![p] = pc[p]]
  BY DEF TypeOK
<1>2. QED
  BY <1>1 DEF Inside, Goto

LEMMA Goes ==
  ASSUME NEW p \in Procs, pc[p] \in Critical, NEW there \in Critical,
         Goto(p, there), UNCHANGED lock
  PROVE  Inside(p)
BY DEF Inside

LEMMA Ends ==
  ASSUME NEW p \in Procs, pc[p] \in Critical,
         NEW how \in {"wait", "live", "done", "failed"}, Finish(p, how)
  PROVE  Inside(p)
<1>1. how \in Outside /\ how \notin Critical
  BY DEF Outside, Still, Critical
<1>2. QED
  BY <1>1 DEF Inside, Finish

LEMMA StepMoves ==
  ASSUME TypeOK, NEW p \in Procs, Step(p)
  PROVE  Inside(p) \/ Enter(p)
<1> USE Goes, Ends, StaysPut DEF Critical
<1>1. CASE Ensure(p)
  BY <1>1 DEF Ensure, LockFree, Enter
<1>2. CASE Ensured(p)
  BY <1>2 DEF Ensured
<1>3. CASE Acquire(p)
  BY <1>3 DEF Acquire, LockFree, Enter, First
<1>4. CASE Reaped(p)
  BY <1>4 DEF Reaped, AfterReap
<1>5. ASSUME NEW r \in Runs, ReapDotted(p, r)  PROVE Inside(p)
  BY <1>5 DEF ReapDotted, ReapDot, Fail
<1>6. ASSUME NEW r \in Runs, OpenLease(p, r)  PROVE Inside(p)
  BY <1>6 DEF OpenLease, Fail
<1>7. ASSUME NEW r \in Runs, TryLease(p, r)  PROVE Inside(p)
  BY <1>7 DEF TryLease
<1>8. ASSUME NEW r \in Runs, RemoveAbandoned(p, r)  PROVE Inside(p)
  BY <1>8 DEF RemoveAbandoned, Fail
<1>9. ASSUME NEW r \in Runs, EnsureRun(p, r)  PROVE Inside(p)
  BY <1>9 DEF EnsureRun, Fail
<1>10. ASSUME NEW r \in Runs, WriteMode(p, r)  PROVE Inside(p)
  BY <1>10 DEF WriteMode
<1>11. ASSUME NEW r \in Runs, ReadRun(p, r)  PROVE Inside(p)
  BY <1>11 DEF ReadRun, Fail
<1>12. CASE ProjectDirectory(p) \/ ProjectFiles(p)
  BY <1>12 DEF ProjectDirectory, ProjectFiles
<1>13. CASE CheckLog(p) \/ ClearLog(p)
  BY <1>13 DEF CheckLog, ClearLog
<1>14. CASE CreateTemporary(p) \/ LockLease(p) \/ Fill(p)
  BY <1>14 DEF CreateTemporary, LockLease, Fill
<1>15. CASE PublishRun(p) \/ BuildFails(p)
  BY <1>15 DEF PublishRun, BuildFails
<1>16. CASE ListModes(p) \/ ModesWritten(p)
  BY <1>16 DEF ListModes, ModesWritten
<1>17. CASE ReadLayers(p) \/ SnapshotRead(p)
  BY <1>17 DEF ReadLayers, LockHeld, SnapshotRead, Fail
<1>18. CASE ReadLayer(p) \/ Allow(p) \/ Deny(p)
  BY <1>18 DEF ReadLayer, Allow, Deny
<1>19. QED
  BY <1>1, <1>2, <1>3, <1>4, <1>5, <1>6, <1>7, <1>8, <1>9, <1>10, <1>11, <1>12,
     <1>13, <1>14, <1>15, <1>16, <1>17, <1>18
  DEF Step, Reap, Publish

LEMMA OtherMoves ==
  ASSUME NEW p \in Procs, \/ Start(p)
                          \/ p \in Runs /\ Retire(p)
  PROVE  Beside(p)
BY DEF Start, Retire, RetireRename, RetireRemove, Beside, Critical, Outside, Still

LEMMA DisciplineKept ==
  ASSUME TypeOK, Discipline, [Next]_vars
  PROVE  Discipline'
<1> USE ProcsAssumption, CriticalIsInside DEF TypeOK, Discipline, Goto
<1>1. CASE UNCHANGED vars
  BY <1>1 DEF vars
<1>2. ASSUME NEW p \in Procs, Inside(p)  PROVE Discipline'
  BY <1>2 DEF Inside
<1>3. ASSUME NEW p \in Procs, Enter(p)  PROVE Discipline'
  BY <1>3 DEF Enter
<1>4. ASSUME NEW p \in Procs, Beside(p)  PROVE Discipline'
  BY <1>4 DEF Beside
<1>5. ASSUME NEW p \in Procs, Die(p)  PROVE Discipline'
  <2>1. "killed" \notin Critical
    BY DEF Critical
  <2>2. QED
    BY <1>5, <2>1 DEF Die
<1>6. ASSUME NEW r \in Runs, RecordDenial(r)  PROVE Discipline'
  BY <1>6 DEF RecordDenial
<1>7. QED
  BY <1>1, <1>2, <1>3, <1>4, <1>5, <1>6, StepMoves, OtherMoves DEF Next, Procs

\* While one process is at work, or enters, no other is or comes to be.
LEMMA Alone ==
  ASSUME TypeOK, Discipline, NEW p \in Procs, Inside(p) \/ Enter(p),
         NEW q \in Procs, q # p
  PROVE  pc[q] \notin Critical /\ pc'[q] = pc[q]
BY ProcsAssumption DEF TypeOK, Discipline, Inside, Enter, Goto

-----------------------------------------------------------------------------
(* The directories of the runs.                                            *)

Special == {"lease", "fill", "rename", "live", "retiring", "over", "killed"}

\* A step that changes no file but those of a project, by a process that is neither
\* building its run nor past that.
Quiet(p) ==
  /\ pc[p] \notin Special \cup {"failed"}
  /\ \E there \in (Critical \cup Outside) \ Special : Goto(p, there)
  /\ UNCHANGED <<table, runVars>>

LEMMA QuietMoves ==
  ASSUME NEW p \in Procs, pc[p] \notin Special \cup {"failed"},
         NEW there \in (Critical \cup Outside) \ Special, Goto(p, there),
         UNCHANGED <<table, runVars>>
  PROVE  Quiet(p)
BY DEF Quiet

LEMMA QuietStays ==
  ASSUME TypeOK, NEW p \in Procs, pc[p] \notin Special \cup {"failed"},
         UNCHANGED <<pc, table, runVars>>
  PROVE  Quiet(p)
<1>1. pc' = [pc EXCEPT ![p] = pc[p]]
  BY DEF TypeOK
<1>2. QED
  BY <1>1 DEF Quiet, Goto, TypeOK

\* The steps that are not quiet.
Loud(p) ==
  \/ \E r \in Runs : ReapDotted(p, r) \/ RemoveAbandoned(p, r)
  \/ p \in Runs /\ (Publish(p) \/ Retire(p))
  \/ \E r \in Runs : WriteMode(p, r)
  \/ ClearLog(p) \/ Allow(p) \/ Deny(p) \/ Die(p)
  \/ p \in Runs /\ RecordDenial(p)

LEMMA FailIsQuiet ==
  ASSUME NEW p \in Procs, pc[p] \notin Special \cup {"failed"}, Fail(p)
  PROVE  Quiet(p)
BY QuietMoves DEF Fail, Finish, layerVars, Outside, Still, Special

LEMMA LoudOrQuiet ==
  ASSUME TypeOK, Next
  PROVE  \E p \in Procs : Loud(p) \/ Quiet(p)
<1> USE QuietMoves, QuietStays, FailIsQuiet
    DEF Special, Critical, Outside, Still, layerVars, Finish
<1>1. ASSUME NEW p \in Procs, Start(p) \/ Ensure(p) \/ Ensured(p)  PROVE Quiet(p)
  BY <1>1 DEF Start, Ensure, Ensured
<1>2. ASSUME NEW p \in Procs, Acquire(p) \/ Reaped(p)  PROVE Quiet(p)
  <2>1. CASE Acquire(p)
    BY <2>1 DEF Acquire, First
  <2>2. CASE Reaped(p)
    BY <2>2 DEF Reaped, AfterReap
  <2>3. QED
    BY <1>2, <2>1, <2>2
<1>3. ASSUME NEW p \in Procs, NEW r \in Runs, EnsureRun(p, r) \/ OpenLease(p, r)
      PROVE Quiet(p)
  BY <1>3 DEF EnsureRun, OpenLease
<1>4. ASSUME NEW p \in Procs, NEW r \in Runs, TryLease(p, r)  PROVE Quiet(p)
  BY <1>4 DEF TryLease
<1>5. ASSUME NEW p \in Procs, NEW r \in Runs, ReadRun(p, r)  PROVE Quiet(p)
  BY <1>5 DEF ReadRun
<1>6. ASSUME NEW p \in Procs, ProjectDirectory(p) \/ ProjectFiles(p)  PROVE Quiet(p)
  BY <1>6 DEF ProjectDirectory, ProjectFiles
<1>7. ASSUME NEW p \in Procs, CheckLog(p)  PROVE Quiet(p)
  BY <1>7 DEF CheckLog
<1>8. ASSUME NEW p \in Procs, ListModes(p) \/ ModesWritten(p)  PROVE Quiet(p)
  BY <1>8 DEF ListModes, ModesWritten
<1>9. ASSUME NEW p \in Procs, ReadLayers(p) \/ SnapshotRead(p)  PROVE Quiet(p)
  BY <1>9 DEF ReadLayers, SnapshotRead
<1>10. ASSUME NEW p \in Procs, ReadLayer(p)  PROVE Quiet(p)
  BY <1>10 DEF ReadLayer
<1>11. QED
  BY <1>1, <1>2, <1>3, <1>4, <1>5, <1>6, <1>7, <1>8, <1>9, <1>10
  DEF Next, Step, Reap, Loud, Procs

LEMMA ShapeKept ==
  ASSUME TypeOK, Discipline, Shape, Opened, [Next]_vars
  PROVE  Shape'
<1>1. CASE UNCHANGED vars
  BY <1>1 DEF vars, runVars, Shape
<1>2. ASSUME NEW p \in Procs, Quiet(p)  PROVE Shape'
  BY <1>2 DEF Quiet, Goto, Special, runVars, Shape, TypeOK, Procs
<1>3. ASSUME NEW p \in Procs, NEW r \in Runs, ReapDotted(p, r)  PROVE Shape'
  <2>1. CASE Fail(p)
    <3>1. Quiet(p)
      BY <1>3, <2>1, FailIsQuiet DEF ReapDotted, Special
    <3>2. QED
      BY <3>1, <1>2
  <2>2. CASE ~Fail(p)
    <3>1. PICK place \in {"tmp", "dead"} : ReapDot(p, r, place)
      BY <1>3 DEF ReapDotted
    <3>2. pc[r] \notin {"lease", "fill", "rename"}
      BY <1>3 DEF Discipline, ReapDotted, Critical, Procs
    <3>3. pc[r] \notin {"live"}
      BY <2>2, <3>1 DEF ReapDot, Shape
    <3>4. /\ entry' = [entry EXCEPT ![r] = "none"] /\ files' = [files EXCEPT ![r] = {}]
          /\ UNCHANGED <<pc, leases>>
      BY <2>2, <3>1 DEF ReapDot
    <3>5. QED
      BY <3>2, <3>3, <3>4 DEF Shape, TypeOK
  <2>3. QED
    BY <2>1, <2>2
<1>4. ASSUME NEW p \in Procs, NEW r \in Runs, RemoveAbandoned(p, r)  PROVE Shape'
  <2>1. CASE Fail(p)
    <3>1. Quiet(p)
      BY <1>4, <2>1, FailIsQuiet DEF RemoveAbandoned, Special
    <3>2. QED
      BY <3>1, <1>2
  <2>2. CASE ~Fail(p)
    <3>1. pc[r] = "killed"
      BY <1>4, <2>2 DEF RemoveAbandoned, Opened, Shape, Gone
    <3>2. \/ \E f \in files[r] : files' = [files EXCEPT ![r] = @ \ {f}] /\ UNCHANGED entry
          \/ entry' = [entry EXCEPT ![r] = "none"] /\ UNCHANGED files
      BY <1>4, <2>2 DEF RemoveAbandoned
    <3>3. UNCHANGED <<pc, leases>>
      BY <1>4, <2>2 DEF RemoveAbandoned
    <3>4. QED
      BY <3>1, <3>2, <3>3 DEF Shape, TypeOK
  <2>3. QED
    BY <2>1, <2>2
<1>5. ASSUME NEW r \in Runs, CreateTemporary(r)  PROVE Shape'
  BY <1>5 DEF CreateTemporary, Goto, Shape, TypeOK, Procs
<1>6. ASSUME NEW r \in Runs, LockLease(r)  PROVE Shape'
  BY <1>6 DEF LockLease, LeaseLocked, Goto, Shape, TypeOK, Procs
<1>7. ASSUME NEW r \in Runs, Fill(r)  PROVE Shape'
  BY <1>7 DEF Fill, Goto, Shape, TypeOK, Procs, Whole
<1>8. ASSUME NEW r \in Runs, PublishRun(r)  PROVE Shape'
  BY <1>8 DEF PublishRun, Finish, Goto, Shape, TypeOK, Procs
<1>9. ASSUME NEW r \in Runs, BuildFails(r)  PROVE Shape'
  BY <1>9 DEF BuildFails, Finish, Goto, Shape, TypeOK, Procs
<1>10. ASSUME NEW r \in Runs, RetireRename(r)  PROVE Shape'
  <2>1. pc[r] = "live" /\ UNCHANGED <<files, leases>>
    BY <1>10 DEF RetireRename
  <2>2. entry[r] = "run"
    BY <2>1 DEF Shape
  <2>3. entry' = [entry EXCEPT ![r] = "dead"] /\ pc' = [pc EXCEPT ![r] = "retiring"]
    BY <1>10, <2>2 DEF RetireRename, Gone, Goto
  <2>4. /\ entry'[r] = "dead" /\ pc'[r] = "retiring"
        /\ \A q \in Runs \ {r} : entry'[q] = entry[q] /\ pc'[q] = pc[q]
    BY <2>3 DEF TypeOK, Procs
  <2>5. QED
    BY <2>1, <2>4 DEF Shape
<1>11. ASSUME NEW r \in Runs, RetireRemove(r)  PROVE Shape'
  BY <1>11 DEF RetireRemove, Goto, Shape, TypeOK, Procs
<1>12. ASSUME NEW p \in Procs, Die(p)  PROVE Shape'
  BY <1>12 DEF Die, Goto, Shape, TypeOK, Procs
<1>13. ASSUME NEW r \in Runs, RecordDenial(r)  PROVE Shape'
  BY <1>13 DEF RecordDenial, Shape
<1>14. ASSUME NEW p \in Procs, NEW r \in Runs, WriteMode(p, r)  PROVE Shape'
  BY <1>14 DEF WriteMode, Shape
<1>15. ASSUME NEW p \in Procs, ClearLog(p) \/ Allow(p) \/ Deny(p)  PROVE Shape'
  <2>1. UNCHANGED <<entry, files, leases>>
    BY <1>15 DEF ClearLog, Allow, Deny, runVars
  <2>2. \/ p \notin Runs /\ \A r \in Runs : pc'[r] = pc[r]
        \/ p \in Runs /\ pc[p] \in {"write", "deny", "clear log"}
           /\ pc'[p] \in {"done", "failed", "build"} /\ \A r \in Runs \ {p} : pc'[r] = pc[r]
    BY <1>15 DEF ClearLog, Allow, Deny, Finish, Goto, TypeOK, Procs
  <2>3. QED
    BY <2>1, <2>2 DEF Shape
<1>16. QED
  BY <1>1, <1>2, <1>3, <1>4, <1>5, <1>6, <1>7, <1>8, <1>9, <1>10, <1>11, <1>12, <1>13,
     <1>14, <1>15, LoudOrQuiet
  DEF Loud, Publish, Retire

-----------------------------------------------------------------------------
(* Leases that were opened.                                                *)

OlderItems ==
  \A q \in Procs, r \in Runs : \A how \in {"opened", "unlocked"} :
    <<r, how>> \in todo'[q] => <<r, how>> \in todo[q]

Onward ==
  \A r \in Runs :
    /\ pc[r] \in {"live", "retiring", "over", "killed"}
         => pc'[r] \in {"live", "retiring", "over", "killed"}
    /\ pc[r] \in {"retiring", "over", "killed"}
         => pc'[r] \in {"retiring", "over", "killed"}

LEMMA OpenedFrame ==
  ASSUME Opened, OlderItems, Onward
  PROVE  Opened'
BY DEF Opened, OlderItems, Onward

LEMMA AllOnward ==
  ASSUME TypeOK, Next
  PROVE  Onward
<1> USE DEF TypeOK, Onward, Goto, Procs
<1>1. ASSUME NEW p \in Procs, Quiet(p)  PROVE Onward
  BY <1>1 DEF Quiet, Special
<1>2. ASSUME NEW p \in Procs, NEW r \in Runs, ReapDotted(p, r) \/ RemoveAbandoned(p, r)
      PROVE Onward
  BY <1>2 DEF ReapDotted, ReapDot, RemoveAbandoned, Fail, Finish
<1>3. ASSUME NEW r \in Runs, Publish(r)  PROVE Onward
  BY <1>3 DEF Publish, CreateTemporary, LockLease, Fill, PublishRun, BuildFails, Finish
<1>4. ASSUME NEW r \in Runs, Retire(r)  PROVE Onward
  BY <1>4 DEF Retire, RetireRename, RetireRemove
<1>5. ASSUME NEW p \in Procs, Die(p)  PROVE Onward
  BY <1>5 DEF Die
<1>6. ASSUME NEW r \in Runs, RecordDenial(r)  PROVE Onward
  BY <1>6 DEF RecordDenial
<1>7. ASSUME NEW p \in Procs, NEW r \in Runs, WriteMode(p, r)  PROVE Onward
  BY <1>7 DEF WriteMode
<1>8. ASSUME NEW p \in Procs, ClearLog(p) \/ Allow(p) \/ Deny(p)  PROVE Onward
  BY <1>8 DEF ClearLog, Allow, Deny, Finish
<1>9. QED
  BY <1>1, <1>2, <1>3, <1>4, <1>5, <1>6, <1>7, <1>8, LoudOrQuiet DEF Loud

\* Steps after which no more leases are open than before.
LEMMA KeptItems ==
  ASSUME UNCHANGED todo
  PROVE  OlderItems
BY DEF OlderItems

LEMMA ForgottenItems ==
  ASSUME TypeOK, NEW p \in Procs, Forget(p)
  PROVE  OlderItems
BY DEF TypeOK, Forget, OlderItems

LEMMA DroppedItems ==
  ASSUME TypeOK, NEW p \in Procs, NEW item, Drop(p, item)
  PROVE  OlderItems
BY DEF TypeOK, Drop, OlderItems

LEMMA ListedItems ==
  ASSUME TypeOK, NEW p \in Procs, NEW what, List(p, what),
         \A r \in Runs : <<r, "opened">> \notin what /\ <<r, "unlocked">> \notin what
  PROVE  OlderItems
BY DEF TypeOK, List, OlderItems

LEMMA PublishedNotOpened ==
  \A r \in Runs : /\ <<r, "opened">> \notin Published \X {"run"}
                  /\ <<r, "unlocked">> \notin Published \X {"run"}
OBVIOUS

LEMMA OpenedKept ==
  ASSUME TypeOK, Shape, Opened, [Next]_vars
  PROVE  Opened'
<1> USE KeptItems, ForgottenItems, DroppedItems, ListedItems, PublishedNotOpened
    DEF Finish, scratch, Procs
<1>1. CASE UNCHANGED vars
  BY <1>1 DEF vars, Opened
<1>2. ASSUME Next, OlderItems  PROVE Opened'
  BY <1>2, AllOnward, OpenedFrame
<1>3. ASSUME NEW p \in Procs, Start(p) \/ Ensure(p) \/ Ensured(p)  PROVE OlderItems
  BY <1>3 DEF Start, Ensure, Ensured
<1>4. ASSUME NEW p \in Procs, Acquire(p)  PROVE OlderItems
  <2>1. CASE First(kind[p]) = "reap"
    <3>1. \A r \in Runs : entry[r] \notin {"opened", "unlocked"}
      BY DEF TypeOK
    <3>2. QED
      BY <1>4, <2>1, <3>1 DEF Acquire
  <2>2. CASE First(kind[p]) # "reap"
    BY <1>4, <2>2 DEF Acquire
  <2>3. QED
    BY <2>1, <2>2
<1>5. ASSUME NEW p \in Procs, NEW r \in Runs, EnsureRun(p, r) \/ WriteMode(p, r) \/ ReadRun(p, r)
      PROVE OlderItems
  BY <1>5 DEF EnsureRun, WriteMode, ReadRun, Fail
<1>6. ASSUME NEW p \in Procs, NEW r \in Runs, ReapDotted(p, r)  PROVE OlderItems
  BY <1>6 DEF ReapDotted, ReapDot, Fail
<1>7. ASSUME NEW p \in Procs, NEW r \in Runs, OpenLease(p, r)  PROVE Opened'
  <2>1. CASE Fail(p)
    BY <1>2, <1>7, <2>1 DEF Fail, Next, Step, Reap
  <2>2. CASE ~Fail(p)
    <3>1. pc[r] \in {"live", "retiring", "over", "killed"} /\ UNCHANGED pc
      BY <1>7, <2>2 DEF OpenLease, Gone, Shape
    <3>2. todo' = [todo EXCEPT ![p] = (todo[p] \ {<<r, "run">>}) \cup {<<r, "opened">>}]
      BY <1>7, <2>2 DEF OpenLease, List
    <3>3. QED
      BY <3>1, <3>2 DEF Opened, TypeOK
  <2>3. QED
    BY <2>1, <2>2
<1>8. ASSUME NEW p \in Procs, NEW r \in Runs, TryLease(p, r)  PROVE Opened'
  <2>1. pc[r] \in {"live", "retiring", "over", "killed"} /\ UNCHANGED pc
    BY <1>8 DEF TryLease, Opened
  <2>2. LeaseFree(r) => pc[r] # "live"
    BY DEF LeaseFree, Shape
  <2>3. todo' = [todo EXCEPT ![p] = (todo[p] \ {<<r, "opened">>})
                                    \cup IF LeaseFree(r) THEN {<<r, "unlocked">>} ELSE {}]
    BY <1>8 DEF TryLease, List
  <2>4. QED
    BY <2>1, <2>2, <2>3 DEF Opened, TypeOK
<1>9. ASSUME NEW p \in Procs, NEW r \in Runs, RemoveAbandoned(p, r)  PROVE OlderItems
  BY <1>9 DEF RemoveAbandoned, Fail
<1>10. ASSUME NEW p \in Procs,
              Reaped(p) \/ ProjectDirectory(p) \/ ProjectFiles(p) \/ CheckLog(p) \/ ClearLog(p)
       PROVE OlderItems
  BY <1>10 DEF Reaped, ProjectDirectory, ProjectFiles, CheckLog, ClearLog
<1>11. ASSUME NEW r \in Runs, Publish(r) \/ Retire(r) \/ RecordDenial(r)  PROVE OlderItems
  BY <1>11 DEF Publish, CreateTemporary, LockLease, Fill, PublishRun, BuildFails,
               Retire, RetireRename, RetireRemove, RecordDenial
<1>12. ASSUME NEW p \in Procs, ListModes(p) \/ ModesWritten(p) \/ ReadLayers(p) \/ SnapshotRead(p)
       PROVE OlderItems
  BY <1>12 DEF ListModes, ModesWritten, ReadLayers, SnapshotRead, Fail
<1>13. ASSUME NEW p \in Procs, ReadLayer(p) \/ Allow(p) \/ Deny(p) \/ Die(p)  PROVE OlderItems
  BY <1>13 DEF ReadLayer, Allow, Deny, Die
<1>14. QED
  BY <1>1, <1>2, <1>3, <1>4, <1>5, <1>6, <1>7, <1>8, <1>9, <1>10, <1>11, <1>12, <1>13
  DEF Next, Step, Reap

-----------------------------------------------------------------------------
(* What a process has read is current.                                     *)

CurrentAt(p) ==
  /\ pc[p] \in {"read runs", "deny"} =>
       /\ copy[p] = table
       /\ \A r \in Published : <<r, "run">> \in todo[p] \/ <<r, mode[r]>> \in report[p]
  /\ pc[p] = "modes" =>
       \A r \in Published : <<r, "run">> \in todo[p] \/ mode[r] = NewMode(kind[p])
  /\ pc[p] = "write" => copy[p] = table
  /\ pc[p] = "clear log" => Published = {}

Current == \A p \in Procs : CurrentAt(p)

LEMMA CurrentParts ==
  Current <=> SnapshotIsCurrent /\ ModesReachAll /\ EditIsCurrent /\ LogIsIdle
BY DEF Current, CurrentAt, SnapshotIsCurrent, ModesReachAll, EditIsCurrent, LogIsIdle

Reading == {"read runs", "deny", "modes", "write", "clear log"}

LEMMA CurrentElsewhere ==
  ASSUME NEW p \in Procs, pc'[p] \notin Reading
  PROVE  CurrentAt(p)'
BY DEF CurrentAt, Reading

LEMMA GoesElsewhere ==
  ASSUME TypeOK, NEW p \in Procs, NEW there, there \notin Reading, Goto(p, there)
  PROVE  CurrentAt(p)'
BY CurrentElsewhere DEF TypeOK, Goto

LEMMA StaysElsewhere ==
  ASSUME NEW p \in Procs, pc[p] \notin Reading, UNCHANGED pc
  PROVE  CurrentAt(p)'
BY CurrentElsewhere

LEMMA FailElsewhere ==
  ASSUME TypeOK, NEW p \in Procs, Fail(p)
  PROVE  CurrentAt(p)'
BY GoesElsewhere DEF Fail, Finish, Reading

LEMMA OwnStep ==
  ASSUME TypeOK, NEW p \in Procs, CurrentAt(p), Step(p)
  PROVE  CurrentAt(p)'
<1> USE GoesElsewhere, StaysElsewhere, FailElsewhere
<1>1. CASE Ensure(p) \/ Ensured(p)
  BY <1>1 DEF Ensure, Ensured, Finish, Reading
<1>2. CASE Acquire(p)
  BY <1>2 DEF Acquire, First, Reading
<1>3. ASSUME NEW r \in Runs, EnsureRun(p, r)  PROVE CurrentAt(p)'
  BY <1>3 DEF EnsureRun, Reading
<1>4. CASE Reaped(p)
  BY <1>4 DEF Reaped, AfterReap, Reading
<1>5. ASSUME NEW r \in Runs, ReapDotted(p, r) \/ OpenLease(p, r)  PROVE CurrentAt(p)'
  BY <1>5 DEF ReapDotted, ReapDot, OpenLease, Reading
<1>6. ASSUME NEW r \in Runs, TryLease(p, r) \/ RemoveAbandoned(p, r)  PROVE CurrentAt(p)'
  BY <1>6 DEF TryLease, RemoveAbandoned, Reading
<1>7. CASE ProjectDirectory(p) \/ ProjectFiles(p)
  BY <1>7 DEF ProjectDirectory, ProjectFiles, Reading
<1>8. CASE CheckLog(p)
  BY <1>8 DEF CheckLog, LogIdle, CurrentAt, Published, Goto, TypeOK, runVars
<1>9. CASE ClearLog(p)
  BY <1>9 DEF ClearLog, Reading
<1>10. CASE Publish(p)
  BY <1>10 DEF Publish, CreateTemporary, LockLease, Fill, PublishRun, BuildFails,
               Finish, Reading
<1>11. CASE ListModes(p)
  BY <1>11 DEF ListModes, CurrentAt, Published, Goto, List, TypeOK, runVars
<1>12. ASSUME NEW r \in Runs, WriteMode(p, r)  PROVE CurrentAt(p)'
  <2>1. pc[p] = "modes" /\ UNCHANGED <<pc, kind, entry>>
    BY <1>12 DEF WriteMode
  <2>2. mode' = IF Gone(r) THEN mode ELSE [mode EXCEPT ![r] = NewMode(kind[p])]
    BY <1>12 DEF WriteMode
  <2>3. todo'[p] = todo[p] \ {<<r, "run">>}
    BY <1>12 DEF WriteMode, Drop, TypeOK
  <2>4. ASSUME NEW q \in Published
        PROVE  <<q, "run">> \in todo'[p] \/ mode'[q] = NewMode(kind[p])
    <3>1. CASE q = r
      BY <2>2, <3>1 DEF Published, Gone, TypeOK
    <3>2. CASE q # r
      <4>1. <<q, "run">> \in todo[p] \/ mode[q] = NewMode(kind[p])
        BY <2>1 DEF CurrentAt
      <4>2. mode'[q] = mode[q]
        BY <2>2, <3>2 DEF Published, TypeOK
      <4>3. QED
        BY <2>3, <3>2, <4>1, <4>2
    <3>3. QED
      BY <3>1, <3>2
  <2>5. Published' = Published
    BY <2>1 DEF Published
  <2>6. QED
    BY <2>1, <2>4, <2>5 DEF CurrentAt, NewMode
<1>13. CASE ModesWritten(p)
  BY <1>13 DEF ModesWritten, Finish, Reading
<1>14. CASE ReadLayers(p)
  <2>1. CASE Fail(p)
    BY <2>1
  <2>2. CASE ~Fail(p)
    <3>1. copy'[p] = table /\ todo'[p] = Published \X {"run"} /\ pc'[p] = "read runs"
      BY <1>14, <2>2 DEF ReadLayers, Goto, List, TypeOK
    <3>2. table' = table /\ Published' = Published
      BY <1>14, <2>2 DEF ReadLayers, Published, runVars, layerVars
    <3>3. QED
      BY <3>1, <3>2 DEF CurrentAt
  <2>3. QED
    BY <2>1, <2>2
<1>15. ASSUME NEW r \in Runs, ReadRun(p, r)  PROVE CurrentAt(p)'
  <2>1. CASE Fail(p)
    BY <2>1
  <2>2. CASE ~Fail(p)
    <3>1. pc[p] = "read runs" /\ UNCHANGED <<pc, entry, mode, copy, table>>
      BY <1>15, <2>2 DEF ReadRun, runVars, layerVars
    <3>2. todo'[p] = todo[p] \ {<<r, "run">>}
      BY <1>15, <2>2 DEF ReadRun, Drop, TypeOK
    <3>3. report'[p] = report[p] \cup {<<r, mode[r]>>}
      BY <1>15, <2>2 DEF ReadRun, TypeOK
    <3>4. Published' = Published
      BY <3>1 DEF Published
    <3>5. QED
      BY <3>1, <3>2, <3>3, <3>4 DEF CurrentAt
  <2>3. QED
    BY <2>1, <2>2
<1>16. CASE SnapshotRead(p)
  <2>1. CASE kind[p] = "status"
    BY <1>16, <2>1 DEF SnapshotRead, Finish, Reading
  <2>2. CASE kind[p] # "status"
    BY <1>16, <2>2
    DEF SnapshotRead, CurrentAt, Published, Goto, TypeOK, runVars, layerVars, scratch
  <2>3. QED
    BY <2>1, <2>2
<1>17. CASE ReadLayer(p)
  BY <1>17 DEF ReadLayer, CurrentAt, Goto, TypeOK, layerVars
<1>18. CASE Allow(p) \/ Deny(p)
  BY <1>18 DEF Allow, Deny, Finish, Reading
<1>19. QED
  BY <1>1, <1>2, <1>3, <1>4, <1>5, <1>6, <1>7, <1>8, <1>9, <1>10, <1>11, <1>12,
     <1>13, <1>14, <1>15, <1>16, <1>17, <1>18
  DEF Step, Reap

\* Steps outside the lock: of what others read they can only take away runs.
LEMMA OutsideStep ==
  ASSUME TypeOK, NEW p \in Procs, NEW q \in Procs, CurrentAt(q),
         \/ Start(p) \/ Die(p)
         \/ p \in Runs /\ (Retire(p) \/ RecordDenial(p))
  PROVE  CurrentAt(q)'
<1> USE DEF TypeOK
<1>1. CASE Start(p)
  <2>1. UNCHANGED <<mode, entry, table, todo, copy, report>>
    BY <1>1 DEF Start, layerVars, runVars, scratch
  <2>2. IF q = p THEN pc'[q] = "start" ELSE pc'[q] = pc[q] /\ kind'[q] = kind[q]
    BY <1>1 DEF Start, Goto
  <2>3. QED
    BY <2>1, <2>2 DEF CurrentAt, Published
<1>2. CASE Die(p)
  BY <1>2 DEF Die, Goto, Forget, CurrentAt, Published, layerVars
<1>3. CASE p \in Runs /\ RetireRename(p)
  <2>1. UNCHANGED <<kind, mode, table, todo, copy, report>> /\ Published' \subseteq Published
    BY <1>3 DEF RetireRename, Published, layerVars, scratch
  <2>2. pc'[q] \in {pc[q], "over", "retiring"}
    BY <1>3 DEF RetireRename, Goto
  <2>3. QED
    BY <2>1, <2>2 DEF CurrentAt
<1>4. CASE p \in Runs /\ RetireRemove(p)
  <2>1. UNCHANGED <<kind, mode, table, todo, copy, report>> /\ Published' \subseteq Published
    BY <1>4 DEF RetireRemove, Published, layerVars, scratch
  <2>2. pc'[q] \in {pc[q], "over"}
    BY <1>4 DEF RetireRemove, Goto
  <2>3. QED
    BY <2>1, <2>2 DEF CurrentAt
<1>5. CASE p \in Runs /\ RecordDenial(p)
  BY <1>5 DEF RecordDenial, CurrentAt, Published, layerVars, scratch
<1>6. QED
  BY <1>1, <1>2, <1>3, <1>4, <1>5 DEF Retire

LEMMA CurrentKept ==
  ASSUME TypeOK, Discipline, Current, [Next]_vars
  PROVE  Current'
<1>1. CASE UNCHANGED vars
  BY <1>1 DEF vars, Current, CurrentAt, Published, layerVars, runVars, scratch
<1>2. ASSUME NEW p \in Procs, Step(p)  PROVE Current'
  <2>1. ASSUME NEW q \in Procs, q # p  PROVE CurrentAt(q)'
    BY <1>2, <2>1, StepMoves, Alone, CurrentElsewhere DEF Reading, Critical
  <2>2. CurrentAt(p)'
    BY <1>2, OwnStep DEF Current
  <2>3. QED
    BY <2>1, <2>2 DEF Current
<1>3. ASSUME NEW p \in Procs, \/ Start(p) \/ Die(p)
                              \/ p \in Runs /\ (Retire(p) \/ RecordDenial(p))
      PROVE  Current'
  BY <1>3, OutsideStep DEF Current
<1>4. QED
  BY <1>1, <1>2, <1>3 DEF Next, Procs

-----------------------------------------------------------------------------
(* Reaping.                                                                *)

Reaping == {"reap", "project", "list modes", "read"}

ProgressAt(p) ==
  pc[p] \in Reaping => \A r \in doomed[p] : pc[r] = "killed" /\ Owed(p, r)

LEMMA ProgressParts == ReapProgress <=> \A p \in Procs : ProgressAt(p)
BY DEF ReapProgress, ProgressAt, Reaping

LEMMA LeavesReaping ==
  ASSUME TypeOK, NEW p \in Procs, NEW there, there \notin Reaping, Goto(p, there)
  PROVE  ProgressAt(p)'
BY DEF TypeOK, Goto, ProgressAt

LEMMA StaysApart ==
  ASSUME NEW p \in Procs, pc[p] \notin Reaping, UNCHANGED pc
  PROVE  ProgressAt(p)'
BY DEF ProgressAt

LEMMA FailLeaves ==
  ASSUME TypeOK, NEW p \in Procs, Fail(p)
  PROVE  ProgressAt(p)'
BY LeavesReaping DEF Fail, Finish, Reaping

LEMMA OwnReaping ==
  ASSUME TypeOK, Shape, NEW p \in Procs, ProgressAt(p), Step(p)
  PROVE  ProgressAt(p)'
<1> USE LeavesReaping, StaysApart, FailLeaves
<1>1. CASE Ensure(p) \/ Ensured(p)
  BY <1>1 DEF Ensure, Ensured, Finish, Reaping
<1>2. CASE Acquire(p)
  <2>1. CASE First(kind[p]) = "reap"
    <3>1. /\ doomed'[p] = Abandoned
          /\ todo'[p] = {<<r, entry[r]>> : r \in {q \in Runs : entry[q] # "none"}}
          /\ pc' = [pc EXCEPT ![p] = "reap"] /\ pc[p] = "wait" /\ UNCHANGED entry
      BY <1>2, <2>1 DEF Acquire, List, Goto, TypeOK, runVars
    <3>2. ASSUME NEW r \in Abandoned
          PROVE  pc'[r] = "killed" /\ entry'[r] = entry[r] /\ <<r, entry[r]>> \in todo'[p]
      BY <3>1 DEF Abandoned, TypeOK, Procs
    <3>3. pc'[p] = "reap"
      BY <3>1 DEF TypeOK
    <3>4. QED
      BY <3>1, <3>2, <3>3 DEF ProgressAt, Owed
  <2>2. CASE First(kind[p]) # "reap"
    <3>1. pc[p] = "wait" /\ doomed'[p] = {}
      BY <1>2, <2>2 DEF Acquire, TypeOK
    <3>2. QED
      BY <3>1 DEF ProgressAt
  <2>3. QED
    BY <2>1, <2>2
<1>3. ASSUME NEW r \in Runs, EnsureRun(p, r) \/ WriteMode(p, r) \/ ReadRun(p, r)
      PROVE  ProgressAt(p)'
  BY <1>3 DEF EnsureRun, WriteMode, ReadRun, Reaping
<1>4. CASE Reaped(p)
  <2>1. /\ pc[p] = "reap" /\ todo[p] = {} /\ pc' = [pc EXCEPT ![p] = AfterReap(kind[p])]
        /\ UNCHANGED <<entry, todo, doomed>>
    BY <1>4 DEF Reaped, Goto, runVars, scratch
  <2>2. ASSUME NEW r \in doomed[p]  PROVE r \in Runs /\ pc[r] = "killed" /\ entry[r] = "none"
    <3>1. pc[r] = "killed" /\ Owed(p, r)
      BY <2>1 DEF ProgressAt, Reaping
    <3>2. r \in Runs
      BY DEF TypeOK
    <3>3. QED
      BY <2>1, <3>1, <3>2 DEF Owed
  <2>3. ASSUME NEW r \in doomed[p]  PROVE pc'[r] = "killed" /\ entry'[r] = "none"
    BY <2>1, <2>2 DEF TypeOK, Procs
  <2>4. \A r \in doomed'[p] : pc'[r] = "killed" /\ Owed(p, r)'
    BY <2>1, <2>3, SMTT(20) DEF Owed
  <2>5. QED
    BY <2>4, SMTT(20) DEF ProgressAt
<1>5. ASSUME NEW r \in Runs, ReapDotted(p, r)  PROVE ProgressAt(p)'
  <2>1. PICK place \in {"tmp", "dead"} : ReapDot(p, r, place)
    BY <1>5 DEF ReapDotted
  <2>2. CASE Fail(p)
    BY <2>2
  <2>3. CASE ~Fail(p)
    <3>1. /\ pc[p] = "reap" /\ UNCHANGED <<pc, doomed>>
          /\ entry' = [entry EXCEPT ![r] = "none"]
          /\ todo'[p] = todo[p] \ {<<r, place>>}
      BY <1>5, <2>1, <2>3 DEF ReapDotted, ReapDot, Drop, TypeOK
    <3>2. ASSUME NEW q \in doomed[p]  PROVE Owed(p, q)'
      <4>1. Owed(p, q) /\ q \in Runs
        BY <3>1 DEF ProgressAt, Reaping, TypeOK
      <4>2. CASE q = r
        BY <3>1, <4>1, <4>2 DEF Owed, TypeOK
      <4>3. CASE q # r
        BY <3>1, <4>1, <4>3 DEF Owed, TypeOK
      <4>4. QED
        BY <4>2, <4>3
    <3>3. QED
      BY <3>1, <3>2 DEF ProgressAt
  <2>4. QED
    BY <2>2, <2>3
<1>6. ASSUME NEW r \in Runs, OpenLease(p, r)  PROVE ProgressAt(p)'
  <2>1. CASE Fail(p)
    BY <2>1
  <2>2. CASE ~Fail(p)
    <3>1. /\ pc[p] = "reap" /\ UNCHANGED <<pc, doomed, entry>> /\ entry[r] = "run"
          /\ todo'[p] = (todo[p] \ {<<r, "run">>}) \cup {<<r, "opened">>}
      BY <1>6, <2>2 DEF OpenLease, List, Gone, TypeOK, runVars
    <3>2. ASSUME NEW q \in doomed[p]  PROVE Owed(p, q)'
      BY <3>1 DEF ProgressAt, Owed, Reaping
    <3>3. QED
      BY <3>1, <3>2 DEF ProgressAt
  <2>3. QED
    BY <2>1, <2>2
<1>7. ASSUME NEW r \in Runs, TryLease(p, r)  PROVE ProgressAt(p)'
  <2>1. /\ pc[p] = "reap" /\ UNCHANGED <<pc, doomed, entry>>
        /\ todo'[p] = (todo[p] \ {<<r, "opened">>})
                      \cup IF LeaseFree(r) THEN {<<r, "unlocked">>} ELSE {}
    BY <1>7 DEF TryLease, List, TypeOK, runVars
  <2>2. ASSUME NEW q \in doomed[p]  PROVE Owed(p, q)'
    <3>1. Owed(p, q) /\ q \in Runs /\ pc[q] = "killed"
      BY <2>1 DEF ProgressAt, Reaping, TypeOK
    <3>2. LeaseFree(q)
      BY <3>1 DEF Shape, LeaseFree
    <3>3. QED
      <4>1. CASE q = r
        BY <2>1, <3>1, <3>2, <4>1 DEF Owed, TypeOK
      <4>2. CASE q # r
        BY <2>1, <3>1, <4>2 DEF Owed, TypeOK
      <4>3. QED
        BY <4>1, <4>2
  <2>3. QED
    BY <2>1, <2>2 DEF ProgressAt
<1>8. ASSUME NEW r \in Runs, RemoveAbandoned(p, r)  PROVE ProgressAt(p)'
  <2>1. CASE Fail(p)
    BY <2>1
  <2>2. CASE ~Fail(p) /\ files[r] # {}
    <3>1. UNCHANGED <<pc, entry, todo, doomed>>
      <4>1. UNCHANGED <<pc, kind, lock, layerVars, entry, mode, leases, log, scratch>>
        BY <1>8, <2>2 DEF RemoveAbandoned
      <4>2. QED
        BY <4>1 DEF scratch
    <3>2. \A q \in doomed[p] : Owed(p, q) => Owed(p, q)'
      BY <3>1, SMTT(20) DEF Owed
    <3>3. QED
      BY <3>1, <3>2, SMTT(20) DEF ProgressAt
  <2>3. CASE ~Fail(p) /\ files[r] = {}
    <3>1. /\ pc[p] = "reap" /\ UNCHANGED <<pc, doomed>>
          /\ entry' = [entry EXCEPT ![r] = "none"]
          /\ todo'[p] = todo[p] \ {<<r, "unlocked">>}
      BY <1>8, <2>3 DEF RemoveAbandoned, Drop, TypeOK
    <3>2. ASSUME NEW q \in doomed[p]  PROVE Owed(p, q)'
      <4>1. Owed(p, q) /\ q \in Runs
        BY <3>1 DEF ProgressAt, Reaping, TypeOK
      <4>2. CASE q = r
        BY <3>1, <4>1, <4>2 DEF Owed, TypeOK
      <4>3. CASE q # r
        BY <3>1, <4>1, <4>3 DEF Owed, TypeOK
      <4>4. QED
        BY <4>2, <4>3
    <3>3. QED
      BY <3>1, <3>2 DEF ProgressAt
  <2>4. QED
    BY <2>1, <2>2, <2>3 DEF RemoveAbandoned
<1>9. CASE ProjectDirectory(p) \/ ProjectFiles(p) \/ CheckLog(p) \/ ClearLog(p)
  BY <1>9 DEF ProjectDirectory, ProjectFiles, CheckLog, ClearLog, Reaping
<1>10. CASE Publish(p)
  BY <1>10 DEF Publish, CreateTemporary, LockLease, Fill, PublishRun, BuildFails,
               Finish, Reaping
<1>11. CASE ListModes(p) \/ ModesWritten(p)
  BY <1>11 DEF ListModes, ModesWritten, Finish, Reaping
<1>12. CASE ReadLayers(p) \/ SnapshotRead(p)
  BY <1>12 DEF ReadLayers, SnapshotRead, Finish, Reaping
<1>13. CASE ReadLayer(p) \/ Allow(p) \/ Deny(p)
  BY <1>13 DEF ReadLayer, Allow, Deny, Finish, Reaping
<1>14. QED
  BY <1>1, <1>2, <1>3, <1>4, <1>5, <1>6, <1>7, <1>8, <1>9, <1>10, <1>11, <1>12, <1>13
  DEF Step, Reap

\* Whose process is dead is changed by nobody outside the lock.
LEMMA ReapingUndisturbed ==
  ASSUME TypeOK, NEW p \in Procs, NEW q \in Procs, ProgressAt(q),
         \/ Start(p) \/ Die(p)
         \/ p \in Runs /\ (Retire(p) \/ RecordDenial(p))
  PROVE  ProgressAt(q)'
<1> USE DEF TypeOK, Procs
<1>1. CASE Start(p)
  BY <1>1 DEF Start, Goto, ProgressAt, Owed, Reaping, runVars, scratch
<1>2. CASE Die(p)
  BY <1>2 DEF Die, Still, Goto, Forget, ProgressAt, Owed, Reaping
<1>3. CASE p \in Runs /\ RetireRename(p)
  <2>1. /\ pc[p] = "live" /\ UNCHANGED <<todo, doomed>>
        /\ \A r \in Runs \ {p} : entry'[r] = entry[r]
        /\ \A r \in Procs \ {p} : pc'[r] = pc[r]
        /\ pc'[p] \in {"over", "retiring"}
    BY <1>3 DEF RetireRename, Goto, scratch
  <2>2. ASSUME pc'[q] \in Reaping  PROVE pc[q] \in Reaping /\ q # p /\ pc'[q] = pc[q]
    BY <2>1, <2>2 DEF Reaping
  <2>3. ASSUME pc[q] \in Reaping, NEW r \in doomed[q]
        PROVE  pc'[r] = "killed" /\ entry'[r] = entry[r] /\ Owed(q, r)
    BY <2>1, <2>3 DEF ProgressAt
  <2>4. QED
    BY <2>1, <2>2, <2>3 DEF ProgressAt, Owed
<1>4. CASE p \in Runs /\ RetireRemove(p)
  BY <1>4 DEF RetireRemove, Goto, ProgressAt, Owed, Reaping, scratch
<1>5. CASE p \in Runs /\ RecordDenial(p)
  BY <1>5 DEF RecordDenial, ProgressAt, Owed, scratch
<1>6. QED
  BY <1>1, <1>2, <1>3, <1>4, <1>5 DEF Retire

LEMMA ReapProgressKept ==
  ASSUME TypeOK, Discipline, Shape, ReapProgress, [Next]_vars
  PROVE  ReapProgress'
<1> USE ProgressParts
<1>1. CASE UNCHANGED vars
  BY <1>1 DEF vars, ReapProgress, Owed, runVars, scratch
<1>2. ASSUME NEW p \in Procs, Step(p)  PROVE ReapProgress'
  <2>1. ASSUME NEW q \in Procs, q # p  PROVE ProgressAt(q)'
    BY <1>2, <2>1, StepMoves, Alone DEF ProgressAt, Reaping, Critical
  <2>2. ProgressAt(p)'
    BY <1>2, OwnReaping
  <2>3. \A q \in Procs : ProgressAt(q)'
    BY <2>1, <2>2
  <2>4. QED
    BY <2>3 DEF ReapProgress, ProgressAt, Reaping
<1>3. ASSUME NEW p \in Procs, \/ Start(p) \/ Die(p)
                              \/ p \in Runs /\ (Retire(p) \/ RecordDenial(p))
      PROVE  ReapProgress'
  <2>1. \A q \in Procs : ProgressAt(q)'
    BY <1>3, ReapingUndisturbed
  <2>2. QED
    BY <2>1 DEF ReapProgress, ProgressAt, Reaping
<1>4. QED
  BY <1>1, <1>2, <1>3 DEF Next, Procs

-----------------------------------------------------------------------------
(* The invariant, and what follows from it.                                *)

LEMMA InitInvariant == Init => IInv
<1> SUFFICES ASSUME Init PROVE IInv
  OBVIOUS
<1>1. TypeOK
  BY DEF Init, TypeOK, Outside, Still, Modes
<1>2. Discipline
  BY ProcsAssumption DEF Init, Discipline, Critical
<1>3. Shape /\ Opened
  BY DEF Init, Shape, Opened, Procs
<1>4. SnapshotIsCurrent /\ ModesReachAll /\ EditIsCurrent /\ LogIsIdle
  BY DEF Init, SnapshotIsCurrent, ModesReachAll, EditIsCurrent, LogIsIdle
<1>5. ReapProgress
  BY DEF Init, ReapProgress
<1>6. QED
  BY <1>1, <1>2, <1>3, <1>4, <1>5 DEF IInv

LEMMA InvariantKept == IInv /\ [Next]_vars => IInv'
<1> SUFFICES ASSUME IInv, [Next]_vars PROVE IInv'
  OBVIOUS
<1>1. TypeOK' /\ Discipline' /\ Shape' /\ Opened' /\ ReapProgress'
  BY TypeKept, DisciplineKept, ShapeKept, OpenedKept, ReapProgressKept DEF IInv
<1>2. Current
  BY CurrentParts DEF IInv
<1>3. Current'
  BY <1>2, CurrentKept DEF IInv
<1>4. SnapshotIsCurrent' /\ ModesReachAll' /\ EditIsCurrent' /\ LogIsIdle'
  BY <1>3 DEF Current, CurrentAt, SnapshotIsCurrent, ModesReachAll, EditIsCurrent, LogIsIdle
<1>5. QED
  BY <1>1, <1>4 DEF IInv

LEMMA Invariant == Safety => []IInv
BY InitInvariant, InvariantKept, PTL DEF Safety

\* Every variable stays in its type, whatever processes share the directory.
THEOREM TypeCorrect == Safety => []TypeOK
<1>1. IInv => TypeOK
  BY DEF IInv
<1>2. QED
  BY <1>1, Invariant, PTL

\* Reaping never takes the directory of a live run: its lease is locked from
\* before the directory has a published name until its process ends.
THEOREM LiveRuns == Safety => []LiveRunsKept
<1>1. IInv => LiveRunsKept
  BY DEF IInv, Shape, LiveRunsKept
<1>2. QED
  BY <1>1, Invariant, PTL

\* snapshot_locked reads what is there, although retirement does not wait for it.
THEOREM Snapshots == Safety => []SnapshotIsCurrent
<1>1. IInv => SnapshotIsCurrent
  BY DEF IInv
<1>2. QED
  BY <1>1, Invariant, PTL

\* set_active_mode reaches every run that is still published when it ends.
THEOREM Modal == Safety => []ModesReachAll
<1>1. IInv => ModesReachAll
  BY DEF IInv
<1>2. QED
  BY <1>1, Invariant, PTL

\* Reaping that succeeds leaves nothing of the processes dead when it began.
THEOREM Thorough == Safety => []ReapIsThorough
<1>1. IInv => ReapIsThorough
  BY DEF IInv, ReapProgress, Owed, ReapIsThorough
<1>2. QED
  BY <1>1, Invariant, PTL


\* A step takes denials out of the log only while no run is published.
THEOREM Denials == Safety => DenialsKept
<1>1. ASSUME IInv, [Next]_vars, ~(log \subseteq log')
      PROVE  Published = {}
  <2>1. CASE UNCHANGED vars
    BY <1>1, <2>1 DEF vars, runVars
  <2>2. ASSUME NEW p \in Procs, Quiet(p)  PROVE FALSE
    BY <1>1, <2>2 DEF Quiet, runVars
  <2>3. ASSUME NEW p \in Procs, ClearLog(p)  PROVE Published = {}
    BY <1>1, <2>3 DEF ClearLog, IInv, LogIsIdle
  <2>4. ASSUME NEW p \in Procs, NEW r \in Runs,
               ReapDotted(p, r) \/ RemoveAbandoned(p, r) \/ WriteMode(p, r)
        PROVE  FALSE
    BY <1>1, <2>4 DEF ReapDotted, ReapDot, RemoveAbandoned, WriteMode, Fail, runVars
  <2>5. ASSUME NEW r \in Runs, Publish(r) \/ Retire(r) \/ RecordDenial(r)  PROVE FALSE
    BY <1>1, <2>5 DEF Publish, CreateTemporary, LockLease, Fill, PublishRun, BuildFails,
                      Retire, RetireRename, RetireRemove, RecordDenial
  <2>6. ASSUME NEW p \in Procs, Allow(p) \/ Deny(p) \/ Die(p)  PROVE FALSE
    BY <1>1, <2>6 DEF Allow, Deny, Die, runVars
  <2>7. QED
    BY <1>1, <2>1, <2>2, <2>3, <2>4, <2>5, <2>6, LoudOrQuiet DEF Loud, IInv
<1>2. QED
  BY <1>1, Invariant, PTL DEF Safety, DenialsKept

-----------------------------------------------------------------------------
(* The files implement the table.                                          *)

RolesKept == \A r \in Runs : Role(r)' = Role(r)

LEMMA Stutters ==
  ASSUME UNCHANGED table, RolesKept
  PROVE  UNCHANGED <<table, [r \in Runs |-> Role(r)]>>
BY DEF RolesKept

\* A run that is no longer new or published has left.
LEMMA Leaves ==
  ASSUME NEW r \in Runs, UNCHANGED table, Role(r)' = "out",
         \A q \in Runs \ {r} : Role(q)' = Role(q)
  PROVE  Policy!Next
<1>1. [q \in Runs |-> Role(q)]' = [[q \in Runs |-> Role(q)] EXCEPT ![r] = "out"]
  OBVIOUS
<1>2. Policy!Leave(r)
  BY <1>1 DEF Policy!Leave
<1>3. QED
  BY <1>2 DEF Policy!Next

TableMoves == Policy!Next \/ UNCHANGED <<table, [r \in Runs |-> Role(r)]>>

LEMMA LeavesOrStutters ==
  ASSUME NEW r \in Runs, UNCHANGED table, Role(r)' \in {"out", Role(r)},
         \A q \in Runs \ {r} : Role(q)' = Role(q)
  PROVE  TableMoves
BY Leaves, Stutters DEF RolesKept, TableMoves

LEMMA QuietRefines ==
  ASSUME TypeOK, Shape, NEW p \in Procs, Quiet(p)
  PROVE  TableMoves
<1>1. \A r \in Runs \ {p} : Role(r)' = Role(r)
  BY DEF Quiet, Goto, Role, runVars, TypeOK, Procs
<1>2. CASE p \in Runs
  <2>1. entry[p] = "none" /\ entry'[p] = "none"
    BY <1>2 DEF Quiet, Special, Shape, runVars
  <2>2. Role(p)' \in {"out", Role(p)}
    BY <1>2, <2>1 DEF Quiet, Goto, Special, Role, TypeOK, Procs
  <2>3. QED
    BY <1>1, <1>2, <2>2, LeavesOrStutters DEF Quiet
<1>3. CASE p \notin Runs
  BY <1>1, <1>3, Stutters DEF RolesKept, TableMoves, Quiet
<1>4. QED
  BY <1>2, <1>3

LEMMA PublicationRefines ==
  ASSUME TypeOK, Shape, NEW r \in Runs, Publish(r)
  PROVE  TableMoves
<1>1. UNCHANGED table
  BY DEF Publish, CreateTemporary, LockLease, Fill, PublishRun, BuildFails, layerVars
<1>2. \A q \in Runs \ {r} : Role(q)' = Role(q)
  BY DEF Publish, CreateTemporary, LockLease, Fill, PublishRun, BuildFails, Finish, Goto,
         Role, TypeOK, Procs
<1>3. CASE CreateTemporary(r)
  <2>1. Role(r)' = Role(r)
    BY <1>3 DEF CreateTemporary, Goto, Role, Shape, TypeOK, Procs
  <2>2. QED
    BY <1>1, <1>2, <2>1, LeavesOrStutters
<1>4. CASE LockLease(r)
  <2>1. Role(r)' = Role(r)
    BY <1>4 DEF LockLease, Goto, Role, Shape, TypeOK, Procs
  <2>2. QED
    BY <1>1, <1>2, <2>1, LeavesOrStutters
<1>5. CASE Fill(r)
  <2>1. Role(r)' = Role(r)
    BY <1>5 DEF Fill, Goto, Role, Shape, TypeOK, Procs
  <2>2. QED
    BY <1>1, <1>2, <2>1, LeavesOrStutters
<1>6. CASE PublishRun(r)
  <2>1. Role(r) = "new" /\ Role(r)' = mode[r] /\ mode[r] \in Modes
    BY <1>6 DEF PublishRun, Finish, Goto, Role, Shape, TypeOK, Procs
  <2>2. [q \in Runs |-> Role(q)]' = [[q \in Runs |-> Role(q)] EXCEPT ![r] = mode[r]]
    BY <1>2, <2>1
  <2>3. Policy!PublishAs(r, mode[r])
    BY <1>1, <2>1, <2>2 DEF Policy!PublishAs
  <2>4. QED
    BY <2>1, <2>3 DEF TableMoves, Policy!Next, Policy!Modes, Modes
<1>7. CASE BuildFails(r)
  <2>1. Role(r)' = "out"
    BY <1>7 DEF BuildFails, Finish, Goto, Role, TypeOK, Procs
  <2>2. QED
    BY <1>1, <1>2, <2>1, LeavesOrStutters
<1>8. QED
  BY <1>3, <1>4, <1>5, <1>6, <1>7 DEF Publish

LEMMA RetirementRefines ==
  ASSUME TypeOK, Shape, NEW r \in Runs, Retire(r)
  PROVE  TableMoves
<1>1. UNCHANGED table
  BY DEF Retire, RetireRename, RetireRemove, layerVars
<1>2. \A q \in Runs \ {r} : Role(q)' = Role(q)
  BY DEF Retire, RetireRename, RetireRemove, Goto, Role, TypeOK, Procs
<1>3. Role(r)' = "out"
  BY DEF Retire, RetireRename, RetireRemove, Gone, Goto, Role, TypeOK, Procs
<1>4. QED
  BY <1>1, <1>2, <1>3, LeavesOrStutters

LEMMA ReapingRefines ==
  ASSUME TypeOK, Discipline, Shape, Opened, NEW p \in Procs, NEW r \in Runs,
         ReapDotted(p, r) \/ RemoveAbandoned(p, r)
  PROVE  TableMoves
<1>1. CASE Fail(p)
  <2>1. Quiet(p)
    BY <1>1, FailIsQuiet DEF ReapDotted, RemoveAbandoned, Special
  <2>2. QED
    BY <2>1, QuietRefines
<1>2. CASE ~Fail(p) /\ ReapDotted(p, r)
  <2>1. PICK place \in {"tmp", "dead"} : ReapDot(p, r, place)
    BY <1>2 DEF ReapDotted
  <2>2. UNCHANGED table /\ UNCHANGED pc /\ UNCHANGED mode
    BY <1>2, <2>1 DEF ReapDot, layerVars
  <2>3. RolesKept
    BY <1>2, <2>1, <2>2 DEF ReapDot, RolesKept, Role, TypeOK
  <2>4. QED
    BY <2>2, <2>3, Stutters DEF TableMoves
<1>3. CASE ~Fail(p) /\ RemoveAbandoned(p, r)
  <2>1. pc[r] = "killed"
    BY <1>3 DEF RemoveAbandoned, Opened, Shape, Gone
  <2>2. UNCHANGED table /\ UNCHANGED pc /\ UNCHANGED mode
    BY <1>3 DEF RemoveAbandoned, layerVars
  <2>3. \A q \in Runs \ {r} : Role(q)' = Role(q)
    BY <1>3, <2>2 DEF RemoveAbandoned, Role, TypeOK
  <2>4. Role(r)' \in {"out", Role(r)}
    <3>1. CASE files[r] = {}
      BY <1>3, <2>1, <2>2, <3>1 DEF RemoveAbandoned, Role, TypeOK
    <3>2. CASE files[r] # {}
      <4>1. PICK f \in files[r] : files' = [files EXCEPT ![r] = @ \ {f}]
        BY <1>3, <3>2 DEF RemoveAbandoned
      <4>2. files'[r] # Whole
        BY <4>1 DEF TypeOK
      <4>3. QED
        BY <2>1, <2>2, <4>2 DEF Role
    <3>3. QED
      BY <3>1, <3>2
  <2>5. QED
    BY <2>2, <2>3, <2>4, LeavesOrStutters
<1>4. QED
  BY <1>1, <1>2, <1>3

LEMMA ModeRefines ==
  ASSUME TypeOK, NEW p \in Procs, NEW r \in Runs, WriteMode(p, r)
  PROVE  TableMoves
<1>1. UNCHANGED <<table, pc, entry, files>>
  BY DEF WriteMode, layerVars
<1>2. \A q \in Runs \ {r} : Role(q)' = Role(q)
  BY <1>1 DEF WriteMode, Role, TypeOK
<1>3. CASE Role(r)' = Role(r)
  BY <1>1, <1>2, <1>3, Stutters DEF RolesKept, TableMoves
<1>4. CASE Role(r)' # Role(r)
  <2>1. Role(r) \in Modes /\ Role(r)' = NewMode(kind[p])
    BY <1>1, <1>4 DEF WriteMode, Gone, Role, TypeOK
  <2>2. [q \in Runs |-> Role(q)]' = [[q \in Runs |-> Role(q)] EXCEPT ![r] = NewMode(kind[p])]
    BY <1>2, <2>1
  <2>3. Policy!SetMode(r, NewMode(kind[p]))
    BY <1>1, <2>1, <2>2 DEF Policy!SetMode, Policy!Modes, Modes
  <2>4. NewMode(kind[p]) \in Policy!Modes
    BY DEF NewMode, Policy!Modes
  <2>5. QED
    BY <2>3, <2>4 DEF TableMoves, Policy!Next
<1>5. QED
  BY <1>3, <1>4

LEMMA DeathRefines ==
  ASSUME TypeOK, Shape, NEW p \in Procs, Die(p)
  PROVE  TableMoves
<1>1. UNCHANGED table /\ \A r \in Runs \ {p} : Role(r)' = Role(r)
  BY DEF Die, Goto, Role, TypeOK, Procs, layerVars
<1>2. CASE p \in Runs
  <2>1. Role(p)' \in {"out", Role(p)}
    BY <1>2 DEF Die, Goto, Role, TypeOK, Procs
  <2>2. QED
    BY <1>1, <1>2, <2>1, LeavesOrStutters
<1>3. CASE p \notin Runs
  BY <1>1, <1>3, Stutters DEF RolesKept, TableMoves
<1>4. QED
  BY <1>2, <1>3

\* An edit ends outside the lock and touches no run.
LEMMA EditKeepsRoles ==
  ASSUME TypeOK, Shape, NEW p \in Procs, pc[p] \in {"write", "deny"},
         Finish(p, "done"), UNCHANGED runVars
  PROVE  RolesKept
<1>1. \A r \in Runs : r = p => entry[r] = "none"
  BY DEF Shape
<1>2. QED
  BY <1>1 DEF Finish, Goto, RolesKept, Role, TypeOK, Procs, runVars

LEMMA EditRefines ==
  ASSUME TypeOK, Shape, Current, NEW p \in Procs, Allow(p) \/ Deny(p)
  PROVE  TableMoves
<1> DEFINE l == LayerOf(kind[p])
<1>1. RolesKept
  BY EditKeepsRoles DEF Allow, Deny
<1>2. [r \in Runs |-> Role(r)]' = [r \in Runs |-> Role(r)]
  BY <1>1 DEF RolesKept
<1>3. copy[p] = table
  BY DEF Allow, Deny, Current, CurrentAt
<1>4. l \in Policy!Layers
  BY DEF LayerOf, Policy!Layers
<1>5. CASE Allow(p)
  <2>1. PICK batch \in (SUBSET Entries) \ {{}} :
          table' = [table EXCEPT ![l] = copy[p][l] \cup batch]
    BY <1>5 DEF Allow
  <2>2. Policy!Allow(l, batch)
    BY <1>2, <1>3, <2>1 DEF Policy!Allow
  <2>3. QED
    BY <1>4, <2>2 DEF TableMoves, Policy!Next
<1>6. CASE Deny(p)
  <2>1. PICK batch \in (SUBSET Entries) \ {{}} :
          table' = IF batch \subseteq copy[p][l]
                   THEN [table EXCEPT ![l] = copy[p][l] \ batch] ELSE table
    BY <1>6 DEF Deny
  <2>2. CASE batch \subseteq table[l]
    <3>1. Policy!Deny(l, batch)
      BY <1>2, <1>3, <2>1, <2>2 DEF Policy!Deny
    <3>2. QED
      BY <1>4, <3>1 DEF TableMoves, Policy!Next
  <2>3. CASE ~(batch \subseteq table[l])
    BY <1>2, <1>3, <2>1, <2>3 DEF TableMoves
  <2>4. QED
    BY <2>2, <2>3
<1>7. QED
  BY <1>5, <1>6

LEMMA StepRefines ==
  ASSUME IInv, [Next]_vars
  PROVE  TableMoves
<1>1. CASE UNCHANGED vars
  BY <1>1, Stutters DEF vars, layerVars, runVars, RolesKept, Role, TableMoves
<1>2. ASSUME NEW p \in Procs, ClearLog(p)  PROVE TableMoves
  <2>1. p \in Runs => entry[p] = "none"
    BY <1>2 DEF ClearLog, Shape, IInv
  <2>2. RolesKept
    BY <1>2, <2>1 DEF ClearLog, Goto, RolesKept, Role, TypeOK, IInv, Procs
  <2>3. QED
    BY <1>2, <2>2, Stutters DEF ClearLog, layerVars, TableMoves
<1>3. ASSUME NEW r \in Runs, RecordDenial(r)  PROVE TableMoves
  BY <1>3, Stutters DEF RecordDenial, layerVars, RolesKept, Role, TableMoves
<1>4. QED
  BY <1>1, <1>2, <1>3, LoudOrQuiet, QuietRefines, PublicationRefines, RetirementRefines,
     ReapingRefines, ModeRefines, DeathRefines, EditRefines, CurrentParts
  DEF Loud, IInv

\* Locks, leases, renames and crashes come to nothing but atomic edits of a table
\* and runs that are published once, complete, and leave.
THEOREM TableImplemented == Safety => IsPolicyTable
<1>1. Init => Policy!Init
  BY DEF Init, Role, Layers, Policy!Init, Policy!Layers, Procs
<1>2. IInv /\ [Next]_vars => [Policy!Next]_<<table, [r \in Runs |-> Role(r)]>>
  BY StepRefines DEF TableMoves
<1>3. QED
  BY <1>1, <1>2, Invariant, PTL DEF Safety, IsPolicyTable, Policy!Spec
=============================================================================
