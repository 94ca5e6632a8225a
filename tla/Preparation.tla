----------------------------- MODULE Preparation -----------------------------
(***************************************************************************)
(* What a launch prepares on the host before its agent starts: the mirror  *)
(* of the host's directories and files, the system config and the guide,   *)
(* and the mounts that are made of them (run.rs, prepare_container to      *)
(* create_agent; persist.rs).  The mirror belongs to the harness and not   *)
(* to the launch: launches of one harness write and mount the same files,  *)
(* and agents that already run have them mounted.  A launch can be killed  *)
(* between any two steps; a copy it has begun is taken to end with it.     *)
(*                                                                         *)
(* A file or directory is what it was made of: the harness and the version *)
(* of the source, or the launch that wrote it.  Torn is anything else: a   *)
(* copy that was broken off or interfered with, or what an agent made of   *)
(* it.  It is alike if a file in it differs from the source's and has its  *)
(* size and time, which rsync takes for the same.  Left out: engine        *)
(* arguments without a source on the host, the session store and the seeds *)
(* (StateSeed), what a write through a link does where the link leads, and *)
(* the requirements.toml of an older version, removed on sight.            *)
(***************************************************************************)
EXTENDS Naturals, Sequences, SequencesExt

CONSTANTS
  Launches, Harnesses,
  Projects,       \* canonical working directories
  Blocked,        \* those that blocked_dirs resolves to
  Dirs, Files,    \* sync_dirs and .agents, sync_files: sequences
  InState,        \* harnesses whose guide is written into their state directory
  SystemConfig,   \* harnesses with a system config
  MaxChanges      \* bound: changes by the user and by agents

BoundsAssumption == MaxChanges \in Nat

Plan == Dirs \o Files
Mirrors == ToSet(Plan)
Items == Mirrors \cup {"etc", "guide"}

\* The plan always has .agents, and no two items of it are the same place in the mirror.
PlanAssumption ==
  /\ Dirs \in Seq(ToSet(Dirs)) /\ Dirs # <<>> /\ Files \in Seq(ToSet(Files))
  /\ \A i, j \in DOMAIN Plan : Plan[i] = Plan[j] => i = j
  /\ {"etc", "guide"} \cap Mirrors = {}

VARIABLES
  host,      \* the version of each source, 0 if it does not exist
  disk,      \* what stands at each place
  launch,
  changes    \* by the user and by agents, so far

vars == <<host, disk, launch, changes>>

Made(h, of) == [by |-> h, of |-> of, alike |-> FALSE]
Absent == Made("nobody", <<"nothing", 0>>)
Torn(h) == Made(h, <<"torn", 0>>)
Copy(h, version) == Made(h, <<"version", version>>)
GuideOf(h, l) == Made(h, <<"guide", l>>)
Link(h) == Made(h, <<"link", 0>>)   \* of an agent, in the place of the guide
Alike(content, b) == [content EXCEPT !.alike = b]

------------------------------------------------------------------------------
(* Places and sources.                                                     *)

sandbox_dir(h) == <<"sandbox", h>>
Place(h, i) == (IF i = "guide" /\ h \in InState THEN <<"state", h>> ELSE sandbox_dir(h)) \o <<i>>
Places == {Place(h, i) : h \in Harnesses, i \in Items}

\* dir_sync_plan: .agents is the user's, everything else the harness's.
Source(h, i) == IF i = ".agents" THEN <<"home", i>> ELSE <<h, i>>
Sources == {Source(h, i) : h \in Harnesses, i \in Mirrors \cup {"etc"}}

------------------------------------------------------------------------------
Idle == [step |-> "idle", harness |-> "none", at |-> 0, copy |-> 0,
         nested |-> FALSE, kept |-> {}, warned |-> FALSE, disturbed |-> FALSE, binds |-> {}, found |-> <<>>]

At(l, step) == launch[l].step = step
H(l) == launch[l].harness
Busy(l) == launch[l].step \notin {"idle", "running", "ended"}
Here(l, i) == disk[Place(H(l), i)]
Item(l) == Plan[launch[l].at]

Goes(l, r) == launch' = [launch EXCEPT ![l] = r]
To(l, step) == [launch[l] EXCEPT !.step = step]
Ended == [Idle EXCEPT !.step = "ended"]
Puts(l, i, what) == disk' = [disk EXCEPT ![Place(H(l), i)] = what]

\* Launches at work whose sources or mirror somebody else touches.
Disturbed(hs) == [k \in Launches |-> IF Busy(k) /\ H(k) \in hs THEN [launch[k] EXCEPT !.disturbed = TRUE] ELSE launch[k]]
\* A removed file is no longer the one that running agents have mounted.
Unbound(h, i) ==
  [k \in Launches |-> IF At(k, "running") /\ Place(H(k), i) = Place(h, i) THEN [launch[k] EXCEPT !.binds = @ \ {i}] ELSE launch[k]]

Init ==
  /\ host \in [Sources -> {0, 1}]
  /\ disk = [x \in Places |-> Absent]
  /\ launch = [l \in Launches |-> Idle]
  /\ changes = 0

\* A blocked directory is refused before anything is touched.
Begin(l, h, p) ==
  /\ At(l, "idle")
  /\ LET d == Disturbed({h})
         r == [Idle EXCEPT !.step = "prepare", !.harness = h,
                           !.disturbed = \E k \in Launches : Busy(k) /\ H(k) = h]
     IN launch' = IF p \in Blocked THEN [launch EXCEPT ![l] = [Idle EXCEPT !.step = "ended"]] ELSE [d EXCEPT ![l] = r]
  /\ UNCHANGED <<host, disk, changes>>

\* State, sessions and history exist from here on.
Prepare(l) ==
  /\ At(l, "prepare")
  /\ Goes(l, [To(l, "sync") EXCEPT !.at = 1])
  /\ UNCHANGED <<host, disk, changes>>

\* The harness is not installed, a directory cannot be made, the system config cannot be
\* written, the policy, the image, the broker or the proxy fails; or the process is killed.
Fails(l) ==
  /\ launch[l].step \in {"prepare", "system", "guide", "args"}
  /\ Goes(l, Ended)
  /\ UNCHANGED <<host, disk, changes>>
Kill(l) ==
  /\ Busy(l)
  /\ Goes(l, Ended)
  /\ UNCHANGED <<host, disk, changes>>

------------------------------------------------------------------------------
(* sync_subdir and copy_file_into: one item of the plan after the other.   *)

\* The next item, or the end of the plan.
Following(r) ==
  [r EXCEPT !.step = IF r.at = Len(Plan) THEN "system" ELSE "sync", !.at = IF r.at = Len(Plan) THEN 0 ELSE @ + 1,
            !.nested = FALSE, !.copy = 0]

\* What is in the mirror while it is written, or removed in part.
Begun(l) == Alike(Torn(H(l)), Here(l, Item(l)).alike)

\* remove_dir_all and remove_file.  Their errors are ignored: what cannot be removed is
\* kept, a directory perhaps in part, without a warning.
Removes(l, r) ==
  \/ /\ Puts(l, Item(l), Absent)
     /\ launch' = [Unbound(H(l), Item(l)) EXCEPT ![l] = r]
  \/ /\ Here(l, Item(l)) # Absent
     /\ \/ UNCHANGED disk
        \/ Item(l) \in ToSet(Dirs) /\ Puts(l, Item(l), Begun(l))
     /\ Goes(l, [r EXCEPT !.kept = @ \cup {Item(l)}])

\* A variant: the mirror stays when its source is gone.
LeavesMirror(l) ==
  /\ At(l, "sync") /\ host[Source(H(l), Item(l))] = 0
  /\ Goes(l, Following(launch[l]))
  /\ UNCHANGED <<host, disk, changes>>

\* The source is gone, and the mirror goes with it.
DropsMirror(l) ==
  /\ At(l, "sync") /\ host[Source(H(l), Item(l))] = 0
  /\ Removes(l, Following(launch[l]))
  /\ UNCHANGED <<host, changes>>

\* rsync, where it is on the path, and the copy of a file write into what is there.
Copies(l) ==
  /\ At(l, "sync") /\ host[Source(H(l), Item(l))] > 0
  /\ Puts(l, Item(l), Begun(l))
  /\ Goes(l, [To(l, "copying") EXCEPT !.copy = host[Source(H(l), Item(l))]])
  /\ UNCHANGED <<host, changes>>

\* Without rsync the directory is removed first.
RemovesDir(l) ==
  /\ At(l, "sync") /\ host[Source(H(l), Item(l))] > 0
  /\ Item(l) \in ToSet(Dirs)
  /\ Removes(l, [To(l, "cp") EXCEPT !.copy = host[Source(H(l), Item(l))]])
  /\ UNCHANGED <<host, changes>>

\* cp copies into a directory that is there, kept or made by then, under it.
Cp(l) ==
  /\ At(l, "cp")
  /\ Goes(l, [To(l, "copying") EXCEPT !.nested = Here(l, Item(l)) # Absent])
  /\ Puts(l, Item(l), Begun(l))
  /\ UNCHANGED <<host, changes>>

\* Without --checksum rsync leaves a file that has the size and the time of the source's.
Copied(l) ==
  /\ At(l, "copying") /\ Here(l, Item(l)) # Absent
  /\ Puts(l, Item(l),
       IF launch[l].nested \/ Here(l, Item(l)).alike THEN Begun(l) ELSE Copy(H(l), launch[l].copy))
  /\ Goes(l, Following(launch[l]))
  /\ UNCHANGED <<host, changes>>

\* A copy that fails is reported and used as it is.
CopyFails(l) ==
  /\ At(l, "copying")
  /\ Goes(l, Following([launch[l] EXCEPT !.warned = TRUE]))
  /\ UNCHANGED <<host, disk, changes>>

------------------------------------------------------------------------------
(* write_system_config and write_container_guide: both truncate a file and *)
(* write it.                                                               *)

NoSystemConfig(l) ==
  /\ At(l, "system") /\ H(l) \notin SystemConfig
  /\ Goes(l, To(l, "guide"))
  /\ UNCHANGED <<host, disk, changes>>
SystemConfigOpens(l) ==
  /\ At(l, "system") /\ H(l) \in SystemConfig
  /\ Puts(l, "etc", Torn(H(l)))
  /\ Goes(l, [To(l, "etc") EXCEPT !.copy = host[Source(H(l), "etc")]])
  /\ UNCHANGED <<host, changes>>
SystemConfigWrites(l) ==
  /\ At(l, "etc")
  /\ Puts(l, "etc", Copy(H(l), launch[l].copy))
  /\ Goes(l, [To(l, "guide") EXCEPT !.copy = 0])
  /\ UNCHANGED <<host, changes>>

\* A link stays where it is, and the write goes where it leads.
GuideOpens(l) ==
  /\ At(l, "guide")
  /\ Puts(l, "guide", IF Here(l, "guide") = Link(H(l)) THEN Link(H(l)) ELSE Torn(H(l)))
  /\ Goes(l, To(l, "opened"))
  /\ UNCHANGED <<host, changes>>

Guide(l) == GuideOf(H(l), l)
\* An agent can have put something else in the place of the file that was opened.
GuideWrites(l) ==
  /\ At(l, "opened")
  /\ \/ Here(l, "guide") \notin {Link(H(l)), Absent} /\ Puts(l, "guide", Guide(l))
     \/ H(l) \in InState /\ (launch[l].disturbed \/ Here(l, "guide") = Link(H(l))) /\ UNCHANGED disk
  /\ Goes(l, To(l, "args"))
  /\ UNCHANGED <<host, changes>>
\* The failure is reported, with the file as it is.
GuideFails(l) ==
  /\ launch[l].step \in {"guide", "opened"}
  /\ Goes(l, [To(l, "args") EXCEPT !.warned = TRUE])
  /\ UNCHANGED <<host, disk, changes>>

------------------------------------------------------------------------------
(* container_run_args and create_agent.                                    *)

\* nested_mounts, agents_mount and system_config_mount: what is there is mounted.  The
\* guide in the state directory is mounted with that directory.
Mountable(l) ==
  {i \in Mirrors : Here(l, i) # Absent}
    \cup {i \in {"guide"} : Here(l, i) # Absent /\ H(l) \notin InState}
    \cup {i \in {"etc"} : Here(l, i) # Absent /\ H(l) \in SystemConfig}
Arguments(l) ==
  /\ At(l, "args")
  /\ Goes(l, [To(l, "create") EXCEPT !.binds = Mountable(l)])
  /\ UNCHANGED <<host, disk, changes>>

\* What the agent finds where it is mounted; Absent where nothing is mounted.
Finds(l) ==
  [i \in Items |-> IF i \in launch[l].binds \/ (i = "guide" /\ H(l) \in InState) THEN Here(l, i) ELSE Absent]
Create(l) ==
  /\ At(l, "create")
  /\ Goes(l, [To(l, "running") EXCEPT !.found = Finds(l)])
  /\ UNCHANGED <<host, disk, changes>>

------------------------------------------------------------------------------
(* The agents and the user.                                                *)

\* All mounts but the system config can be written: a file in a mounted directory with
\* its size and time kept; and in the state directory the guide, which can be replaced
\* and removed there.
Writable(l) == {i \in launch[l].binds \ {"etc"} : Here(l, i) # Absent} \cup {i \in {"guide"} : H(l) \in InState}
AgentWrites(l, i) ==
  /\ At(l, "running") /\ changes < MaxChanges
  /\ i \in Writable(l)
  /\ \/ Puts(l, i, Torn(H(l)))
     \/ i \in ToSet(Dirs) /\ Puts(l, i, Alike(Torn(H(l)), TRUE))
     \/ i \notin launch[l].binds /\ \E what \in {Link(H(l)), Absent} : Puts(l, i, what)
  /\ launch' = Disturbed({H(l)}) /\ changes' = changes + 1
  /\ UNCHANGED host
AgentEnds(l) ==
  /\ At(l, "running")
  /\ Goes(l, Ended)
  /\ UNCHANGED <<host, disk, changes>>

\* The mirrors of a source that is a directory.
MirrorsOf(s) ==
  {x \in Places : disk[x] # Absent /\ \E h \in Harnesses, i \in ToSet(Dirs) : x = Place(h, i) /\ Source(h, i) = s}

\* A source is made, changed or removed.  A change can leave a file with the size and the
\* time that it has in a mirror.
Edit(s) ==
  /\ changes < MaxChanges /\ changes' = changes + 1
  /\ \E version \in {0, changes + 2} \ {host[s]} :
       LET mirrors == MirrorsOf(s)
       IN /\ host' = [host EXCEPT ![s] = version]
          /\ \E same \in SUBSET IF version = 0 THEN {} ELSE mirrors :
               disk' = [x \in Places |-> IF x \in mirrors THEN Alike(disk[x], x \in same) ELSE disk[x]]
  /\ launch' = Disturbed({h \in Harnesses : \E i \in Items : Source(h, i) = s})

------------------------------------------------------------------------------
Mirroring(l) == DropsMirror(l) \/ Copies(l) \/ RemovesDir(l) \/ Cp(l) \/ Copied(l) \/ CopyFails(l)
Writing(l) ==
  NoSystemConfig(l) \/ SystemConfigOpens(l) \/ SystemConfigWrites(l) \/ GuideOpens(l) \/ GuideWrites(l) \/ GuideFails(l)
Next ==
  \/ \E l \in Launches :
       \/ \E h \in Harnesses, p \in Projects : Begin(l, h, p)
       \/ Prepare(l) \/ Fails(l) \/ Kill(l) \/ Mirroring(l) \/ Writing(l) \/ Arguments(l) \/ Create(l)
       \/ (\E i \in Items : AgentWrites(l, i)) \/ AgentEnds(l)
  \/ \E s \in Sources : Edit(s)

Spec == Init /\ [][Next]_vars

------------------------------------------------------------------------------
Steps == {"idle", "prepare", "sync", "cp", "copying", "system", "etc", "guide", "opened", "args", "create", "running", "ended"}

Contents ==
  [by : Harnesses \cup {"nobody"},
   of : {"version"} \X (0..MaxChanges + 1) \cup {"guide"} \X Launches \cup {<<"torn", 0>>, <<"link", 0>>, <<"nothing", 0>>},
   alike : BOOLEAN]

TypeOK ==
  /\ host \in [Sources -> 0..MaxChanges + 1]
  /\ disk \in [Places -> Contents]
  /\ \A l \in Launches :
       /\ launch[l].step \in Steps /\ launch[l].binds \subseteq Items
       /\ launch[l].step \in {"sync", "cp", "copying"} => launch[l].at \in DOMAIN Plan

Starts(l) == At(l, "create") /\ launch'[l].step = "running"

\* What a launch misses without a warning: its removal of the item failed, which matters
\* for a directory that cp copies and for a source that is gone; or a file of it passes
\* for the source's.
Missed(l, i) ==
  \/ i \in launch[l].kept /\ (i \in ToSet(Dirs) \/ host[Source(H(l), i)] = 0)
  \/ Here(l, i).alike

\* What a launch that writes its guide leaves in the guide's place.
OwnGuide(l) == {Guide(l)} \cup {Link(h) : h \in InState \cap {H(l)}}

\* A launch that nobody disturbs and that reports nothing starts its agent on the host's
\* config of that moment, on nothing the user has deleted, whatever earlier launches,
\* killed ones among them, and their agents have left in the mirror, but for what it
\* could not remove and what rsync takes for the same; and on its own guide, but for a
\* link that an agent has put in its place.
UndisturbedIsWhole ==
  \A l \in Launches : Starts(l) /\ ~launch[l].disturbed /\ ~launch[l].warned =>
    /\ \A i \in Mirrors : Missed(l, i) \/
         Finds(l)[i] = IF host[Source(H(l), i)] = 0 THEN Absent ELSE Copy(H(l), host[Source(H(l), i)])
    /\ Finds(l)["guide"] \in OwnGuide(l)
    /\ Finds(l)["etc"] = IF H(l) \in SystemConfig THEN Copy(H(l), host[Source(H(l), "etc")]) ELSE Absent

\* What an agent finds in its mounts was put there for its own harness, whatever launches
\* of the others do at the same time (sandbox_dir).
HarnessesApart == \A l \in Launches : At(l, "running") => \A i \in Items : launch[l].found[i] = Absent \/ launch[l].found[i].by = H(l)

\* What an agent starts with is its own.
MirrorIsSound == [][UndisturbedIsWhole]_vars /\ [](TypeOK /\ HarnessesApart)
==============================================================================
