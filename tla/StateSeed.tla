------------------------------ MODULE StateSeed ------------------------------
(***************************************************************************)
(* Seeding the store that the container owns.  A launch copies the host's  *)
(* files into the store, each only where the store has none, by writing a  *)
(* temporary file and linking it into place.  Launches of several          *)
(* processes overlap, an agent that is already running writes and deletes  *)
(* the same files, and a launch can be killed between any two steps; its   *)
(* process number may come back with the temporary file still there.       *)
(*                                                                         *)
(* A process is its number, a temporary file that number and a counter.    *)
(* Names refer to inodes, so that two links can stand for one file.  A     *)
(* file's content is the set of its keys.  The host's files may change at  *)
(* any time.  Left out: modes and directories.                             *)
(***************************************************************************)
EXTENDS Integers, Sequences, SequencesExt

CONSTANTS
  Procs,      \* process numbers
  Seeds,      \* the files of the harness, in order
  Objects,    \* those that are read as an object
  Keys,
  RemoveKeys, \* the keys a seed must not carry over
  Tries,      \* attempts to publish (16 in the code)
  Inodes,
  MaxKills,   \* bound: launches that are killed
  MaxWrites   \* bound: what the agent does to the files

TriesAssumption == Tries \in Nat /\ MaxKills \in Nat /\ MaxWrites \in Nat

NoInode == 0
Other == -1     \* a directory or a symbolic link
Files == ToSet(Seeds)
Names == Procs \X (0..(Len(Seeds) * Tries))

InodesAssumption == Inodes \subseteq Nat \ {NoInode}
SeedsAssumption == Seeds \in Seq(Files) \ {<<>>}

VARIABLES
  store,    \* what each file of the store refers to
  temps,    \* what each temporary name refers to
  disk,     \* the content of each inode
  launch,   \* the launches
  left,     \* temporary names a killed launch has left
  kills, writes

vars == <<store, temps, disk, launch, left, kills, writes>>

Empty == [by |-> "seed", keys |-> {}, whole |-> FALSE]
Seed(keys) == [by |-> "seed", keys |-> keys, whole |-> TRUE]
Login == [by |-> "agent", keys |-> {}, whole |-> TRUE]

Idle == [step |-> "idle", at |-> 1, contents |-> {}, counter |-> 0, tries |-> 0, temp |-> 0]

Used == {store[f] : f \in Files} \cup {temps[n] : n \in Names}
\* The content of an inode to which no name refers is gone.
Live(d, names, links) ==
  [i \in Inodes |-> IF i \in {names[f] : f \in Files} \cup {links[n] : n \in Names} THEN d[i] ELSE Empty]
Fresh == {i \in Inodes \ Used : \A j \in Inodes \ Used : i <= j}

Init ==
  /\ store = [f \in Files |-> NoInode] /\ temps = [n \in Names |-> NoInode]
  /\ disk = [i \in Inodes |-> Empty]
  /\ launch = [p \in Procs |-> Idle]
  /\ left = {} /\ kills = 0 /\ writes = 0

At(p, step) == launch[p].step = step
File(p) == Seeds[launch[p].at]
Goes(p, l) == launch' = [launch EXCEPT ![p] = l]

Launch(p) ==
  /\ At(p, "idle")
  /\ Goes(p, [Idle EXCEPT !.step = "check"])
  /\ UNCHANGED <<store, temps, disk, left, kills, writes>>

\* The next seed, or the end of the launch.
Following(l) ==
  IF l.at = Len(Seeds) THEN Idle ELSE [Idle EXCEPT !.step = "check", !.at = l.at + 1, !.counter = l.counter]
Fails(p) == Goes(p, Idle)

------------------------------------------------------------------------------
(* bootstrap_seed_files: one file of the list.                             *)

\* A file of the store is kept, and anything else in its place is an error.
Check(p) ==
  /\ At(p, "check")
  /\ \/ store[File(p)] \in Inodes /\ Goes(p, Following(launch[p]))
     \/ store[File(p)] = Other /\ Fails(p)
     \/ store[File(p)] = NoInode /\ Goes(p, [launch[p] EXCEPT !.step = "source"])
  /\ UNCHANGED <<store, temps, disk, left, kills, writes>>

seed_contents(f, keys) == IF f \in Objects THEN keys \ RemoveKeys ELSE keys

\* The host has no such file, a file that can be used, or one that cannot.
NoSource(p) ==
  /\ At(p, "source")
  /\ Goes(p, Following(launch[p]))
  /\ UNCHANGED <<store, temps, disk, left, kills, writes>>

Source(p, keys) ==
  /\ At(p, "source")
  /\ Goes(p, [launch[p] EXCEPT !.step = "open", !.contents = seed_contents(File(p), keys)])
  /\ UNCHANGED <<store, temps, disk, left, kills, writes>>

BadSource(p) ==
  /\ At(p, "source")
  /\ Fails(p)
  /\ UNCHANGED <<store, temps, disk, left, kills, writes>>

------------------------------------------------------------------------------
(* publish_seed: at most Tries times a fresh name, a whole file, a link.   *)

Counted(l) == [l EXCEPT !.counter = @ + 1, !.tries = @ + 1]
Name(p) == <<p, launch[p].temp>>

\* A variant that takes over a temporary file that is already there.
OpenAnyway(p) ==
  /\ At(p, "open") /\ launch[p].tries < Tries
  /\ LET name == <<p, launch[p].counter>>
     IN \E i \in IF temps[name] = NoInode THEN Fresh ELSE {temps[name]} :
          /\ temps' = [temps EXCEPT ![name] = i]
          /\ disk' = [disk EXCEPT ![i] = Empty]
          /\ left' = left \ {name}
          /\ Goes(p, [Counted(launch[p]) EXCEPT !.step = "write", !.temp = name[2]])
  /\ UNCHANGED <<store, kills, writes>>

Open(p) ==
  /\ At(p, "open") /\ launch[p].tries < Tries
  /\ LET name == <<p, launch[p].counter>>
     IN IF temps[name] # NoInode
        THEN Goes(p, Counted(launch[p])) /\ UNCHANGED <<temps, disk>>
        ELSE \E i \in Fresh :
               /\ temps' = [temps EXCEPT ![name] = i]
               /\ disk' = [disk EXCEPT ![i] = Empty]
               /\ Goes(p, [Counted(launch[p]) EXCEPT !.step = "write", !.temp = name[2]])
  /\ UNCHANGED <<store, left, kills, writes>>

Exhausted(p) ==
  /\ At(p, "open") /\ launch[p].tries = Tries
  /\ Fails(p)
  /\ UNCHANGED <<store, temps, disk, left, kills, writes>>

\* Leaving an attempt removes its temporary file.
Drop(p, l) ==
  /\ temps' = [temps EXCEPT ![Name(p)] = NoInode]
  /\ disk' = Live(disk, store, temps')
  /\ Goes(p, l)

Write(p) ==
  /\ At(p, "write")
  /\ disk' = [disk EXCEPT ![temps[Name(p)]] = Seed(launch[p].contents)]
  /\ Goes(p, [launch[p] EXCEPT !.step = "link"])
  /\ UNCHANGED <<store, temps, left, kills, writes>>

WriteFails(p) ==
  /\ At(p, "write")
  /\ Drop(p, Idle)
  /\ UNCHANGED <<store, left, kills, writes>>

\* A link takes its place only where there is nothing.
Link(p) ==
  /\ At(p, "link")
  /\ IF store[File(p)] = NoInode
     THEN /\ store' = [store EXCEPT ![File(p)] = temps[Name(p)]]
          /\ Goes(p, [launch[p] EXCEPT !.step = "linked"])
     ELSE Goes(p, [launch[p] EXCEPT !.step = "taken"]) /\ UNCHANGED store
  /\ UNCHANGED <<temps, disk, left, kills, writes>>

Linked(p) ==
  /\ At(p, "linked")
  /\ Drop(p, Following(launch[p]))
  /\ UNCHANGED <<store, left, kills, writes>>

\* Someone else was first: their file will do, and if it is gone again there is another try.
Taken(p) ==
  /\ At(p, "taken")
  /\ \/ store[File(p)] \in Inodes /\ Drop(p, Following(launch[p]))
     \/ store[File(p)] = Other /\ Drop(p, Idle)
     \/ store[File(p)] = NoInode /\ Drop(p, [launch[p] EXCEPT !.step = "open", !.temp = 0])
  /\ UNCHANGED <<store, left, kills, writes>>

------------------------------------------------------------------------------
(* The agent in the store, and kills.                                      *)

Agent(f) ==
  /\ writes < MaxWrites /\ writes' = writes + 1
  /\ \/ /\ store[f] \in Inodes      \* in place
        /\ disk' = [disk EXCEPT ![store[f]] = Login] /\ UNCHANGED store
     \/ \E i \in Fresh :            \* a file of its own
          store' = [store EXCEPT ![f] = i] /\ disk' = Live([disk EXCEPT ![i] = Login], store', temps)
     \/ \E s \in {NoInode, Other} :
          store' = [store EXCEPT ![f] = s] /\ disk' = Live(disk, store', temps)
  /\ UNCHANGED <<temps, launch, left, kills>>

Kill(p) ==
  /\ ~At(p, "idle") /\ kills < MaxKills
  /\ kills' = kills + 1
  /\ left' = left \cup {n \in Names : n[1] = p /\ temps[n] # NoInode}
  /\ Fails(p)
  /\ UNCHANGED <<store, temps, disk, writes>>

Step(p) ==
  \/ Check(p) \/ NoSource(p) \/ BadSource(p) \/ (\E keys \in SUBSET Keys : Source(p, keys))
  \/ Open(p) \/ Exhausted(p) \/ Write(p) \/ WriteFails(p) \/ Link(p) \/ Linked(p) \/ Taken(p)

Next ==
  \/ \E p \in Procs : Launch(p) \/ Step(p) \/ Kill(p)
  \/ \E f \in Files : Agent(f)

Spec == Init /\ [][Next]_vars

------------------------------------------------------------------------------
TypeOK ==
  /\ store \in [Files -> Inodes \cup {NoInode, Other}] /\ temps \in [Names -> Inodes \cup {NoInode}]
  /\ \A p \in Procs : launch[p].at \in 1..Len(Seeds) /\ launch[p].tries \in 0..Tries

\* What the agent sees in the store is a whole seed without the keys that stay on the
\* host, or a file of its own: never the beginning of a seed, whichever launch is killed.
SeenIsWhole ==
  \A f \in Files : store[f] \in Inodes =>
    /\ disk[store[f]].whole
    /\ disk[store[f]].by = "seed" /\ f \in Objects => disk[store[f]].keys \cap RemoveKeys = {}

\* A file that is in the store stays as it is until the agent changes it: no launch
\* replaces it, and none writes through a temporary name that is another link to it.
StoreIsTheAgents ==
  \A f \in Files : store[f] \in Inodes /\ writes' = writes =>
    store'[f] = store[f] /\ disk'[store[f]] = disk[store[f]]

\* A temporary file belongs to an attempt that is under way, or to a launch that was killed.
TempsAreDropped ==
  \A n \in Names : temps[n] # NoInode =>
    n \in left \/ (launch[n[1]].step \in {"write", "link", "linked", "taken"} /\ Name(n[1]) = n)

\* What is left behind by kills and taken away by the agent costs one attempt each: with
\* more attempts than that no launch gives up.
TriesSuffice == \A p \in Procs : launch[p].tries <= 1 + kills + writes

\* Seeding gives what is missing, whole, and touches nothing else.
SeedingIsSound ==
  [][StoreIsTheAgents]_vars /\ [](TypeOK /\ SeenIsWhole /\ TempsAreDropped /\ TriesSuffice)
==============================================================================
