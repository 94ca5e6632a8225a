-------------------------- MODULE ProxySupervisor --------------------------
(***************************************************************************)
(* The proxy process: main and its signals, bootstrap, the supervisor's    *)
(* accept loop, the client tasks it owns, the permits and registrations    *)
(* they hold, and the two-phase shutdown that drains and then aborts them. *)
(*                                                                         *)
(* A task is followed through the points where it looks at the shutdown,   *)
(* takes or gives back a resource or commits itself to a client; what is   *)
(* authorized, dialled and relayed is left to other modules.  A poll of a  *)
(* biased select! is one step, except where a head is committed: there the *)
(* look at the shutdown and the write are two.  Time stands still until    *)
(* the first request to stop and moves in units of a second; Lag bounds    *)
(* how late the supervisor is scheduled after it.                          *)
(***************************************************************************)
EXTENDS Integers, FiniteSets

CONSTANTS
  Clients,        \* connections, one task each
  ClientLimit,    \* MAX_CLIENT_CONNECTIONS
  UpstreamLimit,  \* MAX_UPSTREAM_CONNECTIONS
  PoolCapacity,   \* IDLE_POOL_CAPACITY
  Grace,          \* GRACEFUL_SHUTDOWN_TIMEOUT
  Lag,            \* bound: seconds from a signal to the supervisor's next poll
  Steps           \* the number of steps of bootstrap

ASSUME LimitsAssumption ==
  /\ ClientLimit \in Nat \ {0} /\ UpstreamLimit \in Nat \ {0} /\ PoolCapacity \in Nat
  /\ Grace \in Nat \ {0} /\ Lag \in Nat /\ Lag < Grace /\ Steps \in Nat \ {0}
ASSUME ClientsAssumption == IsFiniteSet(Clients)

VARIABLES
  \* The process.
  main,      \* "run", "drain" after one signal, "await" once it insists
  pending,   \* signals delivered and not yet received; equal ones are one
  exit,      \* what main returned: "none", "ok", "error"
  \* Shutdown and the clock.
  shut,      \* the channels that say true: subset of {"drain", "force"}
  stamp,     \* requested_at, or Unset
  now,
  deadline,  \* of the drain, or Unset
  \* The supervisor.
  sup,       \* "boot", "loop", "drain", "killing", "reaping", "returned", "failed"
  step,      \* of bootstrap
  outcome,   \* of run: "ok", or the error it returns
  joined,    \* tasks whose end has been observed
  \* The tasks and what they hold.
  task,
  leased,    \* clients that hold a permit and a registration
  up,        \* the upstream of a task: "none", "permit", "socket"
  pool,      \* "open", "closed"
  idle,      \* the number of sockets in it
  cut        \* history: clients whose exchange was committed and then cut short

mainVars == <<main, pending, exit>>
clock == <<stamp, now, deadline>>
taskVars == <<task, leased, up, pool, idle, cut>>
vars == <<mainVars, shut, clock, sup, step, outcome, joined, taskVars>>

Unset == -1
Signals == {"INT", "TERM"}

Requested == "drain" \in shut
Forced == "force" \in shut

Over == {"ended", "panicked", "aborted"}
Committed == {"tunnel", "body"}
Phases == {"head", "dial", "dialled", "commit tunnel", "write tunnel", "exchange",
           "answer", "commit body", "write body"} \cup Committed
Alive(c) == task[c] \in Phases
Spawned == {c \in Clients : task[c] \in Phases \cup Over} \ joined

-----------------------------------------------------------------------------
(* Shutdown.                                                               *)

\* request: only the first one is stamped.  A variant stamps each.
StampEach(time) == time
Stamp(time) == IF stamp = Unset THEN time ELSE stamp

Request(channels) == shut' = shut \cup channels /\ stamp' = Stamp(now)

Tick ==
  /\ stamp # Unset /\ sup \in {"boot", "loop", "drain"}
  /\ IF sup = "drain" THEN now < deadline ELSE now < stamp + Lag
  /\ now' = now + 1
  /\ UNCHANGED <<mainVars, shut, stamp, deadline, sup, step, outcome, joined, taskVars>>

-----------------------------------------------------------------------------
(* main.  Which of the service and the signals is looked at first is left  *)
(* to chance there.                                                        *)

Arrive(s) ==
  /\ exit = "none" /\ pending' = pending \cup {s}
  /\ UNCHANGED <<main, exit, shut, clock, sup, step, outcome, joined, taskVars>>

FirstSignal(s) ==
  /\ main = "run" /\ exit = "none" /\ s \in pending
  /\ main' = "drain" /\ pending' = pending \ {s}
  /\ Request({"drain"})
  /\ UNCHANGED <<exit, now, deadline, sup, step, outcome, joined, taskVars>>

SecondSignal(s) ==
  /\ main = "drain" /\ exit = "none" /\ s \in pending
  /\ main' = "await" /\ pending' = pending \ {s}
  /\ Request({"drain", "force"})
  /\ UNCHANGED <<exit, now, deadline, sup, step, outcome, joined, taskVars>>

\* The stream of signals ends: main insists, and returns that error.
SignalsFail ==
  /\ main \in {"run", "drain"} /\ exit = "none"
  /\ main' = "lost"
  /\ Request({"drain", "force"})
  /\ UNCHANGED <<pending, exit, now, deadline, sup, step, outcome, joined, taskVars>>

Exit ==
  /\ sup \in {"returned", "failed"} /\ exit = "none"
  /\ exit' = IF outcome = "ok" /\ main # "lost" THEN "ok" ELSE "error"
  /\ UNCHANGED <<main, pending, shut, clock, sup, step, outcome, joined, taskVars>>

-----------------------------------------------------------------------------
(* bootstrap: policies, denial log, listener, token, broker.               *)

Bootstrap ==
  /\ sup = "boot"
  /\ \/ Requested /\ sup' = "returned" /\ UNCHANGED <<step, outcome>>
     \/ ~Requested /\ sup' = "failed" /\ outcome' = "startup" /\ UNCHANGED step
     \/ ~Requested /\ step < Steps /\ step' = step + 1 /\ UNCHANGED <<sup, outcome>>
     \/ ~Requested /\ step = Steps /\ sup' = "loop" /\ UNCHANGED <<step, outcome>>
  /\ UNCHANGED <<mainVars, shut, clock, joined, taskVars>>

-----------------------------------------------------------------------------
(* Resources.                                                              *)

InUse == Cardinality({c \in Clients : up[c] # "none"}) + idle
Registered ==
  Cardinality(leased) + Cardinality({c \in Clients : up[c] = "socket"}) + idle

\* A variant that admits one client too many.
AdmitOneMore == Cardinality(leased) <= ClientLimit
MayAdmit == Cardinality(leased) < ClientLimit

\* The future of a task is gone, and with it what it held.
Gone(c, how) ==
  /\ task' = [task EXCEPT ![c] = how]
  /\ leased' = leased \ {c}
  /\ up' = [up EXCEPT ![c] = "none"]

-----------------------------------------------------------------------------
(* Client tasks.                                                           *)

At(c, phase) == task[c] = phase
Goto(c, phase) == task' = [task EXCEPT ![c] = phase]
Quiet == UNCHANGED <<mainVars, shut, clock, sup, step, outcome, joined>>

Connect(c) ==
  /\ At(c, "away") /\ sup \in {"boot", "loop"}
  /\ Goto(c, "queued")
  /\ UNCHANGED <<leased, up, pool, idle, cut>> /\ Quiet

\* The listener is gone, and those nobody accepted with it.
Reset(c) ==
  /\ At(c, "queued") /\ sup \notin {"boot", "loop"}
  /\ Goto(c, "refused")
  /\ UNCHANGED <<leased, up, pool, idle, cut>> /\ Quiet

\* read_request_head: a shutdown, the end of the stream, the timeout or a bad head
\* end the connection.
ReadHead(c) ==
  /\ At(c, "head")
  /\ \/ Gone(c, "ended")
     \/ ~Requested /\ (Goto(c, "dial") \/ Goto(c, "exchange")) /\ UNCHANGED <<leased, up>>
  /\ UNCHANGED <<pool, idle, cut>> /\ Quiet

\* A permit before the socket, a socket to be managed with it.
TryUpstream(c) ==
  /\ task[c] \in {"dial", "exchange"} /\ up[c] = "none" /\ InUse < UpstreamLimit
  /\ up' = [up EXCEPT ![c] = "permit"]
  /\ UNCHANGED <<task, leased, pool, idle, cut>> /\ Quiet

Dialled(c) ==
  /\ task[c] \in {"dial", "exchange"} /\ up[c] = "permit"
  /\ up' = [up EXCEPT ![c] = "socket"]
  /\ Goto(c, IF At(c, "dial") THEN "dialled" ELSE "answer")
  /\ UNCHANGED <<leased, pool, idle, cut>> /\ Quiet

TakeIdle(c) ==
  /\ At(c, "exchange") /\ up[c] = "none" /\ idle > 0
  /\ up' = [up EXCEPT ![c] = "socket"] /\ idle' = idle - 1
  /\ Goto(c, "answer")
  /\ UNCHANGED <<leased, pool, cut>> /\ Quiet

\* Refused, denied, exhausted, cancelled: a response of the proxy's own.  After
\* CONNECT it is written at once and the next head may follow.
NoUpstream(c) ==
  /\ task[c] \in {"dial", "exchange"}
  /\ \/ Gone(c, "ended")
     \/ /\ up' = [up EXCEPT ![c] = "none"]
        /\ Goto(c, IF At(c, "dial") THEN "head" ELSE "answer")
        /\ UNCHANGED leased
  /\ UNCHANGED <<pool, idle, cut>> /\ Quiet

\* The look at the shutdown before anything is committed.
Consider(c) ==
  /\ task[c] \in {"dialled", "answer"}
  /\ \/ Requested /\ Gone(c, "ended")
     \/ /\ ~Requested /\ UNCHANGED <<leased, up>>
        /\ Goto(c, IF At(c, "dialled") THEN "commit tunnel" ELSE "commit body")
  /\ UNCHANGED <<pool, idle, cut>> /\ Quiet

\* commit_head_before_drain.
Commit(c) ==
  /\ task[c] \in {"commit tunnel", "commit body"}
  /\ \/ Requested /\ Gone(c, "ended")
     \/ /\ ~Requested /\ UNCHANGED <<leased, up>>
        /\ Goto(c, IF At(c, "commit tunnel") THEN "write tunnel" ELSE "write body")
  /\ UNCHANGED <<pool, idle, cut>> /\ Quiet

WriteHead(c) ==
  /\ task[c] \in {"write tunnel", "write body"}
  /\ \/ Gone(c, "ended")
     \/ /\ Goto(c, IF At(c, "write tunnel") THEN "tunnel" ELSE "body")
        /\ UNCHANGED <<leased, up>>
  /\ UNCHANGED <<pool, idle, cut>> /\ Quiet

\* The peers end a tunnel or break off a response.
ServedOut(c) ==
  /\ task[c] \in Committed
  /\ Gone(c, "ended")
  /\ UNCHANGED <<pool, idle, cut>> /\ Quiet

\* What ends an exchange that was committed.
Breaks == Forced

BrokenOff(c) ==
  /\ task[c] \in Committed /\ Breaks
  /\ Gone(c, "ended") /\ cut' = cut \cup {c}
  /\ UNCHANGED <<pool, idle>> /\ Quiet

\* What the pool takes of a socket put back: nothing once it is closed, and otherwise it
\* may replace or evict another.
Put(n) == IF pool = "closed" THEN {n} ELSE IF n < PoolCapacity THEN {n, n + 1} ELSE {n}

\* The body has been written: the upstream goes to the pool or is dropped, the
\* client may send the next head.
Responded(c) ==
  /\ At(c, "body")
  /\ idle' \in IF up[c] = "socket" THEN Put(idle) ELSE {idle}
  /\ \/ Gone(c, "ended")
     \/ /\ ~Requested /\ Goto(c, "head") /\ UNCHANGED leased
        /\ up' = [up EXCEPT ![c] = "none"]
  /\ UNCHANGED <<pool, cut>> /\ Quiet

Panic(c) ==
  /\ Alive(c)
  /\ Gone(c, "panicked")
  /\ UNCHANGED <<pool, idle, cut>> /\ Quiet

\* Aborted, a task is dropped where it waits.
Aborted(c) ==
  /\ sup = "reaping" /\ Alive(c)
  /\ Gone(c, "aborted")
  /\ cut' = IF task[c] \in Committed THEN cut \cup {c} ELSE cut
  /\ UNCHANGED <<pool, idle>> /\ Quiet

Task(c) ==
  \/ ReadHead(c) \/ TryUpstream(c) \/ Dialled(c) \/ TakeIdle(c) \/ NoUpstream(c)
  \/ Consider(c) \/ Commit(c) \/ WriteHead(c) \/ ServedOut(c) \/ BrokenOff(c)
  \/ Responded(c)

-----------------------------------------------------------------------------
(* Supervisor::run.                                                        *)

Ended == {c \in Spawned : task[c] \in Over}

\* Cancellation, then finished tasks, then the sweep, then connections.
Accept(c) ==
  /\ sup = "loop" /\ ~Requested /\ Ended = {} /\ At(c, "queued")
  /\ IF MayAdmit THEN leased' = leased \cup {c} /\ Goto(c, "head")
                 ELSE Goto(c, "refused") /\ UNCHANGED leased
  /\ UNCHANGED <<mainVars, shut, clock, sup, step, outcome, joined, up, pool, idle, cut>>

Sweep ==
  /\ sup = "loop" /\ ~Requested /\ Ended = {}
  /\ idle' \in 0..idle
  /\ UNCHANGED <<mainVars, shut, clock, sup, step, outcome, joined,
                 task, leased, up, pool, cut>>

\* The listener is dropped, the shutdown requested, the pool closed, the deadline
\* set; none of it waits.
LeaveLoop(result) ==
  /\ sup' = "drain" /\ outcome' = result
  /\ Request({"drain"})
  /\ pool' = "closed" /\ idle' = 0
  /\ deadline' = Stamp(now) + Grace
  /\ UNCHANGED <<mainVars, now, step, task, leased, up, cut>>

Cancelled == sup = "loop" /\ Requested /\ LeaveLoop("ok") /\ UNCHANGED joined

AcceptFails ==
  /\ sup = "loop" /\ ~Requested /\ Ended = {}
  /\ LeaveLoop("accept") /\ UNCHANGED joined

JoinInLoop(c) ==
  /\ sup = "loop" /\ ~Requested /\ c \in Ended
  /\ joined' = joined \cup {c}
  /\ IF task[c] = "panicked" THEN LeaveLoop("client")
     ELSE UNCHANGED <<mainVars, shut, clock, sup, step, outcome, taskVars>>

\* report_task_result: cancelled is an outcome of its own only after an abort.
\* A variant takes every end after the abort for that outcome.
FaultUnlessAborting(c) == task[c] = "panicked" /\ sup # "reaping"
Fault(c) == task[c] = "panicked"

\* drain_tasks: force before the deadline before the tasks.  A variant without the
\* deadline.
DrainOverForced == Forced
DrainOver == Forced \/ now >= deadline

JoinDrained(c) ==
  /\ \/ sup = "drain" /\ ~DrainOver
     \/ sup = "reaping"
  /\ c \in Ended
  /\ joined' = joined \cup {c}
  /\ outcome' = IF Fault(c) THEN "client" ELSE outcome
  /\ UNCHANGED <<mainVars, shut, clock, sup, step, taskVars>>

\* Sockets are marked closed, the force announced; then the tasks get a turn.
ForceCloseAll ==
  /\ sup = "drain" /\ Spawned # {} /\ DrainOver
  /\ sup' = "killing"
  /\ Request({"drain", "force"})
  /\ UNCHANGED <<mainVars, now, deadline, step, outcome, joined, taskVars>>

AbortAll ==
  /\ sup = "killing"
  /\ sup' = "reaping"
  /\ UNCHANGED <<mainVars, shut, clock, step, outcome, joined, taskVars>>

Drained ==
  /\ sup \in {"drain", "reaping"} /\ Spawned = {}
  /\ sup' = "returned"
  /\ IF Registered = 0
     THEN UNCHANGED <<shut, stamp, outcome>>
     ELSE Request({"drain", "force"}) /\ outcome' = "cleanup"
  /\ UNCHANGED <<mainVars, now, deadline, step, joined, taskVars>>

\* What it does apart from the sweep, which never keeps it from the rest, and from
\* an error of the listener.
Supervisor ==
  \/ Bootstrap \/ Cancelled \/ ForceCloseAll \/ AbortAll \/ Drained
  \/ \E c \in Clients : Accept(c) \/ JoinInLoop(c) \/ JoinDrained(c)

-----------------------------------------------------------------------------
Init ==
  /\ main = "run" /\ pending = {} /\ exit = "none"
  /\ shut = {} /\ stamp = Unset /\ now = 0 /\ deadline = Unset
  /\ sup = "boot" /\ step = 1 /\ outcome = "ok" /\ joined = {}
  /\ task = [c \in Clients |-> "away"] /\ leased = {}
  /\ up = [c \in Clients |-> "none"] /\ pool = "open" /\ idle = 0 /\ cut = {}

Next ==
  \/ Tick \/ SignalsFail \/ Exit \/ Supervisor \/ Sweep \/ AcceptFails
  \/ \E s \in Signals : Arrive(s) \/ FirstSignal(s) \/ SecondSignal(s)
  \/ \E c \in Clients : Connect(c) \/ Reset(c) \/ Task(c) \/ Panic(c) \/ Aborted(c)

\* The supervisor is polled whenever it is woken, timers fire, an aborted task is
\* dropped at its next await, main sees its service return, the kernel resets what
\* a closed listener leaves.  A task may wait for its peers for ever.
Fairness ==
  /\ WF_vars(Tick) /\ WF_vars(Exit) /\ WF_vars(Supervisor)
  /\ \A c \in Clients : WF_vars(Aborted(c)) /\ WF_vars(Reset(c))

Spec == Init /\ [][Next]_vars
FairSpec == Spec /\ Fairness

-----------------------------------------------------------------------------
(* Properties.                                                             *)

TypeOK ==
  /\ main \in {"run", "drain", "await", "lost"} /\ pending \subseteq Signals
  /\ exit \in {"none", "ok", "error"} /\ shut \subseteq {"drain", "force"}
  /\ stamp \in Nat \cup {Unset} /\ now \in Nat /\ deadline \in Nat \cup {Unset}
  /\ sup \in {"boot", "loop", "drain", "killing", "reaping", "returned", "failed"}
  /\ step \in 1..Steps
  /\ outcome \in {"ok", "startup", "accept", "client", "cleanup"}
  /\ joined \subseteq Clients
  /\ task \in [Clients -> Phases \cup Over \cup {"away", "queued", "refused"}]
  /\ leased \subseteq Clients /\ up \in [Clients -> {"none", "permit", "socket"}]
  /\ pool \in {"open", "closed"} /\ idle \in Nat /\ cut \subseteq Clients

\* Draining is over five seconds after the first request to stop, with which time
\* begins, however late the supervisor saw it and however often it is repeated.
WithinGrace == sup = "drain" => now <= Grace

\* A tunnel or response that was committed to a client is cut short by the proxy
\* only when main insists or the five seconds have passed.
CutOnlyByForce ==
  cut # {} => main \in {"await", "lost"} \/ now >= Grace

\* Draining is patient and has an end.
DrainIsOrderly == WithinGrace /\ CutOnlyByForce

\* A supervisor that has returned left no task, no lease, no permit and no
\* registration behind, so that the check of registered_sockets never fails.
NothingLeft ==
  sup = "returned" =>
    /\ leased = {} /\ InUse = 0 /\ outcome # "cleanup"
    /\ \A c \in Clients : ~Alive(c)

\* A client task that panicked, when and wherever, makes the process fail.
PanicIsReported == exit = "ok" => \A c \in Clients : task[c] # "panicked"

\* Upstream sockets, idle ones included, never exceed their permits.
UpstreamBounded == InUse <= UpstreamLimit

\* Every lease and permit comes back, on every outcome of every task, and the end of the
\* process tells of what went wrong.
NothingIsLost == TypeOK /\ NothingLeft /\ PanicIsReported /\ UpstreamBounded

\* Clients come in while the proxy accepts and a permit is free; once a stop is
\* requested nobody does, and the supervisor returns when all have left.
Service == INSTANCE BoundedService WITH
  Users <- Clients, Places <- ClientLimit, inside <- leased,
  phase <- IF sup = "returned" THEN "closed" ELSE IF Requested THEN "closing" ELSE "open"
IsBoundedService == Service!Spec

\* Once a stop is requested the process exits, whatever its clients do.
StopsEventually == Requested ~> exit # "none"

\* A connection in the backlog is served, refused or reset.
BacklogMoves == \A c \in Clients : At(c, "queued") ~> ~At(c, "queued")

\* The supervisor waits for nobody: not for a client that hangs when it stops, nor for a
\* place when it accepts.
SupervisorMoves == StopsEventually /\ BacklogMoves
=============================================================================
