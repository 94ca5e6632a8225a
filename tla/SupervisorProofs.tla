-------------------------- MODULE SupervisorProofs --------------------------
(***************************************************************************)
(* Proofs about ProxySupervisor, for every finite set of clients and all   *)
(* limits: type correctness, the patience of the drain, that nothing is    *)
(* left behind and no panic passed over, the bound on upstream sockets,    *)
(* and the refinement of BoundedService.                                   *)
(*                                                                         *)
(* And about PeerClose, for any connections, descriptors and tokens: a     *)
(* close is told to its owner and to nobody else, and none is lost.        *)
(***************************************************************************)
EXTENDS Downstream, FiniteSetTheorems, SequenceTheorems, WellFoundedInduction, TLAPS

-----------------------------------------------------------------------------
(* Type correctness.                                                       *)

States == Phases \cup Over \cup {"away", "queued", "refused"}

\* What an action of a task may do to what the tasks hold.
TasksTyped ==
  /\ task \in [Clients -> States] /\ leased \subseteq Clients
  /\ up \in [Clients -> {"none", "permit", "socket"}]
  /\ pool \in {"open", "closed"} /\ idle \in Nat /\ cut \subseteq Clients
ProcessTyped ==
  /\ main \in {"run", "drain", "await", "lost"} /\ pending \subseteq Signals
  /\ exit \in {"none", "ok", "error"} /\ shut \subseteq {"drain", "force"}
  /\ stamp \in Nat \cup {Unset} /\ now \in Nat /\ deadline \in Nat \cup {Unset}
  /\ sup \in {"boot", "loop", "drain", "killing", "reaping", "returned", "failed"}
  /\ step \in 1..Steps
  /\ outcome \in {"ok", "startup", "accept", "client", "cleanup"}
  /\ joined \subseteq Clients

LEMMA TypeParts == TypeOK <=> TasksTyped /\ ProcessTyped
BY DEF TypeOK, TasksTyped, ProcessTyped, States

LEMMA PhasesAreStates ==
  /\ Phases \subseteq States /\ Over \subseteq States
  /\ {"away", "queued", "refused"} \subseteq States
BY DEF States

LEMMA GoneTyped ==
  ASSUME TasksTyped, NEW c \in Clients, NEW how \in Over, Gone(c, how)
  PROVE  /\ task' \in [Clients -> States] /\ leased' \subseteq Clients
         /\ up' \in [Clients -> {"none", "permit", "socket"}]
BY PhasesAreStates DEF TasksTyped, Gone

LEMMA IdleTyped ==
  ASSUME idle \in Nat, NEW c \in Clients, TakeIdle(c) \/ Responded(c)
  PROVE  idle' \in Nat
<1>1. Put(idle) \subseteq {idle, idle + 1}
  BY DEF Put
<1>2. CASE TakeIdle(c)
  BY <1>2 DEF TakeIdle
<1>3. CASE Responded(c)
  <2>1. idle' \in {idle, idle + 1}
    BY <1>1, <1>3 DEF Responded
  <2>2. QED
    BY <2>1
<1>4. QED
  BY <1>2, <1>3

LEMMA TaskTyped ==
  ASSUME TasksTyped, NEW c \in Clients, Task(c)
  PROVE  TasksTyped'
<1> USE GoneTyped DEF TasksTyped, Goto, At, Over, Phases, Committed, States
<1>1. CASE ReadHead(c)
  BY <1>1 DEF ReadHead
<1>2. CASE TryUpstream(c) \/ Dialled(c)
  BY <1>2 DEF TryUpstream, Dialled
<1>8. CASE TakeIdle(c)
  BY <1>8, IdleTyped DEF TakeIdle
<1>3. CASE NoUpstream(c)
  BY <1>3 DEF NoUpstream
<1>4. CASE Consider(c) \/ Commit(c)
  BY <1>4 DEF Consider, Commit
<1>5. CASE WriteHead(c) \/ ServedOut(c) \/ BrokenOff(c)
  BY <1>5 DEF WriteHead, ServedOut, BrokenOff
<1>6. CASE Responded(c)
  <2>1. idle' \in Nat
    BY <1>6, IdleTyped
  <2>2. CASE Gone(c, "ended")
    BY <1>6, <2>1, <2>2 DEF Responded
  <2>3. CASE Goto(c, "head") /\ UNCHANGED leased /\ up' = [up EXCEPT ![c] = "none"]
    BY <1>6, <2>1, <2>3 DEF Responded
  <2>4. QED
    BY <1>6, <2>2, <2>3 DEF Responded
<1>7. QED
  BY <1>1, <1>2, <1>3, <1>4, <1>5, <1>6, <1>8 DEF Task

LEMMA TasksTypedStep == TasksTyped /\ [Next]_vars => TasksTyped'
<1> SUFFICES ASSUME TasksTyped, [Next]_vars PROVE TasksTyped'
  OBVIOUS
<1>1. ASSUME NEW c \in Clients, Connect(c) \/ Reset(c) PROVE TasksTyped'
  BY <1>1 DEF TasksTyped, Connect, Reset, Goto, States
<1>2. ASSUME NEW c \in Clients, Panic(c) \/ Aborted(c) PROVE TasksTyped'
  BY <1>2, GoneTyped DEF TasksTyped, Panic, Aborted, Over
<1>3. CASE Tick \/ SignalsFail \/ Exit \/ UNCHANGED vars
  BY <1>3 DEF TasksTyped, Tick, SignalsFail, Exit, vars, taskVars
<1>4. ASSUME NEW s \in Signals, Arrive(s) \/ FirstSignal(s) \/ SecondSignal(s) PROVE TasksTyped'
  BY <1>4 DEF TasksTyped, Arrive, FirstSignal, SecondSignal, taskVars
<1>5. CASE Bootstrap \/ ForceCloseAll \/ AbortAll \/ Drained
  <2>1. UNCHANGED taskVars
    <3>1. CASE Bootstrap
      BY <3>1 DEF Bootstrap
    <3>2. CASE ForceCloseAll
      BY <3>2 DEF ForceCloseAll
    <3>3. CASE AbortAll
      BY <3>3 DEF AbortAll
    <3>4. CASE Drained
      BY <3>4 DEF Drained
    <3>5. QED
      BY <1>5, <3>1, <3>2, <3>3, <3>4
  <2>2. QED
    BY <2>1 DEF TasksTyped, taskVars
<1>6. CASE Cancelled \/ AcceptFails
  BY <1>6 DEF TasksTyped, Cancelled, AcceptFails, LeaveLoop
<1>7. CASE Sweep
  BY <1>7 DEF TasksTyped, Sweep
<1>8. ASSUME NEW c \in Clients, Accept(c) PROVE TasksTyped'
  BY <1>8 DEF TasksTyped, Accept, Goto, States, Phases
<1>9. ASSUME NEW c \in Clients, JoinInLoop(c) \/ JoinDrained(c) PROVE TasksTyped'
  BY <1>9 DEF TasksTyped, JoinInLoop, JoinDrained, LeaveLoop, taskVars
<1>10. QED
  BY <1>1, <1>2, <1>3, <1>4, <1>5, <1>6, <1>7, <1>8, <1>9, TaskTyped DEF Next, Supervisor

LEMMA TasksLeaveProcess ==
  ASSUME NEW c \in Clients, Connect(c) \/ Reset(c) \/ Task(c) \/ Panic(c) \/ Aborted(c)
  PROVE  Quiet
BY DEF Connect, Reset, Task, Panic, Aborted, ReadHead, TryUpstream, Dialled, TakeIdle, NoUpstream,
       Consider, Commit, WriteHead, ServedOut, BrokenOff, Responded

LEMMA RequestTyped ==
  ASSUME ProcessTyped, NEW channels \in SUBSET {"drain", "force"}, Request(channels)
  PROVE  shut' \subseteq {"drain", "force"} /\ stamp' \in Nat \cup {Unset} /\ Stamp(now) \in Nat
<1>1. stamp \in Nat => stamp # Unset
  BY DEF Unset
<1>2. Stamp(now) \in Nat
  BY <1>1 DEF Stamp, ProcessTyped
<1>3. QED
  BY <1>2 DEF ProcessTyped, Request

LEMMA LeaveTyped ==
  ASSUME ProcessTyped, NEW result \in {"ok", "accept", "client"}, LeaveLoop(result),
         joined' \subseteq Clients
  PROVE  ProcessTyped'
<1>1. shut' \subseteq {"drain", "force"} /\ stamp' \in Nat \cup {Unset} /\ Stamp(now) \in Nat
  BY RequestTyped DEF LeaveLoop
<1>2. deadline' \in Nat
  BY <1>1, LimitsAssumption DEF LeaveLoop
<1>3. QED
  BY <1>1, <1>2 DEF LeaveLoop, ProcessTyped, mainVars

LEMMA ProcessTypedStep == ProcessTyped /\ [Next]_vars => ProcessTyped'
<1> SUFFICES ASSUME ProcessTyped, [Next]_vars PROVE ProcessTyped'
  OBVIOUS
<1> USE LimitsAssumption DEF ProcessTyped, mainVars, clock
<1>1. ASSUME NEW c \in Clients, Connect(c) \/ Reset(c) \/ Task(c) \/ Panic(c) \/ Aborted(c)
      PROVE  ProcessTyped'
  BY <1>1, TasksLeaveProcess DEF Quiet
<1>2. CASE Exit \/ UNCHANGED vars
  BY <1>2 DEF Exit, vars
<1>13. CASE Tick
  BY <1>13 DEF Tick
<1>3. CASE SignalsFail
  BY <1>3, RequestTyped DEF SignalsFail
<1>4. ASSUME NEW s \in Signals, Arrive(s) \/ FirstSignal(s) \/ SecondSignal(s) PROVE ProcessTyped'
  BY <1>4, RequestTyped DEF Arrive, FirstSignal, SecondSignal
<1>5. CASE Bootstrap
  BY <1>5 DEF Bootstrap
<1>6. CASE ForceCloseAll \/ AbortAll
  BY <1>6, RequestTyped DEF ForceCloseAll, AbortAll
<1>14. CASE Drained
  <2>1. /\ shut' \subseteq {"drain", "force"} /\ stamp' \in Nat \cup {Unset}
        /\ outcome' \in {"ok", "startup", "accept", "client", "cleanup"}
    BY <1>14, RequestTyped DEF Drained
  <2>2. QED
    BY <1>14, <2>1 DEF Drained
<1>7. CASE Cancelled \/ AcceptFails
  BY <1>7, LeaveTyped DEF Cancelled, AcceptFails
<1>8. CASE Sweep
  BY <1>8 DEF Sweep
<1>9. ASSUME NEW c \in Clients, Accept(c) PROVE ProcessTyped'
  BY <1>9 DEF Accept
<1>10. ASSUME NEW c \in Clients, JoinInLoop(c) PROVE ProcessTyped'
  <2>1. joined' \subseteq Clients
    BY <1>10 DEF JoinInLoop
  <2>2. CASE task[c] = "panicked"
    BY <1>10, <2>1, <2>2, LeaveTyped DEF JoinInLoop
  <2>3. CASE task[c] # "panicked"
    BY <1>10, <2>1, <2>3 DEF JoinInLoop
  <2>4. QED
    BY <2>2, <2>3
<1>11. ASSUME NEW c \in Clients, JoinDrained(c) PROVE ProcessTyped'
  BY <1>11 DEF JoinDrained
<1>12. QED
  BY <1>1, <1>2, <1>3, <1>4, <1>5, <1>6, <1>7, <1>8, <1>9, <1>10, <1>11, <1>13, <1>14 DEF Next, Supervisor

LEMMA TypeInit == Init => TypeOK
BY LimitsAssumption DEF Init, TypeOK, Unset, Signals

LEMMA TypeStep == TypeOK /\ [Next]_vars => TypeOK'
<1>1. TypeOK' <=> TasksTyped' /\ ProcessTyped'
  BY DEF TypeOK, TasksTyped, ProcessTyped, States
<1>2. QED
  BY <1>1, TypeParts, TasksTypedStep, ProcessTypedStep

\* Every variable keeps its type; the clock and the counters are numbers whatever the limits
\* are (listener.rs, shutdown.rs).
THEOREM TypeCorrect == Spec => []TypeOK
BY TypeInit, TypeStep, PTL DEF Spec

-----------------------------------------------------------------------------
(* The inductive invariant.                                                *)

\* Time begins with the first request to stop; the supervisor sees it within the lag.
ClockOK ==
  /\ stamp \in {0, Unset} /\ (stamp = Unset <=> shut = {}) /\ (stamp = Unset => now = 0)
  /\ Forced => Requested
  /\ sup \in {"boot", "loop"} => now <= Lag
  /\ sup = "drain" => deadline = Grace /\ now <= Grace
  /\ sup \in {"drain", "killing", "reaping", "returned"} => Requested

\* Nothing is cut short before main insists or the grace is over.
Insisted == main \in {"await", "lost"} \/ now >= Grace
ForceOK ==
  /\ Forced => Insisted
  /\ sup \in {"killing", "reaping"} => Forced
  /\ cut # {} => Insisted

\* Only a task that lives holds anything, and there are none where there is no supervisor.
HoldOK ==
  /\ \A c \in Clients : c \in leased \/ up[c] # "none" => Alive(c)
  /\ \A c \in joined : task[c] \in Over
  /\ sup \in {"boot", "failed"} => \A c \in Clients : task[c] \in {"away", "queued", "refused"}
  /\ sup = "returned" => Spawned = {}
  /\ sup # "loop" => idle = 0
  /\ sup \in {"drain", "killing", "reaping"} => pool = "closed"

\* The outcome is good only as long as no panic has been seen.
OutcomeOK ==
  /\ outcome # "cleanup"
  /\ sup \in {"boot", "loop"} => outcome = "ok"
  /\ outcome = "ok" => \A c \in joined : task[c] # "panicked"
  /\ exit # "none" => sup \in {"returned", "failed"}
  /\ exit = "ok" => outcome = "ok"

IInv == TypeOK /\ ClockOK /\ ForceOK /\ HoldOK /\ OutcomeOK /\ UpstreamBounded

-----------------------------------------------------------------------------
(* The clock and the force.                                                *)

LEMMA RequestClock ==
  ASSUME ProcessTyped, ClockOK, NEW channels \in {{"drain"}, {"drain", "force"}}, Request(channels)
  PROVE  /\ Stamp(now) = 0 /\ stamp' = 0 /\ Requested'
         /\ Forced' <=> Forced \/ "force" \in channels
         /\ shut' # {}
<1>1. Stamp(now) = 0
  BY DEF Stamp, ClockOK
<1>2. QED
  BY <1>1 DEF Request, Requested, Forced

LEMMA LeaveClock ==
  ASSUME ProcessTyped, ClockOK, NEW result, LeaveLoop(result), sup = "loop"
  PROVE  ClockOK' /\ (Forced' <=> Forced)
<1>1. stamp' = 0 /\ Requested' /\ (Forced' <=> Forced) /\ shut' # {} /\ deadline' = 0 + Grace
  BY RequestClock DEF LeaveLoop
<1>2. now' <= Grace
  BY LimitsAssumption DEF LeaveLoop, ClockOK, ProcessTyped
<1>3. QED
  BY <1>1, <1>2, LimitsAssumption DEF LeaveLoop, ClockOK, Unset

LEMMA ClockStep == ProcessTyped /\ ClockOK /\ [Next]_vars => ClockOK'
<1> SUFFICES ASSUME ProcessTyped, ClockOK, [Next]_vars PROVE ClockOK'
  OBVIOUS
<1> DEFINE Same == UNCHANGED <<shut, stamp, now, deadline, sup>>
<1>1. CASE Same
  BY <1>1 DEF ClockOK, Requested, Forced
<1>2. ASSUME NEW c \in Clients, Connect(c) \/ Reset(c) \/ Task(c) \/ Panic(c) \/ Aborted(c)
      PROVE  Same
  BY <1>2, TasksLeaveProcess DEF Quiet, clock
<1>3. CASE Exit \/ Sweep \/ UNCHANGED vars
  BY <1>1, <1>3 DEF Exit, Sweep, vars, clock
<1>4. ASSUME NEW s \in Signals, Arrive(s) PROVE Same
  BY <1>4 DEF Arrive, clock
<1>5. CASE SignalsFail \/ \E s \in Signals : FirstSignal(s) \/ SecondSignal(s)
  <2>1. PICK channels \in {{"drain"}, {"drain", "force"}} : Request(channels)
    BY <1>5 DEF SignalsFail, FirstSignal, SecondSignal
  <2>2. UNCHANGED <<now, deadline, sup>>
    BY <1>5 DEF SignalsFail, FirstSignal, SecondSignal
  <2>3. QED
    BY <2>1, <2>2, RequestClock DEF ClockOK, Unset
<1>6. CASE Tick
  BY <1>6, LimitsAssumption DEF Tick, ClockOK, ProcessTyped, Requested, Forced, Unset
<1>7. CASE Bootstrap
  BY <1>7 DEF Bootstrap, ClockOK, clock, Requested, Forced
<1>8. CASE Cancelled \/ AcceptFails
  BY <1>8, LeaveClock DEF Cancelled, AcceptFails
<1>9. CASE ForceCloseAll
  BY <1>9, RequestClock DEF ForceCloseAll, ClockOK, Unset
<1>10. CASE AbortAll
  BY <1>10 DEF AbortAll, ClockOK, clock, Requested, Forced
<1>11. CASE Drained
  <2>1. CASE UNCHANGED <<shut, stamp>>
    BY <1>11, <2>1 DEF Drained, ClockOK, Requested, Forced
  <2>2. CASE Request({"drain", "force"})
    BY <1>11, <2>2, RequestClock DEF Drained, ClockOK, Unset
  <2>3. QED
    BY <1>11, <2>1, <2>2 DEF Drained
<1>12. ASSUME NEW c \in Clients, Accept(c) \/ JoinDrained(c) PROVE Same
  BY <1>12 DEF Accept, JoinDrained, clock
<1>13. ASSUME NEW c \in Clients, JoinInLoop(c) PROVE ClockOK'
  <2>1. CASE task[c] = "panicked"
    BY <1>13, <2>1, LeaveClock DEF JoinInLoop
  <2>2. CASE task[c] # "panicked"
    BY <1>1, <1>13, <2>2 DEF JoinInLoop, clock
  <2>3. QED
    BY <2>1, <2>2
<1>14. QED
  BY <1>1, <1>2, <1>3, <1>4, <1>5, <1>6, <1>7, <1>8, <1>9, <1>10, <1>11, <1>12, <1>13
     DEF Next, Supervisor

LEMMA ForceStep ==
  ASSUME ProcessTyped, ClockOK, ForceOK, [Next]_vars, Drained => Registered = 0
  PROVE  ForceOK'
<1> DEFINE Same == UNCHANGED <<main, shut, now, sup>>
<1>1. CASE Same /\ UNCHANGED cut
  BY <1>1 DEF ForceOK, Insisted, Forced
<1>2. ASSUME NEW c \in Clients, Connect(c) \/ Reset(c) \/ Task(c) \/ Panic(c) \/ Aborted(c)
      PROVE  ForceOK'
  <2>1. Same
    BY <1>2, TasksLeaveProcess DEF Quiet, clock, mainVars
  <2>2. CASE UNCHANGED cut
    BY <1>1, <2>1, <2>2
  <2>3. CASE Aborted(c)
    BY <2>1, <2>3 DEF Aborted, ForceOK, Insisted, Forced
  <2>4. CASE BrokenOff(c)
    BY <2>1, <2>4 DEF BrokenOff, Breaks, ForceOK, Insisted, Forced
  <2>5. CASE Connect(c) \/ Reset(c) \/ Panic(c) \/ (Task(c) /\ ~BrokenOff(c))
    BY <2>2, <2>5 DEF Connect, Reset, Panic, Task, ReadHead, TryUpstream, Dialled, TakeIdle,
       NoUpstream, Consider, Commit, WriteHead, ServedOut, Responded
  <2>6. QED
    BY <1>2, <2>3, <2>4, <2>5
<1>3. CASE Exit \/ Sweep \/ UNCHANGED vars
  BY <1>1, <1>3 DEF Exit, Sweep, vars, clock, mainVars, taskVars
<1>4. ASSUME NEW s \in Signals, Arrive(s) PROVE ForceOK'
  BY <1>1, <1>4 DEF Arrive, clock, taskVars
<1>5. CASE SignalsFail \/ \E s \in Signals : SecondSignal(s)
  <2>1. main' \in {"await", "lost"} /\ UNCHANGED <<sup, cut>> /\ Request({"drain", "force"})
    BY <1>5 DEF SignalsFail, SecondSignal, taskVars
  <2>2. QED
    BY <2>1, RequestClock DEF ForceOK, Insisted
<1>6. ASSUME NEW s \in Signals, FirstSignal(s) PROVE ForceOK'
  <2>1. main = "run" /\ UNCHANGED <<now, sup, cut>> /\ Request({"drain"})
    BY <1>6 DEF FirstSignal, taskVars
  <2>2. Forced' <=> Forced
    BY <2>1, RequestClock
  <2>3. QED
    BY <2>1, <2>2 DEF ForceOK, Insisted
<1>7. CASE Tick
  BY <1>7, LimitsAssumption DEF Tick, ForceOK, Insisted, Forced, ProcessTyped, taskVars, mainVars
<1>8. CASE Bootstrap
  BY <1>8 DEF Bootstrap, ForceOK, Insisted, Forced, clock, mainVars, taskVars
<1>9. ASSUME NEW result, LeaveLoop(result), sup = "loop" PROVE ForceOK'
  BY <1>9, LeaveClock DEF LeaveLoop, ForceOK, Insisted, mainVars
<1>10. CASE Cancelled \/ AcceptFails
  BY <1>9, <1>10 DEF Cancelled, AcceptFails
<1>11. CASE ForceCloseAll
  <2>1. Insisted
    BY <1>11 DEF ForceCloseAll, DrainOver, ForceOK, ClockOK, Insisted
  <2>2. Forced'
    BY <1>11, RequestClock DEF ForceCloseAll
  <2>3. QED
    BY <1>11, <2>1, <2>2 DEF ForceCloseAll, ForceOK, Insisted, mainVars, taskVars
<1>12. CASE AbortAll
  BY <1>12 DEF AbortAll, ForceOK, Insisted, Forced, clock, mainVars, taskVars
<1>13. CASE Drained
  BY <1>13 DEF Drained, ForceOK, Insisted, Forced, mainVars, taskVars
<1>14. ASSUME NEW c \in Clients, Accept(c) \/ JoinDrained(c) PROVE ForceOK'
  BY <1>1, <1>14 DEF Accept, JoinDrained, clock, mainVars, taskVars
<1>15. ASSUME NEW c \in Clients, JoinInLoop(c) PROVE ForceOK'
  <2>1. CASE task[c] = "panicked"
    BY <1>9, <1>15, <2>1 DEF JoinInLoop
  <2>2. CASE task[c] # "panicked"
    BY <1>1, <1>15, <2>2 DEF JoinInLoop, clock, mainVars, taskVars
  <2>3. QED
    BY <2>1, <2>2
<1>16. QED
  BY <1>2, <1>3, <1>4, <1>5, <1>6, <1>7, <1>8, <1>10, <1>11, <1>12, <1>13, <1>14, <1>15
     DEF Next, Supervisor

-----------------------------------------------------------------------------
(* What the tasks hold.                                                    *)

LEMMA Kinds ==
  /\ \A c \in Clients : Alive(c) => task[c] \notin Over \cup {"away", "queued", "refused"}
  /\ Committed \subseteq Phases /\ {"head", "dial", "exchange"} \subseteq Phases
BY DEF Alive, Phases, Over, Committed

\* A task acts only while it lives; it moves on, or it is gone with all it held.
Others(c) == \A d \in Clients \ {c} : task'[d] = task[d] /\ up'[d] = up[d]
MovesOn(c) == Others(c) /\ task'[c] \in Phases /\ leased' = leased
Leaves(c) == Others(c) /\ task'[c] \in Over /\ up'[c] = "none" /\ leased' = leased \ {c}

LEMMA GoneLeaves ==
  ASSUME TasksTyped, NEW c \in Clients, NEW how \in {"ended", "panicked", "aborted"}, Gone(c, how)
  PROVE  Leaves(c)
BY DEF TasksTyped, Gone, Leaves, Others, Over

LEMMA TaskMoves ==
  ASSUME TasksTyped, NEW c \in Clients, Task(c) \/ Panic(c) \/ Aborted(c)
  PROVE  Alive(c) /\ (MovesOn(c) \/ Leaves(c))
<1>1. Alive(c)
  BY DEF Task, Panic, Aborted, ReadHead, TryUpstream, Dialled, TakeIdle, NoUpstream, Consider,
         Commit, WriteHead, ServedOut, BrokenOff, Responded, At, Alive, Phases, Committed
<1>2. CASE ServedOut(c) \/ BrokenOff(c) \/ Panic(c) \/ Aborted(c)
  BY <1>1, <1>2, GoneLeaves DEF ServedOut, BrokenOff, Panic, Aborted
<1>3. CASE Gone(c, "ended")
  BY <1>1, <1>3, GoneLeaves
<1>4. ASSUME ~Gone(c, "ended"), ReadHead(c) \/ Consider(c) \/ Commit(c) \/ WriteHead(c) PROVE MovesOn(c)
  BY <1>4 DEF ReadHead, Consider, Commit, WriteHead, Goto, MovesOn, Others, TasksTyped, Phases, Committed
<1>5. ASSUME ~Gone(c, "ended"), TryUpstream(c) \/ Dialled(c) \/ TakeIdle(c) \/ NoUpstream(c) PROVE MovesOn(c)
  BY <1>5 DEF TryUpstream, Dialled, TakeIdle, NoUpstream, Goto, MovesOn, Others, TasksTyped, Phases, Committed
<1>6. ASSUME ~Gone(c, "ended"), Responded(c) PROVE MovesOn(c)
  BY <1>6 DEF Responded, Goto, MovesOn, Others, TasksTyped, Phases, Committed
<1>7. QED
  BY <1>1, <1>2, <1>3, <1>4, <1>5, <1>6 DEF Task

\* And the pool grows only in the supervisor's loop.
LEMMA TaskIdle ==
  ASSUME TasksTyped, ProcessTyped, HoldOK, NEW c \in Clients, Task(c) \/ Panic(c) \/ Aborted(c)
  PROVE  pool' = pool /\ (sup # "loop" /\ Alive(c) => idle' = 0)
<1>1. pool' = pool
  BY DEF Task, Panic, Aborted, ReadHead, TryUpstream, Dialled, TakeIdle, NoUpstream, Consider,
         Commit, WriteHead, ServedOut, BrokenOff, Responded
<1>2. ASSUME sup # "loop", Alive(c) PROVE idle' = 0
  <2>1. idle = 0
    BY <1>2 DEF HoldOK
  <2>2. pool = "closed"
    BY <1>2, Kinds DEF HoldOK, Spawned, Alive, ProcessTyped
  <2>3. CASE Responded(c)
    BY <2>1, <2>2, <2>3 DEF Responded, Put
  <2>4. CASE TakeIdle(c)
    BY <2>1, <2>4 DEF TakeIdle
  <2>5. CASE ~Responded(c) /\ ~TakeIdle(c)
    BY <2>1, <2>5 DEF Task, Panic, Aborted, ReadHead, TryUpstream, Dialled, NoUpstream, Consider,
         Commit, WriteHead, ServedOut, BrokenOff
  <2>6. QED
    BY <2>3, <2>4, <2>5
<1>3. QED
  BY <1>1, <1>2

LEMMA HoldTask ==
  ASSUME TasksTyped, ProcessTyped, HoldOK,
         NEW c \in Clients, Task(c) \/ Panic(c) \/ Aborted(c)
  PROVE  HoldOK'
<1>1. Alive(c) /\ Others(c) /\ (MovesOn(c) \/ Leaves(c)) /\ Quiet
  BY TaskMoves, TasksLeaveProcess DEF MovesOn, Leaves
<1>2. task'[c] \in Phases \cup Over
  BY <1>1 DEF MovesOn, Leaves
<1>3. c \notin joined /\ sup \notin {"boot", "failed", "returned"}
  BY <1>1, Kinds DEF HoldOK, Spawned, Alive
<1>4. (\A d \in Clients : d \in leased \/ up[d] # "none" => Alive(d))'
  BY <1>1 DEF HoldOK, MovesOn, Leaves, Others, Alive
<1>5. (\A d \in joined : task[d] \in Over)'
  BY <1>1, <1>3 DEF HoldOK, Others, Quiet, ProcessTyped
<1>6. QED
  BY <1>1, <1>3, <1>4, <1>5, TaskIdle DEF HoldOK, Quiet

LEMMA HoldJoin ==
  ASSUME TasksTyped, ProcessTyped, HoldOK, NEW c \in Clients, c \in Ended,
         joined' = joined \cup {c}, sup \in {"loop", "drain", "reaping"},
         UNCHANGED <<task, leased, up>>,
         \/ UNCHANGED <<sup, pool, idle>>
         \/ sup' = "drain" /\ pool' = "closed" /\ idle' = 0
  PROVE  HoldOK'
<1>1. task[c] \in Over
  BY DEF Ended
<1>2. QED
  BY <1>1 DEF HoldOK, Alive

LEMMA HoldStep == TasksTyped /\ ProcessTyped /\ HoldOK /\ [Next]_vars => HoldOK'
<1> SUFFICES ASSUME TasksTyped, ProcessTyped, HoldOK, [Next]_vars PROVE HoldOK'
  OBVIOUS
<1>1. CASE UNCHANGED <<sup, joined, taskVars>>
  BY <1>1 DEF HoldOK, Alive, Spawned, taskVars
<1>2. ASSUME NEW c \in Clients, Connect(c) \/ Reset(c) PROVE HoldOK'
  <2>1. /\ task[c] \in {"away", "queued"} /\ task' = [task EXCEPT ![c] = task'[c]]
        /\ task'[c] \in {"queued", "refused"} /\ UNCHANGED <<leased, up, pool, idle, sup, joined>>
    BY <1>2 DEF Connect, Reset, At, Goto, TasksTyped, Quiet
  <2>2. ~Alive(c) /\ c \notin joined
    BY <2>1, Kinds DEF HoldOK, Over, Alive, Phases, Committed
  <2>3. Spawned' = Spawned
    BY <2>1, Kinds DEF Spawned, TasksTyped, Over, Phases, Committed
  <2>4. QED
    BY <2>1, <2>2, <2>3 DEF HoldOK, Alive, TasksTyped, ProcessTyped
<1>3. CASE Tick \/ SignalsFail \/ Exit \/ UNCHANGED vars
  BY <1>1, <1>3 DEF Tick, SignalsFail, Exit, vars
<1>4. ASSUME NEW s \in Signals, Arrive(s) \/ FirstSignal(s) \/ SecondSignal(s) PROVE HoldOK'
  BY <1>1, <1>4 DEF Arrive, FirstSignal, SecondSignal
<1>5. CASE Bootstrap
  <2>1. /\ sup = "boot" /\ sup' \in {"boot", "returned", "failed", "loop"}
        /\ UNCHANGED <<joined, task, leased, up, pool, idle>>
    BY <1>5 DEF Bootstrap, taskVars
  <2>2. Spawned = {}
    BY <2>1 DEF HoldOK, Spawned, Over, Phases, Committed
  <2>3. Spawned' = Spawned
    BY <2>1 DEF Spawned
  <2>4. QED
    BY <2>1, <2>2, <2>3 DEF HoldOK, Alive
<1>6. CASE Cancelled \/ AcceptFails
  <2>1. /\ sup' = "drain" /\ pool' = "closed" /\ idle' = 0
        /\ UNCHANGED <<joined, task, leased, up>>
    BY <1>6 DEF Cancelled, AcceptFails, LeaveLoop
  <2>2. QED
    BY <2>1 DEF HoldOK, Alive
<1>7. CASE ForceCloseAll \/ AbortAll
  <2>1. /\ sup \in {"drain", "killing"} /\ sup' \in {"killing", "reaping"}
        /\ UNCHANGED <<joined, task, leased, up, pool, idle>>
    BY <1>7 DEF ForceCloseAll, AbortAll, taskVars
  <2>2. QED
    BY <2>1 DEF HoldOK, Alive
<1>8. CASE Drained
  <2>1. /\ sup \in {"drain", "reaping"} /\ Spawned = {} /\ sup' = "returned"
        /\ UNCHANGED <<joined, task, leased, up, pool, idle>>
    BY <1>8 DEF Drained, taskVars
  <2>2. Spawned' = {}
    BY <2>1 DEF Spawned
  <2>3. QED
    BY <2>1, <2>2 DEF HoldOK, Alive
<1>9. CASE Sweep
  <2>1. sup = "loop" /\ UNCHANGED <<sup, joined, task, leased, up, pool>>
    BY <1>9 DEF Sweep
  <2>2. QED
    BY <2>1 DEF HoldOK, Alive
<1>10. ASSUME NEW c \in Clients, Accept(c) PROVE HoldOK'
  <2>1. /\ sup = "loop" /\ task[c] = "queued" /\ UNCHANGED <<sup, joined, up, pool, idle>>
        /\ \/ leased' = leased \cup {c} /\ task' = [task EXCEPT ![c] = "head"]
           \/ leased' = leased /\ task' = [task EXCEPT ![c] = "refused"]
    BY <1>10 DEF Accept, At, Goto
  <2>2. ~Alive(c) /\ c \notin joined
    BY <2>1, Kinds DEF HoldOK, Over, Alive, Phases, Committed
  <2>3. (\A d \in Clients : d \in leased \/ up[d] # "none" => Alive(d))'
    BY <2>1, <2>2, Kinds DEF HoldOK, Alive, TasksTyped
  <2>4. QED
    BY <2>1, <2>2, <2>3 DEF HoldOK, TasksTyped, ProcessTyped
<1>11. ASSUME NEW c \in Clients, JoinInLoop(c) PROVE HoldOK'
  BY <1>11, HoldJoin DEF JoinInLoop, LeaveLoop, taskVars
<1>12. ASSUME NEW c \in Clients, JoinDrained(c) PROVE HoldOK'
  BY <1>12, HoldJoin DEF JoinDrained, taskVars
<1>13. QED
  BY <1>2, <1>3, <1>4, <1>5, <1>6, <1>7, <1>8, <1>9, <1>10, <1>11, <1>12, HoldTask DEF Next, Supervisor

\* Where no task is left to be joined, nothing is held.
LEMMA NothingHeld ==
  ASSUME TasksTyped, HoldOK, Spawned = {}
  PROVE  leased = {} /\ (\A c \in Clients : ~Alive(c) /\ up[c] = "none")
<1>1. \A c \in Clients : ~Alive(c)
  BY Kinds DEF Spawned, HoldOK, Alive
<1>2. QED
  BY <1>1 DEF HoldOK, TasksTyped

LEMMA NothingRegistered ==
  ASSUME TasksTyped, HoldOK, Spawned = {}, sup # "loop"
  PROVE  InUse = 0 /\ Registered = 0
<1>1. leased = {} /\ idle = 0 /\ \A c \in Clients : up[c] = "none"
  BY NothingHeld DEF HoldOK
<1>2. {c \in Clients : up[c] # "none"} = {} /\ {c \in Clients : up[c] = "socket"} = {}
  BY <1>1
<1>3. QED
  BY <1>1, <1>2, FS_EmptySet DEF InUse, Registered

LEMMA OutcomeStep == TasksTyped /\ ProcessTyped /\ HoldOK /\ OutcomeOK /\ [Next]_vars => OutcomeOK'
<1> SUFFICES ASSUME TasksTyped, ProcessTyped, HoldOK, OutcomeOK, [Next]_vars PROVE OutcomeOK'
  OBVIOUS
<1>1. CASE UNCHANGED <<outcome, joined, task, sup, exit>>
  BY <1>1 DEF OutcomeOK
<1>2. ASSUME NEW c \in Clients, Task(c) \/ Panic(c) \/ Aborted(c) PROVE OutcomeOK'
  <2>1. c \notin joined
    BY <1>2, TaskMoves, Kinds DEF HoldOK
  <2>2. \A d \in joined : task'[d] = task[d]
    BY <1>2, <2>1, TaskMoves DEF MovesOn, Leaves, Others, ProcessTyped
  <2>3. QED
    BY <1>2, <2>2, TasksLeaveProcess DEF Quiet, OutcomeOK, mainVars
<1>3. ASSUME NEW c \in Clients, Connect(c) \/ Reset(c) \/ Accept(c) PROVE OutcomeOK'
  <2>1. task' \in {[task EXCEPT ![c] = state] : state \in {"queued", "refused", "head"}}
    BY <1>3 DEF Connect, Reset, Accept, Goto
  <2>2. \A d \in joined : task'[d] # "panicked" \/ task[d] = "panicked"
    BY <2>1 DEF TasksTyped, ProcessTyped
  <2>3. UNCHANGED <<outcome, joined, sup, exit>>
    BY <1>3 DEF Connect, Reset, Accept, Quiet, mainVars
  <2>4. QED
    BY <2>2, <2>3 DEF OutcomeOK
<1>4. CASE Tick \/ SignalsFail \/ UNCHANGED vars
  BY <1>1, <1>4 DEF Tick, SignalsFail, vars, mainVars, taskVars
<1>5. ASSUME NEW s \in Signals, Arrive(s) \/ FirstSignal(s) \/ SecondSignal(s) PROVE OutcomeOK'
  BY <1>1, <1>5 DEF Arrive, FirstSignal, SecondSignal, taskVars
<1>6. CASE Exit
  BY <1>6 DEF Exit, OutcomeOK, taskVars
<1>7. CASE Bootstrap
  <2>1. /\ sup = "boot" /\ UNCHANGED <<exit, joined, task>>
        /\ \/ outcome' = outcome
           \/ outcome' = "startup" /\ sup' = "failed"
    BY <1>7 DEF Bootstrap, mainVars, taskVars
  <2>2. QED
    BY <2>1 DEF OutcomeOK
<1>8. CASE Cancelled \/ AcceptFails
  BY <1>8 DEF Cancelled, AcceptFails, LeaveLoop, OutcomeOK, mainVars
<1>9. CASE ForceCloseAll \/ AbortAll
  <2>1. sup \in {"drain", "killing"} /\ sup' \in {"killing", "reaping"} /\ UNCHANGED <<outcome, joined, task, exit>>
    BY <1>9 DEF ForceCloseAll, AbortAll, mainVars, taskVars
  <2>2. QED
    BY <2>1 DEF OutcomeOK
<1>10. CASE Drained
  <2>1. Registered = 0
    BY <1>10, NothingRegistered DEF Drained
  <2>2. sup' = "returned" /\ UNCHANGED <<outcome, joined, task, exit>>
    BY <1>10, <2>1 DEF Drained, mainVars, taskVars
  <2>3. QED
    BY <2>2 DEF OutcomeOK
<1>11. CASE Sweep
  BY <1>1, <1>11 DEF Sweep, mainVars
<1>12. ASSUME NEW c \in Clients, JoinInLoop(c) PROVE OutcomeOK'
  <2>1. CASE task[c] = "panicked"
    BY <1>12, <2>1 DEF JoinInLoop, LeaveLoop, OutcomeOK, mainVars
  <2>2. CASE task[c] # "panicked"
    BY <1>12, <2>2 DEF JoinInLoop, OutcomeOK, mainVars, taskVars
  <2>3. QED
    BY <2>1, <2>2
<1>13. ASSUME NEW c \in Clients, JoinDrained(c) PROVE OutcomeOK'
  BY <1>13 DEF JoinDrained, Fault, OutcomeOK, mainVars, taskVars
<1>14. QED
  BY <1>2, <1>3, <1>4, <1>5, <1>6, <1>7, <1>8, <1>9, <1>10, <1>11, <1>12, <1>13 DEF Next, Supervisor

-----------------------------------------------------------------------------
(* The upstream permits.                                                   *)

HasUpstream == {c \in Clients : up[c] # "none"}

LEMMA UpstreamsFinite == IsFiniteSet(HasUpstream) /\ Cardinality(HasUpstream) \in Nat
BY ClientsAssumption, FS_Subset, FS_CardinalityType DEF HasUpstream

\* Whoever gives back what it holds makes room for one idle socket.
LEMMA FewerUpstreams ==
  ASSUME TasksTyped, UpstreamBounded, NEW c \in Clients, HasUpstream' \subseteq HasUpstream,
         idle' \in Nat, idle' <= idle \/ (idle' = idle + 1 /\ c \in HasUpstream /\ c \notin HasUpstream')
  PROVE  UpstreamBounded'
<1>1. /\ IsFiniteSet(HasUpstream') /\ Cardinality(HasUpstream') \in Nat
      /\ Cardinality(HasUpstream') <= Cardinality(HasUpstream)
  BY UpstreamsFinite, FS_Subset, FS_CardinalityType
<1>2. c \in HasUpstream /\ c \notin HasUpstream' => Cardinality(HasUpstream') # Cardinality(HasUpstream)
  BY UpstreamsFinite, FS_Subset
<1>3. InUse = Cardinality(HasUpstream) + idle /\ InUse' = Cardinality(HasUpstream') + idle'
  BY DEF InUse, HasUpstream
<1>4. idle \in Nat /\ InUse <= UpstreamLimit
  BY DEF TasksTyped, UpstreamBounded
<1>5. InUse' <= UpstreamLimit
  BY <1>1, <1>2, <1>3, <1>4, UpstreamsFinite, LimitsAssumption
<1>6. QED
  BY <1>5 DEF UpstreamBounded

LEMMA OneMoreUpstream ==
  ASSUME TasksTyped, NEW c \in Clients, up[c] = "none", up' \in [Clients -> {"none", "permit", "socket"}],
         Others(c), up'[c] # "none"
  PROVE  Cardinality(HasUpstream') = Cardinality(HasUpstream) + 1
<1>1. HasUpstream' = HasUpstream \cup {c} /\ c \notin HasUpstream
  BY DEF HasUpstream, Others
<1>2. QED
  BY <1>1, UpstreamsFinite, FS_AddElement

LEMMA UpstreamTask ==
  ASSUME TasksTyped, TasksTyped', UpstreamBounded,
         NEW c \in Clients, Task(c) \/ Panic(c) \/ Aborted(c)
  PROVE  UpstreamBounded'
<1> USE DEF TasksTyped
<1>1. Others(c) /\ (MovesOn(c) \/ Leaves(c))
  BY TaskMoves DEF MovesOn, Leaves
<1>2. CASE TryUpstream(c)
  <2>1. Cardinality(HasUpstream') = Cardinality(HasUpstream) + 1
    BY <1>1, <1>2, OneMoreUpstream DEF TryUpstream
  <2>2. InUse < UpstreamLimit /\ idle' = idle
    BY <1>2 DEF TryUpstream
  <2>3. InUse' <= UpstreamLimit
    BY <2>1, <2>2, UpstreamsFinite, LimitsAssumption DEF InUse, HasUpstream
  <2>4. QED
    BY <2>3 DEF UpstreamBounded
<1>3. CASE TakeIdle(c)
  <2>1. Cardinality(HasUpstream') = Cardinality(HasUpstream) + 1
    BY <1>1, <1>3, OneMoreUpstream DEF TakeIdle
  <2>2. idle' = idle - 1
    BY <1>3 DEF TakeIdle
  <2>3. InUse' = InUse
    BY <2>1, <2>2, UpstreamsFinite DEF InUse, HasUpstream
  <2>4. QED
    BY <2>3 DEF UpstreamBounded
<1>4. CASE Dialled(c)
  <2>1. HasUpstream' = HasUpstream /\ idle' = idle
    BY <1>4 DEF Dialled, HasUpstream
  <2>2. QED
    BY <2>1, FewerUpstreams
<1>5. CASE Responded(c)
  <2>1. HasUpstream' \subseteq HasUpstream
    BY <1>5 DEF Responded, Gone, HasUpstream
  <2>2. idle' = idle \/ (idle' = idle + 1 /\ c \in HasUpstream /\ c \notin HasUpstream')
    BY <1>5 DEF Responded, Put, Gone, HasUpstream
  <2>3. QED
    BY <2>1, <2>2, FewerUpstreams
<1>6. CASE ~TryUpstream(c) /\ ~TakeIdle(c) /\ ~Dialled(c) /\ ~Responded(c)
  <2>1. idle' = idle
    BY <1>6 DEF Task, Panic, Aborted, ReadHead, NoUpstream, Consider, Commit, WriteHead, ServedOut, BrokenOff
  <2>2. up' = up \/ up' = [up EXCEPT ![c] = "none"]
    BY <1>6 DEF Task, Panic, Aborted, ReadHead, NoUpstream, Consider, Commit, WriteHead, ServedOut, BrokenOff,
       Gone
  <2>3. HasUpstream' \subseteq HasUpstream
    BY <2>2 DEF HasUpstream
  <2>4. QED
    BY <2>1, <2>3, FewerUpstreams
<1>7. QED
  BY <1>2, <1>3, <1>4, <1>5, <1>6

LEMMA UpstreamStep ==
  ASSUME TasksTyped, TasksTyped', ProcessTyped, UpstreamBounded, [Next]_vars
  PROVE  UpstreamBounded'
<1>1. CASE UNCHANGED <<up, idle>>
  BY <1>1 DEF UpstreamBounded, InUse
<1>2. CASE UNCHANGED up /\ idle' \in 0..idle
  <2>1. HasUpstream' = HasUpstream
    BY <1>2 DEF HasUpstream
  <2>2. InUse' <= InUse /\ InUse \in Nat /\ InUse' \in Nat
    BY <1>2, <2>1, UpstreamsFinite DEF InUse, HasUpstream, TasksTyped
  <2>3. QED
    BY <2>2, LimitsAssumption DEF UpstreamBounded
<1>3. ASSUME NEW result, LeaveLoop(result) PROVE UpstreamBounded'
  BY <1>2, <1>3 DEF LeaveLoop, TasksTyped
<1>4. CASE Tick \/ SignalsFail \/ Exit \/ UNCHANGED vars
  BY <1>1, <1>4 DEF Tick, SignalsFail, Exit, vars, taskVars
<1>5. CASE \E s \in Signals : Arrive(s) \/ FirstSignal(s) \/ SecondSignal(s)
  BY <1>1, <1>5 DEF Arrive, FirstSignal, SecondSignal, taskVars
<1>6. CASE Bootstrap \/ ForceCloseAll \/ AbortAll \/ Drained
  BY <1>1, <1>6 DEF Bootstrap, ForceCloseAll, AbortAll, Drained, taskVars
<1>7. CASE Cancelled \/ AcceptFails
  BY <1>3, <1>7 DEF Cancelled, AcceptFails
<1>8. CASE Sweep
  BY <1>2, <1>8 DEF Sweep
<1>9. ASSUME NEW c \in Clients, Connect(c) \/ Reset(c) \/ Accept(c) \/ JoinDrained(c) PROVE UpstreamBounded'
  BY <1>1, <1>9 DEF Connect, Reset, Accept, JoinDrained, taskVars
<1>10. ASSUME NEW c \in Clients, JoinInLoop(c) PROVE UpstreamBounded'
  BY <1>1, <1>3, <1>10 DEF JoinInLoop, taskVars
<1>11. QED
  BY <1>4, <1>5, <1>6, <1>7, <1>8, <1>9, <1>10, UpstreamTask DEF Next, Supervisor

-----------------------------------------------------------------------------
(* The invariant and what follows from it.                                 *)

LEMMA IInvInit == Init => IInv
<1> SUFFICES ASSUME Init PROVE IInv
  OBVIOUS
<1>1. {c \in Clients : up[c] # "none"} = {}
  BY DEF Init
<1>2. UpstreamBounded
  BY <1>1, FS_EmptySet, LimitsAssumption DEF Init, UpstreamBounded, InUse
<1>3. ClockOK /\ ForceOK /\ OutcomeOK
  BY LimitsAssumption DEF Init, ClockOK, ForceOK, OutcomeOK, Forced, Requested, Unset
<1>4. HoldOK
  BY DEF Init, HoldOK, Alive
<1>5. QED
  BY <1>2, <1>3, <1>4, TypeInit DEF IInv

LEMMA IInvStep == IInv /\ [Next]_vars => IInv'
<1> SUFFICES ASSUME IInv, [Next]_vars PROVE IInv'
  OBVIOUS
<1>1. TasksTyped /\ ProcessTyped /\ TasksTyped' /\ TypeOK'
  BY TypeParts, TypeStep, TasksTypedStep DEF IInv
<1>2. Drained => Registered = 0
  BY <1>1, NothingRegistered DEF IInv, Drained
<1>3. QED
  BY <1>1, <1>2, ClockStep, ForceStep, HoldStep, OutcomeStep, UpstreamStep DEF IInv

LEMMA Invariant == Spec => []IInv
BY IInvInit, IInvStep, PTL DEF Spec

\* listener.rs, drain_tasks and shutdown.rs: the drain is over five seconds after the first
\* request to stop, and a committed response or tunnel is cut short only after that or when
\* main insists, for any limits, any number of clients and any lag below the grace.
THEOREM DrainIsPatient == Spec => []DrainIsOrderly
<1>1. IInv => DrainIsOrderly
  BY DEF IInv, ClockOK, ForceOK, Insisted, DrainIsOrderly, WithinGrace, CutOnlyByForce
<1>2. QED
  BY <1>1, Invariant, PTL

\* listener.rs, Supervisor::run and report_task_result: every lease, permit and registration
\* comes back on every outcome of a task, abort and panic included; sockets stay within
\* their permits; a panic is never passed over in the exit status.
THEOREM AllComesBack == Spec => []NothingIsLost
<1>1. IInv => NothingLeft
  <2> SUFFICES ASSUME IInv, sup = "returned"
               PROVE  leased = {} /\ InUse = 0 /\ outcome # "cleanup" /\ \A c \in Clients : ~Alive(c)
    BY DEF NothingLeft
  <2>1. TasksTyped /\ HoldOK /\ Spawned = {}
    BY TypeParts DEF IInv, HoldOK
  <2>2. QED
    BY <2>1, NothingHeld, NothingRegistered DEF IInv, OutcomeOK
<1>2. IInv => PanicIsReported
  <2> SUFFICES ASSUME IInv, exit = "ok", NEW c \in Clients, task[c] = "panicked" PROVE FALSE
    BY DEF PanicIsReported
  <2>1. sup = "returned"
    BY DEF IInv, OutcomeOK, HoldOK
  <2>2. c \in joined
    BY <2>1 DEF IInv, HoldOK, Spawned, Over
  <2>3. QED
    BY <2>2 DEF IInv, OutcomeOK
<1>3. IInv => NothingIsLost
  BY <1>1, <1>2 DEF IInv, NothingIsLost
<1>4. QED
  BY <1>3, Invariant, PTL
-----------------------------------------------------------------------------
(* The refinement of BoundedService.                                       *)

\* A step that lets nobody in or out and does not touch the requests is a stutter.
LEMMA StutterKeepsService ==
  ASSUME UNCHANGED <<leased, shut>>, sup' = "returned" <=> sup = "returned"
  PROVE  UNCHANGED Service!vars
BY DEF Service!vars, Requested

\* A first request begins the closing.
LEMMA RequestKeepsService ==
  ASSUME ProcessTyped, ClockOK, leased' = leased, Requested',
         sup # "returned", sup' # "returned"
  PROVE  [Service!Next]_Service!vars
<1>1. CASE Requested
  BY <1>1 DEF Service!vars
<1>2. CASE ~Requested
  BY <1>2 DEF Service!BeginClosing, Service!Next
<1>3. QED
  BY <1>1, <1>2

LEMMA TaskKeepsService ==
  ASSUME TasksTyped, ProcessTyped, NEW c \in Clients, Task(c) \/ Panic(c) \/ Aborted(c)
  PROVE  [Service!Next]_Service!vars
<1>1. UNCHANGED <<shut, sup>>
  BY TasksLeaveProcess DEF Quiet
<1>2. leased' = leased \/ leased' = leased \ {c}
  BY TaskMoves DEF MovesOn, Leaves
<1>3. CASE c \in leased /\ leased' = leased \ {c}
  BY <1>1, <1>3 DEF Service!Leave, Service!Next, Requested
<1>4. CASE leased' = leased
  BY <1>1, <1>4, StutterKeepsService
<1>5. QED
  BY <1>2, <1>3, <1>4

LEMMA AcceptKeepsService ==
  ASSUME TasksTyped, HoldOK, NEW c \in Clients, Accept(c)
  PROVE  [Service!Next]_Service!vars
<1>1. sup = "loop" /\ ~Requested /\ UNCHANGED <<shut, sup>>
  BY DEF Accept
<1>2. CASE leased' = leased
  BY <1>1, <1>2, StutterKeepsService
<1>3. CASE MayAdmit /\ leased' = leased \cup {c}
  <2>1. c \notin leased
    BY Kinds DEF Accept, At, HoldOK, Alive
  <2>2. Service!Cardinality(leased) < ClientLimit
    BY <1>3 DEF MayAdmit, Service!Cardinality, Cardinality
  <2>3. QED
    BY <1>1, <1>3, <2>1, <2>2 DEF Service!Enter, Service!Next, Requested
<1>4. QED
  BY <1>2, <1>3 DEF Accept

\* Nobody is inside when the supervisor returns, from the drain or before it began.
LEMMA ReturnKeepsService ==
  ASSUME TasksTyped, ProcessTyped, ClockOK, HoldOK, Bootstrap \/ Drained
  PROVE  [Service!Next]_Service!vars
<1>1. leased' = leased
  BY DEF Bootstrap, Drained, taskVars
<1>2. CASE sup' # "returned"
  <2>1. shut' = shut /\ sup # "returned"
    BY <1>2 DEF Bootstrap, Drained
  <2>2. QED
    BY <1>1, <1>2, <2>1, StutterKeepsService
<1>3. CASE sup' = "returned"
  <2>1. Requested /\ sup # "returned"
    BY <1>3 DEF Bootstrap, Drained, ClockOK
  <2>2. Spawned = {}
    BY <1>3 DEF Bootstrap, Drained, HoldOK, Spawned, Over, Phases, Committed
  <2>3. leased = {}
    BY <2>2, NothingHeld
  <2>4. QED
    BY <1>1, <1>3, <2>1, <2>3 DEF Service!Close, Service!Next
<1>4. QED
  BY <1>2, <1>3

LEMMA StepKeepsService == IInv /\ [Next]_vars => [Service!Next]_Service!vars
<1> SUFFICES ASSUME IInv, [Next]_vars PROVE [Service!Next]_Service!vars
  OBVIOUS
<1>0. TasksTyped /\ ProcessTyped /\ ClockOK /\ HoldOK
  BY TypeParts DEF IInv
<1>1. CASE Tick \/ Exit \/ Sweep \/ ForceCloseAll \/ AbortAll \/ UNCHANGED vars
  <2>1. CASE ForceCloseAll
    <3>1. Requested'
      BY <1>0, <2>1, RequestClock DEF ForceCloseAll
    <3>2. QED
      BY <1>0, <2>1, <3>1, RequestKeepsService DEF ForceCloseAll, taskVars
  <2>2. CASE Tick \/ Exit \/ Sweep \/ AbortAll \/ UNCHANGED vars
    BY <2>2, StutterKeepsService DEF Tick, Exit, Sweep, AbortAll, vars, taskVars
  <2>3. QED
    BY <1>1, <2>1, <2>2
<1>2. ASSUME NEW c \in Clients, Connect(c) \/ Reset(c) \/ JoinDrained(c) PROVE UNCHANGED Service!vars
  BY <1>2, StutterKeepsService DEF Connect, Reset, JoinDrained, Quiet, taskVars
<1>3. ASSUME NEW s \in Signals, Arrive(s) PROVE UNCHANGED Service!vars
  BY <1>3, StutterKeepsService DEF Arrive, taskVars
<1>4. CASE SignalsFail \/ \E s \in Signals : FirstSignal(s) \/ SecondSignal(s)
  <2>1. PICK channels \in {{"drain"}, {"drain", "force"}} : Request(channels)
    BY <1>4 DEF SignalsFail, FirstSignal, SecondSignal
  <2>2. UNCHANGED <<sup, leased>> /\ Requested'
    BY <1>0, <1>4, <2>1, RequestClock DEF SignalsFail, FirstSignal, SecondSignal, taskVars
  <2>3. CASE sup # "returned"
    BY <1>0, <2>2, <2>3, RequestKeepsService
  <2>4. CASE sup = "returned"
    BY <2>2, <2>4 DEF Service!vars
  <2>5. QED
    BY <2>3, <2>4
<1>5. ASSUME NEW result, LeaveLoop(result), sup = "loop" PROVE [Service!Next]_Service!vars
  BY <1>0, <1>5, RequestClock, RequestKeepsService DEF LeaveLoop
<1>6. CASE Cancelled \/ AcceptFails
  BY <1>5, <1>6 DEF Cancelled, AcceptFails
<1>7. ASSUME NEW c \in Clients, JoinInLoop(c) PROVE [Service!Next]_Service!vars
  BY <1>5, <1>7, StutterKeepsService DEF JoinInLoop, taskVars
<1>8. QED
  BY <1>0, <1>1, <1>2, <1>3, <1>4, <1>6, <1>7, TaskKeepsService, AcceptKeepsService,
     ReturnKeepsService DEF Next, Supervisor

\* listener.rs: the proxy's clients are users of a bounded service.  At most
\* MAX_CLIENT_CONNECTIONS are in it, nobody comes in once a stop is requested, and the
\* supervisor returns when the last one has left.
THEOREM ClientsAreBounded == Spec => IsBoundedService
<1>1. Init => Service!Init
  BY DEF Init, Service!Init, Requested
<1>2. QED
  BY <1>1, StepKeepsService, Invariant, PTL DEF Spec, IsBoundedService, Service!Spec

-----------------------------------------------------------------------------
(* The monitor of closed connections (PeerClose), which owes nothing to the *)
(* supervisor: who is watched under which token, and what the kernel's list *)
(* holds.                                                                   *)

\* Where a task is says what its connection still has.
PlaceOK(c) ==
  /\ phase[c] = "new" => fd[c] = Watch!NoFd /\ token[c] = Watch!NoToken
  /\ phase[c] # "new" => fd[c] \in Fds
  /\ phase[c] \notin {"ending", "done"} => dropped[c] = 0
  /\ phase[c] = "ending" => dropped[c] < 2
  /\ phase[c] = "done" => dropped[c] = 2
  /\ dropped[c] # 0 => token[c] = Watch!NoToken

Places == {"new", "idle", "noticed", "failed", "ending", "done"} \cup Watch!Waiting

WatchTyped ==
  /\ phase \in [Conns -> Places]
  /\ fd \in [Conns -> Fds \cup {Watch!NoFd}]
  /\ token \in [Conns -> Watch!Tokens \cup {Watch!NoToken}]
  /\ dropped \in [Conns -> 0..2] /\ closed \subseteq Conns
  /\ states \in [Watch!Tokens -> Conns \cup {Watch!NoConn}] /\ next \in Watch!Tokens
  /\ interest \in [Fds -> Watch!Tokens \cup {Watch!NoToken}] /\ ready \in Seq(Fds)
  /\ peer \in [Conns -> {"quiet", "sent", "gone"}]
  /\ \A c \in Conns : PlaceOK(c)

\* From a connection over its descriptor and its token to its flag and back.
TokensLead ==
  /\ \A c \in Conns : token[c] # Watch!NoToken =>
                        interest[fd[c]] = token[c] /\ states[token[c]] = c
  /\ \A t \in Watch!Tokens : states[t] # Watch!NoConn => token[states[t]] = t
  /\ \A f \in Fds : interest[f] # Watch!NoToken =>
                      \E c \in Conns : token[c] # Watch!NoToken /\ fd[c] = f

\* A descriptor is reused only when it is closed.
Apart == \A c, d \in Conns : Watch!Open(c) /\ Watch!Open(d) /\ fd[c] = fd[d] => c = d

\* Only a descriptor that is watched is in the list, and once.
Listed ==
  /\ \A i \in 1..Len(ready) : interest[ready[i]] # Watch!NoToken
  /\ \A i, j \in 1..Len(ready) : ready[i] = ready[j] => i = j

\* The event of a client that has gone has been stored or is still to be taken.
Kept ==
  \A c \in Conns : token[c] # Watch!NoToken /\ peer[c] = "gone" =>
    c \in closed \/ Watch!Contains(ready, fd[c])

WatchInv == WatchTyped /\ TokensLead /\ Apart /\ Listed /\ Watch!NoFalseClose /\ Kept

\* The constants.
LEMMA TokensAre ==
  /\ TokenLimit \in Nat /\ TokenLimit > 0 /\ Capacity \in Nat /\ Capacity > 0
  /\ Watch!NoConn \notin Conns /\ Watch!NoFd \notin Fds
  /\ Watch!NoToken \notin Watch!Tokens /\ 0 \in Watch!Tokens
BY TokensAssumption DEF Watch!TokenAssumption, Watch!NoToken, Watch!Tokens

\* The connection is closed with the second of its fields.
LEMMA FieldsBefore == \A n \in 0..2 : (\A i \in 1..n : Watch!Fields[i] # "io") <=> n < 2
<1> SUFFICES ASSUME NEW n \in 0..2 PROVE (\A i \in 1..n : Watch!Fields[i] # "io") <=> n < 2
  OBVIOUS
<1>1. Watch!Fields[1] # "io" /\ Watch!Fields[2] = "io"
  BY DEF Watch!Fields
<1>2. QED
  BY <1>1

LEMMA IoIsOpen == WatchTyped => \A c \in Conns : Watch!HasIo(c) <=> Watch!Open(c)
BY FieldsBefore DEF WatchTyped, PlaceOK, Watch!HasIo, Watch!Open

\* What a connection with a monitor has.
LEMMA Watched ==
  ASSUME WatchTyped, TokensLead, NEW c \in Conns, token[c] # Watch!NoToken
  PROVE  /\ Watch!Open(c) /\ dropped[c] = 0 /\ fd[c] \in Fds /\ token[c] \in Watch!Tokens
         /\ interest[fd[c]] = token[c] /\ states[token[c]] = c
BY TokensAre DEF WatchTyped, PlaceOK, TokensLead, Watch!Open

\* A descriptor that is watched has one open connection.
LEMMA OneOwner ==
  ASSUME WatchTyped, TokensLead, Apart, NEW f \in Fds, interest[f] # Watch!NoToken
  PROVE  \E c \in Conns : /\ token[c] # Watch!NoToken /\ fd[c] = f /\ Watch!Owner(f) = {c}
                          /\ states[interest[f]] = c
<1>1. PICK c \in Conns : token[c] # Watch!NoToken /\ fd[c] = f
  BY DEF TokensLead
<1>2. Watch!Open(c) /\ interest[f] = token[c] /\ states[token[c]] = c
  BY <1>1, Watched
<1>3. Watch!Owner(f) = {c}
  BY <1>1, <1>2, IoIsOpen DEF Watch!Owner, Apart
<1>4. QED
  BY <1>1, <1>2, <1>3

\* The least element of a set of numbers.
LEMMA Least ==
  ASSUME NEW T \in SUBSET Nat, T # {}
  PROVE  \E x \in T : \A y \in T : x <= y
<1>1. IsWellFoundedOn(OpToRel(<, Nat), Nat)
  BY NatLessThanWellFounded
<1>2. PICK x \in T : \A y \in T : ~(<<y, x>> \in OpToRel(<, Nat))
  BY <1>1, WFMin
<1>3. OpToRel(<, Nat) = {ss \in Nat \X Nat : ss[1] < ss[2]}
  BY Zenon DEF OpToRel
<1>4. \A y \in T : ~(y < x)
  BY <1>2, <1>3
<1>5. QED
  BY <1>4

\* A counter that wraps comes to every token.
LEMMA Around ==
  ASSUME NEW L \in Nat, L > 0, NEW n \in 0..L - 1, NEW t \in 0..L - 1
  PROVE  \E i \in 0..L - 1 : (n + i) % L = t
<1>1. CASE n <= t
  <2>1. t - n \in 0..L - 1 /\ n + (t - n) = t
    BY <1>1
  <2>2. t % L = t
    OBVIOUS
  <2>3. QED
    BY <2>1, <2>2
<1>2. CASE n > t
  <2>1. t - n + L \in 0..L - 1 /\ n + (t - n + L) = t + L
    BY <1>2
  <2>2. (t + L) % L = t
    OBVIOUS
  <2>3. QED
    BY <2>1, <2>2
<1>3. QED
  BY <1>1, <1>2

\* PeerCloseMonitor::new: the search finds a token that is not in use.
LEMMA Fresh ==
  ASSUME WatchTyped, Watch!SomeTokenIsFree
  PROVE  Watch!FreshToken \in Watch!Tokens /\ states[Watch!FreshToken] = Watch!NoConn /\
         Watch!NextToken \in Watch!Tokens
<1> DEFINE Free1(i) == states[(next + i) % TokenLimit] = Watch!NoConn
           T == {i \in 0..TokenLimit - 1 : Free1(i)}
<1>1. TokenLimit \in Nat /\ TokenLimit > 0 /\ next \in 0..TokenLimit - 1
  BY TokensAre DEF WatchTyped, Watch!Tokens
<1>2. PICK t \in 0..TokenLimit - 1 : states[t] = Watch!NoConn
  BY DEF Watch!SomeTokenIsFree, Watch!Tokens
<1>3. PICK o \in 0..TokenLimit - 1 : (next + o) % TokenLimit = t
  BY <1>1, Around
<1>4. T # {}
  BY <1>2, <1>3
<1>5. T \in SUBSET Nat
  BY <1>1
<1>6. PICK k \in T : \A y \in T : k <= y
  BY <1>4, <1>5, Least
<1>7. \A j \in 0..k - 1 : ~Free1(j)
  <2> SUFFICES ASSUME NEW j \in 0..k - 1, Free1(j) PROVE FALSE
    OBVIOUS
  <2>1. j \in T
    BY <1>1
  <2>2. k \in Nat /\ j \in Int /\ j < k /\ k <= j
    BY <1>5, <1>6, <2>1
  <2>3. QED
    BY <2>2
<1>8. \E i \in 0..TokenLimit - 1 :
        /\ states[(next + i) % TokenLimit] = Watch!NoConn
        /\ \A j \in 0..i - 1 : states[(next + j) % TokenLimit] # Watch!NoConn
  BY <1>6, <1>7
<1>9. Watch!FreshOffset \in 0..TokenLimit - 1 /\
      states[(next + Watch!FreshOffset) % TokenLimit] = Watch!NoConn
  BY ONLY <1>8, Zenon DEF Watch!FreshOffset
<1>10. Watch!FreshToken \in 0..TokenLimit - 1
  <2>1. \A n \in Nat : n % TokenLimit \in 0..TokenLimit - 1
    BY <1>1
  <2>2. next + Watch!FreshOffset \in Nat
    BY <1>1, <1>9
  <2>3. QED
    BY <2>1, <2>2 DEF Watch!FreshToken
<1>11. Watch!NextToken \in 0..TokenLimit - 1
  <2>1. \A n \in Nat : n % TokenLimit \in 0..TokenLimit - 1
    BY <1>1
  <2>2. Watch!FreshToken + 1 \in Nat
    BY <1>1, <1>10
  <2>3. QED
    BY <2>1, <2>2 DEF Watch!NextToken
<1>12. QED
  BY <1>9, <1>10, <1>11 DEF Watch!FreshToken, Watch!Tokens

LEMMA RemovedAt ==
  ASSUME NEW S, NEW s \in Seq(S), NEW k \in 1..Len(s)
  PROVE  /\ Watch!RemoveAt(s, k) \in Seq(S) /\ Len(Watch!RemoveAt(s, k)) = Len(s) - 1
         /\ \A i \in 1..Len(s) - 1 : Watch!RemoveAt(s, k)[i] = s[IF i < k THEN i ELSE i + 1]
<1>1. SubSeq(s, 1, k - 1) \in Seq(S) /\ SubSeq(s, k + 1, Len(s)) \in Seq(S)
  BY SubSeqProperties
<1>2. /\ Len(SubSeq(s, 1, k - 1)) = k - 1
      /\ \A i \in 1..k - 1 : SubSeq(s, 1, k - 1)[i] = s[i]
  BY SubSeqProperties
<1>3. /\ Len(SubSeq(s, k + 1, Len(s))) = Len(s) - k
      /\ \A i \in 1..Len(s) - k : SubSeq(s, k + 1, Len(s))[i] = s[k + i]
  BY SubSeqProperties
<1>4. Len(s) \in Nat /\ k - 1 \in Nat /\ Len(s) - k \in Nat
  BY LenProperties
<1> DEFINE a == SubSeq(s, 1, k - 1)
           b == SubSeq(s, k + 1, Len(s))
<1>5. Watch!RemoveAt(s, k) = a \o b
  BY DEF Watch!RemoveAt
<1>6. a \in Seq(S) /\ Len(a) = k - 1 /\ \A i \in 1..k - 1 : a[i] = s[i]
  BY <1>1, <1>2
<1>7. b \in Seq(S) /\ Len(b) = Len(s) - k /\ \A i \in 1..Len(s) - k : b[i] = s[k + i]
  BY <1>1, <1>3
<1> HIDE DEF a, b
<1>8. /\ a \o b \in Seq(S) /\ Len(a \o b) = Len(a) + Len(b)
      /\ \A i \in 1..Len(a) + Len(b) : (a \o b)[i] = IF i <= Len(a) THEN a[i] ELSE b[i - Len(a)]
  BY <1>6, <1>7, ConcatProperties
<1>9. ASSUME NEW i \in 1..Len(s) - 1 PROVE (a \o b)[i] = s[IF i < k THEN i ELSE i + 1]
  <2>1. CASE i < k
    BY <1>4, <1>6, <1>7, <1>8, <2>1
  <2>2. CASE i >= k
    <3>1. i - (k - 1) \in 1..Len(s) - k /\ k + (i - (k - 1)) = i + 1 /\ ~(i <= k - 1)
      BY <1>4, <2>2
    <3>2. (a \o b)[i] = b[i - (k - 1)]
      BY <1>4, <1>6, <1>7, <1>8, <3>1
    <3>3. QED
      BY <1>7, <2>2, <3>1, <3>2
  <2>3. i < k \/ i >= k
    BY <1>4
  <2>4. QED
    BY <2>1, <2>2, <2>3
<1>10. QED
  BY <1>4, <1>5, <1>6, <1>7, <1>8, <1>9

\* What is withdrawn leaves the list, and nothing else does.
LEMMA UnlistedIs ==
  ASSUME WatchTyped, Listed, NEW f \in Fds
  PROVE  /\ Watch!Unlisted(f) \in Seq(Fds)
         /\ \A i \in 1..Len(Watch!Unlisted(f)) :
              Watch!Unlisted(f)[i] # f /\ Watch!Contains(ready, Watch!Unlisted(f)[i])
         /\ \A i, j \in 1..Len(Watch!Unlisted(f)) :
              Watch!Unlisted(f)[i] = Watch!Unlisted(f)[j] => i = j
         /\ \A g \in Fds : g # f /\ Watch!Contains(ready, g) =>
                             Watch!Contains(Watch!Unlisted(f), g)
<1>1. ready \in Seq(Fds) /\ DOMAIN ready = 1..Len(ready) /\ Len(ready) \in Nat
  BY LenProperties DEF WatchTyped
<1>2. CASE Watch!Places(f) = {}
  BY <1>1, <1>2 DEF Watch!Places, Watch!Unlisted, Listed, Watch!Contains
<1>3. CASE Watch!Places(f) # {}
  <2>1. PICK k \in Watch!Places(f) : k = CHOOSE i \in Watch!Places(f) : TRUE
    BY <1>3
  <2> DEFINE r == Watch!RemoveAt(ready, k)
  <2>2. k \in 1..Len(ready) /\ ready[k] = f
    BY <1>1, <2>1 DEF Watch!Places
  <2>3. Watch!Unlisted(f) = r
    BY <1>3, <2>1 DEF Watch!Unlisted
  <2>4. /\ r \in Seq(Fds) /\ Len(r) = Len(ready) - 1
        /\ \A i \in 1..Len(ready) - 1 : r[i] = ready[IF i < k THEN i ELSE i + 1]
    BY <1>1, <2>2, RemovedAt
  <2> HIDE DEF r
  <2>5. ASSUME NEW i \in 1..Len(r) PROVE r[i] # f /\ Watch!Contains(ready, r[i])
    <3> DEFINE j == IF i < k THEN i ELSE i + 1
    <3>1. j \in 1..Len(ready) /\ j # k
      BY <1>1, <2>2, <2>4
    <3>2. r[i] = ready[j]
      BY <1>1, <2>4
    <3> HIDE DEF j
    <3>3. QED
      BY <2>2, <3>1, <3>2 DEF Listed, Watch!Contains
  <2>6. \A i, j \in 1..Len(r) : r[i] = r[j] => i = j
    BY <1>1, <2>2, <2>4 DEF Listed
  <2>7. ASSUME NEW g \in Fds, g # f, Watch!Contains(ready, g) PROVE Watch!Contains(r, g)
    <3>1. PICK i \in 1..Len(ready) : ready[i] = g
      BY <2>7 DEF Watch!Contains
    <3>2. i # k
      BY <3>1, <2>2, <2>7
    <3>3. CASE i < k
      BY <1>1, <3>1, <3>3, <2>2, <2>4 DEF Watch!Contains
    <3>4. CASE i > k
      <4>1. i - 1 \in 1..Len(r) /\ r[i - 1] = ready[i]
        BY <1>1, <3>4, <2>2, <2>4
      <4>2. QED
        BY <4>1, <3>1 DEF Watch!Contains
    <3>5. QED
      BY <1>1, <2>2, <3>2, <3>3, <3>4
  <2>8. QED
    BY <2>3, <2>4, <2>5, <2>6, <2>7
<1>4. QED
  BY <1>2, <1>3

LEMMA Appended ==
  ASSUME NEW s \in Seq(Fds), NEW f \in Fds
  PROVE  /\ Append(s, f) \in Seq(Fds) /\ Len(Append(s, f)) = Len(s) + 1 /\ Len(s) \in Nat
         /\ \A i \in 1..Len(s) : Append(s, f)[i] = s[i]
         /\ Append(s, f)[Len(s) + 1] = f
         /\ \A g : Watch!Contains(Append(s, f), g) <=> Watch!Contains(s, g) \/ g = f
<1>1. /\ Append(s, f) \in Seq(Fds) /\ Len(Append(s, f)) = Len(s) + 1 /\ Len(s) \in Nat
      /\ \A i \in 1..Len(s) : Append(s, f)[i] = s[i]
      /\ Append(s, f)[Len(s) + 1] = f
  BY AppendProperties, LenProperties
<1> DEFINE r == Append(s, f)
<1> HIDE DEF r
<1>2. /\ Len(r) = Len(s) + 1 /\ Len(s) \in Nat /\ r[Len(s) + 1] = f
      /\ \A i \in 1..Len(s) : r[i] = s[i]
  BY <1>1 DEF r
<1>3. ASSUME NEW g PROVE Watch!Contains(r, g) <=> Watch!Contains(s, g) \/ g = f
  <2>1. ASSUME Watch!Contains(r, g), g # f PROVE Watch!Contains(s, g)
    <3>1. PICK i \in 1..Len(s) + 1 : r[i] = g
      BY <1>2, <2>1 DEF Watch!Contains
    <3>2. i \in 1..Len(s)
      BY <1>2, <2>1, <3>1
    <3>3. QED
      BY <1>2, <3>1, <3>2 DEF Watch!Contains
  <2>2. ASSUME Watch!Contains(s, g) PROVE Watch!Contains(r, g)
    BY <1>2, <2>2 DEF Watch!Contains
  <2>3. ASSUME g = f PROVE Watch!Contains(r, g)
    <3>1. Len(s) + 1 \in 1..Len(r)
      BY <1>2
    <3>2. QED
      BY <1>2, <2>3, <3>1 DEF Watch!Contains
  <2>4. QED
    BY <2>1, <2>2, <2>3
<1>4. QED
  BY <1>1, <1>3 DEF r

LEMMA AppendedListed ==
  ASSUME ready \in Seq(Fds), Listed, NEW f \in Fds, ~Watch!Contains(ready, f)
  PROVE  \A i, j \in 1..Len(Append(ready, f)) :
           Append(ready, f)[i] = Append(ready, f)[j] => i = j
<1> DEFINE r == Append(ready, f)
<1>1. /\ Len(r) = Len(ready) + 1 /\ Len(ready) \in Nat /\ r[Len(ready) + 1] = f
      /\ \A i \in 1..Len(ready) : r[i] = ready[i]
  BY Appended
<1> HIDE DEF r
<1>2. ASSUME NEW i \in 1..Len(r), NEW j \in 1..Len(r), r[i] = r[j] PROVE i = j
  <2>1. i \in 1..Len(ready) \/ i = Len(ready) + 1
    BY <1>1
  <2>2. j \in 1..Len(ready) \/ j = Len(ready) + 1
    BY <1>1
  <2>3. QED
    BY <1>1, <1>2, <2>1, <2>2 DEF Listed, Watch!Contains
<1>3. QED
  BY <1>2 DEF r

\* The initial state.
LEMMA WatchInvInit == ASSUME Watch!Init PROVE WatchInv
<1> USE TokensAre DEF Watch!Init
<1>1. WatchTyped
  <2>1. ready \in Seq(Fds)
    OBVIOUS
  <2>2. QED
    BY <2>1 DEF WatchTyped, PlaceOK, Places, Watch!Waiting
<1>2. TokensLead
  BY DEF TokensLead
<1>3. Apart /\ Listed /\ Watch!NoFalseClose /\ Kept
  BY DEF Apart, Watch!Open, Listed, Watch!NoFalseClose, Kept
<1>4. QED
  BY <1>1, <1>2, <1>3 DEF WatchInv

\* A task goes on and touches nothing that is shared.
LEMMA PhaseMoves ==
  ASSUME WatchInv, NEW c \in Conns, Watch!Open(c), phase[c] # "ending",
         NEW p \in {"idle", "noticed", "failed", "ending"} \cup Watch!Waiting, Watch!Goto(c, p),
         UNCHANGED <<fd, token, dropped, Watch!shared, Watch!kernel, peer>>
  PROVE  WatchInv'
<1> USE DEF WatchInv, Watch!Goto, Watch!shared, Watch!kernel
<1>1. WatchTyped'
  <2>1. phase' \in [Conns -> Places]
    BY DEF WatchTyped, Places
  <2>2. ASSUME NEW d \in Conns PROVE PlaceOK(d)'
    BY DEF WatchTyped, PlaceOK, Watch!Open, Watch!Waiting
  <2>3. QED
    BY <2>1, <2>2 DEF WatchTyped
<1>2. \A d \in Conns : Watch!Open(d)' <=> Watch!Open(d)
  BY DEF WatchTyped, Watch!Open, Watch!Waiting
<1>3. TokensLead' /\ Apart'
  BY <1>2 DEF TokensLead, Apart
<1>4. Listed' /\ Watch!NoFalseClose' /\ Kept'
  BY DEF Listed, Watch!NoFalseClose, Kept, Watch!Contains
<1>5. QED
  BY <1>1, <1>3, <1>4

\* The client sends or goes.
LEMMA EventMoves ==
  ASSUME WatchInv, NEW c \in Conns, peer[c] # "gone",
         NEW v \in {"sent", "gone"}, peer' = [peer EXCEPT ![c] = v],
         ready' = Watch!Event(c), UNCHANGED <<Watch!task, Watch!shared, interest>>
  PROVE  WatchInv'
<1> USE DEF WatchInv, Watch!task, Watch!shared
<1>1. ready \in Seq(Fds)
  BY DEF WatchTyped
<1>2. CASE ready' = ready /\ (token[c] # Watch!NoToken => Watch!Contains(ready, fd[c]))
  <2>1. WatchTyped' /\ TokensLead' /\ Apart' /\ Listed'
    BY <1>2 DEF WatchTyped, PlaceOK, TokensLead, Apart, Watch!Open, Listed
  <2>2. Watch!NoFalseClose' /\ Kept'
    BY <1>2 DEF WatchTyped, Watch!NoFalseClose, Kept, Watch!Contains
  <2>3. QED
    BY <2>1, <2>2
<1>3. CASE /\ ready' = Append(ready, fd[c]) /\ ~Watch!Contains(ready, fd[c])
           /\ fd[c] \in Fds /\ interest[fd[c]] # Watch!NoToken
  <2>1. ready' \in Seq(Fds) /\
        \A g : Watch!Contains(ready', g) <=> Watch!Contains(ready, g) \/ g = fd[c]
    BY <1>1, <1>3, Appended
  <2>2. WatchTyped' /\ TokensLead' /\ Apart'
    BY <2>1 DEF WatchTyped, PlaceOK, TokensLead, Apart, Watch!Open
  <2>3. Listed'
    <3>1. \A i \in 1..Len(ready') : interest'[ready'[i]] # Watch!NoToken
      <4>1. \A i \in 1..Len(ready') : Watch!Contains(ready', ready'[i])
        BY DEF Watch!Contains
      <4>2. \A g : Watch!Contains(ready, g) => interest[g] # Watch!NoToken
        BY DEF Watch!Contains, Listed
      <4>3. QED
        BY <1>3, <2>1, <4>1, <4>2
    <3>2. QED
      BY <1>1, <1>3, <3>1, AppendedListed DEF Listed
  <2>4. Watch!NoFalseClose' /\ Kept'
    BY <2>1 DEF WatchTyped, Watch!NoFalseClose, Kept
  <2>5. QED
    BY <2>2, <2>3, <2>4
<1>4. ASSUME token[c] # Watch!NoToken PROVE Watch!HasIo(c) /\ interest[fd[c]] # Watch!NoToken
  BY <1>4, Watched, IoIsOpen, TokensAre
<1>5. ASSUME Watch!HasIo(c) PROVE fd[c] \in Fds
  BY <1>5 DEF Watch!HasIo, Watch!Open, WatchTyped, PlaceOK, Places
<1>6. QED
  BY <1>2, <1>3, <1>4, <1>5 DEF Watch!Event

\* A descriptor that is free is not watched.
LEMMA FreeIsUnwatched ==
  ASSUME WatchInv, NEW f \in Watch!Free
  PROVE  /\ interest[f] = Watch!NoToken /\ ~Watch!Contains(ready, f)
         /\ \A d \in Conns : fd[d] = f => ~Watch!Open(d) /\ token[d] = Watch!NoToken
<1> USE DEF WatchInv
<1>1. f \in Fds /\ \A d \in Conns : fd[d] = f => ~Watch!Open(d)
  BY IoIsOpen DEF Watch!Free, Watch!Owner
<1>2. \A d \in Conns : fd[d] = f => token[d] = Watch!NoToken
  BY <1>1, Watched
<1>3. interest[f] = Watch!NoToken
  BY <1>1, <1>2 DEF TokensLead
<1>4. ~Watch!Contains(ready, f)
  BY <1>3 DEF Watch!Contains, Listed
<1>5. QED
  BY <1>1, <1>2, <1>3, <1>4

LEMMA AcceptMoves ==
  ASSUME WatchInv, NEW c \in Conns, NEW f \in Fds, Watch!Accept(c, f)
  PROVE  WatchInv'
<1> DEFINE t == Watch!FreshToken
<1>1. t \in Watch!Tokens /\ states[t] = Watch!NoConn /\ Watch!NextToken \in Watch!Tokens /\
      t # Watch!NoToken /\ Watch!NoConn \notin Conns
  BY Fresh, TokensAre DEF Watch!Accept, WatchInv
<1>2. /\ phase[c] = "new" /\ f \in Watch!Free /\ phase' = [phase EXCEPT ![c] = "idle"]
      /\ fd' = [fd EXCEPT ![c] = f] /\ token' = [token EXCEPT ![c] = t]
      /\ next' = Watch!NextToken
      /\ states' = [states EXCEPT ![t] = c] /\ interest' = [interest EXCEPT ![f] = t]
      /\ ready' = IF peer[c] # "quiet" THEN Append(ready, f) ELSE ready
      /\ UNCHANGED <<closed, peer, dropped>>
  BY DEF Watch!Accept, Watch!Watch
<1> HIDE DEF t
<1>3. /\ interest[f] = Watch!NoToken /\ ~Watch!Contains(ready, f)
      /\ \A d \in Conns : fd[d] = f => ~Watch!Open(d) /\ token[d] = Watch!NoToken
  BY <1>2, FreeIsUnwatched
<1>4. /\ ready' \in Seq(Fds) /\ \A g : Watch!Contains(ready, g) => Watch!Contains(ready', g)
      /\ \A g : Watch!Contains(ready', g) => Watch!Contains(ready, g) \/ g = f
      /\ peer[c] # "quiet" => Watch!Contains(ready', f)
  BY <1>2, Appended DEF WatchInv, WatchTyped
<1>5. WatchTyped'
  BY <1>1, <1>2, <1>4 DEF WatchInv, WatchTyped, PlaceOK, Places
<1>6. ASSUME NEW d \in Conns, d # c, token[d] # Watch!NoToken
      PROVE  fd[d] # f /\ token[d] # t /\ interest[fd[d]] = token[d] /\ states[token[d]] = d
             /\ fd[d] \in Fds /\ token[d] \in Watch!Tokens
  BY <1>1, <1>3, <1>6, Watched DEF WatchInv
<1>7. TokensLead'
  <2>1. \A d \in Conns : token'[d] # Watch!NoToken =>
                           interest'[fd'[d]] = token'[d] /\ states'[token'[d]] = d
    <3>1. interest'[fd'[c]] = token'[c] /\ states'[token'[c]] = c
      BY <1>1, <1>2 DEF WatchInv, WatchTyped
    <3>2. ASSUME NEW d \in Conns, d # c, token'[d] # Watch!NoToken
          PROVE  interest'[fd'[d]] = token'[d] /\ states'[token'[d]] = d
      BY <1>2, <1>6, <3>2 DEF WatchInv, WatchTyped
    <3>3. QED
      BY <3>1, <3>2
  <2>2. \A u \in Watch!Tokens : states'[u] # Watch!NoConn => token'[states'[u]] = u
    <3>1. ASSUME NEW u \in Watch!Tokens, states[u] # Watch!NoConn
          PROVE  states[u] # c /\ states[u] \in Conns
      <4>1. token[c] = Watch!NoToken /\ Watch!NoToken \notin Watch!Tokens
        BY <1>2, TokensAre DEF WatchInv, WatchTyped, PlaceOK, Places
      <4>2. states[u] \in Conns /\ token[states[u]] = u
        BY <3>1 DEF WatchInv, WatchTyped, TokensLead
      <4>3. QED
        BY <4>1, <4>2
    <3>2. QED
      BY <1>1, <1>2, <3>1 DEF WatchInv, WatchTyped, TokensLead
  <2>3. \A g \in Fds : interest'[g] # Watch!NoToken =>
                         \E d \in Conns : token'[d] # Watch!NoToken /\ fd'[d] = g
    <3>1. token'[c] # Watch!NoToken /\ fd'[c] = f
      BY <1>1, <1>2 DEF WatchInv, WatchTyped
    <3>2. token[c] = Watch!NoToken
      BY <1>2 DEF WatchInv, WatchTyped, PlaceOK, Places
    <3>3. ASSUME NEW g \in Fds, g # f, interest'[g] # Watch!NoToken
          PROVE  \E d \in Conns : token'[d] # Watch!NoToken /\ fd'[d] = g
      <4>1. interest[g] # Watch!NoToken
        BY <1>2, <3>3 DEF WatchInv, WatchTyped
      <4>2. PICK d \in Conns : token[d] # Watch!NoToken /\ fd[d] = g
        BY <4>1 DEF WatchInv, TokensLead
      <4>3. QED
        BY <1>2, <3>2, <4>2 DEF WatchInv, WatchTyped
    <3>4. QED
      BY <3>1, <3>3
  <2>4. QED
    BY <2>1, <2>2, <2>3 DEF TokensLead
<1>8. Apart'
  BY <1>2, <1>3 DEF WatchInv, WatchTyped, Apart, Watch!Open
<1>9. Listed'
  <2>1. \A i \in 1..Len(ready') : interest'[ready'[i]] # Watch!NoToken
    <3>1. \A i \in 1..Len(ready') : ready'[i] \in Fds /\ Watch!Contains(ready', ready'[i])
      BY <1>4 DEF Watch!Contains
    <3>2. \A g : Watch!Contains(ready, g) => interest[g] # Watch!NoToken
      BY DEF Watch!Contains, Listed, WatchInv
    <3>3. QED
      BY <1>1, <1>2, <1>4, <3>1, <3>2 DEF WatchInv, WatchTyped
  <2>2. \A i, j \in 1..Len(ready') : ready'[i] = ready'[j] => i = j
    <3>1. CASE peer[c] # "quiet"
      BY <1>2, <1>3, <3>1, AppendedListed DEF WatchInv, WatchTyped
    <3>2. CASE peer[c] = "quiet"
      BY <1>2, <3>2 DEF WatchInv, Listed
    <3>3. QED
      BY <3>1, <3>2
  <2>3. QED
    BY <2>1, <2>2 DEF Listed
<1>10. Watch!NoFalseClose'
  BY <1>2 DEF WatchInv, Watch!NoFalseClose
<1>11. Kept'
  BY <1>2, <1>4, <1>6 DEF WatchInv, WatchTyped, Kept
<1>12. QED
  BY <1>5, <1>7, <1>8, <1>9, <1>10, <1>11 DEF WatchInv

LEMMA AcceptUnwatchedMoves ==
  ASSUME WatchInv, NEW c \in Conns, NEW f \in Fds, Watch!AcceptUnwatched(c, f)
  PROVE  WatchInv'
<1>1. /\ phase[c] = "new" /\ f \in Watch!Free /\ phase' = [phase EXCEPT ![c] = "failed"]
      /\ fd' = [fd EXCEPT ![c] = f] /\ next' \in Watch!Tokens
      /\ UNCHANGED <<token, states, closed, interest, ready, peer, dropped>>
  BY Fresh DEF Watch!AcceptUnwatched, WatchInv, Watch!kernel
<1>2. /\ interest[f] = Watch!NoToken /\ token[c] = Watch!NoToken
      /\ \A d \in Conns : fd[d] = f => ~Watch!Open(d) /\ token[d] = Watch!NoToken
  BY <1>1, FreeIsUnwatched DEF WatchInv, WatchTyped, PlaceOK, Places
<1>3. WatchTyped'
  BY <1>1, <1>2 DEF WatchInv, WatchTyped, PlaceOK, Places
<1>4. TokensLead'
  <2>1. \A d \in Conns : token[d] # Watch!NoToken => fd'[d] = fd[d]
    BY <1>1, <1>2 DEF WatchInv, WatchTyped
  <2>2. QED
    BY <1>1, <2>1 DEF WatchInv, TokensLead
<1>5. Apart'
  BY <1>1, <1>2 DEF WatchInv, WatchTyped, Apart, Watch!Open
<1>6. Listed' /\ Watch!NoFalseClose'
  BY <1>1 DEF WatchInv, Listed, Watch!NoFalseClose
<1>7. Kept'
  BY <1>1, <1>2 DEF WatchInv, WatchTyped, Kept, Watch!Contains
<1>8. QED
  BY <1>3, <1>4, <1>5, <1>6, <1>7 DEF WatchInv

\* A descriptor goes out of the kernel's lists, and nothing else is watched under it.
LEMMA Withdrawn ==
  ASSUME WatchInv, NEW f \in Fds, Watch!Unwatch(f)
  PROVE  /\ interest' \in [Fds -> Watch!Tokens \cup {Watch!NoToken}] /\ ready' \in Seq(Fds)
         /\ interest' = [interest EXCEPT ![f] = Watch!NoToken] /\ Listed'
         /\ \A g \in Fds : g # f /\ Watch!Contains(ready, g) => Watch!Contains(ready', g)
<1> DEFINE r == Watch!Unlisted(f)
<1>1. /\ r \in Seq(Fds)
      /\ \A i \in 1..Len(r) : r[i] # f /\ Watch!Contains(ready, r[i])
      /\ \A i, j \in 1..Len(r) : r[i] = r[j] => i = j
      /\ \A g \in Fds : g # f /\ Watch!Contains(ready, g) => Watch!Contains(r, g)
  BY UnlistedIs DEF WatchInv
<1>2. ready' = r /\ interest' = [interest EXCEPT ![f] = Watch!NoToken]
  BY DEF Watch!Unwatch
<1> HIDE DEF r
<1>3. interest' \in [Fds -> Watch!Tokens \cup {Watch!NoToken}]
  BY <1>2 DEF WatchInv, WatchTyped
<1>4. \A g : Watch!Contains(ready, g) => interest[g] # Watch!NoToken
  BY DEF Watch!Contains, Listed, WatchInv
<1>5. \A i \in 1..Len(r) : r[i] \in Fds
  BY <1>1
<1>6. Listed'
  BY <1>1, <1>2, <1>4, <1>5 DEF Listed, WatchInv, WatchTyped
<1>7. QED
  BY <1>1, <1>2, <1>3, <1>6

LEMMA DropMonitorMoves ==
  ASSUME WatchInv, NEW c \in Conns, Watch!DropMonitor(c)
  PROVE  WatchInv'
<1>1. /\ phase[c] = "ending" /\ dropped[c] \in {0, 1}
      /\ Watch!Fields[dropped[c] + 1] = "peer_close"
      /\ dropped' = [dropped EXCEPT ![c] = @ + 1]
      /\ token' = [token EXCEPT ![c] = Watch!NoToken]
      /\ phase' = [phase EXCEPT ![c] = IF dropped[c] = 1 THEN "done" ELSE @]
      /\ UNCHANGED <<fd, closed, next, peer>>
  BY DEF Watch!DropMonitor, Watch!Drops, WatchInv, WatchTyped
<1>2. dropped[c] = 0
  BY <1>1 DEF Watch!Fields
<1>3. /\ phase' = phase /\ dropped' = [dropped EXCEPT ![c] = 1] /\ fd[c] \in Fds
  BY <1>1, <1>2 DEF WatchInv, WatchTyped, PlaceOK, Places
<1>4. CASE token[c] = Watch!NoToken
  <2>1. UNCHANGED <<interest, ready, states, token>>
    BY <1>1, <1>4 DEF Watch!DropMonitor, Watch!Monitoring, Watch!kernel, WatchInv, WatchTyped
  <2>2. WatchTyped'
    BY <1>1, <1>3, <1>4, <2>1 DEF WatchInv, WatchTyped, PlaceOK, Places
  <2>3. TokensLead' /\ Apart' /\ Listed' /\ Watch!NoFalseClose' /\ Kept'
    BY <1>1, <1>3, <2>1 DEF WatchInv, TokensLead, Apart, Watch!Open, Listed,
                            Watch!NoFalseClose, Kept, Watch!Contains
  <2>4. QED
    BY <2>2, <2>3 DEF WatchInv
<1>5. CASE token[c] # Watch!NoToken
  <2> DEFINE t == token[c]
             f == fd[c]
  <2>1. Watch!Unwatch(f) /\ states' = [states EXCEPT ![t] = Watch!NoConn]
    BY <1>5 DEF Watch!DropMonitor, Watch!Monitoring
  <2>2. /\ interest' \in [Fds -> Watch!Tokens \cup {Watch!NoToken}] /\ ready' \in Seq(Fds)
        /\ interest' = [interest EXCEPT ![f] = Watch!NoToken] /\ Listed'
        /\ \A g \in Fds : g # f /\ Watch!Contains(ready, g) => Watch!Contains(ready', g)
    BY <1>3, <2>1, Withdrawn
  <2>3. t \in Watch!Tokens /\ interest[f] = t /\ states[t] = c /\ Watch!Open(c)
    BY <1>5, Watched DEF WatchInv
  <2>4. ASSUME NEW d \in Conns, d # c, token[d] # Watch!NoToken
        PROVE  fd[d] # f /\ token[d] # t /\ interest[fd[d]] = token[d] /\ states[token[d]] = d
               /\ fd[d] \in Fds /\ token[d] \in Watch!Tokens
    <3>1. /\ Watch!Open(d) /\ interest[fd[d]] = token[d] /\ states[token[d]] = d
          /\ fd[d] \in Fds /\ token[d] \in Watch!Tokens
      BY <2>4, Watched DEF WatchInv
    <3>2. QED
      BY <2>3, <2>4, <3>1 DEF WatchInv, Apart
  <2>5. WatchTyped'
    BY <1>1, <1>3, <2>1, <2>2, <2>3 DEF WatchInv, WatchTyped, PlaceOK, Places
  <2>6. token'[c] = Watch!NoToken /\ \A d \in Conns : d # c => token'[d] = token[d]
    BY <1>1 DEF WatchInv, WatchTyped
  <2>7. TokensLead'
    <3>1. \A d \in Conns : token'[d] # Watch!NoToken =>
                             interest'[fd'[d]] = token'[d] /\ states'[token'[d]] = d
      BY <1>1, <2>1, <2>2, <2>4, <2>6 DEF WatchInv, WatchTyped
    <3>2. \A u \in Watch!Tokens : states'[u] # Watch!NoConn => token'[states'[u]] = u
      BY <1>1, <2>1, <2>3 DEF WatchInv, WatchTyped, TokensLead
    <3>3. ASSUME NEW g \in Fds, interest'[g] # Watch!NoToken
          PROVE  \E d \in Conns : token'[d] # Watch!NoToken /\ fd'[d] = g
      <4>1. g # f /\ interest[g] # Watch!NoToken
        BY <2>2, <3>3 DEF WatchInv, WatchTyped
      <4>2. PICK d \in Conns : token[d] # Watch!NoToken /\ fd[d] = g
        BY <4>1 DEF WatchInv, TokensLead
      <4>3. QED
        BY <1>1, <2>6, <4>1, <4>2
    <3>4. QED
      BY <3>1, <3>2, <3>3 DEF TokensLead
  <2>8. Apart' /\ Watch!NoFalseClose'
    BY <1>1, <1>3 DEF WatchInv, Apart, Watch!Open, Watch!NoFalseClose
  <2>9. Kept'
    BY <1>1, <2>2, <2>4, <2>6 DEF WatchInv, Kept
  <2>10. QED
    BY <2>2, <2>5, <2>7, <2>8, <2>9 DEF WatchInv
<1>6. QED
  BY <1>4, <1>5

LEMMA DropIoMoves ==
  ASSUME WatchInv, NEW c \in Conns, Watch!DropIo(c)
  PROVE  WatchInv'
<1>1. /\ phase[c] = "ending" /\ dropped[c] \in {0, 1} /\ Watch!Fields[dropped[c] + 1] = "io"
      /\ dropped' = [dropped EXCEPT ![c] = @ + 1] /\ Watch!Unwatch(fd[c])
      /\ phase' = [phase EXCEPT ![c] = IF dropped[c] = 1 THEN "done" ELSE @]
      /\ UNCHANGED <<fd, token, closed, states, next, peer>>
  BY DEF Watch!DropIo, Watch!Drops, WatchInv, WatchTyped, Watch!shared
<1>2. dropped[c] = 1
  BY <1>1 DEF Watch!Fields
<1>3. /\ phase' = [phase EXCEPT ![c] = "done"] /\ dropped' = [dropped EXCEPT ![c] = 2]
      /\ fd[c] \in Fds /\ token[c] = Watch!NoToken /\ Watch!Open(c)
  BY <1>1, <1>2 DEF WatchInv, WatchTyped, PlaceOK, Watch!Open
<1>4. /\ interest' \in [Fds -> Watch!Tokens \cup {Watch!NoToken}] /\ ready' \in Seq(Fds)
      /\ interest' = [interest EXCEPT ![fd[c]] = Watch!NoToken] /\ Listed'
      /\ \A g \in Fds : g # fd[c] /\ Watch!Contains(ready, g) => Watch!Contains(ready', g)
  BY <1>1, <1>3, Withdrawn
<1>5. ASSUME NEW d \in Conns, token[d] # Watch!NoToken PROVE fd[d] # fd[c] /\ fd[d] \in Fds
  <2>1. Watch!Open(d) /\ d # c /\ fd[d] \in Fds
    BY <1>3, <1>5, Watched DEF WatchInv
  <2>2. QED
    BY <1>3, <2>1 DEF WatchInv, Apart
<1>6. WatchTyped'
  BY <1>1, <1>3, <1>4 DEF WatchInv, WatchTyped, PlaceOK, Places
<1>7. TokensLead'
  BY <1>1, <1>4, <1>5 DEF WatchInv, WatchTyped, TokensLead
<1>8. Apart' /\ Watch!NoFalseClose'
  BY <1>1, <1>3 DEF WatchInv, WatchTyped, Apart, Watch!Open, Watch!NoFalseClose
<1>9. Kept'
  BY <1>1, <1>4, <1>5 DEF WatchInv, Kept
<1>10. QED
  BY <1>4, <1>6, <1>7, <1>8, <1>9 DEF WatchInv

LEMMA PollMoves ==
  ASSUME WatchInv, NEW c \in Conns, Watch!Poll(c)
  PROVE  WatchInv'
<1> DEFINE n == Len(Watch!Taken)
<1>1. /\ phase[c] = "poll" /\ closed' = closed \cup Watch!Found(c)
      /\ ready' = SubSeq(ready, n + 1, Len(ready)) /\ phase' = [phase EXCEPT ![c] = "sleep"]
      /\ UNCHANGED <<fd, token, dropped, states, next, interest, peer>>
  BY DEF Watch!Poll, Watch!Goto
<1>2. /\ ready \in Seq(Fds) /\ Len(ready) \in Nat /\ n \in 0..Len(ready)
      /\ DOMAIN Watch!Taken = 1..n
      /\ \A i \in 1..n : Watch!Taken[i] = ready[i]
  <2> DEFINE m == IF Len(ready) < Capacity THEN Len(ready) ELSE Capacity
  <2>1. ready \in Seq(Fds) /\ Len(ready) \in Nat
    BY LenProperties DEF WatchInv, WatchTyped
  <2>2. m \in 0..Len(ready)
    BY <2>1, TokensAre
  <2>3. Watch!Taken = SubSeq(ready, 1, m)
    BY DEF Watch!Taken
  <2> HIDE DEF m
  <2>4. /\ SubSeq(ready, 1, m) \in Seq(Fds) /\ Len(SubSeq(ready, 1, m)) = m
        /\ \A i \in 1..m : SubSeq(ready, 1, m)[i] = ready[i]
    BY <2>1, <2>2, SubSeqProperties
  <2>5. QED
    BY <2>1, <2>2, <2>3, <2>4, LenProperties
<1> HIDE DEF n
<1>3. /\ ready' \in Seq(Fds) /\ Len(ready') = Len(ready) - n
      /\ \A i \in 1..Len(ready) - n : ready'[i] = ready[n + i]
  BY <1>1, <1>2, SubSeqProperties
<1>4. \A i \in 1..n : Watch!Taken[i] \in Fds /\ interest[Watch!Taken[i]] # Watch!NoToken
  BY <1>2 DEF WatchInv, Listed
<1>5. Watch!Found(c) \subseteq Conns /\ \A d \in Watch!Found(c) : peer[d] = "gone"
  <2> SUFFICES ASSUME NEW i \in 1..n, Watch!ReadClosed(Watch!Taken[i])
               PROVE  states[interest[Watch!Taken[i]]] \in Conns /\
                      peer[states[interest[Watch!Taken[i]]]] = "gone"
    BY <1>2 DEF Watch!Found
  <2>1. PICK d \in Conns : Watch!Owner(Watch!Taken[i]) = {d} /\
        states[interest[Watch!Taken[i]]] = d
    BY <1>4, OneOwner DEF WatchInv
  <2>2. QED
    BY <2>1 DEF Watch!ReadClosed
<1>6. ASSUME NEW d \in Conns, token[d] # Watch!NoToken, peer[d] = "gone", NEW i \in 1..n,
             ready[i] = fd[d]
      PROVE  d \in Watch!Found(c)
  <2>1. Watch!Taken[i] = fd[d] /\ interest[fd[d]] = token[d] /\ states[token[d]] = d /\
        Watch!HasIo(d) /\ d # Watch!NoConn
    BY <1>2, <1>6, Watched, IoIsOpen, TokensAre DEF WatchInv
  <2>2. Watch!ReadClosed(Watch!Taken[i])
    BY <1>6, <2>1 DEF Watch!ReadClosed, Watch!Owner
  <2>3. QED
    BY <1>2, <2>1, <2>2 DEF Watch!Found
<1>7. WatchTyped'
  BY <1>1, <1>3, <1>5 DEF WatchInv, WatchTyped, PlaceOK, Places, Watch!Waiting
<1>8. TokensLead' /\ Apart'
  BY <1>1 DEF WatchInv, WatchTyped, TokensLead, Apart, Watch!Open, Watch!Waiting
<1>9. Listed'
  BY <1>1, <1>2, <1>3 DEF WatchInv, Listed
<1>10. Watch!NoFalseClose'
  BY <1>1, <1>5 DEF WatchInv, Watch!NoFalseClose
<1>11. Kept'
  <2> SUFFICES ASSUME NEW d \in Conns, token[d] # Watch!NoToken, peer[d] = "gone",
                      d \notin closed'
               PROVE  Watch!Contains(ready', fd[d])
    BY <1>1 DEF Kept
  <2>1. PICK i \in 1..Len(ready) : ready[i] = fd[d]
    BY <1>1 DEF WatchInv, Kept, Watch!Contains
  <2>2. i \notin 1..n
    BY <1>1, <1>6, <2>1
  <2>3. i - n \in 1..Len(ready') /\ n + (i - n) = i
    BY <1>2, <1>3, <2>2
  <2>4. QED
    BY <1>3, <2>1, <2>3 DEF Watch!Contains
<1>12. QED
  BY <1>7, <1>8, <1>9, <1>10, <1>11 DEF WatchInv

LEMMA WatchInvStep == ASSUME WatchInv, [Watch!Next]_Watch!vars PROVE WatchInv'
<1>1. ASSUME NEW c \in Conns, NEW f \in Fds,
             Watch!Accept(c, f) \/ Watch!AcceptUnwatched(c, f)
      PROVE  WatchInv'
  BY <1>1, AcceptMoves, AcceptUnwatchedMoves
<1>2. ASSUME NEW c \in Conns, Watch!Sends(c) \/ Watch!Goes(c) PROVE WatchInv'
  BY <1>2, EventMoves DEF Watch!Sends, Watch!Goes
<1>3. ASSUME NEW c \in Conns, Watch!Wait(c) \/ Watch!Check(c) \/ Watch!PollFails(c) \/
             Watch!Wake(c) \/ Watch!Cancel(c) \/ Watch!End(c)
      PROVE  WatchInv'
  <2>1. Watch!Open(c) /\ phase[c] # "ending"
    BY <1>3 DEF Watch!Wait, Watch!Check, Watch!PollFails, Watch!Wake, Watch!Cancel, Watch!End,
                Watch!Open
  <2>2. PICK p \in {"idle", "noticed", "failed", "ending"} \cup Watch!Waiting :
          Watch!Goto(c, p) /\ UNCHANGED <<fd, token, dropped, Watch!shared, Watch!kernel, peer>>
    BY <1>3 DEF Watch!Wait, Watch!Check, Watch!PollFails, Watch!Wake, Watch!Cancel, Watch!End,
                Watch!Waiting
  <2>3. QED
    BY <2>1, <2>2, PhaseMoves
<1>4. ASSUME NEW c \in Conns, Watch!Poll(c) \/ Watch!DropMonitor(c) \/ Watch!DropIo(c)
      PROVE  WatchInv'
  BY <1>4, PollMoves, DropMonitorMoves, DropIoMoves
<1>5. CASE UNCHANGED Watch!vars
  <2>1. WatchTyped' /\ TokensLead' /\ Apart'
    BY <1>5 DEF Watch!vars, Watch!task, Watch!shared, Watch!kernel, WatchInv, WatchTyped,
                PlaceOK, TokensLead, Apart, Watch!Open
  <2>2. Listed' /\ Watch!NoFalseClose' /\ Kept'
    BY <1>5 DEF Watch!vars, Watch!task, Watch!shared, Watch!kernel, WatchInv, Listed,
                Watch!NoFalseClose, Kept, Watch!Contains
  <2>3. QED
    BY <2>1, <2>2 DEF WatchInv
<1>6. QED
  BY <1>1, <1>2, <1>3, <1>4, <1>5 DEF Watch!Next

\* Every descriptor in the list is watched under a token of its own.
LEMMA ListIsShort == ASSUME WatchInv PROVE Len(ready) <= TokenLimit
<1> DEFINE places == 1..Len(ready)
           h == [i \in places |-> interest[ready[i]]]
<1>1. ready \in Seq(Fds) /\ Len(ready) \in Nat
  BY LenProperties DEF WatchInv, WatchTyped
<1>2. TokenLimit \in Nat /\ TokenLimit > 0
  BY TokensAre
<1>3. \A i \in places : ready[i] \in Fds /\ interest[ready[i]] \in Watch!Tokens
  BY <1>1 DEF WatchInv, WatchTyped, Listed
<1>4. ASSUME NEW i \in places, NEW j \in places,
             interest[ready[i]] = interest[ready[j]]
      PROVE  i = j
  <2>1. PICK c \in Conns : fd[c] = ready[i] /\ states[interest[ready[i]]] = c
    BY <1>3, OneOwner DEF WatchInv, Listed
  <2>2. PICK d \in Conns : fd[d] = ready[j] /\ states[interest[ready[j]]] = d
    BY <1>3, OneOwner DEF WatchInv, Listed
  <2>3. ready[i] = ready[j]
    BY <1>4, <2>1, <2>2
  <2>4. QED
    BY <2>3 DEF WatchInv, Listed
<1>5. h \in Injection(places, Watch!Tokens)
  BY <1>3, <1>4 DEF Injection, IsInjective
<1>6. IsFiniteSet(Watch!Tokens) /\ Cardinality(Watch!Tokens) = TokenLimit
  BY <1>2, FS_Interval DEF Watch!Tokens
<1>7. Cardinality(places) <= Cardinality(Watch!Tokens)
  BY <1>5, <1>6, FS_Injection DEF ExistsInjection
<1>8. Cardinality(places) = Len(ready)
  BY <1>1, FS_Interval
<1>9. QED
  BY <1>6, <1>7, <1>8

LEMMA WatchInvSuffices == ASSUME WatchInv PROVE PeerCloseIsTrue
<1>1. Watch!TypeOK
  BY ListIsShort DEF WatchInv, WatchTyped, Places, Watch!TypeOK
<1>2. Watch!RegistrationIsOwn /\ Watch!CloseIsKept
  BY Watched DEF WatchInv, Watch!RegistrationIsOwn, Watch!CloseIsKept, Watch!Monitoring, Kept
<1>3. QED
  BY <1>1, <1>2 DEF PeerCloseIsTrue, Watch!PeerCloseIsTrue, WatchInv

\* PeerCloseMonitor: however descriptors and tokens are reused, whoever polls for whom and
\* however few events one poll takes, a client is taken for gone only if it is, a monitor
\* withdraws no registration but its own, and no close is lost before it stands in its flag.
THEOREM ClosesAreTrue == Watch!Spec => []PeerCloseIsTrue
BY WatchInvInit, WatchInvStep, WatchInvSuffices, PTL DEF Watch!Spec
=============================================================================
