------------------------- MODULE RunLifecycleProofs -------------------------
(***************************************************************************)
(* Proofs about RunLifecycle, for every number of inspection tries: type   *)
(* correctness, the safety invariants about the agent, the silence of the  *)
(* main thread after the teardown, and the refinement of AgentCustody.     *)
(***************************************************************************)
EXTENDS RunLifecycle, TLAPS

-----------------------------------------------------------------------------
(* What a change of program counter does.                                  *)

LEMMA GotoMain ==
  ASSUME PcOK, NEW there \in MainPC, Goto("main", there)
  PROVE  PcOK' /\ pc'["main"] = there /\ pc'["signal"] = pc["signal"]
BY DEF PcOK, Goto, Threads

LEMMA GotoSignal ==
  ASSUME PcOK, NEW there \in SignalPC, Goto("signal", there)
  PROVE  PcOK' /\ pc'["signal"] = there /\ pc'["main"] = pc["main"]
BY DEF PcOK, Goto, Threads

-----------------------------------------------------------------------------
(* Type correctness, one lemma for each part of TypeOK.                    *)

LEMMA PcStep == PcOK /\ [Next]_vars => PcOK'
<1> SUFFICES ASSUME PcOK, [Next]_vars PROVE PcOK'
  OBVIOUS
<1>1. CASE InstallSignalControl
  <2>1. CASE Goto("main", "unwind")
    BY <2>1, GotoMain DEF MainPC
  <2>2. CASE pc' = [pc EXCEPT !["main"] = "prepare", !["signal"] = "idle"]
    BY <2>2 DEF PcOK, Threads, MainPC, SignalPC
  <2>3. QED
    BY <1>1, <2>1, <2>2 DEF InstallSignalControl
<1>2. CASE Starting /\ ~InstallSignalControl
  BY <1>2, GotoMain
     DEF Starting, PublishRun, Prepare, Acquire, StartBroker, StartProxy,
         PublishProxyCleanup, InspectProxy, WaitReady, DropWaitedBroker,
         BrokerStopped, StopBroker, Release, MainPC
<1>3. CASE Running
  <2>1. CASE StopAndConfirmAgent("main", "bailCleanup", "bailDone")
    BY <2>1, GotoMain
       DEF StopAndConfirmAgent, CleanupCommand, CleanupInspect, EngineError,
           Confirmed, Unconfirmed, MainPC, PcOK
  <2>2. CASE StopAndConfirmAgent("main", "finishCleanup", "finishTake")
    BY <2>2, GotoMain
       DEF StopAndConfirmAgent, CleanupCommand, CleanupInspect, EngineError,
           Confirmed, Unconfirmed, MainPC, PcOK
  <2>3. QED
    BY <1>3, <2>1, <2>2, GotoMain
       DEF Running, Acquire, CreateAgent, CheckCreated, StartAgent, LeaveBail,
           WaitAgent, DisarmClient, FinishAgent, FinishTake, TakeAgent,
           Release, MainPC
<1>4. CASE Unwinding
  BY <1>4, GotoMain
     DEF Unwinding, UnwindProxy, IssueProxyStop, AwaitProxyStop,
         LeaveInspection, UnwindBroker, BrokerStopped, StopBroker,
         UnwindPolicy, Return, ClaimProxyStop, Release, MainPC, PcOK
<1>5. CASE Signal
  <2>1. CASE StopAndConfirmAgent("signal", "agentCleanup", "confirm")
    BY <2>1, GotoSignal
       DEF StopAndConfirmAgent, CleanupCommand, CleanupInspect, EngineError,
           Confirmed, Unconfirmed, SignalPC, PcOK
  <2>2. QED
    BY <1>5, <2>1, GotoSignal
       DEF Signal, Acquire, TerminateClient, TerminateAgent, ReadVerdict,
           TerminateProxy, IssueProxyStop, AwaitProxyStop, TerminateBroker,
           BrokerStopped, StopBroker, RetirePolicy, LeaveTeardown, Exit,
           TakeAgent, ClaimProxyStop, Release, SignalPC
<1>6. CASE EngineStopsProxy \/ Environment
  BY <1>6, GotoSignal
     DEF EngineStopsProxy, Environment, ReceiveSigterm, SigtermBeforeHandler,
         AgentMoves, ClientReturns, SignalPC, PcOK
<1>7. CASE UNCHANGED vars
  BY <1>7 DEF vars, PcOK
<1>8. QED
  BY <1>1, <1>2, <1>3, <1>4, <1>5, <1>6, <1>7 DEF Next, Main

LEMMA HostStep == HostOK /\ [Next]_vars => HostOK'
<1> SUFFICES ASSUME HostOK, [Next]_vars PROVE HostOK'
  OBVIOUS
<1> USE DEF HostOK, hostVars, endVars
<1>1. CASE Starting
  <2>1. CASE StartBroker \/ StartProxy
    BY <2>1 DEF StartBroker, StartProxy, Fill, Release, Slots
  <2>2. CASE \/ DropWaitedBroker("readyDrop", "readyStop", "createGate")
             \/ DropWaitedBroker("failDrop", "failStop", "unwind")
    BY <2>2 DEF DropWaitedBroker, StopBroker, Drop
  <2>3. CASE \/ BrokerStopped("main", "readyStop", "createGate")
             \/ BrokerStopped("main", "failStop", "unwind")
    BY <2>3 DEF BrokerStopped
  <2>4. CASE \/ Acquire("main", "brokerGate", "broker")
             \/ Acquire("main", "proxyGate", "proxy")
    BY <2>4 DEF Acquire, Threads
  <2>5. CASE PublishRun \/ InstallSignalControl \/ Prepare
    BY <2>5 DEF PublishRun, InstallSignalControl, Prepare, Fill, Slots
  <2>6. CASE PublishProxyCleanup \/ InspectProxy \/ WaitReady
    BY <2>6 DEF PublishProxyCleanup, InspectProxy, WaitReady, Fill, Drop, Release, Slots
  <2>7. QED
    BY <1>1, <2>1, <2>2, <2>3, <2>4, <2>5, <2>6 DEF Starting
<1>2. CASE Running
  <2>1. CASE \/ StopAndConfirmAgent("main", "bailCleanup", "bailDone")
             \/ StopAndConfirmAgent("main", "finishCleanup", "finishTake")
    <3>1. CASE StopAndConfirmAgent("main", "bailCleanup", "bailDone")
      BY <3>1
         DEF StopAndConfirmAgent, CleanupCommand, CleanupInspect, EngineError,
             Confirmed, Unconfirmed, Flags
    <3>2. CASE StopAndConfirmAgent("main", "finishCleanup", "finishTake")
      BY <3>2
         DEF StopAndConfirmAgent, CleanupCommand, CleanupInspect, EngineError,
             Confirmed, Unconfirmed, Flags
    <3>3. QED
      BY <2>1, <3>1, <3>2
  <2>2. CASE CreateAgent \/ CheckCreated \/ StartAgent \/ FinishAgent
    <3>1. CASE CreateAgent
      BY <3>1 DEF CreateAgent, Fill, Release, Slots, AgentSlots
    <3>2. CASE CheckCreated
      BY <3>2 DEF CheckCreated, TakeAgent, Take, Release, AgentSlots
    <3>3. CASE StartAgent
      BY <3>3 DEF StartAgent, TakeAgent, Fill, Take, Release, Slots, AgentSlots
    <3>4. CASE FinishAgent
      BY <3>4 DEF FinishAgent, TakeAgent, Take, Release, AgentSlots
    <3>5. QED
      BY <2>2, <3>1, <3>2, <3>3, <3>4
  <2>3. CASE \/ Acquire("main", "createGate", "create")
             \/ Acquire("main", "startGate", "start")
             \/ Acquire("main", "finishGate", "finish")
    BY <2>3 DEF Acquire, Threads
  <2>4. CASE LeaveBail \/ WaitAgent \/ DisarmClient \/ FinishTake
    BY <2>4 DEF LeaveBail, WaitAgent, DisarmClient, FinishTake, Take, Release
  <2>5. QED
    BY <1>2, <2>1, <2>2, <2>3, <2>4 DEF Running
<1>3. CASE Unwinding
  <2>1. CASE UnwindProxy \/ LeaveInspection \/ UnwindPolicy \/ Return
    BY <2>1 DEF UnwindProxy, LeaveInspection, UnwindPolicy, Return, Drop, Release
  <2>2. CASE UnwindBroker
    BY <2>2 DEF UnwindBroker, StopBroker, Drop, Release
  <2>3. QED
    BY <1>3, <2>1, <2>2
       DEF Unwinding, IssueProxyStop, AwaitProxyStop, BrokerStopped
<1>4. CASE Signal
  <2>1. CASE StopAndConfirmAgent("signal", "agentCleanup", "confirm")
    BY <2>1
       DEF StopAndConfirmAgent, CleanupCommand, CleanupInspect, EngineError,
           Confirmed, Unconfirmed, Flags
  <2>2. CASE TerminateClient \/ TerminateAgent \/ TerminateProxy \/ TerminateBroker
    BY <2>2
       DEF TerminateClient, TerminateAgent, TerminateProxy, TerminateBroker,
           TakeAgent, StopBroker, Take
  <2>3. CASE Acquire("signal", "gate", "client") \/ BrokerStopped("signal", "brokerStop", "policy")
    BY <2>3 DEF Acquire, BrokerStopped, Threads
  <2>4. CASE ReadVerdict \/ IssueProxyStop("signal") \/ AwaitProxyStop("signal", "broker")
    BY <2>4 DEF ReadVerdict, IssueProxyStop, AwaitProxyStop, Take, Release
  <2>5. CASE RetirePolicy \/ LeaveTeardown \/ Exit
    BY <2>5 DEF RetirePolicy, LeaveTeardown, Exit, Take, Release
  <2>6. QED
    BY <1>4, <2>1, <2>2, <2>3, <2>4, <2>5 DEF Signal
<1>5. CASE EngineStopsProxy \/ Environment
  BY <1>5
     DEF EngineStopsProxy, Environment, ReceiveSigterm, SigtermBeforeHandler,
         AgentMoves, ClientReturns, Flags
<1>6. CASE UNCHANGED vars
  BY <1>6 DEF vars
<1>7. QED
  BY <1>1, <1>2, <1>3, <1>4, <1>5, <1>6 DEF Next, Main

\* The number of tries stays in its range because the loop leaves at the last.
TriesInv ==
  pc["main"] \in {"publish", "install", "prepare", "brokerGate", "broker",
                  "proxyGate", "proxy", "proxyPublish", "proxyInspect"}
    => tries + 1 \in 1 .. InspectTries

LEMMA EngineStep ==
  PcOK /\ TriesInv /\ EngineOK /\ [Next]_vars => EngineOK'
<1> SUFFICES ASSUME PcOK, TriesInv, EngineOK, [Next]_vars PROVE EngineOK'
  OBVIOUS
<1> USE DEF EngineOK, agentVars, proxyVars
<1>1. CASE InspectProxy
  BY <1>1, InspectTriesAssumption DEF InspectProxy, TriesInv, At
<1>2. CASE Starting /\ ~InspectProxy
  BY <1>2
     DEF Starting, PublishRun, InstallSignalControl, Prepare, Acquire,
         StartBroker, StartProxy, PublishProxyCleanup, WaitReady,
         DropWaitedBroker, BrokerStopped
<1>3. CASE Running
  BY <1>3
     DEF Running, Acquire, CreateAgent, CheckCreated, StartAgent, LeaveBail,
         WaitAgent, DisarmClient, FinishAgent, FinishTake, TakeAgent,
         StopAndConfirmAgent, CleanupCommand, CleanupInspect, EngineError,
         Confirmed, Unconfirmed, Inspected, Escalated, AfterCommand
<1>4. CASE Unwinding
  BY <1>4
     DEF Unwinding, UnwindProxy, IssueProxyStop, AwaitProxyStop,
         LeaveInspection, UnwindBroker, BrokerStopped, UnwindPolicy, Return,
         ClaimProxyStop
<1>5. CASE Signal
  BY <1>5
     DEF Signal, Acquire, TerminateClient, TerminateAgent, ReadVerdict,
         TerminateProxy, IssueProxyStop, AwaitProxyStop, TerminateBroker,
         BrokerStopped, RetirePolicy, LeaveTeardown, Exit, TakeAgent,
         ClaimProxyStop, StopAndConfirmAgent, CleanupCommand, CleanupInspect,
         EngineError, Confirmed, Unconfirmed, Inspected, Escalated, AfterCommand
<1>6. CASE EngineStopsProxy \/ Environment
  BY <1>6
     DEF EngineStopsProxy, Environment, ReceiveSigterm, SigtermBeforeHandler,
         AgentMoves, ClientReturns
<1>7. CASE UNCHANGED vars
  BY <1>7 DEF vars
<1>8. QED
  BY <1>1, <1>2, <1>3, <1>4, <1>5, <1>6, <1>7 DEF Next, Main

(* TypeOK is inductive together with TriesInv.                             *)
LEMMA TriesStep == PcOK /\ TriesInv /\ [Next]_vars => TriesInv'
<1> SUFFICES ASSUME PcOK, TriesInv, [Next]_vars PROVE TriesInv'
  OBVIOUS
<1>1. CASE InspectProxy
  BY <1>1, GotoMain, InspectTriesAssumption
     DEF InspectProxy, LastTry, Release, At, MainPC, TriesInv
<1>2. CASE InstallSignalControl
  BY <1>2 DEF InstallSignalControl, At, Goto, TriesInv, proxyVars, PcOK, Threads
<1>3. CASE Starting /\ ~InspectProxy /\ ~InstallSignalControl
  BY <1>3, GotoMain
     DEF Starting, PublishRun, Prepare, Acquire, StartBroker, StartProxy,
         PublishProxyCleanup, WaitReady, DropWaitedBroker, BrokerStopped,
         StopBroker, Release, At, MainPC, TriesInv, proxyVars
<1>4. CASE Running
  <2>1. CASE \/ StopAndConfirmAgent("main", "bailCleanup", "bailDone")
             \/ StopAndConfirmAgent("main", "finishCleanup", "finishTake")
    BY <2>1, GotoMain
       DEF StopAndConfirmAgent, CleanupCommand, CleanupInspect, EngineError,
           Confirmed, Unconfirmed, At, MainPC, TriesInv, proxyVars
  <2>2. QED
    BY <1>4, <2>1, GotoMain
       DEF Running, Acquire, CreateAgent, CheckCreated, StartAgent, LeaveBail,
           WaitAgent, DisarmClient, FinishAgent, FinishTake, TakeAgent,
           Release, At, MainPC, TriesInv, proxyVars
<1>5. CASE Unwinding
  BY <1>5, GotoMain
     DEF Unwinding, UnwindProxy, IssueProxyStop, AwaitProxyStop,
         LeaveInspection, UnwindBroker, BrokerStopped, StopBroker,
         UnwindPolicy, Return, ClaimProxyStop, Release, At, MainPC,
         TriesInv, proxyVars
<1>6. CASE Signal
  <2>1. CASE StopAndConfirmAgent("signal", "agentCleanup", "confirm")
    BY <2>1, GotoSignal
       DEF StopAndConfirmAgent, CleanupCommand, CleanupInspect, EngineError,
           Confirmed, Unconfirmed, SignalPC, TriesInv, proxyVars
  <2>2. QED
    BY <1>6, <2>1, GotoSignal
       DEF Signal, Acquire, TerminateClient, TerminateAgent, ReadVerdict,
           TerminateProxy, IssueProxyStop, AwaitProxyStop, TerminateBroker,
           BrokerStopped, StopBroker, RetirePolicy, LeaveTeardown, Exit,
           TakeAgent, ClaimProxyStop, Release, SignalPC, TriesInv, proxyVars
<1>7. CASE EngineStopsProxy \/ Environment
  BY <1>7, GotoSignal
     DEF EngineStopsProxy, Environment, ReceiveSigterm, SigtermBeforeHandler,
         AgentMoves, ClientReturns, SignalPC, TriesInv, proxyVars
<1>8. CASE UNCHANGED vars
  BY <1>8 DEF vars, TriesInv, proxyVars
<1>9. QED
  BY <1>1, <1>2, <1>3, <1>4, <1>5, <1>6, <1>7, <1>8 DEF Next, Main

(* Type correctness of the run (every variable of SignalControl and of the *)
(* resources start_container holds), for every number of inspection tries. *)
THEOREM TypeCorrect == Spec => []TypeOK
<1>1. Init => TypeOK /\ TriesInv
  BY InspectTriesAssumption
     DEF Init, TypeOK, PcOK, HostOK, EngineOK, TriesInv, Threads, MainPC,
         SignalPC, Flags, Slots
<1>2. TypeOK /\ TriesInv /\ [Next]_vars => (TypeOK /\ TriesInv)'
  BY PcStep, HostStep, EngineStep, TriesStep DEF TypeOK
<1>3. QED
  BY <1>1, <1>2, PTL DEF Spec, Safety

-----------------------------------------------------------------------------
(* The inductive invariant: who answers for the agent container, who may   *)
(* have revoked its egress, and which thread the gate belongs to.          *)

M == pc["main"]
S == pc["signal"]

MainGated == {"broker", "proxy", "proxyPublish", "proxyInspect", "create",
              "created", "start", "bailCleanup", "bailDone", "finish",
              "finishAgent", "finishCleanup", "finishTake"}
SignalGated == {"client", "agent", "agentCleanup", "confirm", "proxy",
                "proxyIssue", "proxyAwait", "broker", "brokerStop", "policy",
                "release"}

\* Before the container can exist; after the main thread is done with it;
\* while its published cleanup may still be in the slot.
Early == {"publish", "install", "prepare", "brokerGate", "broker", "proxyGate",
          "proxy", "proxyPublish", "proxyInspect", "ready", "readyDrop",
          "readyStop", "createGate", "create"}
Late == {"failDrop", "failStop", "unwind", "proxyIssue", "proxyAwait",
         "brokerStop", "end"}
AgentOwned == {"created", "startGate", "start", "wait", "finishGate", "finish",
               "finishAgent"}

\* The signal thread past its agent cleanup, and past the proxy stop's claim.
PastAgent == {"confirm", "proxy", "proxyIssue", "proxyAwait", "broker",
              "brokerStop", "policy", "release", "exit", "end"}
PastProxy == PastAgent \ {"confirm", "proxy"}

GateInv ==
  /\ M \in MainGated => gate = "main"
  /\ S \in SignalGated <=> gate = "signal"
  /\ S \in {"none", "idle"} <=> ~Terminating
  /\ M \in {"publish", "install"} => S = "none"

AgentInv ==
  /\ M \in Early => agent = "absent" /\ "agentFailed" \notin flags /\ "agent" \notin slots
  /\ "agent" \in slots => M \in AgentOwned
  /\ S = "agentCleanup" => M \in {"startGate", "wait", "finishGate"}
  /\ AgentSettled \/ "agent" \in slots \/ M \in {"bailCleanup", "finishCleanup"}
       \/ S = "agentCleanup"
  /\ M \in Late => AgentSettled
  /\ S \in PastAgent => AgentSettled

RevokeInv ==
  /\ proxyStop # "no" => M \in Late \/ S \in PastProxy
  /\ policy = "retired" => M \in Late \/ S \in {"release", "exit", "end"}
  /\ exited = "main" => M = "end"
  /\ exited = "signal" => S = "end"

\* A proxy is there whenever something is left to stop it.
BeforeProxy == {"publish", "install", "prepare", "brokerGate", "broker",
                "proxyGate", "proxy"}
WithProxy == {"proxyPublish", "proxyInspect", "ready", "readyDrop", "readyStop",
              "createGate", "create"}
ProxyInv ==
  /\ M \in BeforeProxy => proxy = "absent" /\ proxyStop = "no" /\ "proxy" \notin slots \cup owns
  /\ M \in WithProxy \/ "proxy" \in slots \/ "proxy" \in owns
       => proxy = "running" \/ proxyStop # "no"
  /\ "proxyIssue" \in {M, S} => proxyStop # "no"

IInv == TypeOK /\ TriesInv /\ GateInv /\ AgentInv /\ RevokeInv /\ ProxyInv

\* What the gate's holder is worth: the two gated sets exclude each other.
LEMMA GateStep == PcOK /\ GateInv /\ [Next]_vars => GateInv'
<1> SUFFICES ASSUME PcOK, GateInv, [Next]_vars PROVE GateInv'
  OBVIOUS
<1> USE DEF GateInv, M, S, Terminating, MainGated, SignalGated
<1>1. CASE InstallSignalControl
  BY <1>1 DEF InstallSignalControl, At, Goto, PcOK, Threads
<1>2. CASE Starting /\ ~InstallSignalControl
  BY <1>2, GotoMain
     DEF Starting, PublishRun, Prepare, Acquire, StartBroker, StartProxy,
         PublishProxyCleanup, InspectProxy, WaitReady, DropWaitedBroker,
         BrokerStopped, StopBroker, Release, At, MainPC
<1>3. CASE Running
  <2>1. CASE StopAndConfirmAgent("main", "bailCleanup", "bailDone")
    BY <2>1, GotoMain
       DEF StopAndConfirmAgent, CleanupCommand, CleanupInspect, EngineError,
           Confirmed, Unconfirmed, At, MainPC
  <2>2. CASE StopAndConfirmAgent("main", "finishCleanup", "finishTake")
    BY <2>2, GotoMain
       DEF StopAndConfirmAgent, CleanupCommand, CleanupInspect, EngineError,
           Confirmed, Unconfirmed, At, MainPC
  <2>3. QED
    BY <1>3, <2>1, <2>2, GotoMain
       DEF Running, Acquire, CreateAgent, CheckCreated, StartAgent, LeaveBail,
           WaitAgent, DisarmClient, FinishAgent, FinishTake, TakeAgent,
           Release, At, MainPC
<1>4. CASE Unwinding
  BY <1>4, GotoMain
     DEF Unwinding, UnwindProxy, IssueProxyStop, AwaitProxyStop,
         LeaveInspection, UnwindBroker, BrokerStopped, StopBroker,
         UnwindPolicy, Return, ClaimProxyStop, Release, At, MainPC
<1>5. CASE Signal
  <2>1. CASE StopAndConfirmAgent("signal", "agentCleanup", "confirm")
    BY <2>1, GotoSignal
       DEF StopAndConfirmAgent, CleanupCommand, CleanupInspect, EngineError,
           Confirmed, Unconfirmed, At, SignalPC
  <2>2. QED
    BY <1>5, <2>1, GotoSignal
       DEF Signal, Acquire, TerminateClient, TerminateAgent, ReadVerdict,
           TerminateProxy, IssueProxyStop, AwaitProxyStop, TerminateBroker,
           BrokerStopped, StopBroker, RetirePolicy, LeaveTeardown, Exit,
           TakeAgent, ClaimProxyStop, Release, At, SignalPC
<1>6. CASE EngineStopsProxy \/ Environment
  BY <1>6, GotoSignal
     DEF EngineStopsProxy, Environment, ReceiveSigterm, SigtermBeforeHandler,
         AgentMoves, ClientReturns, At, SignalPC
<1>7. CASE UNCHANGED vars
  BY <1>7 DEF vars
<1>8. QED
  BY <1>1, <1>2, <1>3, <1>4, <1>5, <1>6, <1>7 DEF Next, Main

(* The agent is answered for: while its container may exist and nobody has *)
(* reported it, its cleanup is in the slot or in the hands of one thread.  *)
LEMMA AgentStep ==
  PcOK /\ HostOK /\ GateInv /\ AgentInv /\ [Next]_vars => AgentInv'
<1> SUFFICES ASSUME PcOK, HostOK, GateInv, AgentInv, [Next]_vars
             PROVE AgentInv'
  OBVIOUS
<1> USE DEF AgentInv, AgentSettled, M, S, Early, Late, AgentOwned, PastAgent
<1>1. CASE InstallSignalControl
  BY <1>1
     DEF InstallSignalControl, At, Goto, PcOK, Threads, GateInv, agentVars
<1>2. CASE Starting /\ ~InstallSignalControl
  BY <1>2, GotoMain
     DEF Starting, PublishRun, Prepare, Acquire, StartBroker, StartProxy,
         PublishProxyCleanup, InspectProxy, WaitReady, DropWaitedBroker,
         BrokerStopped, StopBroker, Fill, Release, At, MainPC, agentVars
<1>3. CASE Running
  <2>1. CASE StopAndConfirmAgent("main", "bailCleanup", "bailDone")
    BY <2>1, GotoMain
       DEF StopAndConfirmAgent, CleanupCommand, CleanupInspect, EngineError,
           Confirmed, Unconfirmed, AfterCommand, At, MainPC, GateInv,
           MainGated, SignalGated
  <2>2. CASE StopAndConfirmAgent("main", "finishCleanup", "finishTake")
    BY <2>2, GotoMain
       DEF StopAndConfirmAgent, CleanupCommand, CleanupInspect, EngineError,
           Confirmed, Unconfirmed, AfterCommand, At, MainPC, GateInv,
           MainGated, SignalGated
  <2>3. CASE CreateAgent \/ CheckCreated \/ StartAgent
    BY <2>3, GotoMain
       DEF CreateAgent, CheckCreated, StartAgent, TakeAgent, Take, Fill,
           Release, At, MainPC, GateInv, MainGated, SignalGated, MayStart,
           Terminating, AgentSlots
  <2>4. CASE DisarmClient \/ FinishAgent \/ FinishTake
    BY <2>4, GotoMain
       DEF DisarmClient, FinishAgent, FinishTake, TakeAgent, Take, Release,
           At, MainPC, GateInv, MainGated, SignalGated, agentVars
  <2>5. QED
    BY <1>3, <2>1, <2>2, <2>3, <2>4, GotoMain
       DEF Running, Acquire, LeaveBail, WaitAgent, Release, At, MainPC,
           GateInv, MainGated, SignalGated, agentVars
<1>4. CASE Unwinding
  BY <1>4, GotoMain
     DEF Unwinding, UnwindProxy, IssueProxyStop, AwaitProxyStop,
         LeaveInspection, UnwindBroker, BrokerStopped, StopBroker,
         UnwindPolicy, Return, ClaimProxyStop, Release, At, MainPC, agentVars
<1>5. CASE Signal
  <2>1. CASE StopAndConfirmAgent("signal", "agentCleanup", "confirm")
    BY <2>1, GotoSignal
       DEF StopAndConfirmAgent, CleanupCommand, CleanupInspect, EngineError,
           Confirmed, Unconfirmed, AfterCommand, At, SignalPC, GateInv,
           MainGated, SignalGated
  <2>2. CASE TerminateClient \/ TerminateAgent
    BY <2>2, GotoSignal
       DEF TerminateClient, TerminateAgent, TakeAgent, Take, At, SignalPC,
           GateInv, MainGated, SignalGated
  <2>3. QED
    BY <1>5, <2>1, <2>2, GotoSignal
       DEF Signal, Acquire, ReadVerdict, TerminateProxy, IssueProxyStop,
           AwaitProxyStop, TerminateBroker, BrokerStopped, StopBroker,
           RetirePolicy, LeaveTeardown, Exit, ClaimProxyStop, Take, Release,
           At, SignalPC, agentVars
<1>6. CASE EngineStopsProxy \/ Environment
  BY <1>6, GotoSignal
     DEF EngineStopsProxy, Environment, ReceiveSigterm, SigtermBeforeHandler,
         AgentMoves, ClientReturns, At, SignalPC, agentVars
<1>7. CASE UNCHANGED vars
  BY <1>7 DEF vars, agentVars
<1>8. QED
  BY <1>1, <1>2, <1>3, <1>4, <1>5, <1>6, <1>7 DEF Next, Main

\* Egress is revoked only by a thread that is past its agent cleanup.
LEMMA RevokeStep ==
  PcOK /\ GateInv /\ RevokeInv /\ ProxyInv /\ [Next]_vars => RevokeInv'
<1> SUFFICES ASSUME PcOK, GateInv, RevokeInv, ProxyInv, [Next]_vars
             PROVE RevokeInv'
  OBVIOUS
<1> USE DEF RevokeInv, M, S, Late, PastProxy, PastAgent
<1>1. CASE InstallSignalControl
  BY <1>1
     DEF InstallSignalControl, At, Goto, PcOK, Threads, GateInv, ProxyInv,
         BeforeProxy, hostVars, proxyVars, endVars
<1>2. CASE Starting /\ ~InstallSignalControl
  BY <1>2, GotoMain
     DEF Starting, PublishRun, Prepare, Acquire, StartBroker, StartProxy,
         PublishProxyCleanup, InspectProxy, WaitReady, DropWaitedBroker,
         BrokerStopped, StopBroker, Release, At, MainPC, hostVars, proxyVars,
         endVars
<1>3. CASE Running
  <2>1. CASE \/ StopAndConfirmAgent("main", "bailCleanup", "bailDone")
             \/ StopAndConfirmAgent("main", "finishCleanup", "finishTake")
    BY <2>1, GotoMain
       DEF StopAndConfirmAgent, CleanupCommand, CleanupInspect, EngineError,
           Confirmed, Unconfirmed, At, MainPC, hostVars, proxyVars, endVars
  <2>2. QED
    BY <1>3, <2>1, GotoMain
       DEF Running, Acquire, CreateAgent, CheckCreated, StartAgent, LeaveBail,
           WaitAgent, DisarmClient, FinishAgent, FinishTake, TakeAgent,
           Release, At, MainPC, hostVars, proxyVars, endVars
<1>4. CASE Unwinding
  BY <1>4, GotoMain
     DEF Unwinding, UnwindProxy, IssueProxyStop, AwaitProxyStop,
         LeaveInspection, UnwindBroker, BrokerStopped, StopBroker,
         UnwindPolicy, Return, ClaimProxyStop, Release, At, MainPC, hostVars,
         proxyVars, endVars
<1>5. CASE Signal
  <2>1. CASE StopAndConfirmAgent("signal", "agentCleanup", "confirm")
    BY <2>1, GotoSignal
       DEF StopAndConfirmAgent, CleanupCommand, CleanupInspect, EngineError,
           Confirmed, Unconfirmed, At, SignalPC, hostVars, proxyVars, endVars
  <2>2. QED
    BY <1>5, <2>1, GotoSignal
       DEF Signal, Acquire, TerminateClient, TerminateAgent, ReadVerdict,
           TerminateProxy, IssueProxyStop, AwaitProxyStop, TerminateBroker,
           BrokerStopped, StopBroker, RetirePolicy, LeaveTeardown, Exit,
           TakeAgent, ClaimProxyStop, Release, At, SignalPC, hostVars,
           proxyVars, endVars
<1>6. CASE EngineStopsProxy \/ Environment
  BY <1>6, GotoSignal
     DEF EngineStopsProxy, Environment, ReceiveSigterm, SigtermBeforeHandler,
         AgentMoves, ClientReturns, At, SignalPC, hostVars, proxyVars, endVars
<1>7. CASE UNCHANGED vars
  BY <1>7 DEF vars, hostVars, proxyVars, endVars
<1>8. QED
  BY <1>1, <1>2, <1>3, <1>4, <1>5, <1>6, <1>7 DEF Next, Main

\* A proxy exists when a slot or a guard could stop one.
LEMMA ProxyStep ==
  PcOK /\ HostOK /\ ProxyInv /\ [Next]_vars => ProxyInv'
<1> SUFFICES ASSUME PcOK, HostOK, ProxyInv, [Next]_vars PROVE ProxyInv'
  OBVIOUS
<1> USE DEF ProxyInv, M, S, BeforeProxy, WithProxy
<1>1. CASE InstallSignalControl
  BY <1>1
     DEF InstallSignalControl, At, Goto, PcOK, Threads, hostVars, proxyVars
<1>2. CASE Starting /\ ~InstallSignalControl
  BY <1>2, GotoMain
     DEF Starting, PublishRun, Prepare, Acquire, StartBroker, StartProxy,
         PublishProxyCleanup, InspectProxy, WaitReady, DropWaitedBroker,
         BrokerStopped, StopBroker, Fill, Drop, Release, At, MainPC, hostVars,
         proxyVars
<1>3. CASE Running
  <2>1. CASE \/ StopAndConfirmAgent("main", "bailCleanup", "bailDone")
             \/ StopAndConfirmAgent("main", "finishCleanup", "finishTake")
    BY <2>1, GotoMain
       DEF StopAndConfirmAgent, CleanupCommand, CleanupInspect, EngineError,
           Confirmed, Unconfirmed, At, MainPC, hostVars, proxyVars
  <2>2. QED
    BY <1>3, <2>1, GotoMain
       DEF Running, Acquire, CreateAgent, CheckCreated, StartAgent, LeaveBail,
           WaitAgent, DisarmClient, FinishAgent, FinishTake, TakeAgent, Take,
           Fill, Release, At, MainPC, hostVars, proxyVars
<1>4. CASE Unwinding
  BY <1>4, GotoMain
     DEF Unwinding, UnwindProxy, IssueProxyStop, AwaitProxyStop,
         LeaveInspection, UnwindBroker, BrokerStopped, StopBroker, Drop,
         UnwindPolicy, Return, ClaimProxyStop, Release, At, MainPC, hostVars,
         proxyVars
<1>5. CASE Signal
  <2>1. CASE StopAndConfirmAgent("signal", "agentCleanup", "confirm")
    BY <2>1, GotoSignal
       DEF StopAndConfirmAgent, CleanupCommand, CleanupInspect, EngineError,
           Confirmed, Unconfirmed, At, SignalPC, hostVars, proxyVars
  <2>2. QED
    BY <1>5, <2>1, GotoSignal
       DEF Signal, Acquire, TerminateClient, TerminateAgent, ReadVerdict,
           TerminateProxy, IssueProxyStop, AwaitProxyStop, TerminateBroker,
           BrokerStopped, StopBroker, RetirePolicy, LeaveTeardown, Exit,
           TakeAgent, ClaimProxyStop, Take, Release, At, SignalPC, hostVars,
           proxyVars
<1>6. CASE EngineStopsProxy \/ Environment
  BY <1>6, GotoSignal
     DEF EngineStopsProxy, Environment, ReceiveSigterm, SigtermBeforeHandler,
         AgentMoves, ClientReturns, At, SignalPC, hostVars, proxyVars
<1>7. CASE UNCHANGED vars
  BY <1>7 DEF vars, hostVars, proxyVars
<1>8. QED
  BY <1>1, <1>2, <1>3, <1>4, <1>5, <1>6, <1>7 DEF Next, Main

LEMMA IInvInit == Init => IInv
BY InspectTriesAssumption
   DEF Init, IInv, TypeOK, PcOK, HostOK, EngineOK, TriesInv, GateInv, AgentInv,
       RevokeInv, ProxyInv, Threads, MainPC, SignalPC, Flags, Slots, M, S,
       Terminating, AgentSettled, MainGated, SignalGated, Early, Late,
       AgentOwned, PastAgent, PastProxy, BeforeProxy, WithProxy

LEMMA IInvStep == IInv /\ [Next]_vars => IInv'
BY PcStep, HostStep, EngineStep, TriesStep, GateStep, AgentStep, RevokeStep,
   ProxyStep
   DEF IInv, TypeOK

LEMMA Invariant == Spec => []IInv
BY IInvInit, IInvStep, PTL DEF Spec, Safety

-----------------------------------------------------------------------------
(* The safety properties.                                                  *)

(* Egress outlives the agent: no interleaving of finish_agent, terminate   *)
(* and the guards' drops stops the proxy or retires the policy first.      *)
THEOREM EgressOutlives == Spec => []EgressOutlivesAgent
<1>1. IInv => EgressOutlivesAgent
  BY DEF IInv, AgentInv, RevokeInv, EgressOutlivesAgent, PastProxy, PastAgent
<1>2. QED
  BY <1>1, Invariant, PTL

(* No orphan: the process ends of its own accord only when the agent is    *)
(* gone or its removal was tried and reported by stop_and_confirm_agent.   *)
THEOREM NoOrphan == Spec => []NoOrphanAgent
<1>1. IInv => NoOrphanAgent
  BY DEF IInv, AgentInv, RevokeInv, NoOrphanAgent, Late, PastAgent, Threads
<1>2. QED
  BY <1>1, Invariant, PTL

(* After the teardown the main thread starts nothing: `terminating` was    *)
(* set before the gate was taken, and every start looks at it under it.    *)
THEOREM NothingStarts == Spec => NothingStartsAfterTeardown
<1>1. IInv /\ [Next]_vars => [TornDown => ~Starts]_vars
  <2> SUFFICES ASSUME IInv, Next, TornDown PROVE ~Starts
    OBVIOUS
  <2>1. Terminating
    BY DEF IInv, GateInv, TornDown, S
  <2> USE <2>1 DEF Starts, MayStart
  <2>2. CASE Starting
    BY <2>2
       DEF Starting, PublishRun, InstallSignalControl, Prepare, Acquire,
           StartBroker, StartProxy, PublishProxyCleanup, InspectProxy,
           WaitReady, DropWaitedBroker, BrokerStopped, StopBroker, hostVars,
           agentVars, proxyVars
  <2>3. CASE Running
    BY <2>3
       DEF Running, Acquire, CreateAgent, CheckCreated, StartAgent, LeaveBail,
           WaitAgent, DisarmClient, FinishAgent, FinishTake, TakeAgent,
           StopAndConfirmAgent, CleanupCommand, CleanupInspect, EngineError,
           Confirmed, Unconfirmed, AfterCommand, hostVars, agentVars, proxyVars
  <2>4. CASE Unwinding
    BY <2>4
       DEF Unwinding, UnwindProxy, IssueProxyStop, AwaitProxyStop,
           LeaveInspection, UnwindBroker, BrokerStopped, StopBroker,
           UnwindPolicy, Return, hostVars, agentVars, proxyVars
  <2>5. CASE Signal
    BY <2>5
       DEF Signal, Acquire, TerminateClient, TerminateAgent, ReadVerdict,
           TerminateProxy, IssueProxyStop, AwaitProxyStop, TerminateBroker,
           BrokerStopped, StopBroker, RetirePolicy, LeaveTeardown, Exit,
           StopAndConfirmAgent, CleanupCommand, CleanupInspect, EngineError,
           Confirmed, Unconfirmed, AfterCommand, hostVars, agentVars, proxyVars
  <2>6. CASE EngineStopsProxy \/ Environment
    BY <2>6
       DEF EngineStopsProxy, Environment, ReceiveSigterm, SigtermBeforeHandler,
           AgentMoves, ClientReturns, hostVars, agentVars, proxyVars
  <2>7. QED
    BY <2>2, <2>3, <2>4, <2>5, <2>6 DEF Next, Main
<1>2. QED
  BY <1>1, Invariant, PTL DEF Spec, Safety, NothingStartsAfterTeardown

-----------------------------------------------------------------------------
(* What a complete teardown rests on.  Each resource of the run stays in   *)
(* the hands of somebody who will release it: the main thread's guard and  *)
(* the signal thread's slot while it is there, and the thread that took it *)
(* over while it is being stopped.  The signal thread passes a step of     *)
(* terminate only when what that step releases is gone or in the main      *)
(* thread's hands, and nothing is started behind it (MayStart).            *)

\* The signal thread past the client, and past the broker's and policy's steps.
PastClient == PastAgent \cup {"agent", "agentCleanup"}
PastBroker == {"brokerStop", "policy", "release", "exit", "end"}
PastPolicy == {"release", "exit", "end"}

\* The attached client is known to the slot, and to the thread that waits.
ClientInv ==
  /\ client # "none" => "client" \in slots /\ M \in {"wait", "finishGate", "finish"}
  /\ S \in PastClient => client = "none"

BrokerInv ==
  /\ M = "publish" => broker = "none"
  /\ broker = "accepting" => "broker" \in slots /\ "broker" \in owns
  /\ broker = "accepting" => S \notin PastBroker
  /\ broker = "stopping" =>
       M \in {"readyStop", "failStop", "brokerStop"} \/ S = "brokerStop"

\* A stop that was claimed is issued and awaited by its claimer.
StopInv ==
  /\ proxy = "running" /\ proxyStop = "no" =>
       /\ "proxy" \in owns /\ ("proxy" \in slots \/ M = "proxyPublish")
       /\ S \notin PastProxy
  /\ M = "proxyPublish" => S \in {"none", "idle", "gate"}
  /\ proxyStop = "claimed" => "proxyIssue" \in {M, S}
  /\ proxyStop = "issued" => "proxyAwait" \in {M, S}

PolicyInv ==
  /\ policy = "published" => "policy" \in owns /\ S \notin PastPolicy
  /\ M = "end" => owns = {}

\* The failure that terminate reads is still in its slot when it reads it, or
\* finish_agent has taken it, reported it and left.
AgentReported == M \in {"unwind", "proxyIssue", "proxyAwait", "brokerStop", "end"}
VerdictInv ==
  /\ verdict # "none" => S \in PastAgent \ {"confirm"}
  /\ agent # "absent" => "failed" \in slots \/ AgentReported \/ verdict = "unconfirmed"
  /\ verdict = "confirmed" => agent = "absent" \/ AgentReported

TeardownInv == ClientInv /\ BrokerInv /\ StopInv /\ PolicyInv /\ VerdictInv

\* A client is attached only while termination was not asked for.
LEMMA ClientStep ==
  PcOK /\ HostOK /\ GateInv /\ ClientInv /\ [Next]_vars => ClientInv'
<1> SUFFICES ASSUME PcOK, HostOK, GateInv, ClientInv, [Next]_vars
             PROVE  ClientInv'
  OBVIOUS
<1> USE DEF ClientInv, M, S, PastClient, PastAgent, GateInv, SignalGated,
            MainGated, MayStart, Terminating
<1>1. CASE InstallSignalControl
  BY <1>1
     DEF InstallSignalControl, At, Goto, PcOK, Threads, agentVars
<1>2. CASE Starting /\ ~InstallSignalControl
  BY <1>2, GotoMain
     DEF Starting, PublishRun, Prepare, Acquire, StartBroker, StartProxy,
         PublishProxyCleanup, InspectProxy, WaitReady,
         DropWaitedBroker, BrokerStopped, StopBroker, Fill, Drop,
         Release, At, MainPC, agentVars
<1>3. CASE Running
  <2>1. CASE \/ StopAndConfirmAgent("main", "bailCleanup", "bailDone")
             \/ StopAndConfirmAgent("main", "finishCleanup", "finishTake")
    BY <2>1, GotoMain
       DEF StopAndConfirmAgent, CleanupCommand, CleanupInspect, EngineError,
           Confirmed, Unconfirmed, At, MainPC, agentVars
  <2>2. QED
    BY <1>3, <2>1, GotoMain
       DEF Running, Acquire, CreateAgent, CheckCreated, StartAgent, LeaveBail,
           WaitAgent, DisarmClient, FinishAgent, FinishTake,
           TakeAgent, Take, Fill, Release, At, MainPC, agentVars
<1>4. CASE Unwinding
  BY <1>4, GotoMain
     DEF Unwinding, UnwindProxy, IssueProxyStop, AwaitProxyStop,
         LeaveInspection, UnwindBroker, BrokerStopped, StopBroker,
         Drop, UnwindPolicy, Return, ClaimProxyStop, Release, At,
         MainPC, agentVars
<1>5. CASE Signal
  <2>1. CASE StopAndConfirmAgent("signal", "agentCleanup", "confirm")
    BY <2>1, GotoSignal
       DEF StopAndConfirmAgent, CleanupCommand, CleanupInspect, EngineError,
           Confirmed, Unconfirmed, At, SignalPC, agentVars
  <2>2. QED
    BY <1>5, <2>1, GotoSignal
       DEF Signal, Acquire, TerminateClient, TerminateAgent, ReadVerdict,
           TerminateProxy, IssueProxyStop, AwaitProxyStop,
           TerminateBroker, BrokerStopped, StopBroker, RetirePolicy,
           LeaveTeardown, Exit, TakeAgent, ClaimProxyStop, Take,
           Release, At, SignalPC, agentVars
<1>6. CASE EngineStopsProxy \/ Environment
  BY <1>6, GotoSignal
     DEF EngineStopsProxy, Environment, ReceiveSigterm, SigtermBeforeHandler,
         AgentMoves, ClientReturns, At, SignalPC, agentVars
<1>7. CASE UNCHANGED vars
  BY <1>7
     DEF vars, agentVars
<1>8. QED
  BY <1>1, <1>2, <1>3, <1>4, <1>5, <1>6, <1>7 DEF Next, Main

\* A broker is stopped by the thread that took it from accepting.
LEMMA BrokerStep ==
  PcOK /\ HostOK /\ GateInv /\ BrokerInv /\ [Next]_vars => BrokerInv'
<1> SUFFICES ASSUME PcOK, HostOK, GateInv, BrokerInv, [Next]_vars
             PROVE  BrokerInv'
  OBVIOUS
<1> USE DEF BrokerInv, M, S, PastBroker, GateInv, SignalGated, MainGated,
            MayStart, Terminating
<1>1. CASE InstallSignalControl
  BY <1>1
     DEF InstallSignalControl, At, Goto, PcOK, Threads, hostVars
<1>2. CASE Starting /\ ~InstallSignalControl
  BY <1>2, GotoMain
     DEF Starting, PublishRun, Prepare, Acquire, StartBroker, StartProxy,
         PublishProxyCleanup, InspectProxy, WaitReady,
         DropWaitedBroker, BrokerStopped, StopBroker, Fill, Drop,
         Release, At, MainPC, hostVars
<1>3. CASE Running
  <2>1. CASE \/ StopAndConfirmAgent("main", "bailCleanup", "bailDone")
             \/ StopAndConfirmAgent("main", "finishCleanup", "finishTake")
    BY <2>1, GotoMain
       DEF StopAndConfirmAgent, CleanupCommand, CleanupInspect, EngineError,
           Confirmed, Unconfirmed, At, MainPC, hostVars
  <2>2. QED
    BY <1>3, <2>1, GotoMain
       DEF Running, Acquire, CreateAgent, CheckCreated, StartAgent, LeaveBail,
           WaitAgent, DisarmClient, FinishAgent, FinishTake,
           TakeAgent, Take, Fill, Release, At, MainPC, hostVars
<1>4. CASE Unwinding
  BY <1>4, GotoMain
     DEF Unwinding, UnwindProxy, IssueProxyStop, AwaitProxyStop,
         LeaveInspection, UnwindBroker, BrokerStopped, StopBroker,
         Drop, UnwindPolicy, Return, ClaimProxyStop, Release, At,
         MainPC, hostVars
<1>5. CASE Signal
  <2>1. CASE StopAndConfirmAgent("signal", "agentCleanup", "confirm")
    BY <2>1, GotoSignal
       DEF StopAndConfirmAgent, CleanupCommand, CleanupInspect, EngineError,
           Confirmed, Unconfirmed, At, SignalPC, hostVars
  <2>2. QED
    BY <1>5, <2>1, GotoSignal
       DEF Signal, Acquire, TerminateClient, TerminateAgent, ReadVerdict,
           TerminateProxy, IssueProxyStop, AwaitProxyStop,
           TerminateBroker, BrokerStopped, StopBroker, RetirePolicy,
           LeaveTeardown, Exit, TakeAgent, ClaimProxyStop, Take,
           Release, At, SignalPC, hostVars
<1>6. CASE EngineStopsProxy \/ Environment
  BY <1>6, GotoSignal
     DEF EngineStopsProxy, Environment, ReceiveSigterm, SigtermBeforeHandler,
         AgentMoves, ClientReturns, At, SignalPC, hostVars
<1>7. CASE UNCHANGED vars
  BY <1>7
     DEF vars, hostVars
<1>8. QED
  BY <1>1, <1>2, <1>3, <1>4, <1>5, <1>6, <1>7 DEF Next, Main

\* A proxy is stopped once, by the thread that swapped `done`.
LEMMA StopStep ==
  PcOK /\ HostOK /\ GateInv /\ ProxyInv /\ StopInv /\ [Next]_vars => StopInv'
<1> SUFFICES ASSUME PcOK, HostOK, GateInv, ProxyInv, StopInv, [Next]_vars
             PROVE  StopInv'
  OBVIOUS
<1> USE DEF StopInv, M, S, PastProxy, PastAgent, GateInv, SignalGated,
            MainGated, MayStart, Terminating, ProxyInv, BeforeProxy
<1>1. CASE InstallSignalControl
  BY <1>1
     DEF InstallSignalControl, At, Goto, PcOK, Threads, hostVars, proxyVars
<1>2. CASE Starting /\ ~InstallSignalControl
  BY <1>2, GotoMain
     DEF Starting, PublishRun, Prepare, Acquire, StartBroker, StartProxy,
         PublishProxyCleanup, InspectProxy, WaitReady,
         DropWaitedBroker, BrokerStopped, StopBroker, Fill, Drop,
         Release, At, MainPC, hostVars, proxyVars
<1>3. CASE Running
  <2>1. CASE \/ StopAndConfirmAgent("main", "bailCleanup", "bailDone")
             \/ StopAndConfirmAgent("main", "finishCleanup", "finishTake")
    BY <2>1, GotoMain
       DEF StopAndConfirmAgent, CleanupCommand, CleanupInspect, EngineError,
           Confirmed, Unconfirmed, At, MainPC, hostVars, proxyVars
  <2>2. QED
    BY <1>3, <2>1, GotoMain
       DEF Running, Acquire, CreateAgent, CheckCreated, StartAgent, LeaveBail,
           WaitAgent, DisarmClient, FinishAgent, FinishTake,
           TakeAgent, Take, Fill, Release, At, MainPC, hostVars,
           proxyVars
<1>4. CASE Unwinding
  BY <1>4, GotoMain
     DEF Unwinding, UnwindProxy, IssueProxyStop, AwaitProxyStop,
         LeaveInspection, UnwindBroker, BrokerStopped, StopBroker,
         Drop, UnwindPolicy, Return, ClaimProxyStop, Release, At,
         MainPC, hostVars, proxyVars
<1>5. CASE Signal
  <2>1. CASE StopAndConfirmAgent("signal", "agentCleanup", "confirm")
    BY <2>1, GotoSignal
       DEF StopAndConfirmAgent, CleanupCommand, CleanupInspect, EngineError,
           Confirmed, Unconfirmed, At, SignalPC, hostVars, proxyVars
  <2>2. QED
    BY <1>5, <2>1, GotoSignal
       DEF Signal, Acquire, TerminateClient, TerminateAgent, ReadVerdict,
           TerminateProxy, IssueProxyStop, AwaitProxyStop,
           TerminateBroker, BrokerStopped, StopBroker, RetirePolicy,
           LeaveTeardown, Exit, TakeAgent, ClaimProxyStop, Take,
           Release, At, SignalPC, hostVars, proxyVars
<1>6. CASE EngineStopsProxy \/ Environment
  BY <1>6, GotoSignal
     DEF EngineStopsProxy, Environment, ReceiveSigterm, SigtermBeforeHandler,
         AgentMoves, ClientReturns, At, SignalPC, hostVars, proxyVars
<1>7. CASE UNCHANGED vars
  BY <1>7
     DEF vars, hostVars, proxyVars
<1>8. QED
  BY <1>1, <1>2, <1>3, <1>4, <1>5, <1>6, <1>7 DEF Next, Main

\* The policy is retired by the last guard, or by terminate.
LEMMA PolicyStep ==
  PcOK /\ HostOK /\ GateInv /\ PolicyInv /\ [Next]_vars => PolicyInv'
<1> SUFFICES ASSUME PcOK, HostOK, GateInv, PolicyInv, [Next]_vars
             PROVE  PolicyInv'
  OBVIOUS
<1> USE DEF PolicyInv, M, S, PastPolicy, GateInv, SignalGated, MainGated
<1>1. CASE InstallSignalControl
  BY <1>1
     DEF InstallSignalControl, At, Goto, PcOK, Threads, hostVars
<1>2. CASE Starting /\ ~InstallSignalControl
  BY <1>2, GotoMain
     DEF Starting, PublishRun, Prepare, Acquire, StartBroker, StartProxy,
         PublishProxyCleanup, InspectProxy, WaitReady,
         DropWaitedBroker, BrokerStopped, StopBroker, Fill, Drop,
         Release, At, MainPC, hostVars
<1>3. CASE Running
  <2>1. CASE \/ StopAndConfirmAgent("main", "bailCleanup", "bailDone")
             \/ StopAndConfirmAgent("main", "finishCleanup", "finishTake")
    BY <2>1, GotoMain
       DEF StopAndConfirmAgent, CleanupCommand, CleanupInspect, EngineError,
           Confirmed, Unconfirmed, At, MainPC, hostVars
  <2>2. QED
    BY <1>3, <2>1, GotoMain
       DEF Running, Acquire, CreateAgent, CheckCreated, StartAgent, LeaveBail,
           WaitAgent, DisarmClient, FinishAgent, FinishTake,
           TakeAgent, Take, Fill, Release, At, MainPC, hostVars
<1>4. CASE Unwinding
  BY <1>4, GotoMain
     DEF Unwinding, UnwindProxy, IssueProxyStop, AwaitProxyStop,
         LeaveInspection, UnwindBroker, BrokerStopped, StopBroker,
         Drop, UnwindPolicy, Return, ClaimProxyStop, Release, At,
         MainPC, hostVars
<1>5. CASE Signal
  <2>1. CASE StopAndConfirmAgent("signal", "agentCleanup", "confirm")
    BY <2>1, GotoSignal
       DEF StopAndConfirmAgent, CleanupCommand, CleanupInspect, EngineError,
           Confirmed, Unconfirmed, At, SignalPC, hostVars
  <2>2. QED
    BY <1>5, <2>1, GotoSignal
       DEF Signal, Acquire, TerminateClient, TerminateAgent, ReadVerdict,
           TerminateProxy, IssueProxyStop, AwaitProxyStop,
           TerminateBroker, BrokerStopped, StopBroker, RetirePolicy,
           LeaveTeardown, Exit, TakeAgent, ClaimProxyStop, Take,
           Release, At, SignalPC, hostVars
<1>6. CASE EngineStopsProxy \/ Environment
  BY <1>6, GotoSignal
     DEF EngineStopsProxy, Environment, ReceiveSigterm, SigtermBeforeHandler,
         AgentMoves, ClientReturns, At, SignalPC, hostVars
<1>7. CASE UNCHANGED vars
  BY <1>7
     DEF vars, hostVars
<1>8. QED
  BY <1>1, <1>2, <1>3, <1>4, <1>5, <1>6, <1>7 DEF Next, Main

\* A failed cleanup is read by terminate or has been reported before.
LEMMA VerdictStep ==
  PcOK /\ HostOK /\ GateInv /\ AgentInv /\ VerdictInv /\ [Next]_vars => VerdictInv'
<1> SUFFICES ASSUME PcOK, HostOK, GateInv, AgentInv, VerdictInv, [Next]_vars
             PROVE  VerdictInv'
  OBVIOUS
<1> USE DEF VerdictInv, M, S, PastAgent, AgentReported, GateInv, SignalGated,
            MainGated, MayStart, Terminating, AgentInv,
            AgentSettled, Early, Late, AgentOwned
<1>1. CASE InstallSignalControl
  BY <1>1
     DEF InstallSignalControl, At, Goto, PcOK, Threads, agentVars, endVars,
         AfterCommand, AgentSlots
<1>2. CASE Starting /\ ~InstallSignalControl
  BY <1>2, GotoMain
     DEF Starting, PublishRun, Prepare, Acquire, StartBroker, StartProxy,
         PublishProxyCleanup, InspectProxy, WaitReady,
         DropWaitedBroker, BrokerStopped, StopBroker, Fill, Drop,
         Release, At, MainPC, agentVars, endVars, AfterCommand,
         AgentSlots
<1>3. CASE Running
  <2>1. CASE \/ StopAndConfirmAgent("main", "bailCleanup", "bailDone")
             \/ StopAndConfirmAgent("main", "finishCleanup", "finishTake")
    BY <2>1, GotoMain
       DEF StopAndConfirmAgent, CleanupCommand, CleanupInspect, EngineError,
           Confirmed, Unconfirmed, At, MainPC, agentVars, endVars,
           AfterCommand, AgentSlots
  <2>2. QED
    BY <1>3, <2>1, GotoMain
       DEF Running, Acquire, CreateAgent, CheckCreated, StartAgent, LeaveBail,
           WaitAgent, DisarmClient, FinishAgent, FinishTake,
           TakeAgent, Take, Fill, Release, At, MainPC, agentVars,
           endVars, AfterCommand, AgentSlots
<1>4. CASE Unwinding
  BY <1>4, GotoMain
     DEF Unwinding, UnwindProxy, IssueProxyStop, AwaitProxyStop,
         LeaveInspection, UnwindBroker, BrokerStopped, StopBroker,
         Drop, UnwindPolicy, Return, ClaimProxyStop, Release, At,
         MainPC, agentVars, endVars, AfterCommand, AgentSlots
<1>5. CASE Signal
  <2>1. CASE StopAndConfirmAgent("signal", "agentCleanup", "confirm")
    BY <2>1, GotoSignal
       DEF StopAndConfirmAgent, CleanupCommand, CleanupInspect, EngineError,
           Confirmed, Unconfirmed, At, SignalPC, agentVars, endVars,
           AfterCommand, AgentSlots
  <2>2. QED
    BY <1>5, <2>1, GotoSignal
       DEF Signal, Acquire, TerminateClient, TerminateAgent, ReadVerdict,
           TerminateProxy, IssueProxyStop, AwaitProxyStop,
           TerminateBroker, BrokerStopped, StopBroker, RetirePolicy,
           LeaveTeardown, Exit, TakeAgent, ClaimProxyStop, Take,
           Release, At, SignalPC, agentVars, endVars, AfterCommand,
           AgentSlots
<1>6. CASE EngineStopsProxy \/ Environment
  BY <1>6, GotoSignal
     DEF EngineStopsProxy, Environment, ReceiveSigterm, SigtermBeforeHandler,
         AgentMoves, ClientReturns, At, SignalPC, agentVars, endVars,
         AfterCommand, AgentSlots
<1>7. CASE UNCHANGED vars
  BY <1>7
     DEF vars, agentVars, endVars, AfterCommand, AgentSlots
<1>8. QED
  BY <1>1, <1>2, <1>3, <1>4, <1>5, <1>6, <1>7 DEF Next, Main

LEMMA TeardownInvariant == Spec => [](IInv /\ TeardownInv)
<1>1. Init => TeardownInv
  BY DEF Init, TeardownInv, ClientInv, BrokerInv, StopInv, PolicyInv,
         VerdictInv, PastClient, PastBroker, PastPolicy, PastProxy, PastAgent,
         AgentReported, M, S
<1>2. IInv /\ TeardownInv /\ [Next]_vars => TeardownInv'
  BY ClientStep, BrokerStep, StopStep, PolicyStep, VerdictStep
     DEF IInv, TypeOK, TeardownInv
<1>3. QED
  BY <1>1, <1>2, Invariant, PTL DEF Spec, Safety

(* Every end of the run is a complete one and says what is true: a SIGTERM *)
(* that did not meet the main thread at its own releases, and a return     *)
(* nobody interrupted, leave no client, proxy, broker or policy behind, on *)
(* every path of start_container and terminate; and terminate calls the    *)
(* agent's removal confirmed only when it was, or when finish_agent had    *)
(* reported its failure.                                                   *)
THEOREM TeardownComplete == Spec => []TeardownIsComplete
<1>1. ASSUME IInv, TeardownInv PROVE SigtermLeavesNothing
  <2> SUFFICES ASSUME exited = "signal", ~ReleasesUngated PROVE Leftovers = {}
    BY DEF SigtermLeavesNothing
  <2>1. S = "end"
    BY <1>1 DEF IInv, RevokeInv
  <2>2. client = "none" /\ policy # "published"
    BY <1>1, <2>1
       DEF TeardownInv, ClientInv, PolicyInv, PastClient, PastAgent, PastPolicy
  <2>3. broker \notin {"accepting", "stopping"}
    BY <1>1, <2>1
       DEF TeardownInv, BrokerInv, PastBroker, ReleasesUngated, M
  <2>4. proxy = "running" => proxyStop = "done"
    BY <1>1, <2>1
       DEF IInv, TypeOK, EngineOK, TeardownInv, StopInv, PastProxy, PastAgent,
           ReleasesUngated, M
  <2>5. QED
    BY <2>2, <2>3, <2>4 DEF Leftovers
<1>2. ASSUME IInv, TeardownInv PROVE ReturnLeavesNothing
  <2> SUFFICES ASSUME exited = "main", ~Terminating PROVE Leftovers = {}
    BY DEF ReturnLeavesNothing
  <2>1. M = "end" /\ S \in {"none", "idle"}
    BY <1>2 DEF IInv, RevokeInv, GateInv
  <2>2. client = "none" /\ policy # "published"
    BY <1>2, <2>1 DEF TeardownInv, ClientInv, PolicyInv
  <2>3. broker \notin {"accepting", "stopping"}
    BY <1>2, <2>1 DEF TeardownInv, BrokerInv, PolicyInv
  <2>4. proxy = "running" => proxyStop = "done"
    BY <1>2, <2>1
       DEF IInv, TypeOK, EngineOK, TeardownInv, StopInv, PolicyInv
  <2>5. QED
    BY <2>2, <2>3, <2>4 DEF Leftovers
<1>3. TeardownInv => VerdictIsSound
  BY DEF TeardownInv, VerdictInv, AgentReported, VerdictIsSound, M
<1>4. QED
  BY <1>1, <1>2, <1>3, TeardownInvariant, PTL DEF TeardownIsComplete

-----------------------------------------------------------------------------
(* The refinement of AgentCustody: one abstract step, or none, for each    *)
(* step of a thread or of the engine.                                      *)

LEMMA StartingKeepsCustody ==
  IInv /\ Starting => [Custody!Next]_Custody!vars
<1> SUFFICES ASSUME IInv, Starting PROVE [Custody!Next]_Custody!vars
  OBVIOUS
<1> USE DEF Custody!vars, hostVars, agentVars, proxyVars, endVars
<1>1. CASE StartProxy
  BY <1>1
     DEF StartProxy, At, Threads, Custody!Next, Custody!Open, IInv, ProxyInv,
         BeforeProxy, M
<1>2. CASE Starting /\ ~StartProxy
  BY <1>2
     DEF Starting, PublishRun, InstallSignalControl, Prepare, Acquire,
         StartBroker, PublishProxyCleanup, InspectProxy, WaitReady,
         DropWaitedBroker, BrokerStopped
<1>3. QED
  BY <1>1, <1>2

\* The cleanup removes the container, or gives it up and says so.
LEMMA CleanupKeepsCustody ==
  ASSUME NEW t, NEW at, NEW to, EngineOK, StopAndConfirmAgent(t, at, to)
  PROVE  [Custody!Next]_Custody!vars
<1> USE DEF Custody!vars, Custody!Next, hostVars, proxyVars, endVars, Threads,
            StopAndConfirmAgent, At, Unconfirmed
<1>1. CASE CleanupCommand(t, to)
  BY <1>1
     DEF CleanupCommand, AfterCommand, EngineOK, Custody!Lose, Custody!Abandon
<1>2. CASE CleanupInspect(t, to)
  BY <1>2
     DEF CleanupInspect, EngineError, Confirmed, Custody!Abandon
<1>3. QED
  BY <1>1, <1>2

LEMMA RunningKeepsCustody ==
  IInv /\ Running => [Custody!Next]_Custody!vars
<1> SUFFICES ASSUME IInv, Running PROVE [Custody!Next]_Custody!vars
  OBVIOUS
<1> USE DEF Custody!vars, hostVars, agentVars, proxyVars, endVars
<1>1. CASE CreateAgent
  <2>1. CASE UNCHANGED agent
    BY <1>1, <2>1 DEF CreateAgent
  <2>2. CASE MayStart /\ agent' = "created"
    <3>1. proxyStop = "no" /\ proxy = "running"
      BY <1>1, <2>2
         DEF CreateAgent, At, MayStart, IInv, GateInv, RevokeInv, ProxyInv,
             WithProxy, Late, PastProxy, PastAgent, M, S
    <3>2. agent = "absent" /\ "agentFailed" \notin flags
      BY <1>1 DEF CreateAgent, At, IInv, AgentInv, Early, M
    <3>3. QED
      BY <1>1, <2>2, <3>1, <3>2
         DEF CreateAgent, At, Threads, Custody!Next, Custody!Take
  <2>3. QED
    BY <1>1, <2>1, <2>2 DEF CreateAgent
<1>2. CASE \/ StopAndConfirmAgent("main", "bailCleanup", "bailDone")
           \/ StopAndConfirmAgent("main", "finishCleanup", "finishTake")
  BY <1>2, CleanupKeepsCustody DEF IInv, TypeOK
<1>3. CASE StartAgent
  BY <1>3 DEF StartAgent
<1>4. QED
  BY <1>1, <1>2, <1>3
     DEF Running, Acquire, CheckCreated, LeaveBail, WaitAgent, DisarmClient,
         FinishAgent, FinishTake

LEMMA UnwindingKeepsCustody ==
  IInv /\ Unwinding => [Custody!Next]_Custody!vars
<1> SUFFICES ASSUME IInv, Unwinding PROVE [Custody!Next]_Custody!vars
  OBVIOUS
<1> USE DEF Custody!vars, hostVars, agentVars, proxyVars, endVars
<1>1. CASE UnwindProxy
  BY <1>1
     DEF UnwindProxy, ClaimProxyStop, At, Threads, IInv, ProxyInv, AgentInv,
         AgentSettled, Late, M, Custody!Next, Custody!Revoke
<1>2. CASE IssueProxyStop("main")
  BY <1>2 DEF IssueProxyStop, At, IInv, ProxyInv, M
<1>3. CASE Return
  BY <1>3
     DEF Return, At, Threads, IInv, AgentInv, AgentSettled, Late, M,
         Custody!Next, Custody!End
<1>4. QED
  BY <1>1, <1>2, <1>3
     DEF Unwinding, AwaitProxyStop, LeaveInspection, UnwindBroker,
         BrokerStopped, UnwindPolicy

LEMMA SignalKeepsCustody ==
  IInv /\ Signal => [Custody!Next]_Custody!vars
<1> SUFFICES ASSUME IInv, Signal PROVE [Custody!Next]_Custody!vars
  OBVIOUS
<1> USE DEF Custody!vars, hostVars, agentVars, proxyVars, endVars
<1>1. CASE TerminateProxy
  BY <1>1
     DEF TerminateProxy, ClaimProxyStop, At, Threads, IInv, ProxyInv, AgentInv,
         AgentSettled, PastAgent, S, Custody!Next, Custody!Revoke
<1>2. CASE IssueProxyStop("signal")
  BY <1>2 DEF IssueProxyStop, At, IInv, ProxyInv, S
<1>3. CASE Exit
  BY <1>3
     DEF Exit, At, Threads, IInv, AgentInv, AgentSettled, PastAgent, S,
         Custody!Next, Custody!End
<1>4. CASE StopAndConfirmAgent("signal", "agentCleanup", "confirm")
  BY <1>4, CleanupKeepsCustody DEF IInv, TypeOK
<1>5. QED
  BY <1>1, <1>2, <1>3, <1>4
     DEF Signal, Acquire, TerminateClient, TerminateAgent, ReadVerdict,
         AwaitProxyStop, TerminateBroker, BrokerStopped, RetirePolicy,
         LeaveTeardown

LEMMA EnvironmentKeepsCustody ==
  IInv /\ (EngineStopsProxy \/ Environment) => [Custody!Next]_Custody!vars
<1> SUFFICES ASSUME IInv, EngineStopsProxy \/ Environment
             PROVE  [Custody!Next]_Custody!vars
  OBVIOUS
<1> USE DEF Custody!vars, hostVars, agentVars, proxyVars, endVars
<1>1. CASE AgentMoves
  BY <1>1 DEF AgentMoves, Custody!Next, Custody!Lose
<1>2. CASE ReceiveSigterm
  BY <1>2 DEF ReceiveSigterm
<1>3. CASE SigtermBeforeHandler
  BY <1>3 DEF SigtermBeforeHandler, At, Threads
<1>4. QED
  BY <1>1, <1>2, <1>3 DEF EngineStopsProxy, Environment, ClientReturns

(* The run of start_container, the signal thread and the engine implements *)
(* AgentCustody: an agent only behind a live proxy, revocation and the end *)
(* of the process only when the agent is gone or reported.                 *)
THEOREM CustodyKept == Spec => KeepsCustody
<1>1. Init => Custody!Init
  BY DEF Init, Custody!Init, Threads
<1>2. IInv /\ [Next]_vars => [Custody!Next]_Custody!vars
  <2>1. ASSUME UNCHANGED vars PROVE UNCHANGED Custody!vars
    BY <2>1 DEF vars, Custody!vars, agentVars, proxyVars, endVars
  <2>2. QED
    BY <2>1, StartingKeepsCustody, RunningKeepsCustody, UnwindingKeepsCustody,
       SignalKeepsCustody, EnvironmentKeepsCustody
       DEF Next, Main
<1>3. QED
  BY <1>1, <1>2, Invariant, PTL DEF Spec, Safety, KeepsCustody, Custody!Spec
=============================================================================
