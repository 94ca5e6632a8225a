---------------------------- MODULE RunLifecycle ----------------------------
(***************************************************************************)
(* One `vhrn <harness>` process, from the publication of its run policy to *)
(* the end of the process (cli/src/run.rs, start_container).  Two threads  *)
(* act: "main" starts the broker, the proxy sidecar and the agent, waits   *)
(* for the agent and drops its guards; "signal" receives SIGTERM and tears *)
(* the run down.  They meet at the teardown gate and at the cleanup slots  *)
(* of SignalControl.  The container engine is the environment: a command   *)
(* may fail, a container may exit by itself, a command already handed to   *)
(* the engine takes effect even when the process that issued it has ended. *)
(*                                                                         *)
(* Data left out: names, command lines, images, the contents of policy     *)
(* files, terminal output.  The broker's own threads are module Broker,    *)
(* the policy directory is module PolicyStore.                             *)
(***************************************************************************)
EXTENDS Naturals

CONSTANT InspectTries     \* attempts to read the proxy's address (the code: 30)

ASSUME InspectTriesAssumption == InspectTries \in Nat \ {0}

VARIABLES
  pc,           \* where each of the two threads is
  gate,         \* holder of the mutex SignalControl.teardown, or "free"
  flags,        \* atomic flags that are set: SignalControl.terminating, and
                \* "agentFailed", set by a cleanup that could not be confirmed
  slots,        \* slots of SignalControl that are filled
  policy,       \* the run's policy directory
  broker,       \* the host broker: "stopping" is between its two stop steps
  owns,         \* guards the main thread must still drop
  agent,        \* the agent container, as the engine has it
  stage,        \* next command of stop_and_confirm_agent, while it runs
  client,       \* the attached engine client, SignalControl.agent_client
  proxy,        \* the proxy container, as the engine has it
  proxyStop,    \* ProxyCleanup: not run, claimed by `done.swap`, issued, done
  tries,        \* inspections of the started proxy so far
  verdict,      \* what terminate concluded about the agent
  exited        \* how the process ended, or "no"

hostVars  == <<policy, broker, owns>>
agentVars == <<agent, stage, client>>
proxyVars == <<proxy, proxyStop, tries>>
endVars   == <<verdict, exited>>
vars == <<pc, gate, flags, slots, hostVars, agentVars, proxyVars, endVars>>

Threads == {"main", "signal"}
Slots == {"client", "agent", "failed", "proxy", "broker"}
Flags == {"terminating", "agentFailed"}

MainPC == {"publish", "install", "prepare", "brokerGate", "broker",
           "proxyGate", "proxy", "proxyPublish", "proxyInspect", "ready",
           "readyDrop", "readyStop", "failDrop", "failStop",
           "createGate", "create", "created", "startGate", "start",
           "bailCleanup", "bailDone", "wait", "finishGate", "finish",
           "finishAgent", "finishCleanup",
           "finishTake", "unwind", "proxyIssue", "proxyAwait",
           "brokerStop",
           "end"}
SignalPC == {"none", "idle", "gate", "client", "agent", "agentCleanup",
             "confirm", "proxy", "proxyIssue", "proxyAwait", "broker",
             "brokerStop", "policy", "release", "exit", "end"}

-----------------------------------------------------------------------------
(* Control helpers.                                                        *)

At(t, here) == pc[t] = here /\ exited = "no"
Goto(t, there) == pc' = [pc EXCEPT ![t] = there]

Terminating == "terminating" \in flags

\* Blocks on the teardown gate: lock_teardown.
Acquire(t, from, to) ==
  /\ At(t, from) /\ gate = "free"
  /\ gate' = t
  /\ Goto(t, to)
  /\ UNCHANGED <<flags, slots, hostVars, agentVars, proxyVars, endVars>>

\* Leaves the scope of the gate's guard.
Release(t, to) == gate' = "free" /\ Goto(t, to)

Fill(slot) == slots' = slots \cup {slot}
Take(slot) == slots' = slots \ {slot}
Drop(guard) == owns' = owns \ {guard}

AgentSettled == agent = "absent" \/ "agentFailed" \in flags

-----------------------------------------------------------------------------
(* stop_and_confirm_agent: stop, inspect, kill, inspect, force-remove,     *)
(* inspect.  A command that cannot be run, and an inspection that neither  *)
(* shows the container nor says it is absent, ends it with an error, which *)
(* agent_cleanup records in the shared flag.                               *)

Inspected == [stop |-> "stopped", kill |-> "killed", remove |-> "removed"]
Escalated == [stopped |-> "kill", killed |-> "remove"]

\* What the engine may have made of the container when the command returns.
\* stop and kill act on a container that has been started; `--rm` may then
\* remove it.
AfterCommand ==
  IF stage = "remove" THEN {agent, "absent"}
  ELSE IF agent \in {"starting", "running"} THEN {agent, "exited", "absent"}
  ELSE {agent}

Confirmed(t, to) ==
  /\ stage' = "none"
  /\ Goto(t, to)
  /\ UNCHANGED <<agent, flags>>

Unconfirmed(t, to) ==
  /\ stage' = "none"
  /\ flags' = flags \cup {"agentFailed"}
  /\ Goto(t, to)
  /\ UNCHANGED agent

\* Neither presence nor absence; a variant takes it for absence.
EngineErrorIsAbsence(t, to) == Confirmed(t, to)
EngineError(t, to) == Unconfirmed(t, to)

\* A command that could not be run, or a force-remove that failed for another
\* reason than absence, ends the cleanup too.
CleanupCommand(t, to) ==
  /\ stage \in {"stop", "kill", "remove"}
  /\ \/ /\ agent' \in AfterCommand
        /\ stage' = Inspected[stage]
        /\ UNCHANGED <<pc, flags>>
     \/ Unconfirmed(t, to)

CleanupInspect(t, to) ==
  /\ stage \in {"stopped", "killed", "removed"}
  /\ \/ EngineError(t, to)
     \/ agent = "absent" /\ Confirmed(t, to)
     \/ agent # "absent" /\ stage = "removed" /\ Unconfirmed(t, to)
     \/ /\ agent # "absent" /\ stage # "removed"
        /\ stage' = Escalated[stage]
        /\ UNCHANGED <<pc, agent, flags>>

StopAndConfirmAgent(t, at, to) ==
  /\ At(t, at)
  /\ CleanupCommand(t, to) \/ CleanupInspect(t, to)
  /\ UNCHANGED <<gate, slots, hostVars, client, proxyVars, endVars>>

\* A variant that takes the cleanup out and drops it, as disarm_cleanup does.
DisarmAgent(t, cleanup, none) ==
  Take("agent") /\ stage' = stage /\ Goto(t, none)

\* Takes the agent's cleanup out of its slot and starts it, if it is there.
TakeAgent(t, cleanup, none) ==
  /\ Take("agent")
  /\ stage' = IF "agent" \in slots THEN "stop" ELSE stage
  /\ Goto(t, IF "agent" \in slots THEN cleanup ELSE none)

-----------------------------------------------------------------------------
(* ProxyCleanup.run: the caller that swaps `done` issues the stop and      *)
(* waits for it; any other caller goes straight on.                        *)

ClaimProxyStop(t, otherwise) ==
  IF proxyStop = "no"
  THEN proxyStop' = "claimed" /\ Goto(t, "proxyIssue")
  ELSE proxyStop' = proxyStop /\ Goto(t, otherwise)

IssueProxyStop(t) ==
  /\ At(t, "proxyIssue")
  /\ proxyStop' = "issued"
  /\ Goto(t, "proxyAwait")
  /\ UNCHANGED <<gate, flags, slots, hostVars, agentVars, proxy, tries, endVars>>

AwaitProxyStop(t, to) ==
  /\ At(t, "proxyAwait")
  /\ proxyStop = "done"
  /\ Goto(t, to)
  /\ UNCHANGED <<gate, flags, slots, hostVars, agentVars, proxyVars, endVars>>

-----------------------------------------------------------------------------
(* BrokerState.stop: the first caller swaps `stopped`, shuts the sockets,  *)
(* joins the threads and removes the token; a later caller returns at once.*)

\* A variant whose first caller does not wait for the threads either.
StopBrokerDetached(t, busy, to) ==
  /\ broker' = IF broker = "accepting" THEN "stopping" ELSE broker
  /\ Goto(t, to)

StopBroker(t, busy, to) ==
  IF broker = "accepting"
  THEN broker' = "stopping" /\ Goto(t, busy)
  ELSE broker' = broker /\ Goto(t, to)

BrokerStopped(t, busy, to) ==
  /\ At(t, busy)
  /\ broker' = "stopped"
  /\ Goto(t, to)
  /\ UNCHANGED <<gate, flags, slots, policy, owns, agentVars, proxyVars, endVars>>

-----------------------------------------------------------------------------
(* The main thread.                                                        *)

\* The check made under the gate before anything is started; the variant
\* leaves it out.
MayStartAlways == TRUE
MayStart == ~Terminating

\* store.publish_run; a failure ends the run before anything exists.
PublishRun ==
  /\ At("main", "publish")
  /\ \/ policy' = "published" /\ owns' = {"policy"} /\ Goto("main", "install")
     \/ UNCHANGED <<policy, owns>> /\ Goto("main", "unwind")
  /\ UNCHANGED <<gate, flags, slots, broker, agentVars, proxyVars, endVars>>

\* install_signal_control: registers the handler and spawns the thread.
InstallSignalControl ==
  /\ At("main", "install")
  /\ \/ pc' = [pc EXCEPT !["main"] = "prepare", !["signal"] = "idle"]
     \/ Goto("main", "unwind")
  /\ UNCHANGED <<gate, flags, slots, hostVars, agentVars, proxyVars, endVars>>

\* The guide, the tools image, the engine and its network: any may fail.
Prepare ==
  /\ At("main", "prepare")
  /\ Goto("main", "brokerGate") \/ Goto("main", "unwind")
  /\ UNCHANGED <<gate, flags, slots, hostVars, agentVars, proxyVars, endVars>>

\* Gives up when asked to terminate, and when the broker cannot be started.
StartBroker ==
  /\ At("main", "broker")
  /\ \/ /\ MayStart
        /\ broker' = "accepting" /\ Fill("broker")
        /\ owns' = owns \cup {"broker"}
        /\ Release("main", "proxyGate")
     \/ /\ UNCHANGED <<broker, slots, owns>>
        /\ Release("main", "unwind")
  /\ UNCHANGED <<flags, policy, agentVars, proxyVars, endVars>>

\* engine run -d: on success the guard exists before anything is inspected.
StartProxy ==
  /\ At("main", "proxy")
  /\ \/ /\ MayStart
        /\ proxy' = "running" /\ owns' = owns \cup {"proxy"}
        /\ Goto("main", "proxyPublish")
        /\ UNCHANGED gate
     \/ /\ UNCHANGED <<proxy, owns>>
        /\ Release("main", "unwind")
  /\ UNCHANGED <<flags, slots, policy, broker, agentVars, proxyStop, tries, endVars>>

\* finish_started_proxy publishes the cleanup before it inspects.
PublishProxyCleanup ==
  /\ At("main", "proxyPublish")
  /\ Fill("proxy")
  /\ Goto("main", "proxyInspect")
  /\ UNCHANGED <<gate, flags, hostVars, agentVars, proxyVars, endVars>>

LastTry == tries + 1 = InspectTries

\* An address lets the run go on; the last try without one drops the guard,
\* still under the gate.
InspectProxy ==
  /\ At("main", "proxyInspect")
  /\ tries' = tries + 1
  /\ \/ Release("main", "ready")
     \/ /\ Goto("main", IF LastTry THEN "unwind" ELSE "proxyInspect")
        /\ UNCHANGED gate
  /\ UNCHANGED <<flags, slots, hostVars, agentVars, proxy, proxyStop, endVars>>

\* `if let Some(broker) = broker { broker.wait_ready(..)? }`.  Readiness was
\* announced by the proxy or is not within ten seconds; a broker that has
\* published that it stopped fails the wait, one that is about to may not yet.
WaitReady ==
  /\ At("main", "ready")
  /\ \/ broker # "stopped" /\ Goto("main", "readyDrop")
     \/ Goto("main", "failDrop")
  /\ UNCHANGED <<gate, flags, slots, hostVars, agentVars, proxyVars, endVars>>

\* The end of that block drops the broker it moved out of the Option, and the
\* run goes on to the agent, or unwinds, after Broker::drop.
DropWaitedBroker(from, busy, to) ==
  /\ At("main", from)
  /\ StopBroker("main", busy, to)
  /\ Drop("broker")
  /\ UNCHANGED <<gate, flags, slots, policy, agentVars, proxyVars, endVars>>

AgentSlots == {"agent", "failed"}

\* create_agent_with, up to the publication of both slots.
CreateAgent ==
  /\ At("main", "create")
  /\ \/ /\ MayStart
        /\ agent' = "created"
        /\ slots' = slots \cup AgentSlots
        /\ Goto("main", "created")
        /\ UNCHANGED gate
     \/ /\ UNCHANGED <<agent, slots>>
        /\ Release("main", "finishGate")
  /\ UNCHANGED <<flags, hostVars, stage, client, proxyVars, endVars>>

\* The second look at the flag, after the container exists.
CheckCreated ==
  /\ At("main", "created")
  /\ \/ Terminating /\ TakeAgent("main", "bailCleanup", "bailDone") /\ UNCHANGED gate
     \/ ~Terminating /\ Release("main", "startGate") /\ UNCHANGED <<slots, stage>>
  /\ UNCHANGED <<flags, hostVars, agent, client, proxyVars, endVars>>

\* begin_agent_attach: a spawn failure or the flag removes the container.
StartAgent ==
  /\ At("main", "start")
  /\ \/ /\ MayStart
        /\ agent' = IF agent = "created" THEN "starting" ELSE agent
        /\ client' = "running" /\ Fill("client")
        /\ Release("main", "wait")
        /\ UNCHANGED stage
     \/ /\ TakeAgent("main", "bailCleanup", "bailDone")
        /\ UNCHANGED <<gate, agent, client>>
  /\ UNCHANGED <<flags, hostVars, proxyVars, endVars>>

\* The error returns of create_agent and start_agent leave the gate's scope.
LeaveBail ==
  /\ At("main", "bailDone")
  /\ Release("main", "finishGate")
  /\ UNCHANGED <<flags, slots, hostVars, agentVars, proxyVars, endVars>>

ClientEnded == client # "running"

\* wait_agent: the client ended, or the signal thread took it out of its slot.
WaitAgent ==
  /\ At("main", "wait")
  /\ ClientEnded
  /\ Goto("main", "finishGate")
  /\ UNCHANGED <<gate, flags, slots, hostVars, agentVars, proxyVars, endVars>>

\* finish_agent_lifecycle: both client records go before the container does.
DisarmClient ==
  /\ At("main", "finish")
  /\ client' = "none" /\ Take("client")
  /\ Goto("main", "finishAgent")
  /\ UNCHANGED <<gate, flags, hostVars, agent, stage, proxyVars, endVars>>

FinishAgent ==
  /\ At("main", "finishAgent")
  /\ TakeAgent("main", "finishCleanup", "finishTake")
  /\ UNCHANGED <<gate, flags, hostVars, agent, client, proxyVars, endVars>>

FinishTake ==
  /\ At("main", "finishTake")
  /\ Take("failed")
  /\ Release("main", "unwind")
  /\ UNCHANGED <<flags, hostVars, agentVars, proxyVars, endVars>>

\* start_container's locals in reverse order: the proxy guard, a broker that
\* was never waited for, the policy run; none of it under the gate, but for
\* the guard of a proxy whose inspection failed.
UnwindProxy ==
  /\ At("main", "unwind") /\ "proxy" \in owns
  /\ Drop("proxy")
  /\ ClaimProxyStop("main", "unwind")
  /\ UNCHANGED <<gate, flags, slots, policy, broker, agentVars, proxy, tries, endVars>>

LeaveInspection ==
  /\ At("main", "unwind") /\ "proxy" \notin owns /\ gate = "main"
  /\ Release("main", "unwind")
  /\ UNCHANGED <<flags, slots, hostVars, agentVars, proxyVars, endVars>>

UnwindBroker ==
  /\ At("main", "unwind") /\ gate # "main"
  /\ "proxy" \notin owns /\ "broker" \in owns
  /\ Drop("broker")
  /\ StopBroker("main", "brokerStop", "unwind")
  /\ UNCHANGED <<gate, flags, slots, policy, agentVars, proxyVars, endVars>>

UnwindPolicy ==
  /\ At("main", "unwind") /\ gate # "main"
  /\ owns = {"policy"}
  /\ owns' = {}
  /\ policy' = "retired"
  /\ UNCHANGED <<pc, gate, flags, slots, broker, agentVars, proxyVars, endVars>>

\* start_container returns and the process ends with it.
Return ==
  /\ At("main", "unwind") /\ owns = {}
  /\ exited' = "main"
  /\ Goto("main", "end")
  /\ UNCHANGED <<gate, flags, slots, hostVars, agentVars, proxyVars, verdict>>

Starting ==
  \/ PublishRun \/ InstallSignalControl \/ Prepare
  \/ Acquire("main", "brokerGate", "broker") \/ StartBroker
  \/ Acquire("main", "proxyGate", "proxy") \/ StartProxy
  \/ PublishProxyCleanup \/ InspectProxy \/ WaitReady
  \/ DropWaitedBroker("readyDrop", "readyStop", "createGate")
  \/ BrokerStopped("main", "readyStop", "createGate")
  \/ DropWaitedBroker("failDrop", "failStop", "unwind")
  \/ BrokerStopped("main", "failStop", "unwind")

Running ==
  \/ Acquire("main", "createGate", "create") \/ CreateAgent \/ CheckCreated
  \/ Acquire("main", "startGate", "start") \/ StartAgent
  \/ StopAndConfirmAgent("main", "bailCleanup", "bailDone") \/ LeaveBail
  \/ WaitAgent
  \/ Acquire("main", "finishGate", "finish") \/ DisarmClient \/ FinishAgent
  \/ StopAndConfirmAgent("main", "finishCleanup", "finishTake") \/ FinishTake

Unwinding ==
  \/ UnwindProxy \/ IssueProxyStop("main") \/ AwaitProxyStop("main", "unwind")
  \/ LeaveInspection
  \/ UnwindBroker \/ BrokerStopped("main", "brokerStop", "unwind")
  \/ UnwindPolicy \/ Return

Main == Starting \/ Running \/ Unwinding

-----------------------------------------------------------------------------
(* The signal thread: SignalControl.terminate, then process::exit(1).      *)

\* Later SIGTERMs wait in the queue the thread no longer reads.
ReceiveSigterm ==
  /\ At("signal", "idle")
  /\ flags' = flags \cup {"terminating"}
  /\ Goto("signal", "gate")
  /\ UNCHANGED <<gate, slots, hostVars, agentVars, proxyVars, endVars>>

\* A variant that waits for the engine client without killing it.
TerminateClientPolitely ==
  /\ At("signal", "client")
  /\ client # "running"
  /\ client' = IF "client" \in slots THEN "none" ELSE client
  /\ Take("client")
  /\ Goto("signal", "agent")
  /\ UNCHANGED <<gate, flags, hostVars, agent, stage, proxyVars, endVars>>

\* Kills and reaps the engine client if its cleanup is still armed.
TerminateClient ==
  /\ At("signal", "client")
  /\ client' = IF "client" \in slots THEN "none" ELSE client
  /\ Take("client")
  /\ Goto("signal", "agent")
  /\ UNCHANGED <<gate, flags, hostVars, agent, stage, proxyVars, endVars>>

TerminateAgent ==
  /\ At("signal", "agent")
  /\ TakeAgent("signal", "agentCleanup", "confirm")
  /\ UNCHANGED <<gate, flags, hostVars, agent, client, proxyVars, endVars>>

ReadVerdict ==
  /\ At("signal", "confirm")
  /\ verdict' = IF "failed" \in slots /\ "agentFailed" \in flags
                THEN "unconfirmed" ELSE "confirmed"
  /\ Take("failed")
  /\ Goto("signal", "proxy")
  /\ UNCHANGED <<gate, flags, hostVars, agentVars, proxyVars, exited>>

TerminateProxy ==
  /\ At("signal", "proxy")
  /\ Take("proxy")
  /\ \/ "proxy" \in slots /\ ClaimProxyStop("signal", "broker")
     \/ "proxy" \notin slots /\ proxyStop' = proxyStop /\ Goto("signal", "broker")
  /\ UNCHANGED <<gate, flags, hostVars, agentVars, proxy, tries, endVars>>

TerminateBroker ==
  /\ At("signal", "broker")
  /\ Take("broker")
  /\ \/ "broker" \in slots /\ StopBroker("signal", "brokerStop", "policy")
     \/ "broker" \notin slots /\ broker' = broker /\ Goto("signal", "policy")
  /\ UNCHANGED <<gate, flags, policy, owns, agentVars, proxyVars, endVars>>

RetirePolicy ==
  /\ At("signal", "policy")
  /\ policy' = "retired"
  /\ Goto("signal", "release")
  /\ UNCHANGED <<gate, flags, slots, broker, owns, agentVars, proxyVars, endVars>>

LeaveTeardown ==
  /\ At("signal", "release")
  /\ Release("signal", "exit")
  /\ UNCHANGED <<flags, slots, hostVars, agentVars, proxyVars, endVars>>

Exit ==
  /\ At("signal", "exit")
  /\ exited' = "signal"
  /\ Goto("signal", "end")
  /\ UNCHANGED <<gate, flags, slots, hostVars, agentVars, proxyVars, verdict>>

Signal ==
  \/ Acquire("signal", "gate", "client")
  \/ TerminateClient \/ TerminateAgent
  \/ StopAndConfirmAgent("signal", "agentCleanup", "confirm")
  \/ ReadVerdict
  \/ TerminateProxy \/ IssueProxyStop("signal")
  \/ AwaitProxyStop("signal", "broker")
  \/ TerminateBroker \/ BrokerStopped("signal", "brokerStop", "policy")
  \/ RetirePolicy \/ LeaveTeardown \/ Exit

-----------------------------------------------------------------------------
(* The engine and the operator.                                            *)

\* SIGTERM before the handler exists ends the process by default action.
SigtermBeforeHandler ==
  /\ At("signal", "none")
  /\ exited' = "default"
  /\ UNCHANGED <<pc, gate, flags, slots, hostVars, agentVars, proxyVars, verdict>>

\* A started container runs; the harness ends; the engine removes its
\* container, at once or never.
AgentMoves ==
  /\ \/ agent = "starting" /\ agent' = "running"
     \/ agent = "running" /\ agent' \in {"exited", "absent"}
  /\ UNCHANGED <<pc, gate, flags, slots, hostVars, stage, client, proxyVars, endVars>>

\* The attached client returns: the agent ended, or the user detached.
ClientReturns ==
  /\ client = "running"
  /\ client' = "exited"
  /\ UNCHANGED <<pc, gate, flags, slots, hostVars, agent, stage, proxyVars, endVars>>

\* Proxy::stop looks at no status: a stop that failed counts as done.
EngineStopsProxy ==
  /\ proxyStop = "issued"
  /\ proxyStop' = "done" /\ proxy' \in {proxy, "absent"}
  /\ UNCHANGED <<pc, gate, flags, slots, hostVars, agentVars, tries, endVars>>

Environment ==
  ReceiveSigterm \/ SigtermBeforeHandler \/ AgentMoves \/ ClientReturns

Init ==
  /\ pc = [main |-> "publish", signal |-> "none"]
  /\ gate = "free" /\ flags = {} /\ slots = {}
  /\ policy = "absent" /\ broker = "none" /\ owns = {}
  /\ agent = "absent" /\ stage = "none" /\ client = "none"
  /\ proxy = "absent" /\ proxyStop = "no" /\ tries = 0
  /\ verdict = "none" /\ exited = "no"

Next == Main \/ Signal \/ EngineStopsProxy \/ Environment

\* Threads that can run do run, and an issued engine command returns; nothing
\* is assumed of the agent, the client or the operator.
Fairness ==
  /\ WF_vars(Main)
  /\ WF_vars(Signal)
  /\ WF_vars(EngineStopsProxy)

Safety == Init /\ [][Next]_vars
Spec == Safety /\ Fairness

-----------------------------------------------------------------------------
(* Properties.                                                             *)

PcOK ==
  /\ pc \in [Threads -> MainPC \cup SignalPC]
  /\ pc["main"] \in MainPC /\ pc["signal"] \in SignalPC

HostOK ==
  /\ gate \in Threads \cup {"free"}
  /\ flags \in SUBSET Flags /\ slots \in SUBSET Slots
  /\ policy \in {"absent", "published", "retired"}
  /\ broker \in {"none", "accepting", "stopping", "stopped"}
  /\ owns \in SUBSET {"broker", "proxy", "policy"}
  /\ verdict \in {"none", "confirmed", "unconfirmed"}
  /\ exited \in {"no", "main", "signal", "default"}

EngineOK ==
  /\ agent \in {"absent", "created", "starting", "running", "exited"}
  /\ stage \in {"none", "stop", "stopped", "kill", "killed", "remove", "removed"}
  /\ client \in {"none", "running", "exited"}
  /\ proxy \in {"absent", "running"}
  /\ proxyStop \in {"no", "claimed", "issued", "done"}
  /\ tries \in 0 .. InspectTries

TypeOK == PcOK /\ HostOK /\ EngineOK

(* Egress outlives the agent: the proxy is not told to stop, and the       *)
(* policy is not retired, while the agent container still exists, unless   *)
(* its removal was tried and could not be confirmed (the order client,     *)
(* agent, proxy, broker, policy of run_gated_teardown_with_broker, and of  *)
(* finish_agent before the guards are dropped).                            *)
EgressOutlivesAgent ==
  proxyStop # "no" \/ policy = "retired" => AgentSettled

(* No orphan: however the two threads interleave, the process does not end *)
(* with an agent container behind that nobody tried to remove and reported.*)
NoOrphanAgent == exited \in Threads => AgentSettled

(* Once terminate has had the gate, the main thread starts nothing more:   *)
(* no broker, proxy or agent appears (the `terminating` checks made under  *)
(* the gate in start_container, create_agent_with, begin_agent_attach).    *)
TornDown == pc["signal"] \in {"release", "exit", "end"}
Starts ==
  \/ broker = "none" /\ broker' = "accepting"
  \/ proxy = "absent" /\ proxy' = "running"
  \/ agent = "absent" /\ agent' = "created"
  \/ client = "none" /\ client' = "running"
NothingStartsAfterTeardown == [][TornDown => ~Starts]_vars

Leftovers ==
  (IF client # "none" THEN {"client"} ELSE {})
  \cup (IF proxy = "running" /\ proxyStop # "done" THEN {"proxy"} ELSE {})
  \cup (IF broker \in {"accepting", "stopping"} THEN {"broker"} ELSE {})
  \cup (IF policy = "published" THEN {"policy"} ELSE {})

(* The main thread past its last turn at the gate, or inside a broker drop *)
(* of its own: the places where it releases resources without the gate.    *)
ReleasesUngated ==
  pc["main"] \in {"readyStop", "failStop", "unwind", "proxyIssue",
                  "proxyAwait", "brokerStop"}

(* A SIGTERM that ends the process leaves no client, proxy, broker or      *)
(* policy behind, if it did not meet the main thread releasing the same    *)
(* things (docs/sandbox-design.md: "On SIGTERM, cleanup removes the agent, *)
(* proxy, broker, and run policy").                                        *)
SigtermLeavesNothing ==
  exited = "signal" /\ ~ReleasesUngated => Leftovers = {}

(* A run that returns without having been asked to terminate leaves none   *)
(* of them either, on every path through its error returns.                *)
ReturnLeavesNothing ==
  exited = "main" /\ ~Terminating => Leftovers = {}

(* terminate calls the agent's removal confirmed only when the container is *)
(* gone, or when finish_agent had already tried and reported it: no other  *)
(* failure is lost on the way from agent_cleanup to the exit's warning.    *)
VerdictIsSound ==
  verdict = "confirmed" =>
    agent = "absent" \/ pc["main"] \in {"unwind", "proxyIssue", "proxyAwait",
                                        "brokerStop", "end"}

(* Every end of the run is a complete one and says what is true.           *)
TeardownIsComplete ==
  SigtermLeavesNothing /\ ReturnLeavesNothing /\ VerdictIsSound

(* SIGTERM ends the run: neither the gate nor a cleanup blocks it for ever.*)
SigtermEndsTheRun == Terminating ~> exited # "no"

(* The return of the attached client ends the run.                         *)
ReturnEndsTheRun == client = "exited" ~> exited # "no"
EndsTheRun == SigtermEndsTheRun /\ ReturnEndsTheRun

(* The run keeps the promise of AgentCustody.                              *)
Custody == INSTANCE AgentCustody WITH
  egress  <- IF proxyStop # "no" THEN "revoked"
             ELSE IF proxy = "running" THEN "on" ELSE "off",
  custody <- IF "agentFailed" \in flags THEN "unaccounted"
             ELSE IF agent = "absent" THEN "none" ELSE "held",
  over    <- IF exited \in Threads THEN "yes" ELSE "no"
KeepsCustody == Custody!Spec

-----------------------------------------------------------------------------
(* What the repository says of the program and the code does not do.       *)

(* docs/sandbox-design.md: each run has a host-side broker, which the      *)
(* proxy asks for a relay on each decision.  An agent that runs before any *)
(* termination has one that accepts.                                       *)
AgentHasBroker == agent = "running" /\ ~Terminating => broker = "accepting"
=============================================================================
