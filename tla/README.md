# vhrn: TLA+ models, checks and proofs

vhrn runs a coding agent in a container whose only way out is a proxy sidecar.
A `vhrn <harness>` process on the host (`cli/`) publishes the policy of the run,
starts a broker for loopback services, a proxy container (`proxy/`) and the
agent container, waits for the agent and removes everything again; SIGTERM does
the same from a second thread. The policy is a directory of files that the
process, other `vhrn` commands, the broker and the proxy share.

Paths below are relative to the repository root. Line numbers of every modelled
definition are in `PROJECT.json`, `map`; what can go wrong, line by line, is
under `hazards`.

## Inventory

| Component | Source | State | Operations | What is hard | What makes it correct |
|---|---|---|---|---|---|
| Run lifecycle | `cli/src/run.rs` | cleanup slots and flags of `SignalControl`, the teardown gate, guards on the stack, containers in the engine | publish, install handler, start broker, start proxy, inspect it, create, start, wait for and finish the agent, teardown, unwinding | two threads over the same cleanups, engine commands that fail, error returns everywhere | nothing is started after a teardown; egress is taken away only after the agent; no orphan agent; every exit leaves nothing behind; every exit is reached |
| Host broker | `cli/src/broker.rs` | permits, registered sockets, worker handles, readiness, `stopped` | accept, admit, authenticate, dial, relay, stop | stop racing registration, accept and spawn; errors after a permit was taken; relays without an end | permits conserved; a stop shuts every relay and joins every thread; a full broker refuses and never queues |
| Policy store | `cli/src/net.rs` | the files under `net/`, the lock, the leases | edit layers, publish, reap, retire, snapshot, change mode, reset the log, report a denial, live loopback check | retirement takes no lock; crashes leave leases and half-made directories; some readers take no lock | no live run is reaped; edits are not lost; a snapshot is one state; a grant was there when it was read |
| Proxy supervisor | `proxy/src/server/listener.rs`, `shutdown.rs`, `main.rs`, `lib.rs` | drain and force flags, client tasks, permits, socket registry | bootstrap, accept, admit, serve, prune, request, force, drain | second signal, deadline and last task racing; aborts; panics | bounded admission; a bounded drain; nothing left; a failure is reported |
| Peer-close monitor | `proxy/src/server/http1.rs` | one shared poll, tokens, flags | register, wait, poll, store, drop | tokens and descriptors reused; events taken by any waiter | a close is told to its owner and to nobody else |
| Idle pool | `proxy/src/connect/pool.rs` | entries with age and sequence, `closed` | take, put, prune, close | judged before the lock is taken | one owner; capacity; nothing after close; oldest evicted |
| Authorization and audit | `proxy/src/server/router.rs`, `domain/policy.rs`, `policy/reader.rs`, `diagnostics.rs` | live policy files, mode, denial log | decide, record, connect, health | several files read one after the other; a log that fails | fail closed; no exception without its record |
| Request targets and entries | `proxy/src/domain/target.rs`, `policy.rs`, `cli/src/net.rs`, `broker.rs` | text of the files | parse, normalise, match | two programs with parsers of their own | what the user typed is what is granted, in both |
| Public connector | `proxy/src/connect/public.rs`, `public/registry.rs` | permit, deadline, answers | resolve, judge, dial | partial answers, deadline, cancellation | only judged addresses, one deadline, permit returned |
| Broker client and tunnels | `proxy/src/connect/broker/`, `server/relay.rs`, `relay` in `cli/src/broker.rs` | links, prefixes, four copy loops | CONNECT, relay, half-close, force | coalesced bytes, ends that are independent | lossless order; an end is an end; ended by force |
| Message codec | `proxy/src/server/http1.rs`, `connect/origin_body.rs`, `headers.rs` | buffers, decoder states | read head, read body, serialise | any fragmentation, budgets, contradictory fields | every hop agrees where a message ends |
| HTTP exchange | `proxy/src/connect/forward.rs`, `origin_body.rs`, `server/response.rs`, `http1.rs` | request and response state, commit, pooled origins | upload, informational, commit, body, drain, reuse | both directions at once, shutdown at commit | heads stay heads; reuse only of clean origins; every request answered or cut |
| Images and installation | `cli/src/cli.rs`, `image.rs`, `installed.rs`, `registry.rs` | engine images, tags, file of installed harnesses | install, update, uninstall, run | commands of several shells, failures and kills in between | an image that runs is the one that was asked for |
| Guide and persistence | `cli/src/persist.rs`, `harness.rs`, `run.rs` | store of the container, mirror of the host's files | seed, mirror, write guide and system config, mount | launches and agents over the same files, kills | what the agent wrote stays; what it sees is whole |

### How they interact

The main thread owns the guards of what it started; the signal thread reaches
the same resources through clonable cleanups in slots of `SignalControl`. Each
cleanup is idempotent by a flag of its own (`ProxyCleanup.done`,
`BrokerState.stopped`, `PolicyRunInner.retired`). In the proxy, the supervisor
gives each accepted connection a task, whose requests go through the codec to
the router; the router reads the policy files, records denials and hands the
request to the exchange (public connector, pool) or to a tunnel. A tunnel to a
local service asks the broker, which reads the policy files live and without
the lock. Other `vhrn` processes edit and reap under the lock, while retirement
takes none. Launches share the host's mirror, the store and the images without
any lock.

## Modules

### Side by side

Most modules of the proxy and of the host share no state with each other at the
grain at which they are modelled: the codec sees bytes, the exchange sees
messages, the supervisor sees tasks. Modules that answer one kind of question
are explored together in one state space: the MC module has a variable `part`,
set at the start and never changed, and only the variables of that part move.
What is checked of a part is exactly what would be checked of it alone. This is
done in `MCSupervisor`, `MCMessages`, `MCConnections`, `MCDecisions` and
`MCHost`; `MCPolicyStore` chooses in the same way which processes ever begin.

A property of such a part that is also proved is defined where both the MC
module and the proof module reach it: `Downstream` puts `PeerClose` beside
`ProxySupervisor`, `Decisions` puts `LiveGrant` and `DenyReport` beside
`Authorize`, `Connections` puts `Tunnel` beside `PublicDial`, `Pooling` gives
`IdlePool` a name of its own, `HostFiles` puts `StateSeed` and `Preparation` beside
`Installation`, and their MC modules and proof modules extend them.

Modules that do interact are related by the abstract specification one of them
keeps (`AgentCustody`, `BoundedService`, `PolicyTable`) and by what the other
takes as a free choice: `Broker` takes the policy's answer as given and
`LiveGrant` shows what it is worth; `HttpExchange` takes a framing that agrees
as given and `Framing` shows it; it takes a pool as a set and `IdlePool` shows
its bounds.

### RunLifecycle

One process, from `store.publish_run` to its end. `pc["main"]` walks
`start_container`, `pc["signal"]` the signal thread: `SignalControl::terminate`
and then `process::exit(1)`. `gate` is the mutex `teardown`; `slots` are the
five `Mutex<Option<..>>` of `SignalControl`; `owns` are the guards still on the
main thread's stack. One action is one stretch of code between two points where
the other thread or the engine can act: an acquisition of the gate, an engine
command, a join. `stop_and_confirm_agent` is `CleanupCommand` and
`CleanupInspect`, run by whichever thread took the agent's cleanup out of its
slot.

The engine is the environment. A command may fail, its effect may or may not
have taken place when it fails, an agent that was started may end by itself at
any time, its `--rm` removal may come at once or never, and a command already
handed to the engine takes effect even when the process that issued it has
ended. Assumptions, named here because no property would notice them:

- a `create` or `run -d` that reports failure has left no container behind;
- `Proxy::stop` looks at no status, so an issued stop counts as done whatever
  the engine made of it, and `Leftovers` counts a proxy only until then;
- an error of `try_wait` on the attached client is not modelled;
- SIGKILL is not modelled (what it leaves behind is the policy store's matter);
- the gate is held over the whole proxy inspection, as the test
  `cli/src/run.rs:2454` has it.

`AgentCustody` is the promise: the agent exists only behind a live proxy, the
proxy is revoked and the run ends only once the agent is gone or reported as
unaccounted for. `RunLifecycle` implements it (`KeepsCustody`).

### Broker

The acceptor (`LoopHead` to `PushWorker`), one worker per connection
(`Handshake` to `Unregister`), the owner (`StartAccepting`, `CheckReady`,
`ReadyTimeout`) and the two callers of `BrokerState::stop`. `client[c]` is where
connection `c` is; a connection that is served holds a permit and a registered
near end, and a far end once its upstream was admitted. The mutexes of
`BrokerState` are held only within one action. The order of drops follows the
code: `ConnectionPermit` before the client's registration, the upstream's
registration before both.

Left out: bytes and frames, the token's value, addresses (at most two per
CONNECT). The answer of the policy is a free choice. A failed
`thread::Builder::spawn` drops the closure and the connection in one step.
`BoundedService` is the promise: at most `Places` users inside, nobody enters
after closing began, closed only when empty.

### PolicyStore

The processes that share the directory: `Runs`, each a `vhrn <harness>` that
publishes, lives and retires, and `Commands`, each one `vhrn net` command. `pc`
is where a process is; between any two steps others move and the process itself
may die (`Die`), which closes its descriptors and so frees its locks and leases.
`locked` is two acquisitions: `Ensure` to `Ensured`, then `Acquire` to `Finish`.
`entry[r]` is the name a run's directory is found under (`.tmp`, the published
name, `.dead`, or none), `files[r]` what is in it: the lease, and everything else
as one item. A listed directory entry is an item of `todo[p]`, dealt with in any
order; what happened to the directory since it was listed is found out when the
item is reached, as in the code. `remove_dir_all` of an abandoned published run
is taken file by file, because its published name stays there meanwhile; under a
dot name it is one step, since every later reaper removes such a directory
whatever is in it. Retirement (`RetireRename`, `RetireRemove`) takes no lock.

Left out: the text of the files, harness and base layers (constant per run),
foreign contents (symbolic links, wrong permissions), I/O errors other than those
of the publication and those caused by a directory that has gone. Domains and
loopback authorities are edited by twin functions; a layer stands for either
file. `set_active_mode` checks every mode file before it writes the first; with
no foreign contents that pass only skips runs that have gone, as the second does.
Of the unlocked readers `loopback_allows_live` is `LiveGrant`; `resolved` and
`denied_domains` are not modelled. `doomed` is a history variable: the runs whose process was dead
when a process listed the directory for reaping.

`PolicyTable` is the promise: a layer changes as a whole, by the batch of one
command; a run is published once, complete, in one mode, and leaves for good.
`MCPolicyStore` chooses the processes that begin.

### ProxySupervisor and PeerClose

`ProxySupervisor` is the process of the proxy: `main` and its signals, the steps
of `bootstrap`, the loop of `Supervisor::run`, one task per client and
`drain_tasks`. `shut` is the pair of watch channels of `Shutdown`, `stamp` its
`requested_at`, `leased` and `up` the permits and registrations of the tasks,
`idle` the sockets in the pool. A poll of a biased `select!` is one step, with
the order of its branches in the guards; between the look at the shutdown and
the write of a committed head there are two. A task may end, panic, hang, or be
aborted; `cut` is a history variable. Time begins with the first request and
moves in seconds; `Lag` bounds how late the supervisor runs. It implements
`BoundedService`, as `Broker` does.

`PeerClose` is the poll that all downstream connections share: `states` and
`next` are the table of tokens, `interest` and `ready` the kernel's side
(external), `closed` the flags. What is done under the mutex is one step. The
order in which the fields of a connection are dropped (`Fields`) is part of the
model, since the registration goes with the first and the descriptor with the
second.

### HttpExchange, BodyCodec, Framing, IdlePool

`HttpExchange` has client connections that carry several requests and origin
connections that are lent to one client after the other. `task[c]` is the loop
of `serve_http_request` and `exchange`; streams are sequences of tokens, a head
or a unit of a body, with the request they belong to, so that a token taken for
another is visible. Upload and response proceed at once, the client may leave
and the origin close at any step.

`BodyCodec` reads heads and bodies from a socket in pieces of every size, under
the limits of a line, of the trailers and of the buffer, on the side of the
client and of the origin; a read can be given up and begun again. It is compared
with a recursive grammar in `MCMessages` that sees the whole wire.

`Framing` takes a request through `parse_framing`, `serialize_request_head`,
the origin's response through `response_framing` and what the proxy answers,
and says where a reader by the rules of the protocol finds the end.

`IdlePool` is the pool: a put is judged (`Judge`) before it takes the mutex
(`Put`); the sequence number wraps.

### PublicDial, AddressRegistry, Tunnel

`PublicDial` is `open_target`: a permit, the resolution (any list of answers),
the judgement of all of them by `AddressRegistry`, sequential dials, one
deadline and one cancellation. `AddressRegistry` has every row of both
registries of `registry.rs`; `MCConnections` evaluates it at the bounds of every
block (`AllAddresses`), and `PublicDial` compares the result with `Reserved`,
which is written by ranges.

`Tunnel` carries bytes on up to three TCP links: client to proxy, proxy to the
service or the broker, broker to the service. The head, the broker's answer and
the bytes that arrive along with them are in the same streams; `pump` and `held`
are the four copy loops of the two relays.

### Authorities, Authorize, LiveGrant, DenyReport

`Authorities` has the four parsers of destinations, two in the command line and
two in the proxy, over texts whose symbols are words, numerals and marks
(`Texts`). The user adds and removes entries, a client asks for targets.
`Meant`, the reference, compares lists of labels.

`Authorize` is the router's path of a request: the layers and the mode are read
one file at a time while `World` replaces them, then the denial is recorded
under the mutex of the log, then the connector answers. `seen` is a history
variable: what the files of some moment since the request arrived said.

`LiveGrant` is `loopback_allows_live` of the broker: three files without the
lock, with edits, hand edits that make a file unreadable, and retirement.
`DenyReport` is `other_sources` and what `resolved` says of active runs.

### Installation, StateSeed, Preparation

`Installation` has the commands of several shells over the engine's images and
tool layers, the registry and the file of installed harnesses. Any pull, build,
inspection or removal can fail, a command can be killed between two steps, and
new versions are published meanwhile.

`StateSeed` is `bootstrap_seed_files` and `publish_seed`: names refer to inodes,
so that a link and its temporary name can be one file. `Preparation` is what a
launch does from `prepare_container` to `create_agent`: mirror, system config,
guide and mounts, with launches of the same and of other harnesses beside it.
`Torn` is whatever a copy that was broken off, or an agent, left. A copy begun by
a launch is taken to end with it. The code ignores the errors of
`remove_dir_all` and `remove_file` (`persist.rs:177`, `192`, `209`), so `Removes`
may leave an item as it is, or a directory in part, without a warning; the launch
record names such items in `kept`. `rsync -aL` without `--checksum` goes by size
and time: a content is `alike` when a file in it differs from the source's and has
both, after a write of an agent or an edit of the user, and `Copied` leaves it. The
guide of a harness that reads it from its state directory is in the agent's
writable mount (`Writable`): an agent can rewrite it, remove it, or put a `Link` in
its place, through which the next launch writes.

## Runs

| Run | Shows | Bounds |
|---|---|---|
| `run_lifecycle` | egress outlives the agent; no orphan; a teardown is complete and its verdict true; nothing starts after it; SIGTERM and the client's return end the run; refinement of `AgentCustody` | two inspection tries (first, last); one SIGTERM, since the thread reads only one |
| `broker` | permits; the drain covers every relay; a stop is complete and ends; a full broker refuses; refinement of `BoundedService` | two clients and one permit: one served, one refused or taking the freed permit |
| `policy_store` | no live run reaped; snapshots current; modes reach all; reaping thorough; denials kept; refinement of `PolicyTable`; operations end | a run and two commands, or two runs and a command, of all kinds: two edits of one layer, a reaper beside a run that retires, two publishers; two entries so that edits differ |
| `supervisor` | the drain is patient and bounded; nothing is lost; a close is told to its owner; refinement of `BoundedService`; the stop, the backlog and a waiter on a client that left all end | two clients for one place, one upstream, a pool of one, two seconds of grace and one of lag; three connections, two descriptors, two tokens, one event a poll, so that all are reused |
| `exchange` | message boundaries on the client's side, clean origins, every request answered or cut | one client with two bodies, one sent at once and one on `100 Continue`, another client, one shared origin, one token under way |
| `messages` | both decoders find what the grammar finds; every hop agrees on the end of a message; the pool is sound | up to two chunks and two trailers, each byte also missing or replaced, every fragmentation; heads with up to two lengths, two codings; pool of two, three keys and values, a counter that wraps at four |
| `connections` | only judged addresses are dialled and outcomes are true; a tunnel loses nothing; calls and tunnels end | two calls, one permit, lists of up to two and one too many; the bounds of every registry block; two bytes each way, both routes |
| `decisions` | four parsers mean the same; a decision is one the files made; grants were there; denials are recorded; reports are true | all texts over the alphabet of the module, files of up to two lines; one request over four layers and two edits, two requests and two changes of the disk; two projects and two harnesses |
| `host` | a run's image is what was installed, never stale; seeds are whole and touch nothing; an agent starts on its own files | two shells, one harness, two versions; two launches, one killed; two launches of one and of two harnesses, one change by the user or an agent |
| `broker_gone`, `policy_reapable`, `tunnel_half_close` | the findings below | as above; smaller instances |

Two of everything that competes is enough for the races in this code: each is
between one actor's check and its use, and one other actor. Three appear where
descriptors, keys or processes must be reused. Liveness in `policy_store`,
`supervisor`, `exchange` and `connections` is claimed of one call, request or
process of each kind, since the others are like it.

Deadlock checking is off in all of them: a run ends, a broker that nobody stops
and nobody connects to rests, and a process carries out one operation.

### Fairness

`RunLifecycle`: weak fairness of each thread (the operating system schedules
them, mutexes are released in bounded code) and of the engine finishing a stop
it was given (`docker stop` has its own time limit). Nothing is assumed of the
agent, the client or the operator. The weak fairness of the main thread stands
for `wait_agent` polling a client that has ended; it does not make a client end.

`Broker`: weak fairness of the acceptor (it polls a non-blocking listener), of
each worker outside its relay (a handshake has 3 s, a dial 10 s, a reply 3 s),
of each caller inside stop, and of a relay one of whose sockets was shut down.
A relay that nobody shuts may last for ever, clients need not connect, nobody
need stop the broker.

`PolicyStore`: weak fairness of each process between the start of an operation
and its end; a process waiting for the file lock gets it because the others,
each with one operation, let it go. Nobody need begin, retire, die or be denied.

`ProxySupervisor`: the supervisor is polled, its timers fire, a task that was
aborted is dropped by the runtime, `main` sees that the supervisor returned, and
the kernel resets what waits in the backlog of a closed listener. A task may
hang for ever.

`PeerClose`: a waiter's pause ends and it polls again.

`HttpExchange`: tasks are polled; a client that was asked for its body sends it
or leaves; an origin reads what is sent and answers or closes. A client need not
send a body nobody asked for, and need not read.

`PublicDial`: time passes and the program runs. The network owes nothing.

`Tunnel`: the loops and threads run, both parties read, the client comes to an
end of what it says, and a service ends once it has heard the client's end.

### Findings

1. `broker_gone`: the readiness wait moves the broker handle into its block and
   drops it there, so the broker is stopped before the agent is created.
2. `policy_reapable`: a process killed while it removes an abandoned run may
   leave the published directory without its lease; every later reaping, and
   with it every publication, snapshot and mode change, fails on it.
3. `tunnel_half_close`: the broker's relay ends both directions as soon as one
   has ended, where the contract of the proxy promises half-close.

### Noted while modelling

Behaviours seen in the code that no run states as a property, because no
document promises otherwise or because the properties above are stated around
them:

- `ProxyCleanup.done` is set before the stop is carried out, so the other thread
  can retire the policy before the proxy is gone.
- The second caller of `BrokerState::stop` returns at once: on SIGTERM the
  process can exit before the token is removed. `SigtermLeavesNothing` is
  therefore stated for a SIGTERM that does not meet the main thread in a release
  of its own outside the gate (`ReleasesUngated`).
- The file of installed harnesses is read, changed and renamed without a lock:
  of two commands at once one can be undone.
- A page of the registry's list of tags that fails ends the list, which is then
  taken for the whole.
- Tool lists are joined into one text before they are hashed, so two lists can
  have one tag.
- The report of a denial compares entries and not the domains above them.
- Two launches of one harness share the mirror, the guide and the system config:
  an entry can be gone between listing and mounting, the guide can be that of
  another mode, the system config can be read while it is truncated.
  `UndisturbedIsWhole` is about launches that nobody disturbs.
- "The source is gone, so the mirror goes too — otherwise config the user deleted
  keeps being mounted every run" (`persist.rs:175`) holds if the removal succeeds.
  Its error is ignored, here and at lines 192 and 209: what stays is mounted and
  nothing is reported, and `cp -RL` then copies under a directory that stayed and
  succeeds. A file of a mirror that differs from the source's with the same size
  and time is left by `rsync -aL`. A guide in the state directory can be replaced
  by a link, which `write_container_guide` follows. `UndisturbedIsWhole` names
  these as its exceptions (`Missed`, `OwnGuide`); dropping any of them from it
  makes the run fail.
- The key of a session store replaces all but letters and digits, so two
  projects can have the same.
- A fatal accept error ends the broker's acceptor without a word; a project
  directory can be left without files by a crash until its next publication.

## Proofs

All proofs are checked by TLAPS for every value of the constants, from named
assumptions that TLC evaluates in the runs:

| Assumption | Of | Says |
|---|---|---|
| `InspectTriesAssumption` | `RunLifecycle` | at least one try |
| `LimitAssumption`, `ClientsAssumption` | `Broker` | at least one permit; finitely many connections |
| `ProcsAssumption`, `KindsAssumption` | `PolicyStore` | runs and commands are different processes, none is the free lock; commands are of the known kinds |
| `LimitsAssumption`, `ClientsAssumption` | `ProxySupervisor` | limits and grace are positive, the lag is shorter than the grace, bootstrap has steps; finitely many connections |
| `TokensAssumption` | `Downstream` | some tokens and a list of ready events that is not empty; "no connection" is not a connection |
| `AuthorizeAssumption` | `Authorize` | there is a public layer and a local one, and changes are counted |
| `NamesAssumption` | `Decisions` | "none", which stands for no command, is not a project |
| `BodyAssumption` | `HttpExchange` | requests, units of a body and the window are counted, the window is positive; "none" is not an origin |
| `PoolAssumption` | `Pooling` | the pool holds something, for some time; its counter has values; the bounds of the model are counted |
| `AddressesAssumption`, `DialAssumption` | `PublicDial` | addresses are IPv4 or IPv6; answers and permits are counted, calls are finitely many |
| `TubeAssumption` | `Connections` | routes are of the two kinds; sizes are counted, a link and a read hold something; what a read takes beyond a head fits a prefix, and a prefix the buffer that follows it (`REQUEST_LINE_LIMIT`, `MAX_PREFIX_BYTES`, `RELAY_BUFFER_BYTES`: 8, 32 and 32 KiB) |
| `SeedingAssumption` | `HostFiles` | tries, kills and what the agent does are counted; there is a seed; inodes are numbers other than the one that stands for "none" |
| `PreparationAssumption` | `HostFiles` | changes are counted; the plan of the mirror has `.agents`, no item twice, and neither the system config nor the guide |
| `VersionAssumption`, `HarnessesAssumption`, `TagsAssumption` | `Installation` | there is a version and a harness; `latest` is a tag, "none" is not |

Few of the properties are inductive. What follows says of each proof module what
is proved in it and what had to be added.

`RunLifecycleProofs`: `TypeCorrect`; `EgressOutlives`, `NoOrphan`,
`NothingStarts`, `TeardownComplete` and the refinement `CustodyKept`. The
strengthening says which thread holds the gate at which place, that a filled
agent slot is the only reason for a container to exist outside the places where
its creator or its cleanup is at work, that `stage` is in use by exactly the
thread at a cleanup place, and that a proxy stop is only claimed by a thread past
the agent's cleanup. For a complete teardown each resource is followed through
the hands that will release it (`TeardownInv`): the guard of the main thread and
the slot of the signal thread while it is there, the thread that took it over
while it is being stopped; the signal thread passes a step of `terminate` only
when what that step releases is gone or in the main thread's hands.

`BrokerProofs`: `TypeCorrect`, `PermitsAddUp`, `WakeupNotLost`, `DrainCovers`,
`StopComplete` and the refinement `ServiceBounded`. The strengthening says that
only the first caller is inside stop, which connections the acceptor holds, that
every served connection is registered until the drain and shut after it, and
that the drain finds no thread that can register later.

`PolicyStoreProofs`: `TypeCorrect`, `LiveRuns`, `Snapshots`, `Modal`, `Thorough`,
`Denials` and the refinement `TableImplemented`, for any sets of runs, commands
and entries. The invariant says who is at work holds the lock (`Discipline`);
where a run is decides the name of its directory, its files and its lease
(`Shape`); a lease that could be locked belongs to a run no longer live
(`Opened`); and what reaping still owes an abandoned run is on its list
(`ReapProgress`). A step inside the lock finds every other process outside
(`Alone`), so only its own process can disturb what has been read; a step outside
the lock can only take runs away.

`SupervisorProofs`: of `ProxySupervisor` `TypeCorrect`, `DrainIsPatient`,
`AllComesBack` and the refinement `ClientsAreBounded`. The invariant ties the
clock to the request (`ClockOK`), forced endings to what insisted on them
(`ForceOK`), permits and sockets to tasks that live (`HoldOK`) and the outcome
to the panics that were seen (`OutcomeOK`). Of `PeerClose`, for any connections,
descriptors and tokens, `ClosesAreTrue`: the tokens lead from a connection over
its descriptor to its flag and back (`TokensLead`), a descriptor is reused only
once it is closed (`Apart`), the kernel's list holds each watched descriptor at
most once (`Listed`), and the event of a client that has gone is stored or in the
list (`Kept`). That a token is free when one is looked for is a pigeonhole
argument over the tokens in use.

`InstallationProofs`: `InstallsAreSound`. What is on record can be started
(`Stand`), an image is never ahead of the registry nor a layer newer than its
base (`EngineOK`), and what a shell has read stays behind what it will find
(`BaseOK`), what it has done of its profiles stays done (`TodoOK`), what it is
about to record is there (`PulledOK`), whatever the other shells do meanwhile:
each command, and the registry, only `Moves` the engine in ways that keep these.
Of `Preparation`, `MirrorsAreSound`, for any processes, harnesses, items and
changes. The invariant (`MirrorInv`) follows a launch through its plan: what it
has passed is in the mirror as the host has it (`Exact`) or is one of the stated
exceptions (`Missed`), for as long as it is calm; a directory that it is about
to copy with `cp` is away or one that it could not remove (`Unremoved`); of two
launches of one harness at work both are disturbed (`Alone`), so that nobody
else writes where a calm one has been; and every place holds something of its
own harness or nothing (`IsOwn`).
Of `StateSeed`, `SeedsAreSound`, for any processes, seeds, inodes and tries. That
no launch writes through the store needs two facts about names: two temporary
names are never one file (`TempsApart`), and the file of an attempt is in the
store only once the attempt itself has linked it, whoever was killed before
(`AttemptOK`). What others do leaves a launch's names and what only they refer to
as they are (`Spared`), so each step is argued for the launch that takes it. The
tries are counted against what they were spent on (`TriesOK`): the names passed
over because a kill had left them (`Passed`), what the agent has done, and the
attempt under way (`Going`); and a name is never out of range, since the counter
stays behind the tries of the seeds so far (`CountOK`).

`DecisionProofs`: of `Authorize`, `DecisionFollowsFiles` and `DenialsAreTold`,
for any number of requests and layers. The invariant relates, for each request,
where it is to what its history has seen (`Witnessed`): a layer that was passed
over did not match at that moment, so what was steady cannot have been missed.
Of `LiveGrant`, `GrantsAreLive`. Of `DenyReport`, `ReportsAreTrue`, for any lists,
projects and runs: all commands but a denial take the report back, so the
invariant (`ToldInv`) is what a denial leaves; what it names and what a run
resolves are shown to be the same layers, one by one (`LayersAreNamed`).

`HttpExchangeProofs`: `BoundariesAreKept` and `OriginsStayClean`, for any clients,
origins, requests and bodies. A reader of a stream has a position, the tokens
under way go on from there without a gap, and the last of them is where the
writer is. The invariant has two halves that are kept separately, the streams on
the side of the clients (`ClientHalf`) and those of the origins (`OriginHalf`);
the second says which tasks hold which origin and how far the origin has come
with the request of its holder. Of the pool, `PoolStaysSound`, for any users, keys,
values, capacity and lifetime: until the counter has wrapped the sequence numbers
are the ages (`InSequence`), so the oldest is what was put first, and the newest is
never the oldest of two.

`ConnectionProofs`: `DialsAreJudged`, for every address there is: the rows of
both registries are shown to be the ranges of `Reserved` for all IPv4 and IPv6
addresses, and the permits of the calls are counted. Of `Tunnel`,
`TunnelsAreFaithful`, for links and buffers of any size and any number of bytes.
Each direction is a chain of six stages (`Up`, `Down`): what the ear has got, the
last link, a loop, the middle link, a loop, the first link. Every token has a
place, which counts from the ear; bytes have the places from one on, the heads,
the frame and the answer those before. A stage that can still reach the ear holds
the tokens of its places, and the stages together end with the last byte that was
said (`Chain`). Between two stages there is a gap where a head is still to be
written or an answer is half read: the letters the proxy has read leave the
stage of the middle link and are counted in the gaps. A close that takes bytes
away also ends the way to the ear, so that nothing is claimed of what is behind
it. With this go who is where (`Positions`), what is empty before its time
(`Empty`), what of the answer is still to come (`Reply`), that an attempt given up
after the frame has closed its socket (`Gone`), and for the undisturbed tunnel
that nothing is lost before it is established (`Fresh`) or after (`Calm`). Moving
tokens from stage to stage, saying, hearing and closing are lemmas about chains
(`Taken`, `HeardAfar`, `SaidMore`, `Torn`), of which each action is an instance.

Only model-checked, because out of the prover's reach: everything under fairness
(`EndsTheRun`, `BrokerMoves`, `OperationsEnd`, `WaitsEnd`, `Answered`,
`ConnectionsEnd`), and what the recursive grammar and the parsers over sequences
compute (`DecodesTheGrammar`, `FramingAgrees`, `ReadersAgree`), which are
compared with a reference over bounded inputs instead.


## Not modelled

- Parsing of the command lines of both programs, environment, logging, output.
- The derivation of the system config from the host's, merging of global and
  project settings (`cli/src/config.rs`): edits of text without state;
  `Installation` takes the sets of tools and `Preparation` the system config as
  given.
- The bearer challenge of the image registry, the text of the build file, the
  docker context, git config, the session store and the text of the guide.
- IPv6 text beyond the spellings listed in `MCDecisions`, internationalised
  names, quoted strings in chunk extensions.
- Images, workflows and pages of the repository.

Assumptions that no property would notice: an origin sends nothing unasked on an
idle connection (a closed one is noticed) and nothing behind the end of a
response; that one deadline is longer than another (3 s, 10 s and 13 s on the way
through the broker), since each may pass before or after any answer; a copy begun by a launch ends with
it; foreign files and permissions do not appear under `net/`.
