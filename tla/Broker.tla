------------------------------- MODULE Broker -------------------------------
(***************************************************************************)
(* The host-side broker of one run (cli/src/broker.rs).  An acceptor       *)
(* thread takes connections, at most Limit at a time, and gives each to a  *)
(* worker thread that authenticates it, asks the policy, dials a loopback  *)
(* service and relays.  BrokerState.stop ends all of it and removes the    *)
(* token; the broker's owner calls it when it drops the broker, the signal *)
(* thread calls it too.                                                    *)
(*                                                                         *)
(* A mutex of BrokerState is held only within one action here, except that *)
(* the joins and the socket shutdowns of stop are outside every mutex, as  *)
(* they are in the code.  Data left out: bytes, frames, the token's value, *)
(* addresses; the policy's answer is a free choice (module PolicyStore).   *)
(***************************************************************************)
EXTENDS Integers, FiniteSets

CONSTANTS
  Clients,      \* connections that may arrive, each of them once
  Limit         \* MAX_CONNECTIONS (the code: 128)

ASSUME LimitAssumption == Limit \in Nat \ {0}
ASSUME ClientsAssumption == IsFiniteSet(Clients)

VARIABLES
  flags,        \* "stopped" (AtomicBool); "ready", "readyStopped" (Ready)
  listener,     \* in Lifecycle ("held"), in the acceptor, or "closed"
  acceptor,     \* the acceptor thread's place
  hand,         \* the connection the acceptor is dealing with: at most one
  client,       \* each connection's place: kernel, acceptor, then worker
  permits,      \* BrokerState.permits
  sockets,      \* BrokerState.sockets: registered ends of connections
  shut,         \* ends that have been shut down by stop
  workers,      \* BrokerState.workers: join handles
  owner,        \* start_container: start_accepting, wait_ready, drop
  stopper,      \* each caller of BrokerState.stop
  secret        \* the token's directory

threadVars == <<listener, acceptor, hand, workers>>
connVars == <<client, permits, sockets, shut>>
stopVars == <<stopper, secret>>
vars == <<flags, threadVars, connVars, owner, stopVars>>

Callers == {"owner", "signal"}
Near(c) == <<c, "client">>
Far(c) == <<c, "upstream">>
Ends == Clients \X {"client", "upstream"}

Outside == {"away", "queued", "accepted", "gone"}
Serving == {"handshake", "policy", "dial", "connecting", "redial",
            "reconnecting", "admit", "recheck", "answer", "relay",
            "closeUpstream", "reply", "release"}
Phases == Outside \cup Serving \cup {"permitted", "registered", "unregister"}

\* Connections that hold a ConnectionPermit.
Holders == {c \in Clients : client[c] \in Serving \cup {"permitted", "registered"}}

Stopped == "stopped" \in flags
Move(c, phase) == client' = [client EXCEPT ![c] = phase]

-----------------------------------------------------------------------------
(* The network and the kernel.                                             *)

Connect(c) ==
  /\ client[c] = "away" /\ listener # "closed"
  /\ Move(c, "queued")
  /\ UNCHANGED <<flags, threadVars, permits, sockets, shut, owner, stopVars>>

\* Connections nobody accepted are reset with their listener.
Reset(c) ==
  /\ client[c] = "queued" /\ listener = "closed"
  /\ Move(c, "gone")
  /\ UNCHANGED <<flags, threadVars, permits, sockets, shut, owner, stopVars>>

-----------------------------------------------------------------------------
(* accept_loop.                                                            *)

Unfinished == {c \in workers : client[c] # "gone"}

\* The head of the loop: leave when stopped, join what has finished.
LoopHead ==
  /\ acceptor = "loop"
  /\ workers' = Unfinished
  /\ \/ /\ Stopped
        /\ acceptor' = "over" /\ listener' = "closed"
     \/ /\ ~Stopped
        /\ acceptor' = "accept" /\ UNCHANGED listener
  /\ UNCHANGED <<flags, hand, connVars, owner, stopVars>>

Accept(c) ==
  /\ acceptor = "accept" /\ client[c] = "queued"
  /\ acceptor' = "hand" /\ hand' = {c}
  /\ Move(c, "accepted")
  /\ UNCHANGED <<flags, listener, workers, permits, sockets, shut, owner, stopVars>>

WouldBlock ==
  /\ acceptor = "accept" /\ \A c \in Clients : client[c] # "queued"
  /\ acceptor' = "loop"
  /\ UNCHANGED <<flags, listener, hand, workers, connVars, owner, stopVars>>

\* Any other error breaks out of the loop; nobody is told.
AcceptFails ==
  /\ acceptor = "accept"
  /\ acceptor' = "over" /\ listener' = "closed" /\ workers' = Unfinished
  /\ UNCHANGED <<flags, hand, connVars, owner, stopVars>>

Holding(c, phase) == acceptor = "hand" /\ hand = {c} /\ client[c] = phase
LetGo == acceptor' = "loop" /\ hand' = {}

MayTryAcquire == TRUE

PermitLeft == permits > 0 /\ ~Stopped

\* try_acquire, after set_nonblocking, both of which may refuse the client.
TryAcquire(c) ==
  /\ Holding(c, "accepted") /\ MayTryAcquire
  /\ \/ /\ PermitLeft
        /\ permits' = permits - 1
        /\ Move(c, "permitted")
        /\ UNCHANGED <<acceptor, hand>>
     \/ /\ LetGo
        /\ Move(c, "gone")
        /\ UNCHANGED permits
  /\ UNCHANGED <<flags, listener, workers, sockets, shut, owner, stopVars>>

\* A variant whose refused client keeps its permit.
ReturnPermitNever == permits' = permits
ReturnPermit == permits' = permits + 1

\* register: refused once stopped, or when the socket cannot be cloned.
Register(c) ==
  /\ Holding(c, "permitted")
  /\ \/ /\ ~Stopped
        /\ sockets' = sockets \cup {Near(c)}
        /\ Move(c, "registered")
        /\ UNCHANGED <<acceptor, hand, permits>>
     \/ /\ ReturnPermit
        /\ LetGo
        /\ Move(c, "gone")
        /\ UNCHANGED sockets
  /\ UNCHANGED <<flags, listener, workers, shut, owner, stopVars>>

\* A thread that cannot be spawned drops the closure and the connection in it.
SpawnWorker(c) ==
  /\ Holding(c, "registered")
  /\ \/ /\ Move(c, "handshake")
        /\ UNCHANGED <<acceptor, hand, permits, sockets>>
     \/ /\ ReturnPermit
        /\ sockets' = sockets \ {Near(c)}
        /\ LetGo
        /\ Move(c, "gone")
  /\ UNCHANGED <<flags, listener, workers, shut, owner, stopVars>>

\* The worker runs already, and may have ended, when its handle is kept.
PushWorker(c) ==
  /\ acceptor = "hand" /\ hand = {c}
  /\ client[c] \notin {"accepted", "permitted", "registered"}
  /\ workers' = workers \cup {c}
  /\ LetGo
  /\ UNCHANGED <<flags, listener, connVars, owner, stopVars>>

Acceptor ==
  \/ LoopHead \/ WouldBlock \/ AcceptFails
  \/ \E c \in Clients :
       Accept(c) \/ TryAcquire(c) \/ Register(c) \/ SpawnWorker(c) \/ PushWorker(c)

-----------------------------------------------------------------------------
(* serve: one worker thread.  Every read, dial and write has a deadline.   *)

Step(c, from, to) == client[c] = from /\ Move(c, to)

\* What notify_all does to the thread in wait_ready.
Notify == owner' = IF owner = "asleep" THEN "check" ELSE owner

\* A bad frame, a wrong token or the deadline; READY; CONNECT.
Handshake(c) ==
  /\ \/ Step(c, "handshake", "reply") /\ UNCHANGED <<flags, owner>>
     \/ /\ Step(c, "handshake", "reply")
        /\ flags' = flags \cup {"ready"} /\ Notify
     \/ Step(c, "handshake", "policy") /\ UNCHANGED <<flags, owner>>
  /\ UNCHANGED <<threadVars, permits, sockets, shut, stopVars>>

CheckPolicy(c) ==
  /\ Step(c, "policy", "dial") \/ Step(c, "policy", "reply")
  /\ UNCHANGED <<flags, threadVars, permits, sockets, shut, owner, stopVars>>

\* connect: the flag is looked at before each of at most two addresses.
Dial(c) ==
  /\ \/ ~Stopped /\ Step(c, "dial", "connecting")
     \/ ~Stopped /\ Step(c, "redial", "reconnecting")
     \/ Stopped /\ (Step(c, "dial", "reply") \/ Step(c, "redial", "reply"))
  /\ UNCHANGED <<flags, threadVars, permits, sockets, shut, owner, stopVars>>

Connected(c) ==
  /\ \/ \E to \in {"admit", "redial", "reply"} : Step(c, "connecting", to)
     \/ \E to \in {"admit", "reply"} : Step(c, "reconnecting", to)
  /\ UNCHANGED <<flags, threadVars, permits, sockets, shut, owner, stopVars>>

\* A variant that does not register the upstream socket.
UpstreamUnregistered(c) == {}
UpstreamRegistered(c) == {Far(c)}

Admit(c) ==
  /\ \/ /\ ~Stopped
        /\ Step(c, "admit", "recheck")
        /\ sockets' = sockets \cup UpstreamRegistered(c)
     \/ Step(c, "admit", "reply") /\ UNCHANGED sockets
  /\ UNCHANGED <<flags, threadVars, permits, shut, owner, stopVars>>

Recheck(c) ==
  /\ \/ ~Stopped /\ Step(c, "recheck", "answer") /\ UNCHANGED sockets
     \/ Stopped /\ Step(c, "recheck", "reply") /\ sockets' = sockets \ {Far(c)}
  /\ UNCHANGED <<flags, threadVars, permits, shut, owner, stopVars>>

Answer(c) ==
  /\ Step(c, "answer", "relay") \/ Step(c, "answer", "closeUpstream")
  /\ UNCHANGED <<flags, threadVars, permits, sockets, shut, owner, stopVars>>

\* A peer closes, or the relay's second thread or socket copies are not to be
\* had.  Nothing but stop bounds a relay.
RelayEnds(c) ==
  /\ Step(c, "relay", "closeUpstream")
  /\ UNCHANGED <<flags, threadVars, permits, sockets, shut, owner, stopVars>>

RelayShut(c) == RelayEnds(c) /\ {Near(c), Far(c)} \cap shut # {}

CloseUpstream(c) ==
  /\ Step(c, "closeUpstream", "release")
  /\ sockets' = sockets \ {Far(c)}
  /\ UNCHANGED <<flags, threadVars, permits, shut, owner, stopVars>>

Reply(c) ==
  /\ Step(c, "reply", "release")
  /\ UNCHANGED <<flags, threadVars, permits, sockets, shut, owner, stopVars>>

\* The fields of ClientConnection in their order: permit, then registration.
ReleasePermit(c) ==
  /\ Step(c, "release", "unregister")
  /\ ReturnPermit
  /\ UNCHANGED <<flags, threadVars, sockets, shut, owner, stopVars>>

Unregister(c) ==
  /\ Step(c, "unregister", "gone")
  /\ sockets' = sockets \ {Near(c)}
  /\ UNCHANGED <<flags, threadVars, permits, shut, owner, stopVars>>

\* All a worker does of its own accord.
Work(c) ==
  \/ Handshake(c) \/ CheckPolicy(c) \/ Dial(c) \/ Connected(c)
  \/ Admit(c) \/ Recheck(c) \/ Answer(c) \/ CloseUpstream(c)
  \/ Reply(c) \/ ReleasePermit(c) \/ Unregister(c)

-----------------------------------------------------------------------------
(* The owner.                                                              *)

\* The thread cannot be spawned: start_accepting stops the broker and its
\* caller drops it, which is the owner's one call of stop here.
StartAccepting ==
  /\ owner = "bound"
  /\ \/ /\ ~Stopped
        /\ listener' = "acceptor" /\ acceptor' = "loop" /\ owner' = "check"
     \/ /\ ~Stopped
        /\ listener' = "closed" /\ owner' = "failed" /\ UNCHANGED acceptor
     \/ /\ Stopped
        /\ owner' = "failed" /\ UNCHANGED <<listener, acceptor>>
  /\ UNCHANGED <<flags, hand, workers, connVars, stopVars>>

\* wait_ready, with the mutex of Ready: answer, sleep, or find it too late.
CheckReady ==
  /\ owner = "check"
  /\ \/ "readyStopped" \in flags /\ owner' = "failed"
     \/ flags \cap {"ready", "readyStopped"} = {"ready"} /\ owner' = "ready"
     \/ flags \cap {"ready", "readyStopped"} = {} /\ owner' \in {"asleep", "failed"}
  /\ UNCHANGED <<flags, threadVars, connVars, stopVars>>

ReadyTimeout ==
  /\ owner = "asleep"
  /\ owner' = "failed"
  /\ UNCHANGED <<flags, threadVars, connVars, stopVars>>

-----------------------------------------------------------------------------
(* BrokerState.stop.                                                       *)

Halt(k, from, to) ==
  stopper[k] = from /\ stopper' = [stopper EXCEPT ![k] = to]

\* The first caller takes the listener, if no thread has it, and goes on; any
\* other returns at once.  The owner calls it when it drops the broker.
CallStop(k) ==
  /\ k = "owner" => owner \in {"ready", "failed"}
  /\ \/ /\ ~Stopped
        /\ Halt(k, "no", "announce")
        /\ flags' = flags \cup {"stopped"}
        /\ listener' = IF listener = "held" THEN "closed" ELSE listener
     \/ /\ Stopped
        /\ Halt(k, "no", "returned")
        /\ UNCHANGED <<flags, listener>>
  /\ UNCHANGED <<acceptor, hand, workers, connVars, owner, secret>>

Announce(k) ==
  /\ Halt(k, "announce", "drain")
  /\ flags' = flags \cup {"readyStopped"}
  /\ Notify
  /\ UNCHANGED <<threadVars, connVars, secret>>

\* A variant that drops the registered copies without shutting them down.
ShutNothing == shut' = shut
ShutSockets == shut' = shut \cup sockets

Drain(k) ==
  /\ Halt(k, "drain", "joinAcceptor")
  /\ ShutSockets
  /\ sockets' = {}
  /\ UNCHANGED <<flags, threadVars, client, permits, owner, secret>>

\* A variant that does not join the acceptor.
AcceptorJoinedAlways == TRUE
AcceptorJoined == acceptor \in {"none", "over"}

JoinAcceptor(k) ==
  /\ AcceptorJoined
  /\ Halt(k, "joinAcceptor", "joinWorkers")
  /\ UNCHANGED <<flags, threadVars, connVars, owner, secret>>

JoinWorkers(k) ==
  /\ Unfinished = {}
  /\ Halt(k, "joinWorkers", "remove")
  /\ workers' = {}
  /\ UNCHANGED <<flags, listener, acceptor, hand, connVars, owner, secret>>

RemoveSecret(k) ==
  /\ Halt(k, "remove", "returned")
  /\ secret' = "removed"
  /\ UNCHANGED <<flags, threadVars, connVars, owner>>

Halting(k) ==
  Announce(k) \/ Drain(k) \/ JoinAcceptor(k) \/ JoinWorkers(k) \/ RemoveSecret(k)

-----------------------------------------------------------------------------
Init ==
  /\ flags = {} /\ listener = "held" /\ acceptor = "none" /\ hand = {}
  /\ client = [c \in Clients |-> "away"]
  /\ permits = Limit
  /\ sockets = {} /\ shut = {} /\ workers = {}
  /\ owner = "bound"
  /\ stopper = [k \in Callers |-> "no"]
  /\ secret = "present"

Next ==
  \/ Acceptor
  \/ \E c \in Clients : Connect(c) \/ Reset(c) \/ Work(c) \/ RelayEnds(c)
  \/ StartAccepting \/ CheckReady \/ ReadyTimeout
  \/ \E k \in Callers : CallStop(k) \/ Halting(k)

\* Threads run, the kernel resets, a relay whose socket is shut ends.  Nothing
\* is assumed of clients, of open relays, of wait_ready's timeout, or of
\* whether anybody stops the broker.
Fairness ==
  /\ WF_vars(Acceptor) /\ WF_vars(StartAccepting) /\ WF_vars(CheckReady)
  /\ \A c \in Clients : WF_vars(Work(c)) /\ WF_vars(RelayShut(c)) /\ WF_vars(Reset(c))
  /\ \A k \in Callers : WF_vars(Halting(k))

Safety == Init /\ [][Next]_vars
Spec == Safety /\ Fairness

-----------------------------------------------------------------------------
(* Properties.                                                             *)

TypeOK ==
  /\ flags \subseteq {"stopped", "ready", "readyStopped"}
  /\ listener \in {"held", "acceptor", "closed"}
  /\ acceptor \in {"none", "loop", "accept", "hand", "over"}
  /\ hand \subseteq Clients
  /\ client \in [Clients -> Phases]
  /\ permits \in 0 .. Limit
  /\ sockets \subseteq Ends /\ shut \subseteq Ends
  /\ workers \subseteq Clients
  /\ owner \in {"bound", "check", "asleep", "ready", "failed"}
  /\ stopper \in [Callers -> {"no", "announce", "drain", "joinAcceptor",
                              "joinWorkers", "remove", "returned"}]
  /\ secret \in {"present", "removed"}

(* Permits are conserved on every path by which accept_loop and serve let  *)
(* a connection go: none is lost for good, none is given back twice.       *)
PermitsConserved == permits + Cardinality(Holders) = Limit

(* wait_ready is never asleep after what it waits for has happened.        *)
NoLostWakeup == owner = "asleep" => flags \cap {"ready", "readyStopped"} = {}

(* Once stop has drained the sockets no relay has an end it did not shut:  *)
(* register and stop exclude each other for both ends of a connection.     *)
Drained == \E k \in Callers :
  stopper[k] \in {"joinAcceptor", "joinWorkers", "remove"} \/ secret = "removed"
DrainCoversRelays ==
  Drained => \A c \in Clients :
               client[c] \in {"answer", "relay"} => {Near(c), Far(c)} \subseteq shut

(* When the token is removed no thread of the broker is left: no worker    *)
(* was spawned or pushed after the handles were taken.                     *)
StopIsComplete ==
  secret = "removed" =>
    /\ acceptor \in {"none", "over"} /\ listener = "closed"
    /\ \A c \in Clients : client[c] \in {"away", "queued", "gone"}
    /\ workers = {} /\ sockets = {}

(* A stop that began completes, whatever the workers were at: no join      *)
(* waits for a relay, a handshake or a dial without an end.                *)
StopCompletes == Stopped ~> secret = "removed"

(* A connection is taken on or closed in bounded time even when the broker *)
(* is full of relays that last for ever: accept_loop never waits for one.  *)
Waiting(c) == client[c] \in {"queued", "accepted"}
QueueMoves == \A c \in Clients : Waiting(c) ~> ~Waiting(c)

(* No thread of the broker waits for a relay without an end.               *)
BrokerMoves == StopCompletes /\ QueueMoves

(* The broker is a bounded service that closes for good.                   *)
Service == INSTANCE BoundedService WITH
  Users  <- Clients,
  Places <- Limit,
  phase  <- IF ~Stopped THEN "open"
            ELSE IF secret = "present" THEN "closing" ELSE "closed",
  inside <- Holders
IsBoundedService == Service!Spec
=============================================================================
