---------------------------- MODULE BrokerProofs ----------------------------
(***************************************************************************)
(* Proofs about Broker, for every finite set of connections and every      *)
(* limit: type correctness, conservation of permits, no lost wakeup, the   *)
(* completeness of stop, and the refinement of BoundedService.             *)
(***************************************************************************)
EXTENDS Broker, FiniteSetTheorems, TLAPS

-----------------------------------------------------------------------------
(* The permits.                                                            *)

\* A connection moves within, into or out of the phases that hold a permit.
HoldingPhases == Serving \cup {"permitted", "registered"}

Typed ==
  /\ client \in [Clients -> Phases]
  /\ permits \in Nat
  /\ PermitsConserved

LEMMA HoldersFinite ==
  /\ IsFiniteSet(Holders) /\ Cardinality(Holders) \in Nat
BY ClientsAssumption, FS_Subset, FS_CardinalityType DEF Holders

LEMMA MoveWithin ==
  ASSUME Typed, NEW c \in Clients, NEW phase \in Phases, Move(c, phase),
         client[c] \in HoldingPhases <=> phase \in HoldingPhases, UNCHANGED permits
  PROVE  Typed' /\ Holders' = Holders
<1>1. Holders' = Holders
  BY DEF Holders, Move, HoldingPhases, Typed
<1>2. client' \in [Clients -> Phases]
  BY DEF Move, Typed
<1>3. QED
  BY <1>1, <1>2 DEF Typed, PermitsConserved

LEMMA MoveIn ==
  ASSUME Typed, NEW c \in Clients, NEW phase \in Phases, Move(c, phase),
         client[c] \notin HoldingPhases, phase \in HoldingPhases,
         permits > 0, permits' = permits - 1
  PROVE  Typed' /\ Holders' = Holders \cup {c} /\ c \notin Holders
<1>1. Holders' = Holders \cup {c} /\ c \notin Holders
  BY DEF Holders, Move, HoldingPhases, Typed
<1>2. client' \in [Clients -> Phases]
  BY DEF Move, Typed
<1>3. Cardinality(Holders') = Cardinality(Holders) + 1
  BY <1>1, HoldersFinite, FS_AddElement
<1>4. QED
  BY <1>1, <1>2, <1>3, HoldersFinite DEF Typed, PermitsConserved

LEMMA MoveOut ==
  ASSUME Typed, NEW c \in Clients, NEW phase \in Phases, Move(c, phase),
         client[c] \in HoldingPhases, phase \notin HoldingPhases, permits' = permits + 1
  PROVE  Typed' /\ Holders' = Holders \ {c} /\ c \in Holders
<1>1. Holders' = Holders \ {c} /\ c \in Holders
  BY DEF Holders, Move, HoldingPhases, Typed
<1>2. client' \in [Clients -> Phases]
  BY DEF Move, Typed
<1>3. Cardinality(Holders') = Cardinality(Holders) - 1
  BY <1>1, HoldersFinite, FS_RemoveElement
<1>4. QED
  BY <1>1, <1>2, <1>3, HoldersFinite DEF Typed, PermitsConserved

Enters(c) ==
  /\ ~Stopped /\ permits > 0 /\ c \notin Holders
  /\ Holders' = Holders \cup {c} /\ UNCHANGED <<flags, secret>>
Leaves(c) ==
  /\ c \in Holders
  /\ Holders' = Holders \ {c} /\ UNCHANGED <<flags, secret>>

LEMMA HoldersSame ==
  ASSUME Typed, UNCHANGED <<client, permits>>
  PROVE  Typed' /\ Holders' = Holders
BY DEF Typed, Holders, PermitsConserved

PermitsKept ==
  Typed' /\ (\/ Holders' = Holders
             \/ \E c \in Clients : Enters(c) \/ Leaves(c))

LEMMA AcceptorPermits == Typed /\ Acceptor => PermitsKept
<1> SUFFICES ASSUME Typed, Acceptor PROVE PermitsKept
  OBVIOUS
<1> USE DEF PermitsKept, HoldingPhases, Serving, Phases, Outside
<1>1. CASE LoopHead \/ WouldBlock \/ AcceptFails
  BY <1>1, HoldersSame DEF LoopHead, WouldBlock, AcceptFails, connVars
<1>2. ASSUME NEW c \in Clients, Accept(c) PROVE PermitsKept
  BY <1>2, MoveWithin DEF Accept
<1>3. ASSUME NEW c \in Clients, TryAcquire(c) PROVE PermitsKept
  <2>1. CASE Move(c, "permitted")
    BY <1>3, <2>1, MoveIn
       DEF TryAcquire, Holding, PermitLeft, Enters, stopVars, Move, Typed
  <2>2. CASE Move(c, "gone") /\ UNCHANGED permits
    BY <1>3, <2>2, MoveWithin DEF TryAcquire, Holding
  <2>3. QED
    BY <1>3, <2>1, <2>2 DEF TryAcquire
<1>4. ASSUME NEW c \in Clients, Register(c) PROVE PermitsKept
  <2>1. CASE Move(c, "registered") /\ UNCHANGED permits
    BY <1>4, <2>1, MoveWithin DEF Register, Holding
  <2>2. CASE Move(c, "gone") /\ ReturnPermit
    BY <1>4, <2>2, MoveOut DEF Register, Holding, ReturnPermit, Leaves, stopVars
  <2>3. QED
    BY <1>4, <2>1, <2>2 DEF Register
<1>5. ASSUME NEW c \in Clients, SpawnWorker(c) PROVE PermitsKept
  <2>1. CASE Move(c, "handshake") /\ UNCHANGED permits
    BY <1>5, <2>1, MoveWithin DEF SpawnWorker, Holding
  <2>2. CASE Move(c, "gone") /\ ReturnPermit
    BY <1>5, <2>2, MoveOut DEF SpawnWorker, Holding, ReturnPermit, Leaves, stopVars
  <2>3. QED
    BY <1>5, <2>1, <2>2 DEF SpawnWorker
<1>6. ASSUME NEW c \in Clients, PushWorker(c) PROVE PermitsKept
  BY <1>6, HoldersSame DEF PushWorker, connVars
<1>7. QED
  BY <1>1, <1>2, <1>3, <1>4, <1>5, <1>6 DEF Acceptor

LEMMA WorkerPermits ==
  ASSUME Typed, NEW c \in Clients, Work(c) \/ RelayEnds(c)
  PROVE  PermitsKept
<1> USE DEF PermitsKept, HoldingPhases, Serving, Phases, Outside, Step
<1>1. CASE Handshake(c) \/ CheckPolicy(c) \/ Dial(c)
  BY <1>1, MoveWithin DEF Handshake, CheckPolicy, Dial
<1>2. CASE Connected(c)
  BY <1>2, MoveWithin DEF Connected
<1>3. CASE Admit(c) \/ Recheck(c) \/ Answer(c)
  BY <1>3, MoveWithin DEF Admit, Recheck, Answer
<1>4. CASE RelayEnds(c) \/ CloseUpstream(c) \/ Reply(c) \/ Unregister(c)
  BY <1>4, MoveWithin DEF RelayEnds, CloseUpstream, Reply, Unregister
<1>5. CASE ReleasePermit(c)
  BY <1>5, MoveOut DEF ReleasePermit, ReturnPermit, Leaves, stopVars
<1>6. QED
  BY <1>1, <1>2, <1>3, <1>4, <1>5 DEF Work

LEMMA PermitStep == Typed /\ [Next]_vars => PermitsKept
<1> SUFFICES ASSUME Typed, [Next]_vars PROVE PermitsKept
  OBVIOUS
<1>1. ASSUME NEW c \in Clients, Connect(c) \/ Reset(c) PROVE PermitsKept
  BY <1>1, MoveWithin
     DEF Connect, Reset, PermitsKept, HoldingPhases, Serving, Phases, Outside
<1>2. CASE StartAccepting \/ CheckReady \/ ReadyTimeout
  BY <1>2, HoldersSame
     DEF StartAccepting, CheckReady, ReadyTimeout, PermitsKept, connVars
<1>3. ASSUME NEW k \in Callers, CallStop(k) \/ Halting(k) PROVE PermitsKept
  BY <1>3, HoldersSame
     DEF CallStop, Halting, Announce, Drain, JoinAcceptor, JoinWorkers,
         RemoveSecret, PermitsKept, connVars
<1>4. CASE UNCHANGED vars
  BY <1>4, HoldersSame DEF vars, connVars, PermitsKept
<1>5. QED
  BY <1>1, <1>2, <1>3, <1>4, AcceptorPermits, WorkerPermits DEF Next

-----------------------------------------------------------------------------
(* Type correctness.                                                       *)

\* What does not concern the permits.
PlacesOK ==
  /\ flags \subseteq {"stopped", "ready", "readyStopped"}
  /\ listener \in {"held", "acceptor", "closed"}
  /\ acceptor \in {"none", "loop", "accept", "hand", "over"}
  /\ hand \subseteq Clients /\ workers \subseteq Clients
  /\ owner \in {"bound", "check", "asleep", "ready", "failed"}
  /\ stopper \in [Callers -> {"no", "announce", "drain", "joinAcceptor",
                              "joinWorkers", "remove", "returned"}]
  /\ secret \in {"present", "removed"}
SocketsOK == sockets \subseteq Ends /\ shut \subseteq Ends

LEMMA PlacesStep == PlacesOK /\ [Next]_vars => PlacesOK'
<1> SUFFICES ASSUME PlacesOK, [Next]_vars PROVE PlacesOK'
  OBVIOUS
<1> USE DEF PlacesOK, threadVars, connVars, stopVars
<1>1. CASE Acceptor
  <2>1. CASE LoopHead \/ WouldBlock \/ AcceptFails
    BY <1>1, <2>1 DEF LoopHead, WouldBlock, AcceptFails, Unfinished
  <2>2. ASSUME NEW c \in Clients, Accept(c) \/ TryAcquire(c) PROVE PlacesOK'
    BY <2>2 DEF Accept, TryAcquire, LetGo
  <2>3. ASSUME NEW c \in Clients,
               Register(c) \/ SpawnWorker(c) \/ PushWorker(c)
        PROVE  PlacesOK'
    BY <2>3 DEF Register, SpawnWorker, PushWorker, LetGo
  <2>4. QED
    BY <1>1, <2>1, <2>2, <2>3 DEF Acceptor
<1>2. ASSUME NEW c \in Clients,
             Connect(c) \/ Reset(c) \/ Work(c) \/ RelayEnds(c)
      PROVE  PlacesOK'
  <2>1. CASE Connect(c) \/ Reset(c) \/ RelayEnds(c)
    BY <2>1 DEF Connect, Reset, RelayEnds, Unregister, Notify
  <2>2. CASE Handshake(c) \/ CheckPolicy(c) \/ Dial(c) \/ Connected(c) \/ Admit(c)
    BY <2>2 DEF Handshake, CheckPolicy, Dial, Connected, Admit, Unregister, Notify
  <2>3. CASE Recheck(c) \/ Answer(c) \/ CloseUpstream(c)
    BY <2>3 DEF Recheck, Answer, CloseUpstream, Unregister, Notify
  <2>4. CASE Reply(c) \/ ReleasePermit(c) \/ Unregister(c)
    BY <2>4 DEF Reply, ReleasePermit, Unregister, Notify
  <2>5. QED
    BY <1>2, <2>1, <2>2, <2>3, <2>4 DEF Work
<1>3. CASE StartAccepting \/ CheckReady \/ ReadyTimeout
  BY <1>3 DEF StartAccepting, CheckReady, ReadyTimeout
<1>4. ASSUME NEW k \in Callers, CallStop(k) \/ Halting(k) PROVE PlacesOK'
  <2>1. CASE CallStop(k) \/ Announce(k) \/ Drain(k)
    BY <2>1 DEF CallStop, Announce, Drain, Halt, Notify
  <2>2. CASE JoinAcceptor(k) \/ JoinWorkers(k) \/ RemoveSecret(k)
    BY <2>2 DEF JoinAcceptor, JoinWorkers, RemoveSecret, Halt
  <2>3. QED
    BY <1>4, <2>1, <2>2 DEF Halting
<1>5. CASE UNCHANGED vars
  BY <1>5 DEF vars
<1>6. QED
  BY <1>1, <1>2, <1>3, <1>4, <1>5 DEF Next

LEMMA SocketsStep == SocketsOK /\ [Next]_vars => SocketsOK'
<1> SUFFICES ASSUME SocketsOK, [Next]_vars PROVE SocketsOK'
  OBVIOUS
<1> USE DEF SocketsOK, connVars, Ends
<1>1. CASE Acceptor
  BY <1>1
     DEF Acceptor, LoopHead, WouldBlock, AcceptFails, Accept, TryAcquire,
         Register, SpawnWorker, PushWorker, Near
<1>2. ASSUME NEW c \in Clients,
             Connect(c) \/ Reset(c) \/ Work(c) \/ RelayEnds(c)
      PROVE  SocketsOK'
  BY <1>2
     DEF Connect, Reset, Work, RelayEnds, Handshake, CheckPolicy, Dial,
         Connected, Admit, Recheck, Answer, CloseUpstream, Reply,
         ReleasePermit, Unregister, UpstreamRegistered, Far
<1>3. CASE StartAccepting \/ CheckReady \/ ReadyTimeout
  BY <1>3 DEF StartAccepting, CheckReady, ReadyTimeout
<1>4. ASSUME NEW k \in Callers, CallStop(k) \/ Halting(k) PROVE SocketsOK'
  BY <1>4
     DEF CallStop, Halting, Announce, Drain, JoinAcceptor, JoinWorkers,
         RemoveSecret, ShutSockets
<1>5. CASE UNCHANGED vars
  BY <1>5 DEF vars
<1>6. QED
  BY <1>1, <1>2, <1>3, <1>4, <1>5 DEF Next

TInv == Typed /\ PlacesOK /\ SocketsOK

LEMMA TInvInit == Init => TInv
<1> SUFFICES ASSUME Init PROVE TInv
  OBVIOUS
<1>1. Holders = {}
  BY DEF Init, Holders, Serving
<1>2. Typed
  BY <1>1, LimitAssumption, FS_EmptySet
     DEF Init, Typed, PermitsConserved, Phases, Outside
<1>3. QED
  BY <1>2 DEF Init, TInv, PlacesOK, SocketsOK

LEMMA TInvStep == TInv /\ [Next]_vars => TInv'
BY PermitStep, PlacesStep, SocketsStep DEF TInv, PermitsKept

LEMMA TypeInvariant == Spec => []TInv
BY TInvInit, TInvStep, PTL DEF Spec, Safety

(* Type correctness of the broker; in it, that the number of free permits  *)
(* stays between none and MAX_CONNECTIONS.                                 *)
THEOREM TypeCorrect == Spec => []TypeOK
<1>1. TInv => TypeOK
  <2> SUFFICES ASSUME TInv PROVE TypeOK
    OBVIOUS
  <2>1. permits \in 0 .. Limit
    BY HoldersFinite, LimitAssumption DEF TInv, Typed, PermitsConserved
  <2>2. QED
    BY <2>1 DEF TInv, Typed, PlacesOK, SocketsOK, TypeOK
<1>2. QED
  BY <1>1, TypeInvariant, PTL

(* Permits are conserved for any number of connections and any limit: the  *)
(* free ones and those of accept_loop and of the workers add up.           *)
THEOREM PermitsAddUp == Spec => []PermitsConserved
<1>1. TInv => PermitsConserved
  BY DEF TInv, Typed
<1>2. QED
  BY <1>1, TypeInvariant, PTL

-----------------------------------------------------------------------------
(* The sleeper.                                                            *)

(* wait_ready never sleeps through READY or a stop: whoever sets what it   *)
(* waits for notifies it in the same critical section.                     *)
THEOREM WakeupNotLost == Spec => []NoLostWakeup
<1>1. Init => NoLostWakeup
  BY DEF Init, NoLostWakeup
<1>2. NoLostWakeup /\ [Next]_vars => NoLostWakeup'
  <2> SUFFICES ASSUME NoLostWakeup, [Next]_vars PROVE NoLostWakeup'
    OBVIOUS
  <2> USE DEF NoLostWakeup
  <2>1. CASE UNCHANGED <<flags, owner>>
    BY <2>1
  <2>2. ASSUME NEW c \in Clients, Handshake(c) PROVE NoLostWakeup'
    BY <2>2 DEF Handshake, Notify
  <2>3. CASE StartAccepting \/ CheckReady \/ ReadyTimeout
    BY <2>3 DEF StartAccepting, CheckReady, ReadyTimeout
  <2>4. ASSUME NEW k \in Callers, CallStop(k) \/ Announce(k)
        PROVE  NoLostWakeup'
    BY <2>4 DEF CallStop, Announce, Notify
  <2>5. CASE Acceptor
    BY <2>1, <2>5
       DEF Acceptor, LoopHead, WouldBlock, AcceptFails, Accept, TryAcquire,
           Register, SpawnWorker, PushWorker
  <2>6. ASSUME NEW c \in Clients, Connect(c) \/ Reset(c) \/ Work(c) \/ RelayEnds(c)
        PROVE  NoLostWakeup'
    BY <2>1, <2>2, <2>6
       DEF Connect, Reset, Work, RelayEnds, CheckPolicy, Dial, Connected,
           Admit, Recheck, Answer, CloseUpstream, Reply, ReleasePermit,
           Unregister
  <2>7. ASSUME NEW k \in Callers, Halting(k) PROVE NoLostWakeup'
    BY <2>1, <2>4, <2>7
       DEF Halting, Drain, JoinAcceptor, JoinWorkers, RemoveSecret
  <2>8. CASE UNCHANGED vars
    BY <2>8 DEF vars
  <2>9. QED
    BY <2>3, <2>4, <2>5, <2>6, <2>7, <2>8 DEF Next
<1>3. QED
  BY <1>1, <1>2, PTL DEF Spec, Safety

-----------------------------------------------------------------------------
(* The stop: who answers for each connection, and what each step of stop   *)
(* may rely on.                                                            *)

InHand(c) == acceptor = "hand" /\ hand = {c}

\* Every connection past the kernel is the acceptor's or a kept worker's.
OwnedInv ==
  /\ \A c \in Clients :
       /\ client[c] \in {"accepted", "permitted", "registered"} => InHand(c)
       /\ client[c] \in Serving \cup {"unregister"} => c \in workers \/ InHand(c)
  /\ owner = "bound" => acceptor = "none"

Idle == {"away", "queued", "gone"}
AcceptorDone == acceptor \in {"none", "over"}
Quiet == AcceptorDone /\ \A c \in Clients : client[c] \in Idle

Active == {"announce", "drain", "joinAcceptor", "joinWorkers", "remove"}

StopInv ==
  /\ \A k \in Callers : stopper[k] \in Active => Stopped /\ secret = "present"
  /\ \A j, k \in Callers : stopper[j] \in Active /\ stopper[k] \in Active => j = k
  /\ \A k \in Callers : stopper[k] \in {"joinWorkers", "remove"} => AcceptorDone
  /\ \A k \in Callers : stopper[k] = "remove" => Quiet /\ workers = {}
  /\ secret = "removed" => Stopped /\ Quiet /\ workers = {}

LEMMA OwnedStep == TInv /\ OwnedInv /\ [Next]_vars => OwnedInv'
<1> SUFFICES ASSUME TInv, OwnedInv, [Next]_vars PROVE OwnedInv'
  OBVIOUS
<1>0. client \in [Clients -> Phases]
  BY DEF TInv, Typed
<1> USE DEF OwnedInv, InHand, Serving
<1>1. CASE Acceptor
  <2>1. CASE LoopHead \/ WouldBlock \/ AcceptFails
    BY <2>1 DEF LoopHead, WouldBlock, AcceptFails, Unfinished, connVars
  <2>2. ASSUME NEW d \in Clients, Accept(d) \/ TryAcquire(d) PROVE OwnedInv'
    BY <1>0, <2>2 DEF Accept, TryAcquire, Holding, LetGo, Move
  <2>3. ASSUME NEW d \in Clients, Register(d) PROVE OwnedInv'
    BY <1>0, <2>3 DEF Register, Holding, LetGo, Move
  <2>4. ASSUME NEW d \in Clients, SpawnWorker(d) PROVE OwnedInv'
    BY <1>0, <2>4 DEF SpawnWorker, Holding, LetGo, Move
  <2>5. ASSUME NEW d \in Clients, PushWorker(d) PROVE OwnedInv'
    BY <1>0, <2>5 DEF PushWorker, LetGo, connVars
  <2>6. QED
    BY <1>1, <2>1, <2>2, <2>3, <2>4, <2>5 DEF Acceptor
<1>2. ASSUME NEW d \in Clients, Connect(d) \/ Reset(d) PROVE OwnedInv'
  BY <1>0, <1>2 DEF Connect, Reset, Move, threadVars
<1>3. ASSUME NEW d \in Clients, Work(d) \/ RelayEnds(d) PROVE OwnedInv'
  BY <1>0, <1>3
     DEF Work, RelayEnds, Handshake, CheckPolicy, Dial, Connected, Admit,
         Recheck, Answer, CloseUpstream, Reply, ReleasePermit, Unregister,
         Step, Move, Notify, threadVars
<1>4. CASE StartAccepting \/ CheckReady \/ ReadyTimeout
  <2>1. CASE StartAccepting
    BY <2>1 DEF StartAccepting, connVars
  <2>2. CASE CheckReady \/ ReadyTimeout
    BY <2>2 DEF CheckReady, ReadyTimeout, threadVars, connVars
  <2>3. QED
    BY <1>4, <2>1, <2>2
<1>5. ASSUME NEW k \in Callers, CallStop(k) \/ Halting(k) PROVE OwnedInv'
  BY <1>5
     DEF CallStop, Halting, Announce, Drain, JoinAcceptor, JoinWorkers,
         RemoveSecret, Unfinished, Notify, threadVars, connVars
<1>6. CASE UNCHANGED vars
  BY <1>6 DEF vars, threadVars, connVars
<1>7. QED
  BY <1>1, <1>2, <1>3, <1>4, <1>5, <1>6 DEF Next

LEMMA QuietStays ==
  ASSUME TInv, OwnedInv, Quiet, Stopped, workers = {}, [Next]_vars
  PROVE  Quiet' /\ workers' = {}
<1>0. client \in [Clients -> Phases]
  BY DEF TInv, Typed
<1> USE DEF Quiet, Idle, AcceptorDone
<1>1. CASE Acceptor
  BY <1>1
     DEF Acceptor, LoopHead, WouldBlock, AcceptFails, Accept, TryAcquire,
         Register, SpawnWorker, PushWorker, Holding
<1>2. ASSUME NEW d \in Clients, Connect(d) \/ Reset(d)
      PROVE  Quiet' /\ workers' = {}
  BY <1>0, <1>2 DEF Connect, Reset, Move, threadVars
<1>3. ASSUME NEW d \in Clients, Work(d) \/ RelayEnds(d)
      PROVE  Quiet' /\ workers' = {}
  BY <1>3
     DEF Work, RelayEnds, Handshake, CheckPolicy, Dial, Connected, Admit,
         Recheck, Answer, CloseUpstream, Reply, ReleasePermit, Unregister, Step
<1>4. CASE StartAccepting \/ CheckReady \/ ReadyTimeout
  BY <1>4 DEF StartAccepting, CheckReady, ReadyTimeout, threadVars, connVars
<1>5. ASSUME NEW k \in Callers, CallStop(k) \/ Halting(k)
      PROVE  Quiet' /\ workers' = {}
  BY <1>5
     DEF CallStop, Halting, Announce, Drain, JoinAcceptor, JoinWorkers,
         RemoveSecret, threadVars, connVars
<1>6. CASE UNCHANGED vars
  BY <1>6 DEF vars, threadVars, connVars
<1>7. QED
  BY <1>1, <1>2, <1>3, <1>4, <1>5, <1>6 DEF Next

\* Once stopped, an acceptor that is not running never runs again.
LEMMA AcceptorStays ==
  ASSUME TInv, OwnedInv, AcceptorDone, Stopped, [Next]_vars PROVE AcceptorDone'
BY DEF AcceptorDone, Next, Acceptor, LoopHead, WouldBlock, AcceptFails, Accept,
       TryAcquire, Register, SpawnWorker, PushWorker, Holding, LetGo, Connect,
       Reset, Work, RelayEnds, Handshake, CheckPolicy, Dial, Connected, Admit,
       Recheck, Answer, CloseUpstream, Reply, ReleasePermit, Unregister,
       StartAccepting, CheckReady, ReadyTimeout, CallStop, Halting, Announce,
       Drain, JoinAcceptor, JoinWorkers, RemoveSecret, vars, threadVars

\* Only stop's own steps touch its place and the token.
LEMMA StopFrame ==
  ASSUME [Next]_vars, ~\E k \in Callers : CallStop(k) \/ Halting(k)
  PROVE  UNCHANGED stopVars /\ (Stopped <=> Stopped')
BY DEF Next, Acceptor, LoopHead, WouldBlock, AcceptFails, Accept,
       TryAcquire, Register, SpawnWorker, PushWorker, Connect,
       Reset, Work, RelayEnds, Handshake, CheckPolicy, Dial, Connected, Admit,
       Recheck, Answer, CloseUpstream, Reply, ReleasePermit, Unregister,
       StartAccepting, CheckReady, ReadyTimeout, vars, Stopped

LEMMA StopStep == TInv /\ OwnedInv /\ StopInv /\ [Next]_vars => StopInv'
<1> SUFFICES ASSUME TInv, OwnedInv, StopInv, [Next]_vars PROVE StopInv'
  OBVIOUS
<1>0. stopper \in [Callers -> {"no", "announce", "drain", "joinAcceptor",
                               "joinWorkers", "remove", "returned"}]
  BY DEF TInv, PlacesOK
<1>1. CASE ~\E k \in Callers : CallStop(k) \/ Halting(k)
  BY <1>1, StopFrame, QuietStays, AcceptorStays DEF StopInv, Active, stopVars
<1>2. ASSUME NEW k \in Callers, CallStop(k) PROVE StopInv'
  BY <1>0, <1>2, QuietStays, AcceptorStays
     DEF CallStop, Halt, StopInv, Active, TInv, PlacesOK, Stopped
<1>3. ASSUME NEW k \in Callers, Announce(k) \/ Drain(k) PROVE StopInv'
  BY <1>0, <1>3, QuietStays, AcceptorStays
     DEF Announce, Drain, Halt, StopInv, Active, Stopped
<1>4. ASSUME NEW k \in Callers, JoinAcceptor(k) PROVE StopInv'
  BY <1>0, <1>4, QuietStays, AcceptorStays
     DEF JoinAcceptor, AcceptorJoined, AcceptorDone, Halt, StopInv, Active,
         Stopped, threadVars
<1>5. ASSUME NEW k \in Callers, JoinWorkers(k) PROVE StopInv'
  <2>1. Quiet' /\ workers' = {}
    BY <1>5
       DEF JoinWorkers, Halt, StopInv, AcceptorDone, OwnedInv, InHand,
           Unfinished, Quiet, Idle, TInv, Typed, Phases, Outside, connVars
  <2>2. QED
    BY <1>0, <1>5, <2>1 DEF JoinWorkers, Halt, StopInv, Active, Stopped, Quiet
<1>6. ASSUME NEW k \in Callers, RemoveSecret(k) PROVE StopInv'
  BY <1>0, <1>6, QuietStays
     DEF RemoveSecret, Halt, StopInv, Active, Stopped
<1>7. QED
  BY <1>1, <1>2, <1>3, <1>4, <1>5, <1>6 DEF Halting

-----------------------------------------------------------------------------
(* The sockets and the listener.                                           *)

ListenerInv ==
  /\ acceptor = "none" => listener # "acceptor"
  /\ acceptor = "over" => listener = "closed"
  /\ acceptor = "none" /\ Stopped => listener = "closed"

\* Both ends of a connection are registered, or have been shut, while a
\* worker serves it; nothing is registered after the drain.
Known == sockets \cup shut
SocketInv ==
  /\ \A c \in Clients :
       /\ client[c] \in Serving \cup {"registered", "unregister"} => Near(c) \in Known
       /\ client[c] \in {"recheck", "answer", "relay"} => Far(c) \in Known
  /\ Drained => sockets = {}

LEMMA ListenerStep ==
  TInv /\ OwnedInv /\ ListenerInv /\ [Next]_vars => ListenerInv'
<1> SUFFICES ASSUME TInv, OwnedInv, ListenerInv, [Next]_vars PROVE ListenerInv'
  OBVIOUS
<1> USE DEF ListenerInv, Stopped
<1>1. CASE Acceptor
  BY <1>1
     DEF Acceptor, LoopHead, WouldBlock, AcceptFails, Accept, TryAcquire,
         Register, SpawnWorker, PushWorker, LetGo
<1>2. ASSUME NEW d \in Clients,
             Connect(d) \/ Reset(d) \/ Work(d) \/ RelayEnds(d)
      PROVE  ListenerInv'
  BY <1>2
     DEF Connect, Reset, Work, RelayEnds, Handshake, CheckPolicy, Dial,
         Connected, Admit, Recheck, Answer, CloseUpstream, Reply,
         ReleasePermit, Unregister, threadVars
<1>3. CASE StartAccepting \/ CheckReady \/ ReadyTimeout
  BY <1>3 DEF StartAccepting, CheckReady, ReadyTimeout, threadVars
<1>4. ASSUME NEW k \in Callers, CallStop(k) \/ Halting(k) PROVE ListenerInv'
  BY <1>4
     DEF CallStop, Halting, Announce, Drain, JoinAcceptor, JoinWorkers,
         RemoveSecret, threadVars, TInv, PlacesOK
<1>5. CASE UNCHANGED vars
  BY <1>5 DEF vars, threadVars
<1>6. QED
  BY <1>1, <1>2, <1>3, <1>4, <1>5 DEF Next

LEMMA DrainedStopped == StopInv /\ Drained => Stopped
BY DEF StopInv, Drained, Active

LEMMA EndsDiffer ==
  \A c, d \in Clients : /\ Near(c) # Far(d)
                        /\ c # d => Near(c) # Near(d) /\ Far(c) # Far(d)
BY DEF Near, Far

LEMMA SocketStep ==
  TInv /\ StopInv /\ SocketInv /\ [Next]_vars => SocketInv'
<1> SUFFICES ASSUME TInv, StopInv, SocketInv, [Next]_vars PROVE SocketInv'
  OBVIOUS
<1>0. client \in [Clients -> Phases]
  BY DEF TInv, Typed
<1>1. CASE Acceptor
  <2> USE DEF SocketInv, Known, Drained, Serving, stopVars
  <2>1. CASE LoopHead \/ WouldBlock \/ AcceptFails
    BY <2>1 DEF LoopHead, WouldBlock, AcceptFails, connVars
  <2>2. ASSUME NEW d \in Clients, Accept(d) \/ TryAcquire(d) PROVE SocketInv'
    BY <1>0, <2>2 DEF Accept, TryAcquire, Holding, Move
  <2>3. ASSUME NEW d \in Clients, Register(d) PROVE SocketInv'
    BY <1>0, <2>3, DrainedStopped DEF Register, Holding, Move
  <2>4. ASSUME NEW d \in Clients, SpawnWorker(d) PROVE SocketInv'
    BY <1>0, <2>4, EndsDiffer DEF SpawnWorker, Holding, Move
  <2>5. ASSUME NEW d \in Clients, PushWorker(d) PROVE SocketInv'
    BY <2>5 DEF PushWorker, connVars
  <2>6. QED
    BY <1>1, <2>1, <2>2, <2>3, <2>4, <2>5 DEF Acceptor
<1>2. ASSUME NEW d \in Clients, Connect(d) \/ Reset(d) PROVE SocketInv'
  BY <1>0, <1>2
     DEF Connect, Reset, Move, SocketInv, Known, Drained, Serving, stopVars
<1>3. ASSUME NEW d \in Clients, Work(d) \/ RelayEnds(d) PROVE SocketInv'
  <2> USE DEF SocketInv, Known, Drained, Serving, stopVars, Step, Move
  <2>1. CASE Handshake(d) \/ CheckPolicy(d) \/ Dial(d) \/ Connected(d)
    BY <1>0, <2>1 DEF Handshake, CheckPolicy, Dial, Connected
  <2>2. CASE Admit(d)
    BY <1>0, <2>2, DrainedStopped DEF Admit, UpstreamRegistered
  <2>3. CASE Recheck(d) \/ CloseUpstream(d) \/ Unregister(d)
    BY <1>0, <2>3, EndsDiffer DEF Recheck, CloseUpstream, Unregister
  <2>4. CASE Answer(d) \/ RelayEnds(d) \/ Reply(d) \/ ReleasePermit(d)
    BY <1>0, <2>4 DEF Answer, RelayEnds, Reply, ReleasePermit
  <2>5. QED
    BY <1>3, <2>1, <2>2, <2>3, <2>4 DEF Work
<1>4. CASE StartAccepting \/ CheckReady \/ ReadyTimeout
  BY <1>4
     DEF StartAccepting, CheckReady, ReadyTimeout, SocketInv, Known, Drained,
         connVars, stopVars
<1>5. ASSUME NEW k \in Callers, CallStop(k) \/ Halting(k) PROVE SocketInv'
  <2>1. CASE Drain(k)
    BY <2>1 DEF Drain, ShutSockets, SocketInv, Known
  <2>2. CASE ~Drain(k)
    <3>1. UNCHANGED connVars /\ (Drained' => Drained)
      BY <1>5, <2>2
         DEF CallStop, Halting, Announce, JoinAcceptor, JoinWorkers,
             RemoveSecret, Halt, Drained, TInv, PlacesOK
    <3>2. QED
      BY <3>1 DEF SocketInv, Known, connVars
  <2>3. QED
    BY <2>1, <2>2
<1>6. CASE UNCHANGED vars
  BY <1>6 DEF vars, SocketInv, Known, Drained, connVars, stopVars
<1>7. QED
  BY <1>1, <1>2, <1>3, <1>4, <1>5, <1>6 DEF Next

-----------------------------------------------------------------------------
(* The invariant and what follows from it.                                 *)

IInv == TInv /\ OwnedInv /\ StopInv /\ ListenerInv /\ SocketInv

LEMMA IInvInit == Init => IInv
<1> SUFFICES ASSUME Init PROVE IInv
  OBVIOUS
<1>1. TInv
  BY TInvInit
<1>2. OwnedInv /\ StopInv /\ ListenerInv /\ SocketInv
  BY DEF Init, OwnedInv, StopInv, ListenerInv, SocketInv, Serving, Active,
         Stopped, Drained
<1>3. QED
  BY <1>1, <1>2 DEF IInv

LEMMA IInvStep == IInv /\ [Next]_vars => IInv'
BY TInvStep, OwnedStep, StopStep, ListenerStep, SocketStep DEF IInv

LEMMA Invariant == Spec => []IInv
BY IInvInit, IInvStep, PTL DEF Spec, Safety

(* After the drain no relay has an end that stop did not shut: register    *)
(* refuses under the mutex that the drain takes.                           *)
THEOREM DrainCovers == Spec => []DrainCoversRelays
<1>1. IInv => DrainCoversRelays
  BY DEF IInv, SocketInv, Known, DrainCoversRelays, Serving
<1>2. QED
  BY <1>1, Invariant, PTL

(* When stop has removed the token, no acceptor and no worker is left.     *)
THEOREM StopComplete == Spec => []StopIsComplete
<1>1. IInv => StopIsComplete
  BY DEF IInv, StopInv, ListenerInv, SocketInv, Quiet, AcceptorDone, Idle,
         Drained, StopIsComplete, Callers
<1>2. QED
  BY <1>1, Invariant, PTL

-----------------------------------------------------------------------------
(* The refinement of BoundedService.                                       *)

LEMMA StepKeepsService ==
  IInv /\ [Next]_vars => [Service!Next]_Service!vars
<1> SUFFICES ASSUME IInv, [Next]_vars PROVE [Service!Next]_Service!vars
  OBVIOUS
<1> USE DEF Service!vars
<1>1. CASE ~\E k \in Callers : CallStop(k) \/ Halting(k)
  <2>1. UNCHANGED secret /\ (Stopped <=> Stopped')
    BY <1>1, StopFrame DEF stopVars
  <2>2. CASE Holders' = Holders
    BY <2>1, <2>2
  <2>3. ASSUME NEW c \in Clients, Enters(c) PROVE Service!Next
    <3>0. Service!Cardinality(Holders) = Cardinality(Holders)
      BY DEF Cardinality, Service!Cardinality
    <3>1. Service!Cardinality(Holders) < Limit
      BY <2>3, <3>0, HoldersFinite, LimitAssumption
         DEF Enters, IInv, TInv, Typed, PermitsConserved
    <3>2. Service!Enter(c)
      BY <2>3, <3>1 DEF Enters, Service!Enter, Stopped
    <3>3. QED
      BY <3>2 DEF Service!Next
  <2>4. ASSUME NEW c \in Clients, Leaves(c) PROVE Service!Next
    BY <2>1, <2>4 DEF Leaves, Service!Leave, Service!Next
  <2>5. QED
    BY <2>2, <2>3, <2>4, PermitStep DEF PermitsKept, IInv, TInv
<1>2. ASSUME NEW k \in Callers, CallStop(k) PROVE [Service!Next]_Service!vars
  <2>1. Holders' = Holders /\ UNCHANGED secret
    BY <1>2 DEF CallStop, connVars, Holders
  <2>2. CASE Stopped
    BY <1>2, <2>1, <2>2 DEF CallStop, Stopped
  <2>3. CASE ~Stopped
    <3>1. secret = "present" /\ Stopped'
      BY <1>2, <2>3 DEF CallStop, IInv, StopInv, TInv, PlacesOK, Stopped
    <3>2. QED
      BY <2>1, <2>3, <3>1 DEF Service!BeginClosing, Service!Next
  <2>4. QED
    BY <2>2, <2>3
<1>3. ASSUME NEW k \in Callers, RemoveSecret(k) PROVE Service!Next
  <2>1. Stopped /\ Stopped' /\ secret = "present" /\ secret' = "removed"
    BY <1>3 DEF RemoveSecret, Halt, IInv, StopInv, Active, Stopped
  <2>2. Holders = {} /\ Holders' = {}
    BY <1>3
       DEF RemoveSecret, Halt, IInv, StopInv, Quiet, Idle, Holders, Serving,
           connVars
  <2>3. QED
    BY <2>1, <2>2 DEF Service!Close, Service!Next
<1>4. ASSUME NEW k \in Callers, Halting(k), ~RemoveSecret(k)
      PROVE  UNCHANGED Service!vars
  BY <1>4
     DEF Halting, Announce, Drain, JoinAcceptor, JoinWorkers, Holders, Stopped,
         connVars
<1>5. QED
  BY <1>1, <1>2, <1>3, <1>4

(* The broker is a bounded service: at most MAX_CONNECTIONS connections    *)
(* hold a permit, none gets one once stop has begun, and the token goes    *)
(* only when none holds one.                                               *)
THEOREM ServiceBounded == Spec => IsBoundedService
<1>1. Init => Service!Init
  BY DEF Init, Service!Init, Stopped, Holders, Serving
<1>2. QED
  BY <1>1, StepKeepsService, Invariant, PTL
     DEF Spec, Safety, IsBoundedService, Service!Spec
=============================================================================
