------------------------------ MODULE PeerClose ------------------------------
(***************************************************************************)
(* How the proxy notices that a client has gone while it waits for         *)
(* something else.  All downstream connections share one edge-triggered    *)
(* poll behind a mutex.  A connection registers its descriptor under a     *)
(* token; whoever waits polls for everybody and stores what it finds in    *)
(* the flag of the owner of the token, so an event is consumed once and by *)
(* any waiter.  Descriptors and tokens are reused.                         *)
(*                                                                         *)
(* Everything done under the mutex is one step.  The kernel's part, the    *)
(* interest list and the list of ready descriptors, is external.  Left     *)
(* out: the platforms without the monitor and the length of the pause.     *)
(***************************************************************************)
EXTENDS Integers, Sequences, SequencesExt

CONSTANTS
  Conns,       \* the connections that are accepted, each once
  Fds,         \* the descriptors, reused
  TokenLimit,  \* the tokens before the counter wraps
  Capacity     \* the events one poll takes

Tokens == 0..TokenLimit - 1
NoConn == "none"
NoToken == -1
NoFd == "none"

TokenAssumption ==
  /\ TokenLimit \in Nat \ {0} /\ Capacity \in Nat \ {0}
  /\ NoConn \notin Conns /\ NoFd \notin Fds

VARIABLES
  phase,      \* of each connection: where its task is
  fd,         \* its descriptor
  token,      \* the token of its monitor
  closed,     \* the connections whose flag is set
  states,     \* the connection whose flag stands under each token
  next,       \* next_token
  interest,   \* the token under which the kernel watches each descriptor
  ready,      \* the descriptors with an event that no poll has taken
  peer,       \* of each client: "quiet", "sent" something new, or "gone"
  dropped     \* how many fields of the connection have been dropped

task == <<phase, fd, token, dropped>>
shared == <<closed, states, next>>
kernel == <<interest, ready>>
vars == <<task, shared, kernel, peer>>

\* "new", "idle", "check" of the flag, "poll", "sleep", "noticed", "failed" (the monitor
\* could not be set up or polled, so every wait ends at once), "ending", "done".
Waiting == {"check", "poll", "sleep"}
Open(c) == phase[c] \notin {"new", "done"}
Monitoring(c) == token[c] # NoToken

\* The fields of a connection are dropped in the order in which they are declared.
Fields == <<"peer_close", "io">>
HasIo(c) == Open(c) /\ \A i \in 1..dropped[c] : Fields[i] # "io"

Owner(f) == {c \in Conns : fd[c] = f /\ HasIo(c)}
Free == {f \in Fds : Owner(f) = {}}

------------------------------------------------------------------------------
(* The kernel.                                                             *)

Watch(f, t, event) ==
  /\ interest' = [interest EXCEPT ![f] = t]
  /\ ready' = IF event THEN Append(ready, f) ELSE ready

\* A descriptor has one place at most in the list.
Places(f) == {i \in DOMAIN ready : ready[i] = f}
Unlisted(f) == IF Places(f) = {} THEN ready ELSE RemoveAt(ready, CHOOSE i \in Places(f) : TRUE)

Unwatch(f) ==
  /\ interest' = [interest EXCEPT ![f] = NoToken]
  /\ ready' = Unlisted(f)

Event(c) ==
  IF ~HasIo(c) \/ interest[fd[c]] = NoToken \/ Contains(ready, fd[c]) THEN ready ELSE Append(ready, fd[c])

Sends(c) ==
  /\ phase[c] # "done" /\ peer[c] = "quiet"
  /\ peer' = [peer EXCEPT ![c] = "sent"]
  /\ ready' = Event(c)
  /\ UNCHANGED <<task, shared, interest>>

Goes(c) ==
  /\ phase[c] # "done" /\ peer[c] # "gone"
  /\ peer' = [peer EXCEPT ![c] = "gone"]
  /\ ready' = Event(c)
  /\ UNCHANGED <<task, shared, interest>>

------------------------------------------------------------------------------
(* The monitor.                                                            *)

Init ==
  /\ phase = [c \in Conns |-> "new"] /\ fd = [c \in Conns |-> NoFd]
  /\ token = [c \in Conns |-> NoToken] /\ dropped = [c \in Conns |-> 0]
  /\ closed = {} /\ states = [t \in Tokens |-> NoConn] /\ next = 0
  /\ interest = [f \in Fds |-> NoToken] /\ ready = <<>>
  /\ peer = [c \in Conns |-> "quiet"]

\* The offset from the counter of the first token that is not in use.
FreshOffset ==
  CHOOSE i \in 0..TokenLimit - 1 :
    /\ states[(next + i) % TokenLimit] = NoConn
    /\ \A j \in 0..i - 1 : states[(next + j) % TokenLimit] # NoConn

FreshToken == (next + FreshOffset) % TokenLimit

NextToken == (FreshToken + 1) % TokenLimit

\* There are many more tokens than connections: the search ends.
SomeTokenIsFree == \E t \in Tokens : states[t] = NoConn

Accept(c, f) ==
  /\ phase[c] = "new" /\ f \in Free /\ SomeTokenIsFree
  /\ phase' = [phase EXCEPT ![c] = "idle"]
  /\ fd' = [fd EXCEPT ![c] = f]
  /\ token' = [token EXCEPT ![c] = FreshToken]
  /\ next' = NextToken
  /\ states' = [states EXCEPT ![FreshToken] = c]
  /\ Watch(f, FreshToken, peer[c] # "quiet")
  /\ UNCHANGED <<closed, peer, dropped>>

\* The kernel refuses the registration: the counter has moved, nothing else has.
AcceptUnwatched(c, f) ==
  /\ phase[c] = "new" /\ f \in Free /\ SomeTokenIsFree
  /\ phase' = [phase EXCEPT ![c] = "failed"]
  /\ fd' = [fd EXCEPT ![c] = f]
  /\ next' = NextToken
  /\ UNCHANGED <<token, states, closed, kernel, peer, dropped>>

Goto(c, p) == phase' = [phase EXCEPT ![c] = p]

Wait(c) ==
  /\ phase[c] = "idle"
  /\ Goto(c, "check")
  /\ UNCHANGED <<fd, token, dropped, shared, kernel, peer>>

Check(c) ==
  /\ phase[c] = "check"
  /\ Goto(c, IF c \in closed THEN "noticed" ELSE "poll")
  /\ UNCHANGED <<fd, token, dropped, shared, kernel, peer>>

Taken == SubSeq(ready, 1, IF Len(ready) < Capacity THEN Len(ready) ELSE Capacity)
ReadClosed(f) == \E c \in Owner(f) : peer[c] = "gone"

\* A variant that stores what is found for the connection that polls only.
FoundForSelf(c) == {d \in {c} : \E i \in DOMAIN Taken : Taken[i] = fd[c] /\ ReadClosed(Taken[i])}

\* The owners of the tokens of the events that say that the reading side is closed.
Found(c) ==
  {states[interest[Taken[i]]] : i \in {j \in DOMAIN Taken : ReadClosed(Taken[j])}} \ {NoConn}

Poll(c) ==
  /\ phase[c] = "poll"
  /\ closed' = closed \cup Found(c)
  /\ ready' = SubSeq(ready, Len(Taken) + 1, Len(ready))
  /\ Goto(c, "sleep")
  /\ UNCHANGED <<fd, token, dropped, states, next, interest, peer>>

PollFails(c) ==
  /\ phase[c] = "poll"
  /\ Goto(c, "failed")
  /\ UNCHANGED <<fd, token, dropped, shared, kernel, peer>>

Wake(c) ==
  /\ phase[c] = "sleep"
  /\ Goto(c, "check")
  /\ UNCHANGED <<fd, token, dropped, shared, kernel, peer>>

\* What the task really waits for comes first: the wait is dropped where it sleeps.
Cancel(c) ==
  /\ phase[c] = "sleep"
  /\ Goto(c, "idle")
  /\ UNCHANGED <<fd, token, dropped, shared, kernel, peer>>

------------------------------------------------------------------------------
(* The end of a connection.                                                *)

End(c) ==
  /\ phase[c] \in {"idle", "noticed", "failed"}
  /\ Goto(c, "ending")
  /\ UNCHANGED <<fd, token, dropped, shared, kernel, peer>>

Drops(c, field) == phase[c] = "ending" /\ dropped[c] < 2 /\ Fields[dropped[c] + 1] = field

\* The monitor withdraws the descriptor it remembers, whosever it is now.
DropMonitor(c) ==
  /\ Drops(c, "peer_close")
  /\ IF Monitoring(c)
     THEN /\ Unwatch(fd[c])
          /\ states' = [states EXCEPT ![token[c]] = NoConn]
     ELSE UNCHANGED <<kernel, states>>
  /\ dropped' = [dropped EXCEPT ![c] = @ + 1]
  /\ token' = [token EXCEPT ![c] = NoToken]
  /\ phase' = [phase EXCEPT ![c] = IF dropped[c] = 1 THEN "done" ELSE @]
  /\ UNCHANGED <<fd, closed, next, peer>>

\* Closing a descriptor ends its registration; the number is free for the next client.
DropIo(c) ==
  /\ Drops(c, "io")
  /\ Unwatch(fd[c])
  /\ dropped' = [dropped EXCEPT ![c] = @ + 1]
  /\ phase' = [phase EXCEPT ![c] = IF dropped[c] = 1 THEN "done" ELSE @]
  /\ UNCHANGED <<fd, token, shared, peer>>

Next ==
  \/ \E c \in Conns, f \in Fds : Accept(c, f) \/ AcceptUnwatched(c, f)
  \/ \E c \in Conns : \/ Sends(c) \/ Goes(c)
                      \/ Wait(c) \/ Check(c) \/ Poll(c) \/ PollFails(c) \/ Wake(c) \/ Cancel(c)
                      \/ End(c) \/ DropMonitor(c) \/ DropIo(c)

\* A task that waits goes on: its pause ends and it looks again.
Fairness == \A c \in Conns : WF_vars(Check(c)) /\ WF_vars(Poll(c)) /\ WF_vars(Wake(c))

Spec == Init /\ [][Next]_vars

------------------------------------------------------------------------------
(* Properties.                                                             *)

TypeOK ==
  /\ phase \in [Conns -> {"new", "idle", "noticed", "failed", "ending", "done"} \cup Waiting]
  /\ fd \in [Conns -> Fds \cup {NoFd}] /\ token \in [Conns -> Tokens \cup {NoToken}]
  /\ dropped \in [Conns -> 0..2] /\ closed \subseteq Conns
  /\ states \in [Tokens -> Conns \cup {NoConn}] /\ next \in Tokens
  /\ interest \in [Fds -> Tokens \cup {NoToken}] /\ Len(ready) <= TokenLimit
  /\ peer \in [Conns -> {"quiet", "sent", "gone"}]

\* A client is taken for gone only if it is: no event of a connection reaches the flag of
\* another, however often tokens and descriptors are reused.
NoFalseClose == \A c \in closed : peer[c] = "gone"

\* While a connection has its monitor the kernel watches its descriptor for it, and its
\* token leads to its flag.  A monitor that outlived its descriptor would withdraw the
\* registration of the next connection with that number.
RegistrationIsOwn ==
  \A c \in Conns : Monitoring(c) /\ HasIo(c) =>
    interest[fd[c]] = token[c] /\ states[token[c]] = c

\* The event of a client that has gone is not lost: until it stands in the flag it is
\* still to be taken, whoever polls and however few events one poll takes.
CloseIsKept ==
  \A c \in Conns : Monitoring(c) /\ HasIo(c) /\ peer[c] = "gone" =>
    c \in closed \/ Contains(ready, fd[c])

\* A close is told to its owner and to nobody else.
PeerCloseIsTrue == TypeOK /\ NoFalseClose /\ RegistrationIsOwn /\ CloseIsKept

\* A task that keeps waiting notices that its client has gone, also if another waiter has
\* taken the event.
GoneIsNoticed(c) == (peer[c] = "gone" /\ phase[c] \in Waiting) ~> (phase[c] \notin Waiting)
==============================================================================
