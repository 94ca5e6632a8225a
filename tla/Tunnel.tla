------------------------------- MODULE Tunnel -------------------------------
(***************************************************************************)
(* A CONNECT tunnel from the client's request to the last byte: the head   *)
(* and what was read along with it, the exchange with the host broker for  *)
(* a local service (BrokerProtocol), the answer, and the relay of the      *)
(* proxy (server/relay.rs), with that of the broker (relay of              *)
(* cli/src/broker.rs) behind it.                                           *)
(*                                                                         *)
(* Links are TCP connections: "near" from the client to the proxy, "mid"   *)
(* from the proxy to a public service or to the broker, "far" from the     *)
(* broker to a local service.  "H" is a request head, "E" the head of a    *)
(* success, "F" a broker frame; "O", "K", "N" are the broker's OK and      *)
(* newline, "X" is another answer; numbers are the bytes of the tunnel.    *)
(***************************************************************************)
EXTENDS Naturals, Sequences, SequencesExt

CONSTANTS Routes,        \* of {"public", "local"}
          ClientBytes, ServiceBytes,   \* how much each of them has to say
          Window,        \* what a link holds in one direction
          ReadAhead,     \* REQUEST_LINE_LIMIT: how far a head read goes
          MaxPrefix,     \* MAX_PREFIX_BYTES
          Buffer         \* RELAY_BUFFER_BYTES

\* What is read beyond a head fits a prefix, and a prefix the buffer that follows it: in
\* the code 8 KiB, and twice 32 KiB.
TunnelAssumption ==
  /\ Routes \subseteq {"public", "local"} /\ ClientBytes \in Nat /\ ServiceBytes \in Nat
  /\ Window \in Nat \ {0} /\ ReadAhead \in Nat \ {0} /\ MaxPrefix \in Nat \ {0} /\ Buffer \in Nat
  /\ ReadAhead <= MaxPrefix + 1 /\ MaxPrefix <= Buffer

VARIABLES
  route,
  wire,     \* the bytes in flight, per end: <<link, direction>>
  shut,     \* ends that send no more: shut down for writing, or closed
  deaf,     \* ends whose receiver is closed
  task,     \* the client's task in the proxy
  answer,   \* what read_response has of the broker's answer
  host,     \* the broker's worker
  pump,     \* the four copy loops: "off", "copy", "done"
  held,     \* what each of them holds
  said,     \* how much client and service have sent
  got,      \* what client and service have received
  stop,     \* Shutdown: "none", "requested", "forced"
  fault     \* what has gone wrong outside: "none", "abort", "deadline"

netVars == <<wire, shut, deaf>>
vars == <<route, wire, shut, deaf, task, answer, host, pump, held, said, got, stop, fault>>

Dirs == {"up", "down"}
Back(d) == IF d = "up" THEN "down" ELSE "up"
Ends == {"near", "mid", "far"} \X Dirs
Opposite(e) == <<e[1], Back(e[2])>>
Pumps == {"proxy", "broker"} \X Dirs
From(q) == <<IF q = <<"proxy", "up">> THEN "near" ELSE IF q = <<"broker", "down">> THEN "far" ELSE "mid", q[2]>>
To(q) == <<IF q = <<"proxy", "down">> THEN "near" ELSE IF q = <<"broker", "up">> THEN "far" ELSE "mid", q[2]>>
ServiceLink == IF route = "public" THEN "mid" ELSE "far"
Script(n) == [i \in 1..n |-> i]

-----------------------------------------------------------------------------
(* The network.                                                            *)

Room(e) == Len(wire[e]) < Window
Put(e, bytes) == [wire EXCEPT ![e] = @ \o bytes]
Drop(e, n) == [wire EXCEPT ![e] = SubSeq(@, n + 1, Len(@))]
AtEof(e) == wire[e] = <<>> /\ e \in shut
CannotWrite(e) == e \in deaf \cup shut
Amounts(e, most) == 1..(IF Len(wire[e]) < most THEN Len(wire[e]) ELSE most)

\* The owner of the sending ends E closes these sockets.  What it has not read is lost,
\* and may take with it what it has sent.
Close(E) ==
  LET in(e) == Opposite(e) \in E
      torn == {e \in E : wire[Opposite(e)] # <<>>}
  IN /\ shut' = shut \cup E
     /\ deaf' = deaf \cup {Opposite(e) : e \in E}
     /\ \E lost \in SUBSET torn :
          wire' = [e \in Ends |-> IF in(e) \/ e \in lost THEN <<>> ELSE wire[e]]

-----------------------------------------------------------------------------
(* Before the tunnel: serve_connection_io, connect_http1, exchange.        *)

ProxyEnds == {<<"near", "down">>, <<"mid", "up">>}
Upstream == IF task \in {"head", "dial"} THEN {} ELSE {<<"mid", "up">>}

\* The head and what came with it: into_buffered_io keeps the rest for the relay.  A
\* variant lets it go.
RestForgotten(n) == <<>>
RestOfRead(n) == SubSeq(wire[<<"near", "up">>], 2, n)
ReadHead ==
  /\ task = "head" /\ wire[<<"near", "up">>] # <<>>
  /\ \E n \in Amounts(<<"near", "up">>, ReadAhead) :
       /\ held' = [held EXCEPT ![<<"proxy", "up">>] = RestOfRead(n)]
       /\ wire' = Drop(<<"near", "up">>, n)
  /\ task' = "dial"
  /\ UNCHANGED <<route, shut, deaf, answer, host, pump, said, got, stop, fault>>

\* Connected: to the service, or to the broker, to which the frame is written.
Dial ==
  /\ task = "dial"
  /\ IF route = "public" THEN task' = "connected" /\ UNCHANGED <<wire, host>>
     ELSE task' = "response" /\ wire' = Put(<<"mid", "up">>, <<"F">>) /\ host' = "frame"
  /\ UNCHANGED <<route, shut, deaf, answer, pump, held, said, got, stop, fault>>

\* read_response: as much as there is, up to four bytes.  What follows the newline is of
\* the tunnel.
Accepted(a) == IsPrefix(<<"O", "K", "N">>, a)
ReadsOn(a) == Len(a) < 3 /\ IsPrefix(a, <<"O", "K", "N">>)
ReadResponse ==
  /\ task = "response" /\ wire[<<"mid", "down">>] # <<>>
  /\ \E n \in Amounts(<<"mid", "down">>, 4 - Len(answer)) :
       LET a == answer \o SubSeq(wire[<<"mid", "down">>], 1, n) IN
         /\ answer' = a
         /\ IF Accepted(a)
            THEN /\ task' = "connected" /\ wire' = Drop(<<"mid", "down">>, n)
                 /\ held' = [held EXCEPT ![<<"proxy", "down">>] = SubSeq(a, 4, Len(a))]
                 /\ UNCHANGED <<shut, deaf>>
            ELSE IF ReadsOn(a)
            THEN /\ wire' = Drop(<<"mid", "down">>, n)
                 /\ UNCHANGED <<task, held, shut, deaf>>
            ELSE task' = "rejected" /\ Close({<<"mid", "up">>}) /\ UNCHANGED held
  /\ UNCHANGED <<route, host, pump, said, got, stop, fault>>

\* The end of the stream before the answer is a rejection too.
NoResponse ==
  /\ task = "response" /\ AtEof(<<"mid", "down">>)
  /\ task' = "rejected" /\ Close({<<"mid", "up">>})
  /\ UNCHANGED <<route, answer, host, pump, held, said, got, stop, fault>>

\* A refused dial, the deadline or the cancellation ends the attempt, and the client is
\* answered so.
GiveUp ==
  /\ task \in {"dial", "response"}
  /\ \/ stop # "none" /\ UNCHANGED fault
     \/ stop = "none" /\ fault' = "deadline"
  /\ task' = "failed" /\ Close(Upstream)
  /\ UNCHANGED <<route, answer, host, pump, held, said, got, stop>>

\* wait_for_peer_close: the client sends no more, so it has left.
PeerClosed ==
  /\ task \in {"dial", "response"} /\ <<"near", "up">> \in shut
  /\ task' = "left" /\ Close(Upstream \cup {<<"near", "down">>})
  /\ UNCHANGED <<route, answer, host, pump, held, said, got, stop, fault>>

\* The answer is committed only before a shutdown.
Establish ==
  /\ task = "connected"
  /\ IF stop = "none" /\ ~CannotWrite(<<"near", "down">>)
     THEN /\ wire' = Put(<<"near", "down">>, <<"E">>)
          /\ task' = "relay"
          /\ pump' = [pump EXCEPT ![<<"proxy", "up">>] = "copy", ![<<"proxy", "down">>] = "copy"]
          /\ UNCHANGED <<shut, deaf>>
     ELSE task' = "over" /\ Close(ProxyEnds) /\ UNCHANGED pump
  /\ UNCHANGED <<route, answer, host, held, said, got, stop, fault>>

-----------------------------------------------------------------------------
(* The broker's worker: serve.                                             *)

\* It reads its line byte by byte and leaves the rest; it dials the service and answers,
\* or refuses and ends.
Serve ==
  /\ host = "frame" /\ wire[<<"mid", "up">>] # <<>>
  /\ \/ /\ host' = "relay"
        /\ wire' = [Drop(<<"mid", "up">>, 1) EXCEPT ![<<"mid", "down">>] = <<"O", "K", "N">>]
        /\ pump' = [pump EXCEPT ![<<"broker", "up">>] = "copy", ![<<"broker", "down">>] = "copy"]
        /\ UNCHANGED <<shut, deaf>>
     \/ /\ host' = "refused"
        /\ wire' = [Drop(<<"mid", "up">>, 1) EXCEPT ![<<"mid", "down">>] = <<"X">>]
        /\ shut' = shut \cup {<<"mid", "down">>} /\ deaf' = deaf \cup {<<"mid", "up">>}
        /\ UNCHANGED pump
  /\ UNCHANGED <<route, task, answer, held, said, got, stop, fault>>
ServeNobody ==
  /\ host = "frame" /\ AtEof(<<"mid", "up">>)
  /\ host' = "refused" /\ Close({<<"mid", "down">>})
  /\ UNCHANGED <<route, task, answer, pump, held, said, got, stop, fault>>

-----------------------------------------------------------------------------
(* The copy loops.                                                         *)

\* A loop reads again only when all is written, which is its backpressure.
MayRead(q) == held[q] = <<>>
Copying(q) == pump[q] = "copy" /\ (q[1] = "proxy" => task = "relay")
CopyRead(q) ==
  /\ Copying(q) /\ MayRead(q)
  /\ \E n \in Amounts(From(q), Buffer) :
       /\ held' = [held EXCEPT ![q] = @ \o SubSeq(wire[From(q)], 1, n)]
       /\ wire' = Drop(From(q), n)
  /\ UNCHANGED <<route, shut, deaf, task, answer, host, pump, said, got, stop, fault>>
CopyWrite(q) ==
  /\ Copying(q) /\ held[q] # <<>> /\ ~CannotWrite(To(q)) /\ Room(To(q))
  /\ wire' = Put(To(q), <<Head(held[q])>>)
  /\ held' = [held EXCEPT ![q] = Tail(@)]
  /\ UNCHANGED <<route, shut, deaf, task, answer, host, pump, said, got, stop, fault>>

\* What the proxy does at the end of one direction: the destination is told, no more.
\* A variant tells nobody.
EndsSilently(q) == UNCHANGED netVars
HalfClose(q) == shut' = shut \cup {To(q)} /\ UNCHANGED <<wire, deaf>>
ProxyEof(q) ==
  /\ q[1] = "proxy" /\ Copying(q) /\ held[q] = <<>> /\ AtEof(From(q))
  /\ pump' = [pump EXCEPT ![q] = "done"]
  /\ HalfClose(q)
  /\ UNCHANGED <<route, task, answer, host, held, said, got, stop, fault>>

RelayOver ==
  /\ task' = "over" /\ Close(ProxyEnds)
  /\ UNCHANGED <<route, answer, host, pump, held, said, got, stop, fault>>
\* try_join: an error of one direction ends both, and so does force.
ProxyFails(q) == q[1] = "proxy" /\ Copying(q) /\ held[q] # <<>> /\ CannotWrite(To(q)) /\ RelayOver
ProxyForced == task = "relay" /\ stop = "forced" /\ RelayOver
ProxyDone == task = "relay" /\ pump[<<"proxy", "up">>] = "done" /\ pump[<<"proxy", "down">>] = "done" /\ RelayOver

\* The broker's threads shut down both sockets in both directions when their direction
\* is over, by the end of the stream or by an error.
BrokerEnds(q) ==
  /\ q[1] = "broker" /\ Copying(q)
  /\ (held[q] = <<>> /\ AtEof(From(q))) \/ (held[q] # <<>> /\ CannotWrite(To(q)))
  /\ pump' = [pump EXCEPT ![q] = "done"]
  /\ Close({<<"mid", "down">>, <<"far", "up">>})
  /\ UNCHANGED <<route, task, answer, host, held, said, got, stop, fault>>

-----------------------------------------------------------------------------
(* Client and service.                                                     *)

Mouth(who) == IF who = "client" THEN <<"near", "up">> ELSE <<ServiceLink, "down">>
Ear(who) == Opposite(Mouth(who))
Parties == {"client", "service"}
Bytes(who) == IF who = "client" THEN ClientBytes ELSE ServiceBytes
\* The service is there once it is connected.
There(who) ==
  \/ who = "client"
  \/ route = "public" /\ task \in {"connected", "relay", "over"}
  \/ route = "local" /\ host = "relay"

Say(who) ==
  /\ There(who) /\ said[who] < Bytes(who) /\ Room(Mouth(who)) /\ ~CannotWrite(Mouth(who))
  /\ said' = [said EXCEPT ![who] = @ + 1]
  /\ wire' = Put(Mouth(who), <<said[who] + 1>>)
  /\ UNCHANGED <<route, shut, deaf, task, answer, host, pump, held, got, stop, fault>>
Finish(who) ==
  /\ There(who) /\ said[who] = Bytes(who) /\ Mouth(who) \notin shut
  /\ shut' = shut \cup {Mouth(who)}
  /\ UNCHANGED <<route, wire, deaf, task, answer, host, pump, held, said, got, stop, fault>>
Hear(who) ==
  /\ There(who) /\ wire[Ear(who)] # <<>>
  /\ got' = [got EXCEPT ![who] = Append(@, Head(wire[Ear(who)]))]
  /\ wire' = Drop(Ear(who), 1)
  /\ UNCHANGED <<route, shut, deaf, task, answer, host, pump, held, said, stop, fault>>
Abort(who) ==
  /\ There(who) /\ Mouth(who) \notin shut
  /\ fault' = "abort" /\ Close({Mouth(who)})
  /\ UNCHANGED <<route, task, answer, host, pump, held, said, got, stop>>
Signal ==
  /\ stop # "forced"
  /\ stop' = IF stop = "none" THEN "requested" ELSE "forced"
  /\ UNCHANGED <<route, wire, shut, deaf, task, answer, host, pump, held, said, got, fault>>

-----------------------------------------------------------------------------
Init ==
  /\ route \in Routes
  /\ wire = [e \in Ends |-> IF e = <<"near", "up">> THEN <<"H">> ELSE <<>>]
  /\ shut = {} /\ deaf = {}
  /\ task = "head" /\ answer = <<>> /\ host = "none"
  /\ pump = [q \in Pumps |-> "off"] /\ held = [q \in Pumps |-> <<>>]
  /\ said = [who \in Parties |-> 0] /\ got = [who \in Parties |-> <<>>]
  /\ stop = "none" /\ fault = "none"

Proxy == ReadHead \/ Dial \/ ReadResponse \/ NoResponse \/ Establish \/ ProxyForced \/ ProxyDone
Worker == Serve \/ ServeNobody
Loop(q) == CopyRead(q) \/ CopyWrite(q) \/ ProxyEof(q) \/ ProxyFails(q) \/ BrokerEnds(q)
Party(who) == Say(who) \/ Finish(who)
\* A service may wait for the end of what the client says before it ends itself.
Patient(who) == Say(who) \/ (Finish(who) /\ (who = "client" \/ AtEof(Ear(who))))
Outside == GiveUp \/ PeerClosed \/ Signal \/ \E who \in Parties : Abort(who)
Next ==
  \/ Proxy \/ Worker \/ Outside
  \/ \E q \in Pumps : Loop(q)
  \/ \E who \in Parties : Party(who) \/ Hear(who)

Spec == Init /\ [][Next]_vars

\* Threads and tasks run, both ends go on reading, the client has an end, and a service
\* has one at the latest when it has heard that of the client.
Fairness ==
  /\ WF_vars(Proxy) /\ WF_vars(Worker)
  /\ \A q \in Pumps : WF_vars(Loop(q))
  /\ \A who \in Parties : WF_vars(Patient(who)) /\ WF_vars(Hear(who))

-----------------------------------------------------------------------------
TypeOK ==
  /\ route \in Routes /\ shut \subseteq Ends /\ deaf \subseteq Ends
  /\ stop \in {"none", "requested", "forced"} /\ fault \in {"none", "abort", "deadline"}
  /\ task \in {"head", "dial", "response", "connected", "relay", "rejected", "failed", "left", "over"}
  /\ host \in {"none", "frame", "relay", "refused"}
  /\ \A q \in Pumps : pump[q] \in {"off", "copy", "done"} /\ Len(held[q]) <= Buffer
  /\ \A d \in Dirs : pump[<<"proxy", d>>] = "off" => Len(held[<<"proxy", d>>]) <= MaxPrefix
  /\ \A e \in Ends : Len(wire[e]) <= Window + 3

Tunnelled == got["client"] # <<>>
ClientGot == IF Tunnelled THEN Tail(got["client"]) ELSE <<>>
Undisturbed == stop = "none" /\ fault = "none"

\* What comes out of the tunnel on either side is what went in, in order and without a
\* gap, whatever was read together with the request's head or with the broker's answer,
\* and the answer of the proxy comes before it.
Lossless ==
  /\ IsPrefix(got["service"], Script(ClientBytes))
  /\ Tunnelled => got["client"][1] = "E"
  /\ IsPrefix(ClientGot, Script(ServiceBytes))

\* An exchange with the broker succeeds exactly when the broker has said so, in whatever
\* pieces its answer comes and whatever comes with it.
AnswerIsUnderstood ==
  /\ route = "local" /\ task \in {"connected", "relay"} => host = "relay"
  /\ task = "rejected" /\ fault = "none" => host = "refused"

\* A client that reads the end of an undisturbed tunnel to a public service has read
\* everything the service sent, although it may have finished long before itself.
EofIsTheEnd ==
  route = "public" /\ Undisturbed /\ Tunnelled /\ AtEof(<<"near", "down">>) =>
    said["service"] = ServiceBytes /\ ClientGot = Script(ServiceBytes)

\* What a tunnel carries is what was said.
TunnelIsFaithful == TypeOK /\ Lossless /\ AnswerIsUnderstood /\ EofIsTheEnd

\* The same of any tunnel: "tunnel EOF uses half-close so queued bytes and the reverse
\* stream are not truncated" (docs/proxy/consumer-contract.md).
HalfCloseIsKept ==
  Undisturbed /\ Tunnelled /\ AtEof(<<"near", "down">>) => ClientGot = Script(ServiceBytes)

\* Whatever happens, both sides of an established tunnel come to an end: nobody waits
\* for a side that has left, and nothing outlives force.  An undisturbed tunnel to a
\* public service has then delivered everything, both ways.
TunnelEnds ==
  task = "relay" ~>
    /\ task = "over"
    /\ route = "public" /\ Undisturbed =>
         got["service"] = Script(ClientBytes) /\ ClientGot = Script(ServiceBytes)
=============================================================================
