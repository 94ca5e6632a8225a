---------------------------- MODULE HttpExchange ----------------------------
(***************************************************************************)
(* Client connections that carry one request after the other, and origin   *)
(* connections that are kept between requests and lent to any client.  A   *)
(* task reads a head, sends it to an origin, then moves the body and waits *)
(* for the response at once: the response may come first, the client may   *)
(* leave, the origin may close.  What is reused afterwards must be at the  *)
(* start of a message on both sides.                                       *)
(*                                                                         *)
(* A stream is a sequence of tokens: a head or a unit of the body, with    *)
(* the request it belongs to.  The bytes are in BodyCodec, the heads in    *)
(* Framing, the limits of the pool in IdlePool.                            *)
(***************************************************************************)
EXTENDS Naturals, Sequences

CONSTANTS Clients, Origins,
          Requests,      \* how many each client has
          Body,          \* the units of the body of each request
          Expects,       \* requests that wait for 100 (Continue)
          Window         \* tokens under way in one direction

Framings == {"none", "sized", "trailers", "close"}
None == "none"
Ids == UNION {{<<c, i>> : i \in 1..Requests[c]} : c \in Clients}
ASSUME BodyAssumption ==
  /\ Requests \in [Clients -> Nat] /\ Body \in [Ids -> Nat] /\ Window \in Nat \ {0}
  /\ None \notin Origins

VARIABLES
  client,    \* [Clients -> what it has sent and heard, and the stream to the proxy]
  task,      \* [Clients -> state of the task that serves the connection]
  conn,      \* [Origins -> the connection, its streams and the server behind it]
  shutdown   \* "no", "drain", "forced"

vars == <<client, task, conn, shutdown>>

NoId == <<None, 0>>
\* Sent: k units of request i.  Heard: the last final answer, the last 100.
NewClient == [i |-> 0, k |-> 0, final |-> 0, cont |-> 0, up |-> <<>>, gone |-> FALSE]
\* The server has read all but `left` units of request `id`, and has said so much.
NewConn == [state |-> "none", rx |-> <<>>, tx |-> <<>>, eof |-> FALSE,
            id |-> NoId, left |-> 0, said |-> "done"]
Closed == [NewConn EXCEPT !.state = "closed"]
Unanswered == [from |-> NoId, framing |-> "none", poolable |-> FALSE,
               consumed |-> FALSE, reusable |-> FALSE]
Fresh == [at |-> "head", id |-> NoId, left |-> 0, writer |-> "need", unit |-> 0,
          lease |-> None, out |-> Unanswered]
Over == [Fresh EXCEPT !.at = "closed"]

Set(c, r) == task' = [task EXCEPT ![c] = r]
Take(c) == client' = [client EXCEPT ![c].up = Tail(@)]

\* An origin whose exchange broke off is closed.  A variant gives it back.
DropToPool(o) == IF o = None THEN conn ELSE [conn EXCEPT ![o].state = "idle"]
Drop(o) == IF o = None THEN conn ELSE [conn EXCEPT ![o] = Closed]

-----------------------------------------------------------------------------
(* The client.                                                             *)

Sending(c) == ~client[c].gone /\ task[c].at # "closed" /\ Len(client[c].up) < Window
Finished(c) ==
  LET s == client[c]  r == <<c, s.i>> IN
    IF s.i = 0 THEN TRUE
    ELSE s.k = Body[r] \/ (s.k = 0 /\ r \in Expects /\ s.final >= s.i)

\* Requests may be sent one after the other without waiting for the answers.
ClientHead(c) ==
  /\ Sending(c) /\ Finished(c) /\ client[c].i < Requests[c]
  /\ client' = [client EXCEPT ![c].i = @ + 1, ![c].k = 0,
                  ![c].up = Append(@, [id |-> <<c, client[c].i + 1>>, k |-> 0])]
  /\ UNCHANGED <<task, conn, shutdown>>

\* A client that waits for 100 may lose patience, unless the answer is final.
SendUnit(c) ==
  /\ Sending(c) /\ ~Finished(c)
  /\ client' = [client EXCEPT ![c].k = @ + 1,
                  ![c].up = Append(@, [id |-> <<c, client[c].i>>, k |-> client[c].k + 1])]
  /\ UNCHANGED <<task, conn, shutdown>>
Invited(c) ==
  LET s == client[c] IN s.k > 0 \/ <<c, s.i>> \notin Expects \/ s.cont = s.i
ClientUnit(c) == Invited(c) /\ SendUnit(c)
Impatient(c) == ~Invited(c) /\ SendUnit(c)

ClientGoes(c) ==
  /\ ~client[c].gone /\ task[c].at # "closed"
  /\ client' = [client EXCEPT ![c].gone = TRUE]
  /\ UNCHANGED <<task, conn, shutdown>>

-----------------------------------------------------------------------------
(* The task that serves a client connection.                               *)

\* read_request_head and read_head; the decoder of the body starts with the framing.
ReadHead(c) ==
  /\ task[c].at = "head" /\ client[c].up # <<>>
  /\ LET id == Head(client[c].up).id IN
       Set(c, [Fresh EXCEPT !.at = "routing", !.id = id, !.left = Body[id]])
  /\ Take(c)
  /\ UNCHANGED <<conn, shutdown>>

\* The request is answered by the proxy itself: denied, its own page, no connection (the
\* client connection can stay), or an error that closes it.
Own(c, reusable) ==
  /\ task[c].at = "routing"
  /\ Set(c, [task[c] EXCEPT !.at = "commit", !.out = [Unanswered EXCEPT !.reusable = reusable]])
  /\ UNCHANGED <<client, conn, shutdown>>

\* take_origin, and checkout: an idle origin if there is one, else a new connection.
Reused(o) == conn[o].state = "idle"
Checkout(c, o) ==
  /\ task[c].at = "routing" /\ shutdown = "no"
  /\ \/ Reused(o)
     \/ conn[o].state = "none" /\ \A p \in Origins : ~Reused(p)
  /\ conn' = [conn EXCEPT ![o].state = "leased"]
  /\ Set(c, [task[c] EXCEPT !.at = "request", !.lease = o])
  /\ UNCHANGED <<client, shutdown>>

\* forward_failure.
Failure(complete, kind) ==
  [Unanswered EXCEPT !.consumed = complete, !.reusable = complete /\ kind # "left"]

Fail(c, kind) ==
  /\ Set(c, [task[c] EXCEPT !.at = "commit", !.lease = None, !.left = 0, !.unit = 0,
                            !.out = Failure(task[c].writer = "complete", kind)])
  /\ conn' = Drop(task[c].lease)
  /\ UNCHANGED <<client, shutdown>>

\* write_request_head.
WriteHead(c) ==
  LET o == task[c].lease IN
    /\ task[c].at = "request" /\ ~conn[o].eof /\ Len(conn[o].rx) < Window
    /\ conn' = [conn EXCEPT ![o].rx = Append(@, [id |-> task[c].id, k |-> 0])]
    /\ Set(c, [task[c] EXCEPT !.at = "exchange"])
    /\ UNCHANGED <<client, shutdown>>

\* step_downstream: the next frame of the body, or its end.
StepDownstream(c) ==
  LET t == task[c] IN
    /\ t.at = "exchange" /\ t.writer = "need"
    /\ \/ /\ t.left = 0
          /\ Set(c, [t EXCEPT !.writer = "flush"]) /\ UNCHANGED client
       \/ /\ t.left > 0 /\ client[c].up # <<>>
          /\ Set(c, [t EXCEPT !.writer = "pending", !.left = @ - 1, !.unit = Head(client[c].up).k])
          /\ Take(c)
    /\ UNCHANGED <<conn, shutdown>>

\* step_upstream: the pending bytes, and at the end a flush.
StepUpstream(c) ==
  LET t == task[c] IN
    /\ t.at = "exchange" /\ ~conn[t.lease].eof
    /\ \/ /\ t.writer = "pending" /\ Len(conn[t.lease].rx) < Window
          /\ conn' = [conn EXCEPT ![t.lease].rx = Append(@, [id |-> t.id, k |-> t.unit])]
          /\ Set(c, [t EXCEPT !.writer = "need", !.unit = 0])
       \/ /\ t.writer = "flush" /\ UNCHANGED conn
          /\ Set(c, [t EXCEPT !.writer = "complete"])
    /\ UNCHANGED <<client, shutdown>>

\* An origin that is gone: a write fails, or the response ends before its head.
OriginLost(c) ==
  LET t == task[c] IN
    /\ t.lease # None /\ conn[t.lease].eof
    /\ \/ t.at = "request"
       \/ t.at = "exchange" /\ (t.writer \in {"pending", "flush"} \/ conn[t.lease].tx = <<>>)
    /\ Fail(c, "gateway")

\* wait_for_peer_close, or the end of the client's stream in the body.
ClientLost(c) ==
  /\ client[c].gone /\ task[c].at \in {"routing", "request", "exchange"}
  /\ task[c].writer # "need" \/ task[c].at # "exchange" \/ client[c].up = <<>>
  /\ Fail(c, "left")

\* Informational responses go to the client, and the wait goes on.
Inform(c) ==
  LET o == task[c].lease IN
    /\ task[c].at = "exchange" /\ conn[o].tx # <<>> /\ Head(conn[o].tx).kind = "info"
    /\ conn' = [conn EXCEPT ![o].tx = Tail(@)]
    /\ client' = [client EXCEPT ![c].cont = task[c].id[2]]
    /\ UNCHANGED <<task, shutdown>>

\* The end of exchange.
Poolable(t, h) == t.writer = "complete" /\ ~h.close /\ h.framing # "close"
Reusable(t) == t.writer = "complete"

\* put_if_reusable, refused by a pool that is closed; otherwise the origin is dropped.
Release(o, rest, poolable) ==
  [conn EXCEPT ![o] = IF poolable /\ shutdown = "no"
                      THEN [@ EXCEPT !.state = "idle", !.tx = rest] ELSE Closed]

ResponseHead(c) ==
  LET t == task[c]
      tx == conn[t.lease].tx
      h == Head(tx)
      bare == h.framing = "none"
  IN /\ t.at = "exchange" /\ tx # <<>> /\ h.kind = "head"
     /\ Set(c, [t EXCEPT !.at = "commit", !.lease = IF bare THEN None ELSE @, !.left = 0, !.unit = 0,
                         !.out = [from |-> h.id, framing |-> h.framing, poolable |-> Poolable(t, h),
                                  consumed |-> Reusable(t), reusable |-> Reusable(t)]])
     /\ conn' = IF bare THEN Release(t.lease, Tail(tx), Poolable(t, h))
                ELSE [conn EXCEPT ![t.lease].tx = Tail(@)]
     /\ UNCHANGED <<client, shutdown>>

\* serve_http_request: a client that waits for 100 will not send the body any more.  A
\* variant forgets that.
CloseIfAsked(t) == ~t.out.reusable
Closes(t) ==
  \/ ~t.out.reusable
  \/ ~t.out.consumed /\ t.id \in Expects /\ Body[t.id] > 0

\* What follows a response: the next head, after a body that nobody read.  A variant
\* does not look for the body.
DrainNothing(t) == [Fresh EXCEPT !.at = "head", !.id = t.id]
Drained(t) ==
  IF ~t.out.consumed /\ Body[t.id] > 0
  THEN [Fresh EXCEPT !.at = "drain", !.id = t.id, !.left = Body[t.id]]
  ELSE [Fresh EXCEPT !.at = "head", !.id = t.id]

After(t) == IF Closes(t) THEN Over ELSE Drained(t)

Commit(c) ==
  LET t == task[c] IN
    /\ t.at = "commit" /\ shutdown = "no" /\ ~client[c].gone
    /\ client' = [client EXCEPT ![c].final = t.id[2]]
    /\ Set(c, IF t.lease = None THEN After(t) ELSE [t EXCEPT !.at = "body"])
    /\ UNCHANGED <<conn, shutdown>>

\* write_active_response_body: the origin is given back by the poll that finds the end,
\* which the trailers forestall.
BodyUnit(c) ==
  LET t == task[c]  tx == conn[t.lease].tx IN
    /\ t.at = "body" /\ tx # <<>>
    /\ conn' = Release(t.lease, Tail(tx), t.out.poolable /\ t.out.framing # "trailers")
    /\ Set(c, After(t))
    /\ UNCHANGED <<client, shutdown>>
BodyEnd(c) ==
  LET t == task[c] IN
    /\ t.at = "body" /\ conn[t.lease].tx = <<>> /\ conn[t.lease].eof
    /\ conn' = Drop(t.lease)
    /\ Set(c, IF t.out.framing = "close" THEN After(t) ELSE Over)
    /\ UNCHANGED <<client, shutdown>>

\* drain_http1_body.
Drain(c) ==
  /\ task[c].at = "drain" /\ client[c].up # <<>>
  /\ Take(c)
  /\ Set(c, IF task[c].left = 1 THEN [task[c] EXCEPT !.at = "head", !.left = 0]
            ELSE [task[c] EXCEPT !.left = @ - 1])
  /\ UNCHANGED <<conn, shutdown>>

\* The connection ends: the client has left, or the shutdown comes, which a response
\* that has begun survives until it is forced.
Leave(c) ==
  LET t == task[c] IN
    /\ \/ client[c].gone /\ t.at \in {"commit", "body"}
       \/ client[c].gone /\ t.at \in {"head", "drain"} /\ client[c].up = <<>>
       \/ shutdown # "no" /\ t.at \notin {"body", "closed"}
       \/ shutdown = "forced" /\ t.at = "body"
    /\ Set(c, Over) /\ conn' = Drop(t.lease)
    /\ UNCHANGED <<client, shutdown>>

Stop ==
  /\ shutdown # "forced"
  /\ shutdown' = IF shutdown = "no" THEN "drain" ELSE "forced"
  /\ conn' = [o \in Origins |-> IF conn[o].state = "idle" THEN Closed ELSE conn[o]]
  /\ UNCHANGED <<client, task>>

-----------------------------------------------------------------------------
(* The origin: a server that answers requests in order, at any time after  *)
(* the head, and may close.                                                *)

OriginRead(o) ==
  LET s == conn[o]  tok == Head(s.rx) IN
    /\ s.rx # <<>>
    /\ s.left > 0 \/ s.said = "done"
    /\ conn' = [conn EXCEPT ![o] =
         IF s.left > 0 THEN [s EXCEPT !.left = @ - 1, !.rx = Tail(@)]
         ELSE [s EXCEPT !.id = tok.id, !.left = Body[tok.id], !.said = "nothing", !.rx = Tail(@)]]
    /\ UNCHANGED <<client, task, shutdown>>

Say(o, kind, framing, close, said, eof) ==
  /\ conn[o].state = "leased" /\ ~conn[o].eof /\ Len(conn[o].tx) < Window
  /\ conn' = [conn EXCEPT ![o].said = said, ![o].eof = eof, ![o].tx =
       Append(@, [id |-> conn[o].id, kind |-> kind, framing |-> framing, close |-> close])]
  /\ UNCHANGED <<client, task, shutdown>>

OriginInforms(o) == conn[o].said = "nothing" /\ Say(o, "info", "none", FALSE, "info", FALSE)
OriginAnswers(o) ==
  /\ conn[o].said \in {"nothing", "info"}
  /\ \E f \in Framings, close \in BOOLEAN :
       Say(o, "head", f, close, IF f = "none" THEN "done" ELSE f, FALSE)
OriginUnit(o) ==
  /\ conn[o].said \in Framings \ {"none"}
  /\ Say(o, "unit", "none", FALSE, "done", conn[o].said = "close")
OriginCloses(o) ==
  /\ conn[o].state \in {"leased", "idle"} /\ ~conn[o].eof
  /\ conn' = [conn EXCEPT ![o].eof = TRUE]
  /\ UNCHANGED <<client, task, shutdown>>

-----------------------------------------------------------------------------
Init ==
  /\ client = [c \in Clients |-> NewClient]
  /\ task = [c \in Clients |-> Fresh]
  /\ conn = [o \in Origins |-> NewConn]
  /\ shutdown = "no"

Work(c) ==
  \/ ReadHead(c) \/ WriteHead(c) \/ StepDownstream(c) \/ StepUpstream(c)
  \/ OriginLost(c) \/ ClientLost(c) \/ Inform(c) \/ ResponseHead(c)
  \/ Commit(c) \/ BodyUnit(c) \/ BodyEnd(c) \/ Drain(c) \/ Leave(c)
  \/ \E reusable \in BOOLEAN : Own(c, reusable)
  \/ \E o \in Origins : Checkout(c, o)
Serving(o) == OriginRead(o) \/ OriginAnswers(o) \/ OriginUnit(o)

Next ==
  \/ \E c \in Clients : Work(c) \/ ClientHead(c) \/ ClientUnit(c) \/ Impatient(c) \/ ClientGoes(c)
  \/ \E o \in Origins : Serving(o) \/ OriginInforms(o) \/ OriginCloses(o)
  \/ Stop

Spec == Init /\ [][Next]_vars

\* Tasks are polled when they can go on; a client sends the body it owes once it is
\* invited to, an origin reads and answers.
FairSpec ==
  /\ Spec
  /\ \A c \in Clients : WF_vars(Work(c)) /\ WF_vars(ClientUnit(c))
  /\ \A o \in Origins : WF_vars(Serving(o))

-----------------------------------------------------------------------------
Held == {o \in Origins : conn[o].state = "leased"}

TypeOK ==
  /\ \A c \in Clients :
       /\ task[c].at \in {"head", "routing", "request", "exchange", "commit", "body", "drain", "closed"}
       /\ task[c].lease # None => task[c].lease \in Held
       /\ task[c].at \in {"request", "exchange", "body"} => task[c].lease # None
  /\ \A o \in Origins : conn[o].state \in {"none", "leased", "idle", "closed"}

\* Where the proxy looks for the head of a request there is one: after early responses,
\* failures, bodies that were drained or never sent, no part of a body is read as a
\* request and no request as a body.
HeadsAreHeads ==
  \A c \in Clients : task[c].at = "head" /\ client[c].up # <<>> => Head(client[c].up).k = 0
BodiesAreBodies ==
  \A c \in Clients :
    task[c].at \in {"exchange", "drain"} /\ task[c].left > 0 /\ client[c].up # <<>> =>
      Head(client[c].up) = [id |-> task[c].id, k |-> Body[task[c].id] - task[c].left + 1]

KeepsBoundaries == HeadsAreHeads /\ BodiesAreBodies

\* The same holds for an origin, over all the requests of all clients it was lent to:
\* a request that was broken off is never followed by another one.
OriginInStep ==
  \A o \in Held : conn[o].rx # <<>> =>
    IF conn[o].left > 0 THEN Head(conn[o].rx).id = conn[o].id /\ Head(conn[o].rx).k > 0
    ELSE Head(conn[o].rx).k = 0

\* A client gets the response to its own request, head and body, though the origin
\* connection has served others before.
AnswersItsRequest ==
  \A c \in Clients :
    /\ task[c].at \in {"commit", "body"} => task[c].out.from \in {NoId, task[c].id}
    /\ task[c].at = "body" /\ conn[task[c].lease].tx # <<>> =>
         Head(conn[task[c].lease].tx).id = task[c].id /\ Head(conn[task[c].lease].tx).kind = "unit"

\* An idle origin has nothing left to say, and whoever holds one holds it alone.
IdleIsClean ==
  /\ \A o \in Origins : conn[o].state = "idle" => conn[o].tx = <<>> /\ conn[o].said = "done"
  /\ \A c, d \in Clients : c # d /\ task[c].lease # None => task[c].lease # task[d].lease
  /\ \A o \in Held : \E c \in Clients : task[c].lease = o

\* An origin connection can be lent to one client after the other.
OriginsAreClean == TypeOK /\ OriginInStep /\ AnswersItsRequest /\ IdleIsClean

\* A request that was read is answered, or its connection ends: nobody waits for a body
\* that is not sent.
IsAnswered(c) == [](task[c].at # "head" => <>(task[c].at \in {"head", "closed"}))
=============================================================================
