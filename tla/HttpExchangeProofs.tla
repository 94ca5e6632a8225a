------------------------- MODULE HttpExchangeProofs -------------------------
(***************************************************************************)
(* Proofs about HttpExchange, for any clients, origins, requests, bodies   *)
(* and window.                                                             *)
(*                                                                         *)
(* A reader of a stream has a position: the last token that it took.  The  *)
(* tokens under way go on from there, unit after unit of one request and   *)
(* then the head of the next, and the last of them is where the writer is. *)
(* This holds of what a client has sent until the proxy has decided that   *)
(* the connection ends; of what was sent to an origin it always holds.     *)
(* What an origin has still to say depends on whether it has read the head *)
(* of the request of the task that holds it.                               *)
(* The last section is about the pool that the origins come from.          *)
(***************************************************************************)
EXTENDS HttpExchange, Pooling, Integers, FiniteSetTheorems, WellFoundedInduction, TLAPS

-----------------------------------------------------------------------------
(* Types.                                                                  *)

AnyId == Ids \cup {NoId}
Token == [id : AnyId, k : Nat]
Message == [id : AnyId, kind : {"info", "head", "unit"}, framing : Framings, close : BOOLEAN]
Outs == [from : AnyId, framing : Framings, poolable : BOOLEAN, consumed : BOOLEAN,
         reusable : BOOLEAN]
Ats == {"head", "routing", "request", "exchange", "commit", "body", "drain", "closed"}
Writers == {"need", "pending", "flush", "complete"}
Sayings == {"nothing", "info", "sized", "trailers", "close", "done"}

ClientType == [i : Nat, k : Nat, final : Nat, cont : Nat, up : Seq(Token), gone : BOOLEAN]
TaskType == [at : Ats, id : AnyId, left : Nat, writer : Writers, unit : Nat,
             lease : Origins \cup {None}, out : Outs]
ConnType == [state : {"none", "leased", "idle", "closed"}, rx : Seq(Token), tx : Seq(Message),
             eof : BOOLEAN, id : AnyId, left : Nat, said : Sayings]

-----------------------------------------------------------------------------
(* Streams.                                                                *)

\* The units of a request; there is none before the first.
Size(id) == IF id \in Ids THEN Body[id] ELSE 0
Position(id, left) == [id |-> id, k |-> Size(id) - left]
\* The tokens from the position of the reader on.
At(p, s, n) == IF n = 0 THEN p ELSE s[n]

Follows(a, b) ==
  IF a.k < Size(a.id) THEN b = [id |-> a.id, k |-> a.k + 1] ELSE b.id \in Ids /\ b.k = 0
Chain(p, s) == \A n \in 0..(Len(s) - 1) : Follows(At(p, s, n), At(p, s, n + 1))
Within(a) == a.k <= Size(a.id)
Ends(p, s, q) == At(p, s, Len(s)) = q
EndsFull(p, s) == At(p, s, Len(s)).k = Size(At(p, s, Len(s)).id)
NoHeads(s) == \A n \in 1..Len(s) : s[n].k # 0
OneHead(s, id) ==
  \E n \in 1..Len(s) : s[n] = [id |-> id, k |-> 0] /\ \A m \in 1..Len(s) : s[m].k = 0 => m = n

\* A client numbers its requests.
Before(a, b) == a.id[2] < b.id[2] \/ (a.id[2] = b.id[2] /\ a.k < b.k)
InOrder(p, s) == \A m, n \in 0..Len(s) : m < n => Before(At(p, s, m), At(p, s, n))

-----------------------------------------------------------------------------
(* A client and its task.                                                  *)

OwnIds(c) == {<<c, i>> : i \in 1..Requests[c]}
Done(t) == Position(t.id, t.left)
\* The connection ends after the response.
Doomed(t) == t.at = "closed" \/ (t.at \in {"commit", "body"} /\ ~t.out.reusable)

Sent(c, s, t) ==
  /\ Chain(Done(t), s.up) /\ InOrder(Done(t), s.up)
  /\ \A n \in 1..Len(s.up) : s.up[n].id \in OwnIds(c)
  /\ At(Done(t), s.up, Len(s.up)).id[2] = s.i
  /\ At(Done(t), s.up, Len(s.up)).k = s.k

Told(s, t) ==
  /\ s.final <= t.id[2]
  /\ t.at \in {"routing", "request", "exchange", "commit"} => s.final < t.id[2]

Shape(c, t) ==
  /\ t.id \in OwnIds(c) \cup {NoId}
  /\ t.at \notin {"head", "closed"} => t.id \in OwnIds(c)
  /\ t.at = "head" => t.left = 0
  /\ t.at \in {"routing", "request"} => t.left = Size(t.id) /\ t.writer = "need"
  /\ t.at = "exchange" =>
       /\ t.left <= Size(t.id)
       /\ t.writer \in {"flush", "complete"} => t.left = 0
       /\ t.writer = "pending" => t.left < Size(t.id) /\ t.unit = Size(t.id) - t.left
  /\ t.at \in {"commit", "body"} /\ t.out.reusable =>
       IF t.out.consumed THEN t.left = 0 ELSE t.left = Size(t.id)
  /\ t.at = "drain" => t.left \in 1..Size(t.id) /\ t.id \notin Expects
  /\ t.at \in {"head", "routing", "drain", "closed"} => t.lease = None
  /\ t.at \in {"request", "exchange", "body"} => t.lease # None
  /\ t.at \in {"commit", "body"} /\ t.lease # None => t.out.consumed = t.out.reusable
  /\ t.at \in {"commit", "body"} => t.out.from \in {NoId, t.id}

ClientGood(c, s, t) ==
  /\ s.i <= Requests[c]
  /\ ~Doomed(t) => Sent(c, s, t) /\ Told(s, t)

-----------------------------------------------------------------------------
(* An origin and the task that holds it.                                   *)

Read(s) == Position(s.id, s.left)

\* Nobody has asked the server for anything that it has not answered.
Quiet(s) ==
  /\ s.tx = <<>> /\ s.said = "done" /\ NoHeads(s.rx) /\ EndsFull(Read(s), s.rx)

\* The head of the request is on its way.
Unread(s, t) == s.tx = <<>> /\ s.said = "done" /\ OneHead(s.rx, t.id)

\* What has been said and not been heard: infos, a head, a unit if there is one.
Infos(tx, n) == \A m \in 1..n : tx[m].kind = "info"
Script(tx, said) ==
  LET n == Len(tx) IN
    /\ said = "nothing" => n = 0
    /\ said = "info" => Infos(tx, n)
    /\ said \in Framings =>
         n > 0 /\ tx[n].kind = "head" /\ tx[n].framing = said /\ Infos(tx, n - 1)
    /\ said = "done" =>
         \/ n > 0 /\ tx[n].kind = "head" /\ tx[n].framing = "none" /\ Infos(tx, n - 1)
         \/ /\ n > 1 /\ tx[n].kind = "unit" /\ Infos(tx, n - 2)
            /\ tx[n - 1].kind = "head" /\ tx[n - 1].framing # "none"
AllFor(tx, id) == \A m \in 1..Len(tx) : tx[m].id = id

\* The server has read it, and has said this much.
Answering(s, t) ==
  s.id = t.id /\ NoHeads(s.rx) /\ AllFor(s.tx, t.id) /\ Script(s.tx, s.said)

\* The body of the response is still to come, or it has come.
Finishing(s, t) ==
  /\ s.id = t.id /\ NoHeads(s.rx)
  /\ \/ s.tx = <<>> /\ s.said \in Framings
     \/ Len(s.tx) = 1 /\ s.tx[1].kind = "unit" /\ s.tx[1].id = t.id /\ s.said = "done"
  /\ t.out.poolable => EndsFull(Read(s), s.rx)

Written(t) == Position(t.id, IF t.writer = "pending" THEN t.left + 1 ELSE t.left)

Serves(s, t) ==
  /\ t.at = "request" => Quiet(s)
  /\ t.at = "exchange" =>
       /\ Unread(s, t) \/ Answering(s, t)
       /\ Ends(Read(s), s.rx, Written(t))
  /\ t.at \in {"commit", "body"} => Finishing(s, t)

InStep(s) ==
  /\ s.left <= Size(s.id) /\ Chain(Read(s), s.rx)
  /\ s.state \in {"none", "idle"} => Quiet(s)

Leases ==
  /\ \A c \in Clients : task[c].lease # None => conn[task[c].lease].state = "leased"
  /\ \A c, d \in Clients : c # d /\ task[c].lease # None => task[c].lease # task[d].lease
  /\ \A o \in Held : \E c \in Clients : task[c].lease = o

-----------------------------------------------------------------------------
(* Lemmas about requests and streams.                                      *)

LEMMA IdsAre ==
  /\ \A c \in Clients : OwnIds(c) \subseteq Ids
  /\ \A id \in Ids : \E c \in Clients : \E i \in 1..Requests[c] : id = <<c, i>>
BY DEF Ids, OwnIds

LEMMA OwnIdsAre ==
  ASSUME NEW c \in Clients, NEW x \in OwnIds(c)
  PROVE  x \in Ids /\ x[2] \in Nat \ {0} /\ x = <<c, x[2]>>
<1>1. PICK i \in 1..Requests[c] : x = <<c, i>>
  BY DEF OwnIds
<1>2. Requests[c] \in Nat
  BY BodyAssumption
<1>3. x[2] = i
  BY <1>1
<1>4. QED
  BY <1>1, <1>2, <1>3, IdsAre

LEMMA IdIs ==
  /\ \A id \in AnyId : id[2] \in Nat /\ Size(id) \in Nat
  /\ \A id \in Ids : id[2] # 0 /\ Size(id) = Body[id]
  /\ NoId \notin Ids /\ NoId[2] = 0 /\ Size(NoId) = 0
<1>1. ASSUME NEW id \in Ids PROVE id[2] \in Nat /\ id[2] # 0 /\ Body[id] \in Nat
  <2>1. PICK c \in Clients : \E i \in 1..Requests[c] : id = <<c, i>>
    BY IdsAre
  <2>2. PICK i \in 1..Requests[c] : id = <<c, i>>
    BY <2>1
  <2>3. Requests[c] \in Nat /\ id[2] = i
    BY <2>2, BodyAssumption
  <2>4. QED
    BY <2>3, BodyAssumption
<1>2. NoId[2] = 0
  BY DEF NoId
<1>3. NoId \notin Ids
  BY <1>1, <1>2
<1>4. QED
  BY <1>1, <1>2, <1>3 DEF AnyId, Size

LEMMA PositionIs ==
  ASSUME NEW id \in AnyId, NEW left \in 0..Size(id)
  PROVE  /\ Position(id, left) \in Token
         /\ Position(id, left).id = id /\ Position(id, left).k = Size(id) - left
<1>1. Size(id) \in Nat
  BY IdIs
<1>2. Size(id) - left \in Nat
  BY <1>1
<1>3. QED
  BY <1>2 DEF Position, Token

LEMMA AtIs ==
  ASSUME NEW p \in Token, NEW s \in Seq(Token), NEW n \in 0..Len(s)
  PROVE  At(p, s, n) \in Token
BY DEF At

LEMMA Push ==
  ASSUME NEW p \in Token, NEW s \in Seq(Token), NEW b \in Token, Chain(p, s),
         Follows(At(p, s, Len(s)), b)
  PROVE  /\ Append(s, b) \in Seq(Token) /\ Len(Append(s, b)) = Len(s) + 1
         /\ \A n \in 0..Len(s) : At(p, Append(s, b), n) = At(p, s, n)
         /\ At(p, Append(s, b), Len(s) + 1) = b
         /\ Chain(p, Append(s, b))
<1> DEFINE z == Append(s, b)
<1>1. z \in Seq(Token) /\ Len(z) = Len(s) + 1 /\ Len(s) \in Nat
  OBVIOUS
<1>2. \A n \in 1..Len(s) : z[n] = s[n]
  OBVIOUS
<1>3. z[Len(s) + 1] = b
  OBVIOUS
<1> HIDE DEF z
<1>4. \A n \in 0..Len(s) : At(p, z, n) = At(p, s, n)
  BY <1>1, <1>2 DEF At
<1>5. At(p, z, Len(s) + 1) = b
  BY <1>1, <1>3 DEF At
<1>6. ASSUME NEW n \in 0..(Len(z) - 1) PROVE Follows(At(p, z, n), At(p, z, n + 1))
  <2>1. CASE n < Len(s)
    <3>1. n \in 0..(Len(s) - 1) /\ n \in 0..Len(s) /\ n + 1 \in 0..Len(s)
      BY <1>1, <2>1
    <3>2. At(p, z, n) = At(p, s, n) /\ At(p, z, n + 1) = At(p, s, n + 1)
      BY <1>4, <3>1
    <3>3. QED
      BY <3>1, <3>2 DEF Chain
  <2>2. CASE n = Len(s)
    BY <1>1, <1>4, <1>5, <2>2
  <2>3. QED
    BY <1>1, <2>1, <2>2
<1>7. Chain(p, z)
  BY <1>6 DEF Chain
<1>8. QED
  BY <1>1, <1>4, <1>5, <1>7 DEF z

LEMMA Pop ==
  ASSUME NEW p \in Token, NEW s \in Seq(Token), s # <<>>, Chain(p, s)
  PROVE  /\ Head(s) \in Token /\ Tail(s) \in Seq(Token) /\ Len(s) \in Nat \ {0}
         /\ Head(s) = s[1] /\ Len(Tail(s)) = Len(s) - 1
         /\ \A n \in 1..(Len(s) - 1) : Tail(s)[n] = s[n + 1]
         /\ \A n \in 0..(Len(s) - 1) : At(Head(s), Tail(s), n) = At(p, s, n + 1)
         /\ Follows(p, Head(s))
         /\ Chain(Head(s), Tail(s))
<1> DEFINE h == Head(s)  z == Tail(s)
<1>1. z \in Seq(Token) /\ Len(z) = Len(s) - 1 /\ Len(s) \in Nat \ {0} /\ h \in Token
  OBVIOUS
<1>2. \A n \in 1..(Len(s) - 1) : z[n] = s[n + 1]
  OBVIOUS
<1>3. h = s[1]
  OBVIOUS
<1> HIDE DEF h, z
<1>4. \A n \in 0..(Len(s) - 1) : At(h, z, n) = At(p, s, n + 1)
  BY <1>1, <1>2, <1>3 DEF At
<1>5. Follows(p, h)
  <2>1. 0 \in 0..(Len(s) - 1) /\ 0 + 1 = 1
    BY <1>1
  <2>2. Follows(At(p, s, 0), At(p, s, 1))
    BY <2>1 DEF Chain
  <2>3. QED
    BY <1>3, <2>2 DEF At
<1>6. ASSUME NEW n \in 0..(Len(z) - 1) PROVE Follows(At(h, z, n), At(h, z, n + 1))
  <2>1. n \in 0..(Len(s) - 1) /\ n + 1 \in 0..(Len(s) - 1)
    BY <1>1
  <2>2. Follows(At(p, s, n + 1), At(p, s, n + 1 + 1))
    BY <2>1 DEF Chain
  <2>3. QED
    BY <1>4, <2>1, <2>2
<1>7. Chain(h, z)
  BY <1>6 DEF Chain
<1>8. QED
  BY <1>1, <1>2, <1>3, <1>4, <1>5, <1>7 DEF h, z

LEMMA BeforeMeans ==
  ASSUME NEW a \in Token, NEW b \in Token
  PROVE  /\ a.id[2] \in Nat /\ b.id[2] \in Nat /\ a.k \in Nat /\ b.k \in Nat
         /\ Before(a, b) <=> (a.id[2] < b.id[2] \/ (a.id[2] = b.id[2] /\ a.k < b.k))
BY IdIs DEF Token, Before

LEMMA BeforeTransitive ==
  ASSUME NEW a \in Token, NEW b \in Token, NEW d \in Token, Before(a, b), Before(b, d)
  PROVE  Before(a, d)
<1>1. /\ a.id[2] \in Nat /\ b.id[2] \in Nat /\ d.id[2] \in Nat
      /\ a.k \in Nat /\ b.k \in Nat /\ d.k \in Nat
  BY BeforeMeans
<1>2. QED
  BY <1>1 DEF Before

LEMMA PushInOrder ==
  ASSUME NEW p \in Token, NEW s \in Seq(Token), NEW b \in Token, Chain(p, s),
         Follows(At(p, s, Len(s)), b), InOrder(p, s), Before(At(p, s, Len(s)), b)
  PROVE  InOrder(p, Append(s, b))
<1> DEFINE z == Append(s, b)
<1>1. /\ z \in Seq(Token) /\ Len(z) = Len(s) + 1 /\ Len(s) \in Nat
      /\ \A n \in 0..Len(s) : At(p, z, n) = At(p, s, n)
      /\ At(p, z, Len(s) + 1) = b
  BY Push
<1> HIDE DEF z
<1>2. SUFFICES ASSUME NEW m \in 0..Len(z), NEW n \in 0..Len(z), m < n
               PROVE  Before(At(p, z, m), At(p, z, n))
  BY DEF InOrder, z
<1>3. CASE n <= Len(s)
  <2>1. m \in 0..Len(s) /\ n \in 0..Len(s)
    BY <1>1, <1>2, <1>3
  <2>2. QED
    BY <1>1, <1>2, <2>1 DEF InOrder
<1>4. CASE n = Len(s) + 1
  <2>1. m \in 0..Len(s) /\ Len(s) \in 0..Len(s)
    BY <1>1, <1>2, <1>4
  <2>2. At(p, z, m) = At(p, s, m) /\ At(p, z, n) = b
    BY <1>1, <1>4, <2>1
  <2>3. CASE m = Len(s)
    BY <2>2, <2>3
  <2>4. CASE m < Len(s)
    <3>1. Before(At(p, s, m), At(p, s, Len(s)))
      BY <2>1, <2>4 DEF InOrder
    <3>2. At(p, s, m) \in Token /\ At(p, s, Len(s)) \in Token
      BY <2>1, AtIs
    <3>3. QED
      BY <2>2, <3>1, <3>2, BeforeTransitive
  <2>5. QED
    BY <1>1, <2>1, <2>3, <2>4
<1>5. QED
  BY <1>1, <1>2, <1>3, <1>4

LEMMA PopInOrder ==
  ASSUME NEW p \in Token, NEW s \in Seq(Token), s # <<>>, Chain(p, s), InOrder(p, s)
  PROVE  InOrder(Head(s), Tail(s)) /\ Before(p, Head(s))
<1> DEFINE h == Head(s)  z == Tail(s)
<1>1. /\ z \in Seq(Token) /\ Len(z) = Len(s) - 1 /\ Len(s) \in Nat \ {0} /\ h = s[1]
      /\ \A n \in 0..(Len(s) - 1) : At(h, z, n) = At(p, s, n + 1)
  BY Pop
<1> HIDE DEF h, z
<1>2. Before(p, h)
  <2>1. 0 \in 0..Len(s) /\ 1 \in 0..Len(s) /\ 0 < 1
    BY <1>1
  <2>2. Before(At(p, s, 0), At(p, s, 1))
    BY <2>1 DEF InOrder
  <2>3. QED
    BY <1>1, <2>2 DEF At
<1>3. ASSUME NEW m \in 0..Len(z), NEW n \in 0..Len(z), m < n
      PROVE  Before(At(h, z, m), At(h, z, n))
  <2>1. /\ m \in 0..(Len(s) - 1) /\ n \in 0..(Len(s) - 1)
        /\ m + 1 \in 0..Len(s) /\ n + 1 \in 0..Len(s) /\ m + 1 < n + 1
    BY <1>1, <1>3
  <2>2. QED
    BY <1>1, <2>1 DEF InOrder
<1>4. QED
  BY <1>2, <1>3 DEF InOrder, h, z

LEMMA EndIs ==
  ASSUME NEW p \in Token, NEW s \in Seq(Token), Chain(p, s), Within(p)
  PROVE  /\ Len(s) \in Nat /\ At(p, s, Len(s)) \in Token /\ Within(At(p, s, Len(s)))
         /\ s # <<>> => Len(s) \in 1..Len(s) /\ At(p, s, Len(s)) = s[Len(s)]
         /\ s = <<>> => At(p, s, Len(s)) = p
<1>1. Len(s) \in Nat /\ (s = <<>> <=> Len(s) = 0)
  OBVIOUS
<1>2. At(p, s, Len(s)) \in Token
  BY <1>1, AtIs
<1>3. CASE Len(s) = 0
  BY <1>1, <1>2, <1>3 DEF At
<1>4. CASE Len(s) # 0
  <2> DEFINE n == Len(s) - 1  a == At(p, s, n)  b == At(p, s, n + 1)
  <2>1. n \in 0..(Len(s) - 1) /\ n \in 0..Len(s) /\ n + 1 = Len(s)
    BY <1>1, <1>4
  <2>2. Follows(a, b)
    BY <2>1 DEF Chain
  <2>3. a \in Token /\ b \in Token
    BY <1>2, <2>1, AtIs
  <2> HIDE DEF a, b
  <2>4. Within(b)
    <3>1. Size(a.id) \in Nat /\ Size(b.id) \in Nat /\ a.k \in Nat
      BY <2>3, IdIs DEF Token
    <3>2. CASE a.k < Size(a.id)
      <4>1. b.id = a.id /\ b.k = a.k + 1
        BY <2>2, <3>2 DEF Follows
      <4>2. QED
        BY <3>1, <3>2, <4>1 DEF Within
    <3>3. CASE ~(a.k < Size(a.id))
      <4>1. b.k = 0
        BY <2>2, <3>3 DEF Follows
      <4>2. QED
        BY <3>1, <4>1 DEF Within
    <3>4. QED
      BY <3>2, <3>3
  <2>5. QED
    BY <1>1, <1>2, <1>4, <2>1, <2>4 DEF At, b
<1>5. QED
  BY <1>3, <1>4

-----------------------------------------------------------------------------
(* The stream of a client.                                                 *)

\* The tasks that are still going to read it know where they are.
LEMMA DoneIs ==
  ASSUME NEW c \in Clients, NEW t \in TaskType, Shape(c, t), ~Doomed(t)
  PROVE  /\ t.left \in 0..Size(t.id) /\ Size(t.id) \in Nat /\ t.id[2] \in Nat
         /\ Done(t) \in Token /\ Done(t).id = t.id /\ Done(t).k = Size(t.id) - t.left
         /\ Within(Done(t))
<1>1. t.id \in AnyId /\ t.left \in Nat /\ Size(t.id) \in Nat /\ t.id[2] \in Nat /\ t.at \in Ats
  BY IdIs DEF TaskType
<1>2. t.left <= Size(t.id)
  <2>1. CASE t.at = "head"
    BY <1>1, <2>1 DEF Shape
  <2>2. CASE t.at \in {"routing", "request"}
    BY <1>1, <2>2 DEF Shape
  <2>3. CASE t.at = "exchange"
    BY <1>1, <2>3 DEF Shape
  <2>4. CASE t.at \in {"commit", "body"}
    BY <1>1, <2>4 DEF Shape, Doomed
  <2>5. CASE t.at = "drain"
    BY <1>1, <2>5 DEF Shape
  <2>6. QED
    BY <1>1, <2>1, <2>2, <2>3, <2>4, <2>5 DEF Doomed, Ats
<1>3. QED
  BY <1>1, <1>2, PositionIs DEF Done, Within

LEMMA SentIs ==
  ASSUME NEW c \in Clients, NEW t \in TaskType, NEW s \in ClientType,
         Shape(c, t), ~Doomed(t), Sent(c, s, t)
  PROVE  LET q == At(Done(t), s.up, Len(s.up)) IN
         /\ q \in Token /\ q.k = s.k /\ q.id[2] = s.i /\ s.k <= Size(q.id)
         /\ s.i = 0 => Size(q.id) = 0
         /\ s.i # 0 => <<c, s.i>> \in OwnIds(c) /\ q.id = <<c, s.i>> /\ Size(q.id) = Body[q.id]
         /\ t.id[2] <= s.i
         /\ t.id[2] = s.i => q.id = t.id /\ Size(t.id) - t.left <= s.k
<1> DEFINE p == Done(t)  q == At(p, s.up, Len(s.up))
<1>1. /\ p \in Token /\ p.id = t.id /\ p.k = Size(t.id) - t.left /\ Within(p)
      /\ Size(t.id) \in Nat /\ t.left \in Nat
  BY DoneIs
<1>2. s.up \in Seq(Token) /\ s.i \in Nat /\ s.k \in Nat
  BY DEF ClientType
<1>3. /\ Chain(p, s.up) /\ InOrder(p, s.up) /\ q.id[2] = s.i /\ q.k = s.k
      /\ \A n \in 1..Len(s.up) : s.up[n].id \in OwnIds(c)
  BY DEF Sent
<1> HIDE DEF p
<1>4. /\ q \in Token /\ Within(q) /\ Len(s.up) \in Nat
      /\ s.up # <<>> => Len(s.up) \in 1..Len(s.up) /\ q = s.up[Len(s.up)]
      /\ s.up = <<>> => q = p
  BY <1>1, <1>2, <1>3, EndIs
<1> HIDE DEF q
<1>5. q.id \in OwnIds(c) \cup {NoId}
  BY <1>1, <1>3, <1>4 DEF Shape
<1>6. s.i = 0 => Size(q.id) = 0
  BY <1>3, <1>5, OwnIdsAre, IdIs
<1>7. s.i # 0 => <<c, s.i>> \in OwnIds(c) /\ q.id = <<c, s.i>> /\ Size(q.id) = Body[q.id]
  <2>1. SUFFICES ASSUME s.i # 0 PROVE q.id \in OwnIds(c)
    BY <1>3, <1>5, OwnIdsAre, IdIs
  <2>2. QED
    BY <1>3, <1>5, <2>1, IdIs
<1>8. /\ t.id[2] <= s.i
      /\ t.id[2] = s.i => Size(t.id) - t.left <= s.k
  <2>1. CASE s.up = <<>>
    BY <1>1, <1>2, <1>3, <1>4, <2>1
  <2>2. CASE s.up # <<>>
    <3>1. 0 \in 0..Len(s.up) /\ Len(s.up) \in 0..Len(s.up) /\ 0 < Len(s.up)
      BY <1>4, <2>2
    <3>2. Before(At(p, s.up, 0), At(p, s.up, Len(s.up)))
      BY <1>3, <3>1 DEF InOrder
    <3>3. Before(p, q)
      BY <3>2 DEF At, q
    <3>4. p.id[2] < q.id[2] \/ (p.id[2] = q.id[2] /\ p.k < q.k)
      BY <3>3 DEF Before
    <3>5. p.id[2] \in Nat /\ p.k \in Nat /\ q.k \in Nat
      BY <1>1, <1>4, IdIs DEF Token
    <3>6. QED
      BY <1>1, <1>2, <1>3, <3>4, <3>5
  <2>3. QED
    BY <2>1, <2>2
<1>9. t.id[2] = s.i => q.id = t.id
  BY <1>3, <1>5, OwnIdsAre, IdIs DEF Shape
<1>10. s.k <= Size(q.id)
  BY <1>3, <1>4 DEF Within
<1>11. QED
  BY <1>3, <1>4, <1>6, <1>7, <1>8, <1>9, <1>10 DEF p, q

LEMMA SentPush ==
  ASSUME NEW c \in Clients, NEW t \in TaskType, NEW s \in ClientType, NEW u \in ClientType,
         NEW b \in Token, Shape(c, t), ~Doomed(t), Sent(c, s, t),
         b.id \in OwnIds(c), Follows(At(Done(t), s.up, Len(s.up)), b),
         Before(At(Done(t), s.up, Len(s.up)), b),
         u.up = Append(s.up, b), u.i = b.id[2], u.k = b.k
  PROVE  Sent(c, u, t)
<1> DEFINE p == Done(t)
<1>1. /\ p \in Token /\ s.up \in Seq(Token) /\ Chain(p, s.up) /\ InOrder(p, s.up)
      /\ \A n \in 1..Len(s.up) : s.up[n].id \in OwnIds(c)
      /\ Follows(At(p, s.up, Len(s.up)), b) /\ Before(At(p, s.up, Len(s.up)), b)
  BY DoneIs DEF Sent, ClientType
<1> HIDE DEF p
<1>2. /\ u.up \in Seq(Token) /\ Len(u.up) = Len(s.up) + 1 /\ Chain(p, u.up)
      /\ At(p, u.up, Len(s.up) + 1) = b /\ Len(s.up) \in Nat
  BY <1>1, Push
<1>3. InOrder(p, u.up)
  BY <1>1, PushInOrder
<1>4. \A n \in 1..Len(u.up) : u.up[n].id \in OwnIds(c)
  BY <1>1, <1>2
<1>5. QED
  BY <1>2, <1>3, <1>4 DEF Sent, p

LEMMA SentPop ==
  ASSUME NEW c \in Clients, NEW t \in TaskType, NEW s \in ClientType,
         NEW v \in TaskType, NEW u \in ClientType,
         Shape(c, t), ~Doomed(t), Sent(c, s, t), s.up # <<>>,
         u.up = Tail(s.up), u.i = s.i, u.k = s.k, Done(v) = Head(s.up)
  PROVE  Sent(c, u, v)
<1> DEFINE p == Done(t)
<1>1. /\ p \in Token /\ s.up \in Seq(Token) /\ Chain(p, s.up) /\ InOrder(p, s.up)
      /\ \A n \in 1..Len(s.up) : s.up[n].id \in OwnIds(c)
      /\ At(p, s.up, Len(s.up)).id[2] = s.i /\ At(p, s.up, Len(s.up)).k = s.k
  BY DoneIs DEF Sent, ClientType
<1> HIDE DEF p
<1>2. /\ Len(s.up) \in Nat \ {0} /\ Len(u.up) = Len(s.up) - 1
      /\ \A n \in 1..(Len(s.up) - 1) : u.up[n] = s.up[n + 1]
      /\ \A n \in 0..(Len(s.up) - 1) : At(Done(v), u.up, n) = At(p, s.up, n + 1)
      /\ Chain(Done(v), u.up)
  BY <1>1, Pop
<1>3. InOrder(Done(v), u.up)
  BY <1>1, PopInOrder
<1>4. \A n \in 1..Len(u.up) : u.up[n].id \in OwnIds(c)
  <2>1. ASSUME NEW n \in 1..Len(u.up) PROVE u.up[n] = s.up[n + 1] /\ n + 1 \in 1..Len(s.up)
    BY <1>2
  <2>2. QED
    BY <1>1, <2>1
<1>5. At(Done(v), u.up, Len(u.up)) = At(p, s.up, Len(s.up))
  <2>1. Len(u.up) \in 0..(Len(s.up) - 1) /\ Len(u.up) + 1 = Len(s.up)
    BY <1>2
  <2>2. QED
    BY <1>2, <2>1
<1>6. QED
  BY <1>1, <1>2, <1>3, <1>4, <1>5 DEF Sent

LEMMA SentKept ==
  ASSUME NEW c, NEW t, NEW s, NEW v, NEW u, Sent(c, s, t), Done(v) = Done(t),
         u.up = s.up, u.i = s.i, u.k = s.k
  PROVE  Sent(c, u, v)
BY DEF Sent

\* What the reader takes next.
LEMMA NextIs ==
  ASSUME NEW c \in Clients, NEW t \in TaskType, NEW s \in ClientType,
         Shape(c, t), ~Doomed(t), Sent(c, s, t), s.up # <<>>
  PROVE  LET b == Head(s.up) IN
         /\ b \in Token /\ b.id \in OwnIds(c) /\ Tail(s.up) \in Seq(Token)
         /\ t.left > 0 => b = [id |-> t.id, k |-> Size(t.id) - t.left + 1]
         /\ t.left = 0 => b.k = 0 /\ t.id[2] < b.id[2]
<1> DEFINE p == Done(t)  b == Head(s.up)
<1>1. /\ p \in Token /\ s.up \in Seq(Token) /\ Chain(p, s.up) /\ InOrder(p, s.up)
      /\ \A n \in 1..Len(s.up) : s.up[n].id \in OwnIds(c)
      /\ p.id = t.id /\ p.k = Size(t.id) - t.left /\ t.left \in 0..Size(t.id)
      /\ Size(t.id) \in Nat
  BY DoneIs DEF Sent, ClientType
<1> HIDE DEF p
<1>2. /\ b \in Token /\ b = s.up[1] /\ Follows(p, b) /\ Len(s.up) \in Nat \ {0}
      /\ Tail(s.up) \in Seq(Token)
  BY <1>1, Pop
<1>3. Before(p, b)
  BY <1>1, PopInOrder
<1> HIDE DEF b
<1>4. b.id \in OwnIds(c)
  BY <1>1, <1>2
<1>5. t.left > 0 => b = [id |-> t.id, k |-> Size(t.id) - t.left + 1]
  BY <1>1, <1>2 DEF Follows
<1>6. t.left = 0 => b.k = 0
  BY <1>1, <1>2 DEF Follows
<1>7. ASSUME t.left = 0 PROVE t.id[2] < b.id[2]
  <2>1. p.k \in Nat /\ ~(p.k < b.k)
    BY <1>1, <1>6, <1>7
  <2>2. QED
    BY <1>1, <1>3, <2>1 DEF Before
<1>8. QED
  BY <1>2, <1>4, <1>5, <1>6, <1>7 DEF b

-----------------------------------------------------------------------------
(* The steps, as a client and its task see them.                           *)

ClientHalf ==
  /\ client \in [Clients -> ClientType] /\ task \in [Clients -> TaskType]
  /\ \A c \in Clients : Shape(c, task[c]) /\ ClientGood(c, client[c], task[c])

\* A step changes one client and its task.
LEMMA ClientMoves ==
  ASSUME ClientHalf, NEW c \in Clients, NEW u \in ClientType, NEW v \in TaskType,
         client' = [client EXCEPT ![c] = u], task' = [task EXCEPT ![c] = v],
         Shape(c, v), ClientGood(c, u, v)
  PROVE  ClientHalf'
<1>1. client' \in [Clients -> ClientType] /\ task' \in [Clients -> TaskType]
  BY DEF ClientHalf
<1>2. ASSUME NEW d \in Clients PROVE Shape(d, task'[d]) /\ ClientGood(d, client'[d], task'[d])
  <2>1. CASE d = c
    BY <2>1 DEF ClientHalf
  <2>2. CASE d # c
    BY <2>2 DEF ClientHalf
  <2>3. QED
    BY <2>1, <2>2
<1>3. QED
  BY <1>1, <1>2 DEF ClientHalf

LEMMA HalfIs ==
  ASSUME ClientHalf, NEW c \in Clients
  PROVE  /\ client[c] \in ClientType /\ task[c] \in TaskType /\ Shape(c, task[c])
         /\ ClientGood(c, client[c], task[c])
         /\ client = [client EXCEPT ![c] = client[c]] /\ task = [task EXCEPT ![c] = task[c]]
BY DEF ClientHalf

LEMMA StartIs ==
  /\ Unanswered \in Outs /\ Fresh \in TaskType /\ Over \in TaskType
  /\ Fresh.id = NoId /\ Fresh.left = 0 /\ Fresh.at = "head" /\ Fresh.lease = None
  /\ \A c \in Clients : Shape(c, Over) /\ Doomed(Over) /\ Shape(c, Fresh)
<1>1. Unanswered \in Outs
  BY DEF Unanswered, Outs, AnyId, Framings
<1>2. Fresh \in TaskType /\ Fresh.id = NoId /\ Fresh.left = 0 /\ Fresh.at = "head"
        /\ Fresh.lease = None
  BY <1>1 DEF Fresh, TaskType, Ats, Writers, AnyId
<1>3. Over \in TaskType /\ Over.at = "closed" /\ Over.id = NoId /\ Over.lease = None
  BY <1>2 DEF Over, TaskType, Ats
<1>4. QED
  BY <1>1, <1>2, <1>3 DEF Shape, Doomed

LEMMA OverGood ==
  ASSUME ClientHalf, NEW c \in Clients, UNCHANGED client, task' = [task EXCEPT ![c] = Over]
  PROVE  ClientHalf'
BY HalfIs, StartIs, ClientMoves DEF ClientGood

LEMMA HeadFollows ==
  ASSUME ClientHalf, NEW c \in Clients, ClientHead(c), ~Doomed(task[c])
  PROVE  LET q == At(Done(task[c]), client[c].up, Len(client[c].up)) IN q.k = Size(q.id)
<1> DEFINE s == client[c]  t == task[c]  q == At(Done(t), s.up, Len(s.up))
<1>1. s \in ClientType /\ t \in TaskType /\ Shape(c, t) /\ Sent(c, s, t) /\ Told(s, t)
  BY HalfIs DEF ClientGood
<1>2. /\ q \in Token /\ q.k = s.k /\ q.id[2] = s.i /\ s.k <= Size(q.id)
      /\ s.i = 0 => Size(q.id) = 0
      /\ s.i # 0 => <<c, s.i>> \in OwnIds(c) /\ q.id = <<c, s.i>> /\ Size(q.id) = Body[q.id]
      /\ t.id[2] <= s.i
      /\ t.id[2] = s.i => q.id = t.id /\ Size(t.id) - t.left <= s.k
  BY <1>1, SentIs
<1>3. Finished(c)
  BY DEF ClientHead
<1>4. s.i \in Nat /\ s.k \in Nat /\ s.final \in Nat
  BY <1>1 DEF ClientType
<1>5. t.left \in 0..Size(t.id) /\ Size(t.id) \in Nat /\ t.id[2] \in Nat /\ t.at \in Ats
  BY <1>1, DoneIs DEF TaskType
<1>6. CASE s.i = 0
  BY <1>2, <1>4, <1>6
<1>7. CASE s.i # 0 /\ s.k = Body[<<c, s.i>>]
  BY <1>2, <1>7
<1>8. CASE s.i # 0 /\ s.k = 0 /\ <<c, s.i>> \in Expects /\ s.final >= s.i
  <2>1. s.final <= t.id[2]
    BY <1>1 DEF Told
  <2>2. t.id[2] = s.i
    BY <1>2, <1>4, <1>5, <1>8, <2>1
  <2>3. q.id = t.id /\ t.left = Size(t.id)
    BY <1>2, <1>5, <1>8, <2>2
  <2>4. t.at \notin {"routing", "request", "exchange", "commit"}
    BY <1>1, <1>4, <1>5, <1>8, <2>2 DEF Told
  <2>5. t.at # "drain"
    BY <1>1, <1>2, <1>8, <2>3 DEF Shape
  <2>6. t.at = "head" \/ (t.at = "body" /\ t.out.reusable)
    BY <1>5, <2>4, <2>5 DEF Ats, Doomed
  <2>7. t.left = 0
    BY <1>1, <2>6 DEF Shape
  <2>8. QED
    BY <1>2, <1>8, <2>3, <2>7
<1>9. QED
  BY <1>3, <1>6, <1>7, <1>8 DEF Finished

Sends(s, i, k, up) == [s EXCEPT !.i = i, !.k = k, !.up = up]
LEMMA SendsIs ==
  ASSUME NEW s \in ClientType, NEW i \in Nat, NEW k \in Nat, NEW up \in Seq(Token)
  PROVE  /\ Sends(s, i, k, up) \in ClientType /\ Sends(s, i, k, up).up = up
         /\ Sends(s, i, k, up).i = i /\ Sends(s, i, k, up).k = k
         /\ Sends(s, i, k, up).final = s.final
BY DEF Sends, ClientType

LEMMA ClientHeadGood ==
  ASSUME ClientHalf, NEW c \in Clients, ClientHead(c)
  PROVE  ClientHalf'
<1> DEFINE s == client[c]  t == task[c]  q == At(Done(t), s.up, Len(s.up))
           b == [id |-> <<c, s.i + 1>>, k |-> 0]
           u == Sends(s, s.i + 1, 0, Append(s.up, b))
<1>1. s \in ClientType /\ t \in TaskType /\ Shape(c, t) /\ ClientGood(c, s, t)
  BY HalfIs
<1>2. client' = [client EXCEPT ![c] = u]
  BY <1>1 DEF ClientHead, ClientHalf, ClientType, Sends
<1>3. s.i \in Nat /\ s.up \in Seq(Token) /\ s.i < Requests[c] /\ Requests[c] \in Nat
  BY <1>1, BodyAssumption DEF ClientType, ClientHead
<1>4. b.id \in OwnIds(c) /\ b.id = <<c, s.i + 1>> /\ b.k = 0 /\ b.id[2] = s.i + 1
  BY <1>3 DEF OwnIds
<1>5. b \in Token
  BY <1>4, OwnIdsAre DEF Token, AnyId
<1>6. u \in ClientType /\ u.up = Append(s.up, b) /\ u.i = s.i + 1 /\ u.k = 0 /\ u.final = s.final
  <2>1. Append(s.up, b) \in Seq(Token)
    BY <1>3, <1>5
  <2> DEFINE i == s.i + 1  k == 0  up == Append(s.up, b)
  <2>2. i \in Nat /\ k \in Nat /\ u = Sends(s, i, k, up)
    BY <1>1, <1>3
  <2>3. up \in Seq(Token)
    BY <2>1
  <2> HIDE DEF b, s, i, k, up
  <2>4. /\ Sends(s, i, k, up) \in ClientType /\ Sends(s, i, k, up).up = up
        /\ Sends(s, i, k, up).i = i /\ Sends(s, i, k, up).k = k
        /\ Sends(s, i, k, up).final = s.final
    BY <1>1, <2>2, <2>3, SendsIs
  <2>5. QED
    BY <2>2, <2>4 DEF i, k, up, s
<1> HIDE DEF b, u
<1>7. ASSUME ~Doomed(t) PROVE Sent(c, u, t) /\ Told(u, t)
  <2>1. Sent(c, s, t) /\ Told(s, t)
    BY <1>1, <1>7 DEF ClientGood
  <2>2. q \in Token /\ q.id[2] = s.i
    BY <1>1, <1>7, <2>1, SentIs
  <2>3. q.k = Size(q.id)
    BY <1>7, HeadFollows
  <2> HIDE DEF q
  <2>4. Size(q.id) \in Nat
    BY <2>2, IdIs DEF Token
  <2>5. Follows(q, b)
    BY <1>4, <2>3, <2>4, OwnIdsAre DEF Follows
  <2>6. Before(q, b)
    BY <1>3, <1>4, <2>2 DEF Before
  <2>7. Sent(c, u, t)
    BY <1>1, <1>4, <1>5, <1>6, <1>7, <2>1, <2>5, <2>6, SentPush DEF q
  <2>8. QED
    BY <1>6, <2>1, <2>7 DEF Told
<1>8. u.i <= Requests[c]
  BY <1>3, <1>6
<1>9. ClientGood(c, u, t)
  BY <1>7, <1>8 DEF ClientGood
<1>10. QED
  BY <1>1, <1>2, <1>6, <1>9, HalfIs, ClientMoves DEF ClientHead

LEMMA SendUnitGood ==
  ASSUME ClientHalf, NEW c \in Clients, SendUnit(c)
  PROVE  ClientHalf'
<1> DEFINE s == client[c]  t == task[c]  q == At(Done(t), s.up, Len(s.up))
           b == [id |-> <<c, s.i>>, k |-> s.k + 1]
           u == Sends(s, s.i, s.k + 1, Append(s.up, b))
<1>1. s \in ClientType /\ t \in TaskType /\ Shape(c, t) /\ ClientGood(c, s, t)
  BY HalfIs
<1>2. client' = [client EXCEPT ![c] = u]
  BY <1>1 DEF SendUnit, ClientHalf, ClientType, Sends
<1>3. s.i \in Nat /\ s.k \in Nat /\ s.up \in Seq(Token) /\ s.i # 0 /\ s.k # Body[<<c, s.i>>]
  BY <1>1 DEF ClientType, SendUnit, Finished
<1>4. b.id = <<c, s.i>> /\ b.k = s.k + 1 /\ b.id[2] = s.i
  OBVIOUS
<1>5. <<c, s.i>> \in OwnIds(c)
  BY <1>1, <1>3, BodyAssumption DEF ClientGood, OwnIds
<1>6. b \in Token
  BY <1>3, <1>4, <1>5, OwnIdsAre DEF Token, AnyId
<1>7. u \in ClientType /\ u.up = Append(s.up, b) /\ u.i = s.i /\ u.k = s.k + 1 /\ u.final = s.final
  <2>1. Append(s.up, b) \in Seq(Token)
    BY <1>3, <1>6
  <2> DEFINE i == s.i  k == s.k + 1  up == Append(s.up, b)
  <2>2. i \in Nat /\ k \in Nat /\ u = Sends(s, i, k, up)
    BY <1>1, <1>3
  <2>3. up \in Seq(Token)
    BY <2>1
  <2> HIDE DEF b, s, i, k, up
  <2>4. /\ Sends(s, i, k, up) \in ClientType /\ Sends(s, i, k, up).up = up
        /\ Sends(s, i, k, up).i = i /\ Sends(s, i, k, up).k = k
        /\ Sends(s, i, k, up).final = s.final
    BY <1>1, <2>2, <2>3, SendsIs
  <2>5. QED
    BY <2>2, <2>4 DEF i, k, up, s
<1> HIDE DEF b, u
<1>8. ASSUME ~Doomed(t) PROVE Sent(c, u, t) /\ Told(u, t)
  <2>1. Sent(c, s, t) /\ Told(s, t)
    BY <1>1, <1>8 DEF ClientGood
  <2>2. /\ q \in Token /\ q.k = s.k /\ q.id = <<c, s.i>> /\ Size(q.id) = Body[q.id]
        /\ s.k <= Size(q.id)
    BY <1>1, <1>3, <1>8, <2>1, SentIs
  <2> HIDE DEF q
  <2>3. Size(q.id) \in Nat
    BY <2>2, IdIs DEF Token
  <2>4. q.k < Size(q.id)
    BY <1>3, <2>2, <2>3
  <2>5. Follows(q, b)
    BY <2>2, <2>4 DEF Follows, b
  <2>6. Before(q, b)
    BY <1>3, <1>4, <2>2 DEF Before
  <2>7. Sent(c, u, t)
    BY <1>1, <1>4, <1>5, <1>6, <1>7, <1>8, <2>1, <2>5, <2>6, SentPush DEF q
  <2>8. QED
    BY <1>7, <2>1, <2>7 DEF Told
<1>9. ClientGood(c, u, t)
  BY <1>1, <1>7, <1>8 DEF ClientGood
<1>10. QED
  BY <1>1, <1>2, <1>7, <1>9, HalfIs, ClientMoves DEF SendUnit

LEMMA ClientGoesGood ==
  ASSUME ClientHalf, NEW c \in Clients, ClientGoes(c)
  PROVE  ClientHalf'
<1> DEFINE s == client[c]  u == [s EXCEPT !.gone = TRUE]
<1>1. s \in ClientType /\ ClientGood(c, s, task[c]) /\ Shape(c, task[c]) /\ task[c] \in TaskType
  BY HalfIs
<1>2. client' = [client EXCEPT ![c] = u]
  BY DEF ClientGoes
<1>3. /\ u \in ClientType /\ u.i = s.i /\ u.k = s.k /\ u.up = s.up /\ u.final = s.final
  BY <1>1 DEF ClientType
<1> HIDE DEF u
<1>4. ClientGood(c, u, task[c])
  BY <1>1, <1>3 DEF ClientGood, Sent, Told
<1>5. QED
  BY <1>1, <1>2, <1>3, <1>4, HalfIs, ClientMoves DEF ClientGoes

\* The task goes on from the same position.
Early == {"routing", "request", "exchange", "commit"}
LEMMA TaskMoves ==
  ASSUME ClientHalf, NEW c \in Clients, NEW v \in TaskType,
         UNCHANGED client, task' = [task EXCEPT ![c] = v], Shape(c, v), v.id = task[c].id,
         ~Doomed(v) => /\ ~Doomed(task[c]) /\ v.left = task[c].left
                       /\ v.at \in Early => task[c].at \in Early
  PROVE  ClientHalf'
<1> DEFINE s == client[c]  t == task[c]
<1>1. s \in ClientType /\ t \in TaskType /\ ClientGood(c, s, t) /\ client = [client EXCEPT ![c] = s]
  BY HalfIs
<1>2. ASSUME ~Doomed(v) PROVE Sent(c, s, v) /\ Told(s, v)
  <2>1. Sent(c, s, t) /\ Told(s, t)
    BY <1>1, <1>2 DEF ClientGood
  <2>2. Done(v) = Done(t)
    BY <1>2 DEF Done
  <2>3. QED
    BY <1>2, <2>1, <2>2 DEF Sent, Told, Early
<1>3. ClientGood(c, s, v)
  BY <1>1, <1>2 DEF ClientGood
<1>4. client' = [client EXCEPT ![c] = s]
  BY <1>1
<1> HIDE DEF s, t
<1>5. QED
  BY <1>1, <1>3, <1>4, ClientMoves

\* The task takes a token.
LEMMA TaskTakes ==
  ASSUME ClientHalf, NEW c \in Clients, NEW v \in TaskType, Take(c), client[c].up # <<>>,
         task' = [task EXCEPT ![c] = v], Shape(c, v), ~Doomed(task[c]),
         Done(v) = Head(client[c].up), Told(client[c], v)
  PROVE  ClientHalf'
<1> DEFINE s == client[c]  t == task[c]  u == [s EXCEPT !.up = Tail(s.up)]
<1>1. /\ s \in ClientType /\ t \in TaskType /\ ClientGood(c, s, t) /\ Shape(c, t)
      /\ Sent(c, s, t)
  BY HalfIs DEF ClientGood
<1>2. Tail(s.up) \in Seq(Token)
  BY <1>1, NextIs
<1>3. /\ u \in ClientType /\ u.i = s.i /\ u.k = s.k /\ u.up = Tail(s.up) /\ u.final = s.final
  BY <1>1, <1>2 DEF ClientType
<1>4. client' = [client EXCEPT ![c] = u]
  BY DEF Take
<1> HIDE DEF u
<1>5. Sent(c, u, v)
  BY <1>1, <1>3, SentPop
<1>6. ClientGood(c, u, v)
  BY <1>1, <1>3, <1>5 DEF ClientGood, Told
<1> HIDE DEF s, t
<1>7. QED
  BY <1>3, <1>4, <1>6, ClientMoves

LEMMA ReadHeadGood ==
  ASSUME ClientHalf, NEW c \in Clients, ReadHead(c)
  PROVE  ClientHalf'
<1> DEFINE s == client[c]  t == task[c]  b == Head(s.up)
           v == [Fresh EXCEPT !.at = "routing", !.id = b.id, !.left = Body[b.id]]
<1>1. s \in ClientType /\ t \in TaskType /\ ClientGood(c, s, t) /\ Shape(c, t)
  BY HalfIs
<1>2. t.at = "head" /\ ~Doomed(t) /\ t.left = 0
  BY <1>1 DEF ReadHead, Doomed, Shape
<1>3. s.up # <<>> /\ Take(c) /\ task' = [task EXCEPT ![c] = v]
  BY DEF ReadHead, Set
<1>4. b \in Token /\ b.id \in OwnIds(c) /\ b.k = 0 /\ t.id[2] < b.id[2]
  BY <1>1, <1>2, <1>3, NextIs DEF ClientGood
<1>5. /\ b.id \in AnyId /\ Size(b.id) = Body[b.id] /\ Size(b.id) \in Nat /\ b.id[2] \in Nat
      /\ b.id \in OwnIds(c) \cup {NoId}
  BY <1>4, OwnIdsAre, IdIs DEF AnyId
<1>6. /\ v \in TaskType /\ v.at = "routing" /\ v.id = b.id /\ v.left = Size(b.id)
      /\ v.writer = "need" /\ v.lease = None
  BY <1>5, StartIs DEF TaskType, Ats, Fresh
<1>7. b = [id |-> b.id, k |-> 0]
  BY <1>4 DEF Token
<1> HIDE DEF v, b
<1>8. Done(v) = b
  BY <1>5, <1>6, <1>7 DEF Done, Position
<1>9. Shape(c, v)
  BY <1>4, <1>5, <1>6 DEF Shape
<1>10. Told(s, v)
  <2>1. s.final <= t.id[2] /\ s.final \in Nat /\ t.id[2] \in Nat
    BY <1>1, <1>2, IdIs DEF ClientGood, Told, ClientType, TaskType
  <2>2. QED
    BY <1>4, <1>5, <1>6, <2>1 DEF Told
<1>11. QED
  BY <1>2, <1>3, <1>6, <1>8, <1>9, <1>10, TaskTakes DEF b

LEMMA OwnGood ==
  ASSUME ClientHalf, NEW c \in Clients, NEW reusable \in BOOLEAN, Own(c, reusable)
  PROVE  ClientHalf'
<1> DEFINE t == task[c]  o == [Unanswered EXCEPT !.reusable = reusable]
           v == [t EXCEPT !.at = "commit", !.out = o]
<1>1. t \in TaskType /\ Shape(c, t)
  BY HalfIs
<1>2. o \in Outs /\ o.from = NoId /\ o.consumed = FALSE
  BY StartIs DEF Unanswered, Outs
<1> HIDE DEF o
<1>3. /\ v \in TaskType /\ v.at = "commit" /\ v.out = o /\ v.id = t.id /\ v.left = t.left
      /\ v.lease = t.lease
  BY <1>1, <1>2 DEF TaskType, Ats
<1>4. t.at = "routing" /\ task' = [task EXCEPT ![c] = v] /\ UNCHANGED client
  BY DEF Own, Set, o
<1> HIDE DEF v
<1>5. Shape(c, v)
  BY <1>1, <1>2, <1>3, <1>4 DEF Shape
<1>6. QED
  BY <1>3, <1>4, <1>5, TaskMoves DEF Early, Doomed

LEMMA CheckoutGood ==
  ASSUME ClientHalf, NEW c \in Clients, NEW o \in Origins, Checkout(c, o)
  PROVE  ClientHalf'
<1> DEFINE t == task[c]  v == [t EXCEPT !.at = "request", !.lease = o]
<1>1. t \in TaskType /\ Shape(c, t) /\ o # None
  BY HalfIs, BodyAssumption
<1>2. /\ v \in TaskType /\ v.at = "request" /\ v.lease = o /\ v.id = t.id /\ v.left = t.left
      /\ v.writer = t.writer
  BY <1>1 DEF TaskType, Ats
<1>3. t.at = "routing" /\ task' = [task EXCEPT ![c] = v] /\ UNCHANGED client
  BY DEF Checkout, Set
<1> HIDE DEF v
<1>4. Shape(c, v)
  BY <1>1, <1>2, <1>3 DEF Shape
<1>5. QED
  BY <1>2, <1>3, <1>4, TaskMoves DEF Early, Doomed

Commits(t, lease, o) ==
  [t EXCEPT !.at = "commit", !.lease = lease, !.left = 0, !.unit = 0, !.out = o]
LEMMA CommitsIs ==
  ASSUME NEW t \in TaskType, NEW lease \in Origins \cup {None}, NEW o \in Outs
  PROVE  /\ Commits(t, lease, o) \in TaskType /\ Commits(t, lease, o).at = "commit"
         /\ Commits(t, lease, o).out = o /\ Commits(t, lease, o).id = t.id
         /\ Commits(t, lease, o).left = 0 /\ Commits(t, lease, o).lease = lease
         /\ Commits(t, lease, o).writer = t.writer
BY DEF Commits, TaskType, Ats

LEMMA FailGood ==
  ASSUME ClientHalf, NEW c \in Clients, NEW kind, Fail(c, kind),
         task[c].at \in {"routing", "request", "exchange"}
  PROVE  ClientHalf'
<1> DEFINE t == task[c]  o == Failure(t.writer = "complete", kind)
           v == Commits(t, None, o)
<1>1. t \in TaskType /\ Shape(c, t)
  BY HalfIs
<1>2. /\ o \in Outs /\ o.from = NoId
      /\ o.reusable => o.consumed
      /\ o.consumed <=> t.writer = "complete"
  <2>1. Unanswered \in Outs /\ Unanswered.from = NoId
    BY StartIs DEF Unanswered
  <2>2. QED
    BY <2>1 DEF Failure, Outs
<1> HIDE DEF o
<1>3. /\ v \in TaskType /\ v.at = "commit" /\ v.out = o /\ v.id = t.id /\ v.left = 0
      /\ v.lease = None
  BY <1>1, <1>2, CommitsIs
<1>4. task' = [task EXCEPT ![c] = v] /\ UNCHANGED client
  BY DEF Fail, Set, o, Commits
<1> HIDE DEF v
<1>5. t.writer = "complete" => t.at = "exchange" /\ t.left = 0
  BY <1>1 DEF Shape
<1>6. Shape(c, v)
  <2>1. v.id \in OwnIds(c)
    BY <1>1, <1>3 DEF Shape
  <2>2. v.out.reusable => v.out.consumed
    BY <1>2, <1>3
  <2>3. v.out.from = NoId
    BY <1>2, <1>3
  <2>4. QED
    BY <1>3, <2>1, <2>2, <2>3 DEF Shape
<1>7. ~Doomed(v) => ~Doomed(t) /\ v.left = t.left /\ t.at \in Early
  BY <1>2, <1>3, <1>5 DEF Doomed, Early
<1>8. QED
  BY <1>3, <1>4, <1>6, <1>7, TaskMoves DEF Early, Doomed

LEMMA WriteHeadGood ==
  ASSUME ClientHalf, NEW c \in Clients, WriteHead(c)
  PROVE  ClientHalf'
<1> DEFINE t == task[c]  v == [t EXCEPT !.at = "exchange"]
<1>1. t \in TaskType /\ Shape(c, t) /\ Size(t.id) \in Nat
  BY HalfIs, IdIs DEF TaskType
<1>2. /\ v \in TaskType /\ v.at = "exchange" /\ v.lease = t.lease /\ v.id = t.id
      /\ v.left = t.left /\ v.writer = t.writer
  BY <1>1 DEF TaskType, Ats
<1>3. t.at = "request" /\ task' = [task EXCEPT ![c] = v] /\ UNCHANGED client
  BY DEF WriteHead, Set
<1> HIDE DEF v
<1>4. Shape(c, v)
  BY <1>1, <1>2, <1>3 DEF Shape
<1>5. QED
  BY <1>2, <1>3, <1>4, TaskMoves DEF Early, Doomed

LEMMA StepDownstreamGood ==
  ASSUME ClientHalf, NEW c \in Clients, StepDownstream(c)
  PROVE  ClientHalf'
<1> DEFINE t == task[c]  s == client[c]  b == Head(s.up)
           v == [t EXCEPT !.writer = "flush"]
           w == [t EXCEPT !.writer = "pending", !.left = t.left - 1, !.unit = b.k]
<1>1. /\ t \in TaskType /\ Shape(c, t) /\ s \in ClientType /\ ClientGood(c, s, t)
      /\ Size(t.id) \in Nat /\ t.at = "exchange" /\ t.left \in Nat
  BY HalfIs, IdIs DEF TaskType, StepDownstream
<1>2. ~Doomed(t) /\ Sent(c, s, t) /\ Told(s, t) /\ t.left <= Size(t.id)
  BY <1>1 DEF Doomed, ClientGood, Shape
<1>3. CASE t.left = 0 /\ task' = [task EXCEPT ![c] = v] /\ UNCHANGED client
  <2>1. /\ v \in TaskType /\ v.at = "exchange" /\ v.id = t.id /\ v.left = 0
        /\ v.writer = "flush" /\ v.lease = t.lease
    BY <1>1, <1>3 DEF TaskType, Writers
  <2> HIDE DEF v
  <2>2. Shape(c, v)
    BY <1>1, <2>1 DEF Shape
  <2>3. QED
    BY <1>1, <1>2, <1>3, <2>1, <2>2, TaskMoves DEF Early
<1>4. CASE t.left > 0 /\ s.up # <<>> /\ task' = [task EXCEPT ![c] = w] /\ Take(c)
  <2>1. b \in Token /\ b = [id |-> t.id, k |-> Size(t.id) - t.left + 1]
    BY <1>1, <1>2, <1>4, NextIs
  <2>2. b.k \in Nat /\ t.left - 1 \in Nat /\ b.k = Size(t.id) - (t.left - 1)
    BY <1>1, <1>2, <1>4, <2>1 DEF Token
  <2>3. /\ w \in TaskType /\ w.at = "exchange" /\ w.id = t.id /\ w.left = t.left - 1
        /\ w.writer = "pending" /\ w.lease = t.lease /\ w.unit = b.k
    BY <1>1, <2>2 DEF TaskType, Writers
  <2> HIDE DEF w, b
  <2>4. Shape(c, w)
    <3>1. w.left < Size(w.id) /\ w.left <= Size(w.id) /\ w.unit = Size(w.id) - w.left
      BY <1>1, <1>2, <1>4, <2>2, <2>3
    <3>2. QED
      BY <1>1, <2>3, <3>1 DEF Shape
  <2>5. Done(w) = b
    BY <1>1, <2>1, <2>2, <2>3 DEF Done, Position
  <2>6. Told(s, w)
    BY <1>1, <1>2, <2>3 DEF Told
  <2>7. QED
    BY <1>2, <1>4, <2>3, <2>4, <2>5, <2>6, TaskTakes DEF b
<1>5. QED
  BY <1>1, <1>3, <1>4 DEF StepDownstream, Set

LEMMA StepUpstreamGood ==
  ASSUME ClientHalf, NEW c \in Clients, StepUpstream(c)
  PROVE  ClientHalf'
<1> DEFINE t == task[c]
           v == [t EXCEPT !.writer = "need", !.unit = 0]  w == [t EXCEPT !.writer = "complete"]
<1>1. /\ t \in TaskType /\ Shape(c, t) /\ t.at = "exchange" /\ UNCHANGED client
  BY HalfIs DEF StepUpstream
<1>2. CASE t.writer = "pending" /\ task' = [task EXCEPT ![c] = v]
  <2>1. /\ v \in TaskType /\ v.at = "exchange" /\ v.id = t.id /\ v.left = t.left
        /\ v.writer = "need" /\ v.lease = t.lease
    BY <1>1 DEF TaskType, Writers
  <2> HIDE DEF v
  <2>2. Shape(c, v)
    BY <1>1, <2>1 DEF Shape
  <2>3. QED
    BY <1>1, <1>2, <2>1, <2>2, TaskMoves DEF Early, Doomed
<1>3. CASE t.writer = "flush" /\ task' = [task EXCEPT ![c] = w]
  <2>1. /\ w \in TaskType /\ w.at = "exchange" /\ w.id = t.id /\ w.left = t.left
        /\ w.writer = "complete" /\ w.lease = t.lease
    BY <1>1 DEF TaskType, Writers
  <2> HIDE DEF w
  <2>2. Shape(c, w)
    BY <1>1, <1>3, <2>1 DEF Shape
  <2>3. QED
    BY <1>1, <1>3, <2>1, <2>2, TaskMoves DEF Early, Doomed
<1>4. QED
  BY <1>1, <1>2, <1>3 DEF StepUpstream, Set

LEMMA LostGood ==
  ASSUME ClientHalf, NEW c \in Clients, OriginLost(c) \/ ClientLost(c)
  PROVE  ClientHalf'
<1>1. task[c].at \in {"routing", "request", "exchange"}
  BY DEF OriginLost, ClientLost
<1>2. QED
  BY <1>1, FailGood DEF OriginLost, ClientLost

LEMMA InformGood ==
  ASSUME ClientHalf, NEW c \in Clients, Inform(c)
  PROVE  ClientHalf'
<1> DEFINE s == client[c]  t == task[c]  u == [s EXCEPT !.cont = t.id[2]]
<1>1. s \in ClientType /\ ClientGood(c, s, t) /\ Shape(c, t) /\ t \in TaskType /\ t.id[2] \in Nat
  BY HalfIs, IdIs DEF TaskType
<1>2. client' = [client EXCEPT ![c] = u]
  BY DEF Inform
<1>3. /\ u \in ClientType /\ u.i = s.i /\ u.k = s.k /\ u.up = s.up /\ u.final = s.final
  BY <1>1 DEF ClientType
<1> HIDE DEF u
<1>4. ClientGood(c, u, t)
  BY <1>1, <1>3 DEF ClientGood, Sent, Told
<1>5. QED
  BY <1>1, <1>2, <1>3, <1>4, HalfIs, ClientMoves DEF Inform

LEMMA ResponseHeadGood ==
  ASSUME ClientHalf, NEW c \in Clients, ResponseHead(c), NEW h \in Message,
         h = Head(conn[task[c].lease].tx), h.id = task[c].id
  PROVE  ClientHalf'
<1> DEFINE t == task[c]  lease == IF h.framing = "none" THEN None ELSE t.lease
           o == [from |-> h.id, framing |-> h.framing, poolable |-> Poolable(t, h),
                 consumed |-> Reusable(t), reusable |-> Reusable(t)]
           v == Commits(t, lease, o)
<1>1. /\ t \in TaskType /\ Shape(c, t) /\ t.at = "exchange" /\ t.lease \in Origins \cup {None}
      /\ task' = [task EXCEPT ![c] = v] /\ UNCHANGED client
  BY HalfIs DEF ResponseHead, Set, TaskType, Commits
<1>2. lease \in Origins \cup {None}
  BY <1>1
<1>3. /\ o \in Outs /\ o.from = t.id
      /\ o.reusable <=> t.writer = "complete"
      /\ o.consumed = o.reusable
  BY DEF Outs, Message, Poolable, Reusable
<1> HIDE DEF o, lease
<1>4. /\ v \in TaskType /\ v.at = "commit" /\ v.out = o /\ v.id = t.id /\ v.left = 0
      /\ v.lease = lease
  BY <1>1, <1>2, <1>3, CommitsIs
<1> HIDE DEF v
<1>5. Shape(c, v)
  <2>1. v.id \in OwnIds(c)
    BY <1>1, <1>4 DEF Shape
  <2>2. v.out.reusable = v.out.consumed /\ v.out.from = v.id
    BY <1>3, <1>4
  <2>3. QED
    BY <1>4, <2>1, <2>2 DEF Shape
<1>6. ~Doomed(v) => ~Doomed(t) /\ v.left = t.left /\ t.at \in Early
  BY <1>1, <1>3, <1>4 DEF Doomed, Early, Shape
<1>7. QED
  BY <1>1, <1>4, <1>5, <1>6, TaskMoves

\* After a response: the position is the same, or the connection ends.
LEMMA AfterIs ==
  ASSUME NEW c \in Clients, NEW t \in TaskType, NEW s, Shape(c, t),
         t.at \in {"commit", "body"}, s.final <= t.id[2]
  PROVE  /\ After(t) \in TaskType /\ Shape(c, After(t)) /\ After(t).lease = None
         /\ ~Doomed(After(t)) =>
              ~Doomed(t) /\ Done(After(t)) = Done(t) /\ Told(s, After(t))
<1> DEFINE w == [Fresh EXCEPT !.at = "drain", !.id = t.id, !.left = Body[t.id]]
           v == [Fresh EXCEPT !.at = "head", !.id = t.id]
<1>1. /\ t.id \in OwnIds(c) /\ t.id \in Ids /\ t.id \in AnyId /\ Size(t.id) = Body[t.id]
      /\ Size(t.id) \in Nat /\ t.id \in OwnIds(c) \cup {NoId}
  BY OwnIdsAre, IdIs DEF Shape, AnyId
<1>2. CASE Closes(t)
  BY <1>2, StartIs DEF After, Over
<1>3. CASE ~Closes(t) /\ ~t.out.consumed /\ Body[t.id] > 0
  <2>1. After(t) = w
    BY <1>3 DEF After, Drained
  <2>2. w \in TaskType /\ w.at = "drain" /\ w.id = t.id /\ w.left = Body[t.id] /\ w.lease = None
    BY <1>1, StartIs DEF TaskType, Ats
  <2> HIDE DEF w
  <2>3. t.id \notin Expects /\ t.out.reusable
    BY <1>3 DEF Closes
  <2>4. Shape(c, w)
    BY <1>1, <1>3, <2>2, <2>3 DEF Shape
  <2>5. t.left = w.left
    BY <1>1, <1>3, <2>2, <2>3 DEF Shape
  <2>6. Told(s, w) /\ Done(w) = Done(t) /\ ~Doomed(t)
    BY <2>2, <2>3, <2>5 DEF Told, Done, Doomed
  <2>7. QED
    BY <2>1, <2>2, <2>4, <2>6
<1>4. CASE ~Closes(t) /\ ~(~t.out.consumed /\ Body[t.id] > 0)
  <2>1. After(t) = v
    BY <1>4 DEF After, Drained
  <2>2. v \in TaskType /\ v.at = "head" /\ v.id = t.id /\ v.left = 0 /\ v.lease = None
    BY <1>1, StartIs DEF TaskType, Ats
  <2> HIDE DEF v
  <2>3. t.out.reusable
    BY <1>4 DEF Closes
  <2>4. Shape(c, v)
    BY <1>1, <2>2 DEF Shape
  <2>5. t.left = v.left
    BY <1>1, <1>4, <2>2, <2>3 DEF Shape
  <2>6. Told(s, v) /\ Done(v) = Done(t) /\ ~Doomed(t)
    BY <2>2, <2>3, <2>5 DEF Told, Done, Doomed
  <2>7. QED
    BY <2>1, <2>2, <2>4, <2>6
<1>5. QED
  BY <1>2, <1>3, <1>4

LEMMA CommitGood ==
  ASSUME ClientHalf, NEW c \in Clients, Commit(c)
  PROVE  ClientHalf'
<1> DEFINE s == client[c]  t == task[c]  u == [s EXCEPT !.final = t.id[2]]
           b == [t EXCEPT !.at = "body"]
           v == IF t.lease = None THEN After(t) ELSE b
<1>1. /\ s \in ClientType /\ ClientGood(c, s, t) /\ Shape(c, t) /\ t \in TaskType
      /\ t.id[2] \in Nat /\ t.at = "commit"
      /\ client' = [client EXCEPT ![c] = u] /\ task' = [task EXCEPT ![c] = v]
  BY HalfIs, IdIs DEF TaskType, Commit, Set
<1>2. /\ u \in ClientType /\ u.i = s.i /\ u.k = s.k /\ u.up = s.up /\ u.final = t.id[2]
  BY <1>1 DEF ClientType
<1> HIDE DEF u
<1>3. /\ v \in TaskType /\ Shape(c, v)
      /\ ~Doomed(v) => ~Doomed(t) /\ Done(v) = Done(t) /\ Told(u, v)
  <2>1. CASE t.lease = None
    <3>1. u.final <= t.id[2]
      BY <1>1, <1>2
    <3>2. QED
      BY <1>1, <2>1, <3>1, AfterIs
  <2>2. CASE t.lease # None
    <3>1. /\ b \in TaskType /\ b.at = "body" /\ b.id = t.id /\ b.left = t.left
          /\ b.lease = t.lease /\ b.out = t.out
      BY <1>1 DEF TaskType, Ats
    <3> HIDE DEF b
    <3>2. Shape(c, b)
      BY <1>1, <2>2, <3>1 DEF Shape
    <3>3. ~Doomed(b) => ~Doomed(t) /\ Done(b) = Done(t) /\ Told(u, b)
      BY <1>1, <1>2, <3>1 DEF Doomed, Done, Told
    <3>4. QED
      BY <2>2, <3>1, <3>2, <3>3
  <2>3. QED
    BY <2>1, <2>2
<1> HIDE DEF v
<1>4. ClientGood(c, u, v)
  BY <1>1, <1>2, <1>3, SentKept DEF ClientGood
<1>5. QED
  BY <1>1, <1>2, <1>3, <1>4, ClientMoves

LEMMA BodyGood ==
  ASSUME ClientHalf, NEW c \in Clients, BodyUnit(c) \/ BodyEnd(c)
  PROVE  ClientHalf'
<1> DEFINE s == client[c]  t == task[c]
<1>1. s \in ClientType /\ ClientGood(c, s, t) /\ Shape(c, t) /\ t \in TaskType
  BY HalfIs
<1>2. UNCHANGED client /\ t.at = "body"
  BY DEF BodyUnit, BodyEnd
<1>3. CASE task' = [task EXCEPT ![c] = After(t)]
  <2>1. CASE Doomed(t)
    <3>1. After(t) = Over
      BY <1>2, <2>1 DEF Doomed, After, Closes
    <3>2. QED
      BY <1>2, <1>3, <3>1, OverGood
  <2>2. CASE ~Doomed(t)
    <3>1. s.final <= t.id[2] /\ Sent(c, s, t)
      BY <1>1, <2>2 DEF ClientGood, Told
    <3>2. /\ After(t) \in TaskType /\ Shape(c, After(t))
          /\ ~Doomed(After(t)) => Done(After(t)) = Done(t) /\ Told(s, After(t))
      BY <1>1, <1>2, <3>1, AfterIs
    <3>3. ClientGood(c, s, After(t))
      BY <1>1, <3>1, <3>2, SentKept DEF ClientGood
    <3>4. client' = [client EXCEPT ![c] = s]
      BY <1>2, HalfIs
    <3>5. QED
      BY <1>1, <1>3, <3>2, <3>3, <3>4, ClientMoves
  <2>3. QED
    BY <2>1, <2>2
<1>4. CASE task' = [task EXCEPT ![c] = Over]
  BY <1>2, <1>4, OverGood
<1>5. QED
  BY <1>3, <1>4 DEF BodyUnit, BodyEnd, Set

LEMMA DrainGood ==
  ASSUME ClientHalf, NEW c \in Clients, Drain(c)
  PROVE  ClientHalf'
<1> DEFINE s == client[c]  t == task[c]  b == Head(s.up)
           v == [t EXCEPT !.at = "head", !.left = 0]  w == [t EXCEPT !.left = t.left - 1]
<1>1. /\ s \in ClientType /\ ClientGood(c, s, t) /\ Shape(c, t) /\ t \in TaskType
      /\ t.at = "drain" /\ s.up # <<>> /\ Take(c)
      /\ t.left \in 1..Size(t.id) /\ Size(t.id) \in Nat
  BY HalfIs, IdIs DEF Drain, Shape, TaskType
<1>2. ~Doomed(t) /\ Sent(c, s, t) /\ Told(s, t)
  BY <1>1 DEF Doomed, ClientGood
<1>3. b = [id |-> t.id, k |-> Size(t.id) - t.left + 1] /\ t.left \in Nat
  BY <1>1, <1>2, NextIs
<1>4. b = [id |-> t.id, k |-> Size(t.id) - (t.left - 1)]
  BY <1>1, <1>3
<1>5. CASE t.left = 1 /\ task' = [task EXCEPT ![c] = v]
  <2>1. v \in TaskType /\ v.at = "head" /\ v.id = t.id /\ v.left = 0 /\ v.lease = t.lease
    BY <1>1 DEF TaskType, Ats
  <2> HIDE DEF v, b
  <2>2. Shape(c, v)
    BY <1>1, <2>1 DEF Shape
  <2>3. Done(v) = b /\ Told(s, v)
    BY <1>2, <1>4, <1>5, <2>1 DEF Done, Position, Told
  <2>4. QED
    BY <1>1, <1>2, <1>5, <2>1, <2>2, <2>3, TaskTakes DEF b
<1>6. CASE t.left # 1 /\ task' = [task EXCEPT ![c] = w]
  <2>1. t.left - 1 \in Nat /\ t.left - 1 \in 1..Size(t.id)
    BY <1>1, <1>6
  <2>2. /\ w \in TaskType /\ w.at = "drain" /\ w.id = t.id /\ w.left = t.left - 1
        /\ w.lease = t.lease
    BY <1>1, <2>1 DEF TaskType
  <2> HIDE DEF w, b
  <2>3. Shape(c, w)
    BY <1>1, <2>1, <2>2 DEF Shape
  <2>4. Done(w) = b /\ Told(s, w)
    BY <1>2, <1>4, <2>2 DEF Done, Position, Told
  <2>5. QED
    BY <1>1, <1>2, <1>6, <2>2, <2>3, <2>4, TaskTakes DEF b
<1>7. QED
  BY <1>5, <1>6 DEF Drain, Set

LEMMA OthersGood ==
  ASSUME ClientHalf, UNCHANGED <<client, task>>
  PROVE  ClientHalf'
BY DEF ClientHalf

\* The response that is handed on must be one to the request: this is what the half of
\* the origins says.
HeadIsOwn(c) ==
  ResponseHead(c) => /\ Head(conn[task[c].lease].tx) \in Message
                     /\ Head(conn[task[c].lease].tx).id = task[c].id

LEMMA ClientHalfStep ==
  ASSUME ClientHalf, [Next]_vars, \A c \in Clients : HeadIsOwn(c)
  PROVE  ClientHalf'
<1>1. CASE UNCHANGED vars
  BY <1>1, OthersGood DEF vars
<1>2. ASSUME NEW c \in Clients, Work(c) PROVE ClientHalf'
  <2>1. CASE \E reusable \in BOOLEAN : Own(c, reusable)
    BY <2>1, OwnGood
  <2>2. CASE \E o \in Origins : Checkout(c, o)
    BY <2>2, CheckoutGood
  <2>3. CASE OriginLost(c) \/ ClientLost(c)
    BY <2>3, LostGood
  <2>4. CASE ResponseHead(c)
    BY <2>4, ResponseHeadGood DEF HeadIsOwn
  <2>5. CASE Leave(c)
    BY <2>5, OverGood DEF Leave, Set
  <2>6. CASE ReadHead(c) \/ WriteHead(c) \/ StepDownstream(c) \/ StepUpstream(c) \/ Inform(c)
    BY <2>6, ReadHeadGood, WriteHeadGood, StepDownstreamGood, StepUpstreamGood, InformGood
  <2>7. CASE Commit(c) \/ BodyUnit(c) \/ BodyEnd(c) \/ Drain(c)
    BY <2>7, CommitGood, BodyGood, DrainGood
  <2>8. QED
    BY <1>2, <2>1, <2>2, <2>3, <2>4, <2>5, <2>6, <2>7 DEF Work
<1>3. ASSUME NEW c \in Clients, ClientHead(c) \/ ClientUnit(c) \/ Impatient(c) \/ ClientGoes(c)
      PROVE  ClientHalf'
  BY <1>3, ClientHeadGood, SendUnitGood, ClientGoesGood DEF ClientUnit, Impatient
<1>4. ASSUME NEW o \in Origins, Serving(o) \/ OriginInforms(o) \/ OriginCloses(o)
      PROVE  ClientHalf'
  <2>1. UNCHANGED <<client, task>>
    BY <1>4 DEF Serving, OriginRead, OriginAnswers, OriginUnit, OriginInforms, OriginCloses, Say
  <2>2. QED
    BY <2>1, OthersGood
<1>5. CASE Stop
  BY <1>5, OthersGood DEF Stop
<1>6. QED
  BY <1>1, <1>2, <1>3, <1>4, <1>5 DEF Next

LEMMA ClientHalfInit == ASSUME Init PROVE ClientHalf
<1>1. NewClient \in ClientType /\ NewClient.i = 0 /\ NewClient.k = 0 /\ NewClient.up = <<>>
        /\ NewClient.final = 0
  BY DEF NewClient, ClientType
<1>2. ASSUME NEW c \in Clients PROVE ClientGood(c, NewClient, Fresh)
  <2>1. Fresh.id = NoId /\ Fresh.left = 0 /\ Fresh.at = "head" /\ NoId[2] = 0 /\ Size(NoId) = 0
    BY StartIs, IdIs
  <2>2. Done(Fresh).id = NoId /\ Done(Fresh).k = 0
    BY <2>1 DEF Done, Position
  <2>3. Len(<<>>) = 0 /\ 0..0 = {0} /\ Requests[c] \in Nat
    BY BodyAssumption
  <2>4. Sent(c, NewClient, Fresh)
    BY <1>1, <2>1, <2>2, <2>3 DEF Sent, Chain, InOrder, At
  <2>5. Told(NewClient, Fresh)
    BY <1>1, <2>1 DEF Told
  <2>6. QED
    BY <1>1, <2>3, <2>4, <2>5 DEF ClientGood
<1>3. QED
  BY <1>1, <1>2, StartIs DEF Init, ClientHalf

-----------------------------------------------------------------------------
(* The streams of an origin.                                               *)

LEMMA NoHeadsPush ==
  ASSUME NEW s \in Seq(Token), NEW b \in Token, b.k # 0
  PROVE  /\ NoHeads(s) => NoHeads(Append(s, b))
         /\ \A id : OneHead(s, id) => OneHead(Append(s, b), id)
<1> DEFINE z == Append(s, b)
<1>1. /\ Len(z) = Len(s) + 1 /\ Len(s) \in Nat /\ z[Len(s) + 1] = b
      /\ \A n \in 1..Len(s) : z[n] = s[n]
  OBVIOUS
<1> HIDE DEF z
<1>2. ASSUME NoHeads(s) PROVE NoHeads(z)
  BY <1>1, <1>2 DEF NoHeads
<1>3. ASSUME NEW id, OneHead(s, id) PROVE OneHead(z, id)
  <2>1. PICK n \in 1..Len(s) :
          s[n] = [id |-> id, k |-> 0] /\ \A m \in 1..Len(s) : s[m].k = 0 => m = n
    BY <1>3 DEF OneHead
  <2>2. n \in 1..Len(z) /\ z[n] = [id |-> id, k |-> 0]
    BY <1>1, <2>1
  <2>3. ASSUME NEW m \in 1..Len(z), z[m].k = 0 PROVE m = n
    <3>1. m \in 1..Len(s)
      BY <1>1, <2>3
    <3>2. QED
      BY <1>1, <2>1, <2>3, <3>1
  <2>4. QED
    BY <2>2, <2>3 DEF OneHead
<1>4. QED
  BY <1>2, <1>3 DEF z

LEMMA HeadPush ==
  ASSUME NEW s \in Seq(Token), NEW b \in Token, b.k = 0, NoHeads(s)
  PROVE  OneHead(Append(s, b), b.id)
<1> DEFINE z == Append(s, b)  n == Len(s) + 1
<1>1. /\ Len(z) = n /\ Len(s) \in Nat /\ z[n] = b /\ \A m \in 1..Len(s) : z[m] = s[m]
  OBVIOUS
<1>2. b = [id |-> b.id, k |-> 0]
  BY DEF Token
<1> HIDE DEF z
<1>3. n \in 1..Len(z) /\ z[n] = [id |-> b.id, k |-> 0]
  BY <1>1, <1>2
<1>4. ASSUME NEW m \in 1..Len(z), z[m].k = 0 PROVE m = n
  <2>1. CASE m \in 1..Len(s)
    BY <1>1, <1>4, <2>1 DEF NoHeads
  <2>2. CASE m \notin 1..Len(s)
    BY <1>1, <2>2
  <2>3. QED
    BY <2>1, <2>2
<1>5. QED
  BY <1>3, <1>4 DEF OneHead, z

LEMMA HeadsPop ==
  ASSUME NEW s \in Seq(Token), s # <<>>
  PROVE  /\ NoHeads(s) => NoHeads(Tail(s)) /\ Head(s).k # 0
         /\ \A id : OneHead(s, id) /\ Head(s).k # 0 => OneHead(Tail(s), id)
         /\ \A id : OneHead(s, id) /\ Head(s).k = 0 => NoHeads(Tail(s)) /\ Head(s).id = id
<1> DEFINE z == Tail(s)
<1>1. /\ Len(z) = Len(s) - 1 /\ Len(s) \in Nat \ {0} /\ Head(s) = s[1]
      /\ \A n \in 1..(Len(s) - 1) : z[n] = s[n + 1]
  OBVIOUS
<1> HIDE DEF z
<1>2. ASSUME NEW n \in 1..Len(z) PROVE z[n] = s[n + 1] /\ n + 1 \in 1..Len(s)
  BY <1>1
<1>3. 1 \in 1..Len(s)
  BY <1>1
<1>4. ASSUME NoHeads(s) PROVE NoHeads(z) /\ s[1].k # 0
  BY <1>2, <1>3, <1>4 DEF NoHeads
<1>5. ASSUME NEW id, OneHead(s, id)
      PROVE  /\ s[1].k # 0 => OneHead(z, id)
             /\ s[1].k = 0 => NoHeads(z) /\ s[1].id = id
  <2>1. PICK n \in 1..Len(s) :
          s[n] = [id |-> id, k |-> 0] /\ \A m \in 1..Len(s) : s[m].k = 0 => m = n
    BY <1>5 DEF OneHead
  <2>2. CASE s[1].k = 0
    <3>1. n = 1
      BY <1>3, <2>1, <2>2
    <3>2. ASSUME NEW m \in 1..Len(z) PROVE z[m].k # 0
      <4>1. m + 1 # n
        BY <3>1
      <4>2. QED
        BY <1>2, <2>1, <4>1
    <3>3. QED
      BY <2>1, <2>2, <3>1, <3>2 DEF NoHeads
  <2>3. CASE s[1].k # 0
    <3>1. n # 1
      BY <2>1, <2>3
    <3>2. n - 1 \in 1..Len(z) /\ n - 1 + 1 = n
      BY <1>1, <3>1
    <3>3. z[n - 1] = [id |-> id, k |-> 0]
      BY <1>2, <2>1, <3>2
    <3>4. ASSUME NEW m \in 1..Len(z), z[m].k = 0 PROVE m = n - 1
      <4>1. m + 1 = n
        BY <1>2, <2>1, <3>4
      <4>2. QED
        BY <4>1
    <3>5. QED
      BY <2>3, <3>2, <3>3, <3>4 DEF OneHead
  <2>4. QED
    BY <2>2, <2>3
<1>6. QED
  BY <1>1, <1>4, <1>5 DEF z

LEMMA ScriptPop ==
  ASSUME NEW tx \in Seq(Message), tx # <<>>, NEW said \in Sayings, Script(tx, said)
  PROVE  /\ Head(tx) \in Message /\ Tail(tx) \in Seq(Message)
         /\ Head(tx).kind = "info" => Script(Tail(tx), said)
         /\ Head(tx).kind = "head" /\ Head(tx).framing = "none" =>
              Tail(tx) = <<>> /\ said = "done"
         /\ Head(tx).kind = "head" /\ Head(tx).framing # "none" =>
              \/ Tail(tx) = <<>> /\ said \in Framings
              \/ Len(Tail(tx)) = 1 /\ Tail(tx)[1] = tx[2] /\ 2 \in 1..Len(tx)
                   /\ Tail(tx)[1].kind = "unit" /\ said = "done"
<1> DEFINE z == Tail(tx)  n == Len(tx)
<1>1. /\ z \in Seq(Message) /\ Len(z) = n - 1 /\ n \in Nat \ {0} /\ Head(tx) = tx[1]
      /\ Head(tx) \in Message
      /\ \A m \in 1..(n - 1) : z[m] = tx[m + 1]
  OBVIOUS
<1> HIDE DEF z, n
<1>2. z = <<>> <=> Len(z) = 0
  BY <1>1
<1>3. ASSUME NEW m \in 1..Len(z) PROVE z[m] = tx[m + 1]
  BY <1>1
<1>4. ASSUME NEW i \in Nat, Infos(tx, i + 1), i <= Len(z) PROVE Infos(z, i)
  <2>1. ASSUME NEW m \in 1..i PROVE z[m].kind = "info"
    <3>1. m \in 1..Len(z) /\ m + 1 \in 1..(i + 1)
      BY <1>1, <1>4
    <3>2. QED
      BY <1>3, <1>4, <3>1 DEF Infos
  <2>2. QED
    BY <2>1 DEF Infos
<1>5. said \in {"nothing", "info", "done"} \cup Framings /\ said # "none"
  BY DEF Sayings, Framings
<1>6. CASE said = "nothing"
  BY <1>1, <1>6 DEF Script, n
<1>7. CASE said = "info"
  <2>1. Infos(tx, n)
    BY <1>7 DEF Script, n
  <2>2. tx[1].kind = "info"
    BY <1>1, <2>1 DEF Infos
  <2>3. n - 1 \in Nat /\ n - 1 + 1 = n
    BY <1>1
  <2>4. Infos(z, Len(z))
    BY <1>1, <1>4, <2>1, <2>3
  <2>5. Script(z, said)
    BY <1>7, <2>4 DEF Script, Framings
  <2>6. QED
    BY <1>1, <2>2, <2>5 DEF z
<1>8. CASE said \in Framings
  <2>1. n > 0 /\ tx[n].kind = "head" /\ tx[n].framing = said /\ Infos(tx, n - 1)
    BY <1>8 DEF Script, n
  <2>2. CASE n = 1
    BY <1>1, <1>2, <1>5, <1>8, <2>1, <2>2 DEF z
  <2>3. CASE n # 1
    <3>1. 1 \in 1..(n - 1) /\ n - 1 \in 1..Len(z) /\ n - 1 + 1 = n /\ n - 2 \in Nat
            /\ n - 2 + 1 = n - 1 /\ n - 2 <= Len(z)
      BY <1>1, <2>3
    <3>2. tx[1].kind = "info"
      BY <2>1, <3>1 DEF Infos
    <3>3. z[Len(z)].kind = "head" /\ z[Len(z)].framing = said
      BY <1>1, <1>3, <2>1, <3>1
    <3>4. Infos(z, Len(z) - 1)
      <4>1. Infos(z, n - 2)
        BY <1>4, <2>1, <3>1
      <4>2. Len(z) - 1 = n - 2
        BY <1>1
      <4>3. QED
        BY <4>1, <4>2
    <3>5. Len(z) > 0
      BY <1>1, <3>1
    <3>6. Script(z, said)
      BY <1>8, <3>3, <3>4, <3>5 DEF Script, Framings
    <3>7. QED
      BY <1>1, <3>2, <3>6 DEF z
  <2>4. QED
    BY <2>2, <2>3
<1>9. CASE said = "done" /\ tx[n].kind = "head"
  <2>1. n > 0 /\ tx[n].kind = "head" /\ tx[n].framing = "none" /\ Infos(tx, n - 1)
    BY <1>9 DEF Script, Framings, n
  <2>2. CASE n = 1
    BY <1>1, <1>2, <1>9, <2>1, <2>2 DEF z
  <2>3. CASE n # 1
    <3>1. 1 \in 1..(n - 1) /\ n - 1 \in 1..Len(z) /\ n - 1 + 1 = n /\ n - 2 \in Nat
            /\ n - 2 + 1 = n - 1 /\ n - 2 <= Len(z)
      BY <1>1, <2>3
    <3>2. tx[1].kind = "info"
      BY <2>1, <3>1 DEF Infos
    <3>3. z[Len(z)].kind = "head" /\ z[Len(z)].framing = "none"
      BY <1>1, <1>3, <2>1, <3>1
    <3>4. Infos(z, Len(z) - 1)
      <4>1. Infos(z, n - 2)
        BY <1>4, <2>1, <3>1
      <4>2. Len(z) - 1 = n - 2
        BY <1>1
      <4>3. QED
        BY <4>1, <4>2
    <3>5. Len(z) > 0
      BY <1>1, <3>1
    <3>6. Script(z, said)
      BY <1>9, <3>3, <3>4, <3>5 DEF Script, Framings
    <3>7. QED
      BY <1>1, <3>2, <3>6 DEF z
  <2>4. QED
    BY <2>2, <2>3
<1>10. CASE said = "done" /\ tx[n].kind # "head"
  <2>1. /\ n > 1 /\ tx[n].kind = "unit" /\ Infos(tx, n - 2)
        /\ tx[n - 1].kind = "head" /\ tx[n - 1].framing # "none"
    BY <1>10 DEF Script, Framings, n
  <2>2. CASE n = 2
    <3>1. Len(z) = 1 /\ z[1] = tx[2] /\ tx[1].kind = "head" /\ tx[1].framing # "none"
      BY <1>1, <2>1, <2>2
    <3>2. 2 \in 1..Len(tx) /\ tx[2].kind = "unit"
      <4>1. tx[2].kind = "unit"
        BY <2>1, <2>2
      <4>2. Len(tx) = 2
        BY <2>2 DEF n
      <4>3. QED
        BY <4>1, <4>2
    <3>3. QED
      BY <1>1, <1>10, <3>1, <3>2 DEF z
  <2>3. CASE n # 2
    <3>1. 1 \in 1..(n - 2) /\ n - 1 \in 1..Len(z) /\ n - 1 + 1 = n /\ n - 2 \in 1..Len(z)
            /\ n - 2 + 1 = n - 1 /\ n - 3 \in Nat /\ n - 3 + 1 = n - 2 /\ n - 3 <= Len(z)
      <4>1. Len(z) = n - 1 /\ n \in Nat /\ n > 2
        BY <1>1, <2>1, <2>3
      <4>2. QED
        BY ONLY <4>1
    <3>2. tx[1].kind = "info"
      BY <2>1, <3>1 DEF Infos
    <3>3. z[n - 1].kind = "unit" /\ z[n - 2].kind = "head" /\ z[n - 2].framing # "none"
      BY <1>3, <2>1, <3>1
    <3>4. Infos(z, n - 3)
      BY <1>4, <2>1, <3>1
    <3>5. Len(z) > 1 /\ Len(z) = n - 1 /\ Len(z) - 1 = n - 2 /\ Len(z) - 2 = n - 3
      BY <1>1, <3>1
    <3>6. Script(z, said)
      BY <1>10, <3>3, <3>4, <3>5 DEF Script, Framings
    <3>7. QED
      BY <1>1, <3>2, <3>6 DEF z
  <2>4. QED
    BY <2>2, <2>3
<1>11. QED
  BY <1>5, <1>6, <1>7, <1>8, <1>9, <1>10

LEMMA ScriptPush ==
  ASSUME NEW tx \in Seq(Message), NEW said \in Sayings, NEW b \in Message, Script(tx, said)
  PROVE  /\ Append(tx, b) \in Seq(Message)
         /\ said = "nothing" /\ b.kind = "info" => Script(Append(tx, b), "info")
         /\ said \in {"nothing", "info"} /\ b.kind = "head" =>
              Script(Append(tx, b), IF b.framing = "none" THEN "done" ELSE b.framing)
         /\ said \in Framings /\ b.kind = "unit" => Script(Append(tx, b), "done")
         /\ \A id : AllFor(tx, id) /\ b.id = id => AllFor(Append(tx, b), id)
<1> DEFINE z == Append(tx, b)  n == Len(tx)
<1>1. /\ z \in Seq(Message) /\ Len(z) = n + 1 /\ n \in Nat /\ z[n + 1] = b
      /\ \A m \in 1..n : z[m] = tx[m]
  OBVIOUS
<1> HIDE DEF z
<1>2. ASSUME NEW i \in 0..n, Infos(tx, i) PROVE Infos(z, i)
  BY <1>1, <1>2 DEF Infos
<1>3. ASSUME said \in {"nothing", "info"} PROVE Infos(z, n)
  BY <1>1, <1>2, <1>3 DEF Script, Infos
<1>4. ASSUME said = "nothing", b.kind = "info" PROVE Script(z, "info")
  <2>1. n = 0
    BY <1>4 DEF Script
  <2>2. Len(z) = 1 /\ z[1].kind = "info"
    BY <1>1, <1>4, <2>1
  <2>3. QED
    BY <2>2 DEF Script, Infos, Framings
<1>5. ASSUME said \in {"nothing", "info"}, b.kind = "head"
      PROVE  Script(z, IF b.framing = "none" THEN "done" ELSE b.framing)
  <2>1. Len(z) > 0 /\ z[Len(z)].kind = "head" /\ z[Len(z)].framing = b.framing /\ Len(z) - 1 = n
    BY <1>1, <1>5
  <2>2. Infos(z, Len(z) - 1)
    BY <1>3, <1>5, <2>1
  <2>3. b.framing \in Framings
    BY DEF Message
  <2>4. QED
    BY <2>1, <2>2, <2>3 DEF Script, Framings
<1>6. ASSUME said \in Framings, b.kind = "unit" PROVE Script(z, "done")
  <2>1. said # "none" /\ n > 0 /\ tx[n].kind = "head" /\ tx[n].framing = said /\ Infos(tx, n - 1)
    BY <1>6 DEF Script, Sayings
  <2>2. n \in 1..n /\ n - 1 \in 0..n /\ Len(z) > 1 /\ Len(z) - 1 = n /\ Len(z) - 2 = n - 1
    BY <1>1, <2>1
  <2>3. z[Len(z)].kind = "unit" /\ z[n].kind = "head" /\ z[n].framing # "none"
    BY <1>1, <1>6, <2>1, <2>2
  <2>4. Infos(z, n - 1)
    BY <1>2, <2>1, <2>2
  <2>5. QED
    BY <2>2, <2>3, <2>4 DEF Script, Framings
<1>7. ASSUME NEW id, AllFor(tx, id), b.id = id PROVE AllFor(z, id)
  BY <1>1, <1>7 DEF AllFor
<1>8. QED
  BY <1>1, <1>4, <1>5, <1>6, <1>7 DEF z

LEMMA AllForPop ==
  ASSUME NEW tx \in Seq(Message), tx # <<>>, NEW id, AllFor(tx, id)
  PROVE  Head(tx).id = id /\ AllFor(Tail(tx), id)
<1> DEFINE z == Tail(tx)
<1>1. /\ Len(z) = Len(tx) - 1 /\ Len(tx) \in Nat \ {0} /\ Head(tx) = tx[1]
      /\ \A m \in 1..(Len(tx) - 1) : z[m] = tx[m + 1]
  OBVIOUS
<1> HIDE DEF z
<1>2. 1 \in 1..Len(tx)
  BY <1>1
<1>3. ASSUME NEW m \in 1..Len(z) PROVE z[m] = tx[m + 1] /\ m + 1 \in 1..Len(tx)
  BY <1>1
<1>4. QED
  BY <1>1, <1>2, <1>3 DEF AllFor, z

-----------------------------------------------------------------------------
(* The steps, as an origin and the task that holds it see them.            *)

OriginHalf ==
  /\ conn \in [Origins -> ConnType] /\ Leases
  /\ \A o \in Origins : InStep(conn[o])
  /\ \A c \in Clients : task[c].lease # None => Serves(conn[task[c].lease], task[c])

\* A position in the stream to an origin.
LEMMA ReadIs ==
  ASSUME NEW s \in ConnType, InStep(s)
  PROVE  /\ s.left \in 0..Size(s.id) /\ Size(s.id) \in Nat /\ s.id \in AnyId
         /\ s.rx \in Seq(Token) /\ s.tx \in Seq(Message)
         /\ Read(s) \in Token /\ Read(s).id = s.id /\ Read(s).k = Size(s.id) - s.left
         /\ Within(Read(s)) /\ Chain(Read(s), s.rx)
<1>1. /\ s.left \in 0..Size(s.id) /\ Size(s.id) \in Nat /\ s.id \in AnyId
      /\ s.rx \in Seq(Token) /\ s.tx \in Seq(Message)
  BY IdIs DEF ConnType, InStep
<1>2. QED
  BY <1>1, PositionIs DEF Read, Within, InStep

\* The server acts.
LEMMA ServerMoves ==
  ASSUME ClientHalf, OriginHalf, NEW o \in Origins, NEW z \in ConnType,
         conn' = [conn EXCEPT ![o] = z], UNCHANGED task,
         z.state = conn[o].state, InStep(z),
         \A c \in Clients : task[c].lease = o => Serves(z, task[c])
  PROVE  OriginHalf'
<1>1. /\ conn' \in [Origins -> ConnType] /\ conn'[o] = z
      /\ \A p \in Origins : p # o => conn'[p] = conn[p]
      /\ \A p \in Origins : conn'[p].state = conn[p].state
  BY DEF OriginHalf
<1>2. \A c \in Clients : task[c].lease \in Origins \cup {None}
  BY DEF ClientHalf, TaskType
<1>3. Leases'
  BY <1>1, <1>2 DEF OriginHalf, Leases, Held
<1>4. \A p \in Origins : InStep(conn'[p])
  BY <1>1 DEF OriginHalf
<1>5. \A c \in Clients : task'[c].lease # None => Serves(conn'[task'[c].lease], task'[c])
  BY <1>1, <1>2 DEF OriginHalf
<1>6. QED
  BY <1>1, <1>3, <1>4, <1>5 DEF OriginHalf

\* A task that may hold an origin takes a step, with or without it.
LEMMA HolderMoves ==
  ASSUME ClientHalf, OriginHalf, NEW c \in Clients, NEW o \in Origins, NEW z \in ConnType,
         NEW v \in TaskType,
         conn' = [conn EXCEPT ![o] = z], task' = [task EXCEPT ![c] = v], InStep(z),
         task[c].lease \in {None, o}, task[c].lease = o \/ conn[o].state # "leased",
         v.lease \in {None, o}, z.state = "leased" <=> v.lease = o,
         v.lease = o => Serves(z, v)
  PROVE  OriginHalf'
<1>1. /\ conn' \in [Origins -> ConnType] /\ conn'[o] = z
      /\ \A p \in Origins : p # o => conn'[p] = conn[p]
      /\ task'[c] = v /\ \A d \in Clients : d # c => task'[d] = task[d]
  BY DEF OriginHalf, ClientHalf
<1>2. /\ \A d \in Clients : task[d].lease \in Origins \cup {None}
      /\ o # None
  BY BodyAssumption DEF ClientHalf, TaskType
<1>3. \A d \in Clients : d # c => task[d].lease # o
  BY <1>2 DEF OriginHalf, Leases
<1>4. /\ \A d \in Clients : task'[d].lease # None => conn'[task'[d].lease].state = "leased"
      /\ \A d \in Clients : task'[d].lease # None => Serves(conn'[task'[d].lease], task'[d])
  <2>1. SUFFICES ASSUME NEW d \in Clients, task'[d].lease # None
                 PROVE  /\ conn'[task'[d].lease].state = "leased"
                        /\ Serves(conn'[task'[d].lease], task'[d])
    OBVIOUS
  <2>2. CASE d = c
    BY <1>1, <2>1, <2>2
  <2>3. CASE d # c
    <3>1. task'[d] = task[d] /\ task[d].lease \in Origins /\ task[d].lease # o
      BY <1>1, <1>2, <1>3, <2>1, <2>3
    <3>2. conn'[task[d].lease] = conn[task[d].lease]
      BY <1>1, <3>1
    <3>3. QED
      BY <2>1, <3>1, <3>2 DEF OriginHalf, Leases
  <2>4. QED
    BY <2>2, <2>3
<1>5. \A d, e \in Clients : d # e /\ task'[d].lease # None => task'[d].lease # task'[e].lease
  <2>1. SUFFICES ASSUME NEW d \in Clients, NEW e \in Clients, d # e, task'[d].lease # None,
                        task'[d].lease = task'[e].lease
                 PROVE  FALSE
    OBVIOUS
  <2>2. CASE d # c /\ e # c
    BY <1>1, <2>1, <2>2 DEF OriginHalf, Leases
  <2>3. CASE d = c \/ e = c
    BY <1>1, <1>3, <2>1, <2>3
  <2>4. QED
    BY <2>2, <2>3
<1>6. \A p \in Held' : \E d \in Clients : task'[d].lease = p
  <2>1. SUFFICES ASSUME NEW p \in Origins, conn'[p].state = "leased"
                 PROVE  \E d \in Clients : task'[d].lease = p
    BY DEF Held
  <2>2. CASE p = o
    BY <1>1, <2>1, <2>2
  <2>3. CASE p # o
    <3>1. conn[p].state = "leased"
      BY <1>1, <2>1, <2>3
    <3>2. PICK d \in Clients : task[d].lease = p
      BY <3>1 DEF OriginHalf, Leases, Held
    <3>3. p # None
      BY BodyAssumption
    <3>4. d # c
      BY <2>3, <3>2, <3>3
    <3>5. QED
      BY <1>1, <3>2, <3>4
  <2>4. QED
    BY <2>2, <2>3
<1>7. \A p \in Origins : InStep(conn'[p])
  BY <1>1 DEF OriginHalf
<1>8. QED
  BY <1>1, <1>4, <1>5, <1>6, <1>7 DEF OriginHalf, Leases

\* A task takes a step that the origins do not see.
LEMMA NobodyMoves ==
  ASSUME ClientHalf, OriginHalf, NEW c \in Clients, NEW v, UNCHANGED conn,
         task' = [task EXCEPT ![c] = v], v.lease = task[c].lease,
         v.lease # None => Serves(conn[v.lease], v)
  PROVE  OriginHalf'
<1>1. task'[c] = v /\ \A d \in Clients : d # c => task'[d] = task[d]
  BY DEF ClientHalf
<1>2. \A d \in Clients : task'[d].lease = task[d].lease
  BY <1>1
<1>3. Leases'
  BY <1>2 DEF OriginHalf, Leases, Held
<1>4. \A d \in Clients : task'[d].lease # None => Serves(conn[task'[d].lease], task'[d])
  <2>1. SUFFICES ASSUME NEW d \in Clients, task'[d].lease # None
                 PROVE  Serves(conn[task'[d].lease], task'[d])
    OBVIOUS
  <2>2. CASE d = c
    BY <1>1, <2>1, <2>2
  <2>3. CASE d # c
    BY <1>1, <2>1, <2>3 DEF OriginHalf
  <2>4. QED
    BY <2>2, <2>3
<1>5. QED
  BY <1>3, <1>4 DEF OriginHalf

LEMMA HoldersAre ==
  ASSUME ClientHalf, OriginHalf, NEW o \in Origins
  PROVE  /\ conn[o] \in ConnType /\ InStep(conn[o]) /\ o # None
         /\ \A c \in Clients : task[c].lease = o =>
              /\ Serves(conn[o], task[c]) /\ task[c] \in TaskType /\ Shape(c, task[c])
              /\ task[c].at \in {"request", "exchange", "commit", "body"}
<1>1. conn[o] \in ConnType /\ InStep(conn[o]) /\ o # None
  BY BodyAssumption DEF OriginHalf
<1>2. ASSUME NEW c \in Clients, task[c].lease = o
      PROVE  /\ Serves(conn[o], task[c]) /\ task[c] \in TaskType /\ Shape(c, task[c])
             /\ task[c].at \in {"request", "exchange", "commit", "body"}
  <2>1. task[c] \in TaskType /\ Shape(c, task[c]) /\ task[c].at \in Ats
    BY DEF ClientHalf, TaskType
  <2>2. task[c].at \notin {"head", "routing", "drain", "closed"}
    BY <1>1, <1>2, <2>1 DEF Shape
  <2>3. QED
    BY <1>1, <1>2, <2>1, <2>2 DEF OriginHalf, Ats
<1>3. QED
  BY <1>1, <1>2

\* A unit is taken from the stream: what is left is in step, and ends where it ended.
LEMMA UnitTaken ==
  ASSUME NEW s \in ConnType, InStep(s), s.rx # <<>>, s.left > 0
  PROVE  LET z == [s EXCEPT !.left = s.left - 1, !.rx = Tail(s.rx)] IN
         /\ z \in ConnType /\ InStep(z) /\ z.state = s.state
         /\ z.id = s.id /\ z.tx = s.tx /\ z.said = s.said /\ z.rx = Tail(s.rx)
         /\ Head(s.rx).id = s.id /\ Head(s.rx).k > 0
         /\ At(Read(z), z.rx, Len(z.rx)) = At(Read(s), s.rx, Len(s.rx))
<1> DEFINE z == [s EXCEPT !.left = s.left - 1, !.rx = Tail(s.rx)]  p == Read(s)  b == Head(s.rx)
<1>1. /\ s.left \in 0..Size(s.id) /\ Size(s.id) \in Nat /\ s.id \in AnyId /\ s.rx \in Seq(Token)
      /\ p \in Token /\ p.id = s.id /\ p.k = Size(s.id) - s.left /\ Chain(p, s.rx)
  BY ReadIs
<1> HIDE DEF p
<1>2. /\ b \in Token /\ Tail(s.rx) \in Seq(Token) /\ Len(s.rx) \in Nat \ {0}
      /\ Len(Tail(s.rx)) = Len(s.rx) - 1
      /\ \A n \in 0..(Len(s.rx) - 1) : At(b, Tail(s.rx), n) = At(p, s.rx, n + 1)
      /\ Follows(p, b) /\ Chain(b, Tail(s.rx))
  BY <1>1, Pop
<1> HIDE DEF b
<1>3. b = [id |-> s.id, k |-> Size(s.id) - s.left + 1]
  BY <1>1, <1>2 DEF Follows
<1>4. s.left - 1 \in Nat
  BY <1>1
<1>5. /\ z \in ConnType /\ z.state = s.state /\ z.id = s.id /\ z.tx = s.tx /\ z.said = s.said
      /\ z.rx = Tail(s.rx) /\ z.left = s.left - 1
  BY <1>2, <1>4 DEF ConnType
<1> HIDE DEF z
<1>6. Read(z) = b
  <2>1. Size(s.id) - (s.left - 1) = Size(s.id) - s.left + 1
    BY <1>1
  <2>2. QED
    BY <1>3, <1>5, <2>1 DEF Read, Position
<1>7. At(Read(z), z.rx, Len(z.rx)) = At(p, s.rx, Len(s.rx))
  <2>1. Len(z.rx) \in 0..(Len(s.rx) - 1) /\ Len(z.rx) + 1 = Len(s.rx)
    BY <1>2, <1>5
  <2>2. QED
    BY <1>2, <1>5, <1>6, <2>1
<1>8. b.id = s.id /\ b.k > 0
  BY <1>1, <1>3
<1>9. Quiet(s) => Quiet(z)
  BY <1>2, <1>5, <1>7, HeadsPop, <1>1 DEF Quiet, EndsFull, p
<1>10. InStep(z)
  <2>1. z.left <= Size(z.id)
    BY <1>1, <1>5
  <2>2. QED
    BY <1>2, <1>5, <1>6, <1>9, <2>1 DEF InStep
<1>11. QED
  BY <1>5, <1>7, <1>8, <1>10 DEF z, p, b

\* A head is taken.
LEMMA HeadTaken ==
  ASSUME NEW s \in ConnType, InStep(s), s.rx # <<>>, s.left = 0,
         s.state \notin {"none", "idle"}
  PROVE  LET b == Head(s.rx)
             z == [s EXCEPT !.id = b.id, !.left = Body[b.id], !.said = "nothing",
                            !.rx = Tail(s.rx)]
         IN
         /\ z \in ConnType /\ InStep(z) /\ z.state = s.state
         /\ z.id = b.id /\ z.tx = s.tx /\ z.said = "nothing" /\ z.rx = Tail(s.rx)
         /\ b.k = 0
         /\ At(Read(z), z.rx, Len(z.rx)) = At(Read(s), s.rx, Len(s.rx))
<1> DEFINE p == Read(s)  b == Head(s.rx)
           z == [s EXCEPT !.id = b.id, !.left = Body[b.id], !.said = "nothing", !.rx = Tail(s.rx)]
<1>1. /\ s.left \in 0..Size(s.id) /\ Size(s.id) \in Nat /\ s.id \in AnyId /\ s.rx \in Seq(Token)
      /\ p \in Token /\ p.id = s.id /\ p.k = Size(s.id) - s.left /\ Chain(p, s.rx)
  BY ReadIs
<1> HIDE DEF p
<1>2. /\ b \in Token /\ Tail(s.rx) \in Seq(Token) /\ Len(s.rx) \in Nat \ {0}
      /\ Len(Tail(s.rx)) = Len(s.rx) - 1
      /\ \A n \in 0..(Len(s.rx) - 1) : At(b, Tail(s.rx), n) = At(p, s.rx, n + 1)
      /\ Follows(p, b) /\ Chain(b, Tail(s.rx))
  BY <1>1, Pop
<1> HIDE DEF b
<1>3. b.id \in Ids /\ b.k = 0
  BY <1>1, <1>2 DEF Follows
<1>4. Size(b.id) = Body[b.id] /\ Size(b.id) \in Nat /\ b.id \in AnyId
  BY <1>3, IdIs DEF AnyId
<1>5. /\ z \in ConnType /\ z.state = s.state /\ z.id = b.id /\ z.tx = s.tx /\ z.said = "nothing"
      /\ z.rx = Tail(s.rx) /\ z.left = Size(b.id)
  BY <1>2, <1>4 DEF ConnType, Sayings
<1> HIDE DEF z
<1>6. Read(z) = b
  <2>1. Size(b.id) - Size(b.id) = 0 /\ b = [id |-> b.id, k |-> 0]
    BY <1>2, <1>3, <1>4 DEF Token
  <2>2. QED
    BY <1>5, <2>1 DEF Read, Position
<1>7. At(Read(z), z.rx, Len(z.rx)) = At(p, s.rx, Len(s.rx))
  <2>1. Len(z.rx) \in 0..(Len(s.rx) - 1) /\ Len(z.rx) + 1 = Len(s.rx)
    BY <1>2, <1>5
  <2>2. QED
    BY <1>2, <1>5, <1>6, <2>1
<1>8. InStep(z)
  <2>1. z.left <= Size(z.id)
    BY <1>4, <1>5
  <2>2. QED
    BY <1>2, <1>5, <1>6, <2>1 DEF InStep
<1>9. QED
  BY <1>3, <1>5, <1>7, <1>8 DEF z, p, b

LEMMA OriginReadGood ==
  ASSUME ClientHalf, OriginHalf, NEW o \in Origins, OriginRead(o)
  PROVE  OriginHalf'
<1> DEFINE s == conn[o]  b == Head(s.rx)
           y == [s EXCEPT !.left = s.left - 1, !.rx = Tail(s.rx)]
           z == [s EXCEPT !.id = b.id, !.left = Body[b.id], !.said = "nothing", !.rx = Tail(s.rx)]
<1>1. s \in ConnType /\ InStep(s) /\ s.rx # <<>> /\ s.rx \in Seq(Token) /\ s.left \in Nat
  BY HoldersAre DEF OriginRead, ConnType
<1>2. CASE s.left > 0
  <2>1. conn' = [conn EXCEPT ![o] = y] /\ UNCHANGED task
    BY <1>2 DEF OriginRead
  <2>2. /\ y \in ConnType /\ InStep(y) /\ y.state = s.state
        /\ y.id = s.id /\ y.tx = s.tx /\ y.said = s.said /\ y.rx = Tail(s.rx)
        /\ b.id = s.id /\ b.k > 0
        /\ At(Read(y), y.rx, Len(y.rx)) = At(Read(s), s.rx, Len(s.rx))
    BY <1>1, <1>2, UnitTaken
  <2> HIDE DEF y, b
  <2>3. /\ NoHeads(s.rx) => NoHeads(y.rx)
        /\ \A id : OneHead(s.rx, id) => OneHead(y.rx, id)
    BY <1>1, <2>2, HeadsPop DEF b
  <2>4. ASSUME NEW c \in Clients, task[c].lease = o PROVE Serves(y, task[c])
    <3>1. Serves(s, task[c])
      BY <2>4, HoldersAre
    <3>2. QED
      BY <2>2, <2>3, <3>1
         DEF Serves, Quiet, Unread, Answering, Finishing, Ends, EndsFull
  <2>5. QED
    BY <2>1, <2>2, <2>4, ServerMoves
<1>3. CASE s.left = 0
  <2>1. conn' = [conn EXCEPT ![o] = z] /\ UNCHANGED task /\ s.said = "done"
    BY <1>3 DEF OriginRead
  <2>2. b.k = 0
    <3>1. /\ Read(s) \in Token /\ Chain(Read(s), s.rx) /\ Read(s).id = s.id
          /\ Read(s).k = Size(s.id) /\ Size(s.id) \in Nat
      BY <1>1, <1>3, ReadIs
    <3>2. Follows(Read(s), b)
      BY <1>1, <3>1, Pop
    <3>3. QED
      BY <3>1, <3>2 DEF Follows
  <2>3. ~NoHeads(s.rx)
    BY <1>1, <2>2, HeadsPop
  <2>4. s.state \notin {"none", "idle"}
    BY <1>1, <2>3 DEF InStep, Quiet
  <2>5. /\ z \in ConnType /\ InStep(z) /\ z.state = s.state
        /\ z.id = b.id /\ z.tx = s.tx /\ z.said = "nothing" /\ z.rx = Tail(s.rx)
        /\ At(Read(z), z.rx, Len(z.rx)) = At(Read(s), s.rx, Len(s.rx))
    BY <1>1, <1>3, <2>4, HeadTaken
  <2> HIDE DEF z
  <2>6. ASSUME NEW c \in Clients, task[c].lease = o PROVE Serves(z, task[c])
    <3>1. Serves(s, task[c]) /\ task[c].at \in {"request", "exchange", "commit", "body"}
      BY <2>6, HoldersAre
    <3>2. task[c].at = "exchange" /\ Unread(s, task[c]) /\ Ends(Read(s), s.rx, Written(task[c]))
      BY <2>3, <3>1 DEF Serves, Quiet, Answering, Finishing
    <3>3. NoHeads(Tail(s.rx)) /\ b.id = task[c].id /\ s.tx = <<>>
      BY <1>1, <2>2, <3>2, HeadsPop DEF Unread
    <3> HIDE DEF b
    <3>4. Answering(z, task[c])
      <4>1. Len(z.tx) = 0
        BY <2>5, <3>3
      <4>2. AllFor(z.tx, task[c].id) /\ Script(z.tx, "nothing")
        BY <4>1 DEF AllFor, Script, Framings
      <4>3. QED
        BY <2>5, <3>3, <4>2 DEF Answering
    <3>5. Ends(Read(z), z.rx, Written(task[c]))
      BY <2>5, <3>2 DEF Ends
    <3>6. QED
      BY <3>2, <3>4, <3>5 DEF Serves
  <2>7. QED
    BY <2>1, <2>5, <2>6, ServerMoves
<1>4. QED
  BY <1>1, <1>2, <1>3

\* The server says something: it must fit in what the task that listens expects.
LEMMA SayGood ==
  ASSUME ClientHalf, OriginHalf, NEW o \in Origins, NEW b \in Message, NEW said \in Sayings,
         NEW eof \in BOOLEAN, b.id = conn[o].id, UNCHANGED task, conn[o].state = "leased",
         conn[o].said # "done",
         conn' = [conn EXCEPT ![o] = [conn[o] EXCEPT !.said = said, !.eof = eof,
                                                     !.tx = Append(conn[o].tx, b)]],
         Script(conn[o].tx, conn[o].said) => Script(Append(conn[o].tx, b), said),
         conn[o].said \in Framings => b.kind = "unit" /\ said = "done"
  PROVE  OriginHalf'
<1> DEFINE s == conn[o]  tx == Append(s.tx, b)
           z == [s EXCEPT !.said = said, !.eof = eof, !.tx = tx]
<1>1. s \in ConnType /\ InStep(s) /\ s.tx \in Seq(Message)
  BY HoldersAre DEF ConnType
<1>2. tx \in Seq(Message) /\ Len(tx) = Len(s.tx) + 1 /\ tx[Len(s.tx) + 1] = b /\ Len(s.tx) \in Nat
  BY <1>1
<1>3. \A id : AllFor(s.tx, id) /\ b.id = id => AllFor(tx, id)
  <2>1. \A m \in 1..Len(s.tx) : tx[m] = s.tx[m]
    BY <1>1
  <2> HIDE DEF tx, s
  <2>2. QED
    BY <1>2, <2>1 DEF AllFor
<1> HIDE DEF tx
<1>4. /\ z \in ConnType /\ z.state = s.state /\ z.id = s.id /\ z.left = s.left
      /\ z.rx = s.rx /\ z.tx = tx /\ z.said = said
  BY <1>1, <1>2 DEF ConnType
<1>5. conn' = [conn EXCEPT ![o] = z]
  BY DEF tx
<1> HIDE DEF z
<1>6. Read(z) = Read(s)
  BY <1>4 DEF Read
<1>7. InStep(z)
  BY <1>1, <1>4, <1>6 DEF InStep
<1>8. ASSUME NEW c \in Clients, task[c].lease = o PROVE Serves(z, task[c])
  <2>1. Serves(s, task[c]) /\ task[c].at \in {"request", "exchange", "commit", "body"}
    BY <1>8, HoldersAre
  <2>2. task[c].at # "request"
    BY <2>1 DEF Serves, Quiet
  <2>3. CASE task[c].at = "exchange"
    <3>1. Answering(s, task[c]) /\ Ends(Read(s), s.rx, Written(task[c]))
      BY <2>1, <2>3 DEF Serves, Unread
    <3>2. AllFor(tx, task[c].id)
      BY <1>3, <3>1 DEF Answering
    <3>3. Script(tx, said)
      BY <3>1 DEF Answering, tx
    <3>4. Answering(z, task[c])
      BY <1>4, <3>1, <3>2, <3>3 DEF Answering
    <3>5. QED
      BY <1>4, <1>6, <2>3, <3>1, <3>4 DEF Serves
  <2>4. CASE task[c].at \in {"commit", "body"}
    <3>1. Finishing(s, task[c])
      BY <2>1, <2>4 DEF Serves
    <3>2. s.tx = <<>> /\ s.said \in Framings /\ s.id = task[c].id
      BY <3>1 DEF Finishing
    <3>3. Len(tx) = 1 /\ tx[1] = b /\ b.kind = "unit" /\ said = "done"
      BY <1>2, <3>2
    <3>4. Finishing(z, task[c])
      BY <1>4, <1>6, <3>1, <3>2, <3>3 DEF Finishing
    <3>5. QED
      BY <2>4, <3>4 DEF Serves
  <2>5. QED
    BY <2>1, <2>2, <2>3, <2>4
<1>9. QED
  BY <1>4, <1>5, <1>7, <1>8, ServerMoves

LEMMA MessageIs ==
  ASSUME NEW id \in AnyId, NEW kind \in {"info", "head", "unit"}, NEW framing \in Framings,
         NEW close \in BOOLEAN
  PROVE  LET b == [id |-> id, kind |-> kind, framing |-> framing, close |-> close] IN
         b \in Message /\ b.id = id /\ b.kind = kind /\ b.framing = framing
BY DEF Message

LEMMA OriginSaysGood ==
  ASSUME ClientHalf, OriginHalf, NEW o \in Origins,
         OriginInforms(o) \/ OriginAnswers(o) \/ OriginUnit(o)
  PROVE  OriginHalf'
<1> DEFINE s == conn[o]
           m(kind, framing, close) ==
             [id |-> s.id, kind |-> kind, framing |-> framing, close |-> close]
<1>1. s \in ConnType /\ s.tx \in Seq(Message) /\ s.said \in Sayings /\ s.id \in AnyId
  BY HoldersAre DEF ConnType
<1>2. ASSUME NEW kind \in {"info", "head", "unit"}, NEW framing \in Framings,
             NEW close \in BOOLEAN, NEW said \in Sayings, NEW eof \in BOOLEAN,
             Say(o, kind, framing, close, said, eof), s.said # "done",
             Script(s.tx, s.said) => Script(Append(s.tx, m(kind, framing, close)), said),
             s.said \in Framings => kind = "unit" /\ said = "done"
      PROVE  OriginHalf'
  <2> DEFINE b == m(kind, framing, close)
  <2>1. b \in Message /\ b.id = s.id /\ b.kind = kind
    BY <1>1, MessageIs
  <2>2. /\ UNCHANGED task /\ s.state = "leased"
        /\ conn' = [conn EXCEPT ![o] = [s EXCEPT !.said = said, !.eof = eof,
                                                 !.tx = Append(s.tx, b)]]
    BY <1>2 DEF Say
  <2>3. Script(s.tx, s.said) => Script(Append(s.tx, b), said)
    BY <1>2
  <2> HIDE DEF b
  <2>4. QED
    BY <1>2, <2>1, <2>2, <2>3, SayGood
<1>3. CASE OriginInforms(o)
  <2> DEFINE b == m("info", "none", FALSE)
  <2>1. Say(o, "info", "none", FALSE, "info", FALSE) /\ s.said = "nothing"
    BY <1>3 DEF OriginInforms
  <2>2. b \in Message /\ b.kind = "info"
    <3>1. "none" \in Framings /\ "info" \in {"info", "head", "unit"} /\ FALSE \in BOOLEAN
      BY DEF Framings
    <3>2. QED
      BY <1>1, <3>1, MessageIs
  <2>3. Script(s.tx, s.said) => Script(Append(s.tx, b), "info")
    <3> HIDE DEF b
    <3>1. QED
      BY <1>1, <2>1, <2>2, ScriptPush
  <2>4. "info" \in Sayings /\ "none" \in Framings /\ s.said \notin Framings
    BY <2>1 DEF Sayings, Framings
  <2>5. QED
    BY <1>2, <2>1, <2>3, <2>4
<1>4. CASE OriginAnswers(o)
  <2>1. PICK f \in Framings, close \in BOOLEAN :
          Say(o, "head", f, close, IF f = "none" THEN "done" ELSE f, FALSE)
    BY <1>4 DEF OriginAnswers
  <2> DEFINE b == m("head", f, close)  said == IF f = "none" THEN "done" ELSE f
  <2>2. b \in Message /\ b.kind = "head" /\ b.framing = f
    BY <1>1, MessageIs
  <2>3. s.said \in {"nothing", "info"}
    BY <1>4 DEF OriginAnswers
  <2>4. Script(s.tx, s.said) => Script(Append(s.tx, b), said)
    <3> HIDE DEF b
    <3>1. QED
      BY <1>1, <2>2, <2>3, ScriptPush
  <2>5. said \in Sayings /\ s.said \notin Framings
    BY <2>3 DEF Sayings, Framings
  <2> HIDE DEF said
  <2>6. Say(o, "head", f, close, said, FALSE)
    BY <2>1 DEF said
  <2>7. QED
    BY <1>2, <2>3, <2>4, <2>5, <2>6
<1>5. CASE OriginUnit(o)
  <2> DEFINE b == m("unit", "none", FALSE)  eof == s.said = "close"
  <2>1. Say(o, "unit", "none", FALSE, "done", eof) /\ s.said \in Framings
    BY <1>5 DEF OriginUnit
  <2>2. b \in Message /\ b.kind = "unit"
    BY <1>1, MessageIs DEF Framings
  <2>3. Script(s.tx, s.said) => Script(Append(s.tx, b), "done")
    <3> HIDE DEF b
    <3>1. QED
      BY <1>1, <2>1, <2>2, ScriptPush
  <2>4. "done" \in Sayings /\ "none" \in Framings /\ eof \in BOOLEAN /\ s.said # "done"
    BY <2>1 DEF Sayings, Framings
  <2> HIDE DEF eof
  <2>5. QED
    BY <1>2, <2>1, <2>3, <2>4
<1>6. QED
  BY <1>3, <1>4, <1>5

LEMMA OriginClosesGood ==
  ASSUME ClientHalf, OriginHalf, NEW o \in Origins, OriginCloses(o)
  PROVE  OriginHalf'
<1> DEFINE s == conn[o]  z == [s EXCEPT !.eof = TRUE]
<1>1. s \in ConnType /\ InStep(s)
  BY HoldersAre
<1>2. /\ z \in ConnType /\ z.state = s.state /\ z.id = s.id /\ z.left = s.left
      /\ z.rx = s.rx /\ z.tx = s.tx /\ z.said = s.said
  BY <1>1 DEF ConnType
<1>3. conn' = [conn EXCEPT ![o] = z] /\ UNCHANGED task
  BY DEF OriginCloses
<1> HIDE DEF z
<1>4. Read(z) = Read(s)
  BY <1>2 DEF Read
<1>5. InStep(z)
  BY <1>1, <1>2, <1>4 DEF InStep, Quiet
<1>6. ASSUME NEW c \in Clients, task[c].lease = o PROVE Serves(z, task[c])
  <2>1. Serves(s, task[c])
    BY <1>6, HoldersAre
  <2>2. QED
    BY <1>2, <1>4, <2>1 DEF Serves, Quiet, Unread, Answering, Finishing
<1>7. QED
  BY <1>2, <1>3, <1>5, <1>6, ServerMoves

LEMMA ConnsAre ==
  /\ Closed \in ConnType /\ InStep(Closed) /\ Closed.state = "closed"
  /\ NewConn \in ConnType /\ InStep(NewConn) /\ NewConn.state = "none"
<1>1. /\ NewConn \in ConnType /\ NewConn.state = "none" /\ NewConn.rx = <<>> /\ NewConn.tx = <<>>
      /\ NewConn.id = NoId /\ NewConn.left = 0 /\ NewConn.said = "done"
  BY DEF NewConn, ConnType, AnyId, Sayings
<1>2. /\ Closed \in ConnType /\ Closed.state = "closed" /\ Closed.rx = <<>>
      /\ Closed.id = NoId /\ Closed.left = 0
  BY <1>1 DEF Closed, ConnType
<1>3. Size(NoId) = 0 /\ Len(<<>>) = 0
  BY IdIs
<1>4. \A p : Chain(p, <<>>)
  BY <1>3 DEF Chain
<1>5. InStep(Closed)
  BY <1>2, <1>3, <1>4 DEF InStep
<1>6. Quiet(NewConn)
  <2>1. Read(NewConn).k = 0 /\ Read(NewConn).id = NoId
    BY <1>1, <1>3 DEF Read, Position
  <2>2. QED
    BY <1>1, <1>3, <2>1 DEF Quiet, NoHeads, EndsFull, At
<1>7. InStep(NewConn)
  BY <1>1, <1>3, <1>4, <1>6 DEF InStep
<1>8. QED
  BY <1>1, <1>2, <1>5, <1>7

LEMMA NextTask ==
  ASSUME ClientHalf, ClientHalf', NEW c \in Clients, NEW v, task' = [task EXCEPT ![c] = v]
  PROVE  v \in TaskType /\ Shape(c, v)
<1>1. task'[c] = v
  BY DEF ClientHalf
<1>2. QED
  BY <1>1 DEF ClientHalf

\* The origin of a task that gives it up is closed.
LEMMA DropGood ==
  ASSUME ClientHalf, ClientHalf', OriginHalf, NEW c \in Clients, NEW v, v.lease = None,
         task' = [task EXCEPT ![c] = v], conn' = Drop(task[c].lease)
  PROVE  OriginHalf'
<1>1. v \in TaskType /\ task[c].lease \in Origins \cup {None}
  BY NextTask DEF ClientHalf, TaskType
<1>2. CASE task[c].lease = None
  BY <1>2, NobodyMoves DEF Drop
<1>3. CASE task[c].lease # None
  <2> DEFINE o == task[c].lease
  <2>1. o \in Origins /\ conn' = [conn EXCEPT ![o] = Closed] /\ o # None
    BY <1>1, <1>3 DEF Drop
  <2> HIDE DEF o
  <2>2. task[c].lease = o
    BY DEF o
  <2>3. QED
    BY <1>1, <2>1, <2>2, ConnsAre, HolderMoves
<1>4. QED
  BY <1>2, <1>3

\* A task without an origin.
LEMMA AloneGood ==
  ASSUME ClientHalf, OriginHalf, NEW c \in Clients,
         ReadHead(c) \/ Drain(c) \/ \E reusable \in BOOLEAN : Own(c, reusable)
  PROVE  OriginHalf'
<1> DEFINE t == task[c]
<1>1. t \in TaskType /\ Shape(c, t) /\ t.at \in {"head", "drain", "routing"} /\ UNCHANGED conn
  BY HalfIs DEF ReadHead, Drain, Own
<1>2. t.lease = None
  BY <1>1 DEF Shape
<1>3. PICK v : task' = [task EXCEPT ![c] = v] /\ v.lease = None
  <2>1. CASE ReadHead(c)
    <3> DEFINE b == Head(client[c].up)
               v == [Fresh EXCEPT !.at = "routing", !.id = b.id, !.left = Body[b.id]]
    <3>1. task' = [task EXCEPT ![c] = v]
      BY <2>1 DEF ReadHead, Set
    <3>2. v.lease = None
      BY DEF Fresh
    <3>3. QED
      BY <3>1, <3>2
  <2>2. CASE Drain(c)
    <3> DEFINE v == [t EXCEPT !.at = "head", !.left = 0]  w == [t EXCEPT !.left = t.left - 1]
    <3>1. v.lease = None /\ w.lease = None
      BY <1>1, <1>2 DEF TaskType
    <3>2. task' = [task EXCEPT ![c] = v] \/ task' = [task EXCEPT ![c] = w]
      BY <2>2 DEF Drain, Set
    <3> HIDE DEF v, w
    <3>3. QED
      BY <3>1, <3>2
  <2>3. ASSUME NEW reusable \in BOOLEAN, Own(c, reusable)
        PROVE  \E v : task' = [task EXCEPT ![c] = v] /\ v.lease = None
    <3> DEFINE v == [t EXCEPT !.at = "commit", !.out = [Unanswered EXCEPT !.reusable = reusable]]
    <3>1. task' = [task EXCEPT ![c] = v]
      BY <2>3 DEF Own, Set
    <3>2. v.lease = None
      BY <1>1, <1>2 DEF TaskType
    <3>3. QED
      BY <3>1, <3>2
  <2>4. QED
    BY <2>1, <2>2, <2>3
<1>4. QED
  BY <1>1, <1>2, <1>3, NobodyMoves

LEMMA CheckoutHolds ==
  ASSUME ClientHalf, OriginHalf, NEW c \in Clients, NEW o \in Origins, Checkout(c, o)
  PROVE  OriginHalf'
<1> DEFINE t == task[c]  v == [t EXCEPT !.at = "request", !.lease = o]
           s == conn[o]  z == [s EXCEPT !.state = "leased"]
<1>1. t \in TaskType /\ Shape(c, t) /\ t.at = "routing" /\ s \in ConnType /\ InStep(s)
  BY HalfIs, HoldersAre DEF Checkout
<1>2. v \in TaskType /\ v.at = "request" /\ v.lease = o
  BY <1>1 DEF TaskType, Ats
<1>3. /\ z \in ConnType /\ z.state = "leased" /\ z.id = s.id /\ z.left = s.left
      /\ z.rx = s.rx /\ z.tx = s.tx /\ z.said = s.said
  BY <1>1 DEF ConnType
<1>4. conn' = [conn EXCEPT ![o] = z] /\ task' = [task EXCEPT ![c] = v]
        /\ s.state \in {"idle", "none"}
  BY DEF Checkout, Reused, Set
<1> HIDE DEF v, z
<1>5. Read(z) = Read(s)
  BY <1>3 DEF Read
<1>6. Quiet(s) /\ InStep(z)
  BY <1>1, <1>3, <1>4, <1>5 DEF InStep
<1>7. Serves(z, v)
  BY <1>2, <1>3, <1>5, <1>6 DEF Serves, Quiet
<1>8. t.lease = None
  BY <1>1 DEF Shape
<1> HIDE DEF t, s
<1>9. QED
  BY <1>2, <1>3, <1>4, <1>6, <1>7, <1>8, HolderMoves DEF t, s

LEMMA GivenUp ==
  ASSUME ClientHalf, ClientHalf', OriginHalf, NEW c \in Clients,
         OriginLost(c) \/ ClientLost(c) \/ BodyEnd(c) \/ Leave(c)
  PROVE  OriginHalf'
<1> DEFINE t == task[c]
<1>1. t \in TaskType
  BY HalfIs
<1>2. ASSUME NEW kind, Fail(c, kind) PROVE OriginHalf'
  <2> DEFINE v == [t EXCEPT !.at = "commit", !.lease = None, !.left = 0, !.unit = 0,
                            !.out = Failure(t.writer = "complete", kind)]
  <2>1. task' = [task EXCEPT ![c] = v] /\ conn' = Drop(t.lease)
    BY <1>2 DEF Fail, Set
  <2>2. v.lease = None
    BY <1>1 DEF TaskType
  <2> HIDE DEF v
  <2>3. QED
    BY <2>1, <2>2, DropGood
<1>3. After(t).lease = None /\ Over.lease = None
  BY DEF After, Drained, Over, Fresh
<1>4. CASE BodyEnd(c)
  <2>1. PICK v \in {After(t), Over} : task' = [task EXCEPT ![c] = v] /\ conn' = Drop(t.lease)
    BY <1>4 DEF BodyEnd, Set
  <2>2. QED
    BY <1>3, <2>1, DropGood
<1>5. CASE Leave(c)
  BY <1>3, <1>5, DropGood DEF Leave, Set
<1>6. QED
  BY <1>2, <1>4, <1>5 DEF OriginLost, ClientLost

\* A token is written to an origin that is held.
LEMMA TokenWritten ==
  ASSUME NEW s \in ConnType, InStep(s), s.state = "leased", NEW b \in Token,
         Follows(At(Read(s), s.rx, Len(s.rx)), b)
  PROVE  LET z == [s EXCEPT !.rx = Append(s.rx, b)] IN
         /\ z \in ConnType /\ InStep(z) /\ z.state = "leased" /\ z.rx = Append(s.rx, b)
         /\ z.id = s.id /\ z.tx = s.tx /\ z.said = s.said
         /\ At(Read(z), z.rx, Len(z.rx)) = b
<1> DEFINE z == [s EXCEPT !.rx = Append(s.rx, b)]  p == Read(s)
<1>1. /\ p \in Token /\ s.rx \in Seq(Token) /\ Chain(p, s.rx) /\ s.left <= Size(s.id)
  BY ReadIs DEF InStep
<1> HIDE DEF p
<1>2. /\ Append(s.rx, b) \in Seq(Token) /\ Len(Append(s.rx, b)) = Len(s.rx) + 1
      /\ At(p, Append(s.rx, b), Len(s.rx) + 1) = b /\ Chain(p, Append(s.rx, b))
  BY <1>1, Push DEF p
<1>3. /\ z \in ConnType /\ z.state = "leased" /\ z.id = s.id /\ z.left = s.left
      /\ z.rx = Append(s.rx, b) /\ z.tx = s.tx /\ z.said = s.said
  BY <1>2 DEF ConnType
<1> HIDE DEF z
<1>4. Read(z) = p
  BY <1>3 DEF Read, p
<1>5. InStep(z)
  BY <1>1, <1>2, <1>3, <1>4 DEF InStep
<1>6. At(Read(z), z.rx, Len(z.rx)) = b
  BY <1>2, <1>3, <1>4
<1>7. QED
  BY <1>3, <1>5, <1>6 DEF z

\* A task that holds an origin.
LEMMA HoldingIs ==
  ASSUME ClientHalf, OriginHalf, NEW c \in Clients,
         task[c].at \in {"request", "exchange", "body"} \/ task[c].lease # None
  PROVE  /\ task[c].lease \in Origins /\ task[c].lease # None
         /\ task[c] \in TaskType /\ Shape(c, task[c])
         /\ conn[task[c].lease] \in ConnType /\ InStep(conn[task[c].lease])
         /\ conn[task[c].lease].state = "leased" /\ Serves(conn[task[c].lease], task[c])
         /\ conn = [conn EXCEPT ![task[c].lease] = conn[task[c].lease]]
<1>1. /\ task[c] \in TaskType /\ Shape(c, task[c]) /\ task[c].lease \in Origins \cup {None}
      /\ conn \in [Origins -> ConnType]
  BY DEF ClientHalf, OriginHalf, TaskType
<1>2. task[c].lease # None
  BY <1>1 DEF Shape
<1>3. QED
  BY <1>1, <1>2 DEF OriginHalf, Leases

LEMMA WriteHeadHolds ==
  ASSUME ClientHalf, OriginHalf, NEW c \in Clients, WriteHead(c)
  PROVE  OriginHalf'
<1> DEFINE t == task[c]  o == t.lease  s == conn[o]  b == [id |-> t.id, k |-> 0]
           v == [t EXCEPT !.at = "exchange"]  z == [s EXCEPT !.rx = Append(s.rx, b)]
<1>1. /\ t \in TaskType /\ Shape(c, t) /\ t.at = "request" /\ o \in Origins /\ o # None
      /\ s \in ConnType /\ InStep(s) /\ s.state = "leased" /\ Serves(s, t)
      /\ conn' = [conn EXCEPT ![o] = z] /\ task' = [task EXCEPT ![c] = v]
  BY HoldingIs DEF WriteHead, Set
<1>2. /\ v \in TaskType /\ v.at = "exchange" /\ v.id = t.id /\ v.left = t.left
      /\ v.writer = t.writer /\ v.lease = o
  BY <1>1 DEF TaskType, Ats
<1>3. /\ t.id \in OwnIds(c) /\ t.left = Size(t.id) /\ t.writer = "need" /\ Size(t.id) \in Nat
  BY <1>1, IdIs DEF Shape, TaskType
<1>4. t.id \in Ids /\ t.id \in AnyId
  BY <1>3, OwnIdsAre DEF AnyId
<1>5. b \in Token /\ b.id = t.id /\ b.k = 0
  BY <1>4 DEF Token
<1>6. Quiet(s)
  BY <1>1 DEF Serves
<1> HIDE DEF v
<1>7. Written(v) = b
  <2>1. Size(t.id) - Size(t.id) = 0
    BY <1>3
  <2>2. QED
    BY <1>2, <1>3, <2>1 DEF Written, Position
<1> HIDE DEF b
<1>8. Follows(At(Read(s), s.rx, Len(s.rx)), b)
  <2> DEFINE q == At(Read(s), s.rx, Len(s.rx))
  <2>1. q \in Token /\ q.k = Size(q.id)
    <3>1. Read(s) \in Token /\ s.rx \in Seq(Token) /\ Chain(Read(s), s.rx) /\ Within(Read(s))
      BY <1>1, ReadIs
    <3>2. QED
      BY <1>6, <3>1, EndIs DEF Quiet, EndsFull
  <2> HIDE DEF q
  <2>2. Size(q.id) \in Nat
    BY <2>1, IdIs DEF Token
  <2>3. QED
    BY <1>4, <1>5, <2>1, <2>2 DEF Follows, q
<1>9. /\ z \in ConnType /\ InStep(z) /\ z.state = "leased" /\ z.rx = Append(s.rx, b)
      /\ z.tx = s.tx /\ z.said = s.said /\ At(Read(z), z.rx, Len(z.rx)) = b
  BY <1>1, <1>5, <1>8, TokenWritten
<1> HIDE DEF z
<1>10. OneHead(z.rx, t.id)
  BY <1>1, <1>5, <1>6, <1>9, HeadPush, ReadIs DEF Quiet
<1>11. Serves(z, v)
  BY <1>2, <1>6, <1>7, <1>9, <1>10 DEF Serves, Quiet, Unread, Ends
<1>12. t.lease = o
  OBVIOUS
<1> HIDE DEF t, o, s
<1>13. QED
  BY <1>1, <1>2, <1>9, <1>11, <1>12, HolderMoves DEF t

LEMMA StepDownstreamHolds ==
  ASSUME ClientHalf, OriginHalf, NEW c \in Clients, StepDownstream(c)
  PROVE  OriginHalf'
<1> DEFINE t == task[c]  s == conn[t.lease]  k == Head(client[c].up).k
           v == [t EXCEPT !.writer = "flush"]
           w == [t EXCEPT !.writer = "pending", !.left = t.left - 1, !.unit = k]
<1>1. /\ t \in TaskType /\ t.at = "exchange" /\ t.writer = "need" /\ Serves(s, t)
      /\ UNCHANGED conn /\ t.left \in Nat
  BY HoldingIs DEF StepDownstream, TaskType
<1>2. /\ v.at = "exchange" /\ v.id = t.id /\ v.left = t.left /\ v.writer = "flush"
      /\ v.lease = t.lease
  BY <1>1 DEF TaskType
<1>3. /\ w.at = "exchange" /\ w.id = t.id /\ w.left = t.left - 1 /\ w.writer = "pending"
      /\ w.lease = t.lease
  BY <1>1 DEF TaskType
<1> HIDE DEF v, w
<1>4. ASSUME NEW x, x.at = "exchange", x.id = t.id, x.lease = t.lease, Written(x) = Written(t),
             task' = [task EXCEPT ![c] = x]
      PROVE  OriginHalf'
  <2>1. Serves(s, x)
    BY <1>1, <1>4 DEF Serves, Unread, Answering
  <2>2. QED
    BY <1>1, <1>4, <2>1, NobodyMoves
<1>5. Written(v) = Written(t)
  BY <1>1, <1>2 DEF Written
<1>6. Written(w) = Written(t)
  <2>1. w.left + 1 = t.left
    BY <1>1, <1>3
  <2>2. QED
    BY <1>1, <1>3, <2>1 DEF Written
<1>7. task' = [task EXCEPT ![c] = v] \/ task' = [task EXCEPT ![c] = w]
  BY DEF StepDownstream, Set, v, w
<1>8. QED
  BY <1>2, <1>3, <1>4, <1>5, <1>6, <1>7

LEMMA StepUpstreamHolds ==
  ASSUME ClientHalf, OriginHalf, NEW c \in Clients, StepUpstream(c)
  PROVE  OriginHalf'
<1> DEFINE t == task[c]  o == t.lease  s == conn[o]  b == [id |-> t.id, k |-> t.unit]
           v == [t EXCEPT !.writer = "need", !.unit = 0]  w == [t EXCEPT !.writer = "complete"]
           z == [s EXCEPT !.rx = Append(s.rx, b)]
<1>1. /\ t \in TaskType /\ Shape(c, t) /\ t.at = "exchange" /\ o \in Origins /\ o # None
      /\ s \in ConnType /\ InStep(s) /\ s.state = "leased" /\ Serves(s, t)
      /\ t.left \in Nat /\ t.id \in AnyId
  BY HoldingIs DEF StepUpstream, TaskType
<1>2. CASE t.writer = "flush" /\ UNCHANGED conn /\ task' = [task EXCEPT ![c] = w]
  <2>1. /\ w.at = "exchange" /\ w.id = t.id /\ w.left = t.left /\ w.writer = "complete"
        /\ w.lease = o
    BY <1>1 DEF TaskType
  <2> HIDE DEF w
  <2>2. Written(w) = Written(t)
    BY <1>2, <2>1 DEF Written
  <2>3. Serves(s, w)
    BY <1>1, <2>1, <2>2 DEF Serves, Unread, Answering
  <2>4. QED
    BY <1>2, <2>1, <2>3, NobodyMoves
<1>3. CASE t.writer = "pending" /\ conn' = [conn EXCEPT ![o] = z] /\ task' = [task EXCEPT ![c] = v]
  <2>1. /\ t.left < Size(t.id) /\ t.unit = Size(t.id) - t.left /\ Size(t.id) \in Nat
    BY <1>1, <1>3, IdIs DEF Shape
  <2>2. /\ v \in TaskType /\ v.at = "exchange" /\ v.id = t.id /\ v.left = t.left
        /\ v.writer = "need" /\ v.lease = o
    BY <1>1 DEF TaskType, Writers
  <2>3. t.unit \in Nat /\ t.unit > 0
    BY <1>1, <2>1
  <2>4. b \in Token /\ b.id = t.id /\ b.k = t.unit
    BY <1>1, <2>3 DEF Token
  <2> HIDE DEF v
  <2>5. Written(v) = b
    BY <2>1, <2>2 DEF Written, Position
  <2> DEFINE q == At(Read(s), s.rx, Len(s.rx))
  <2>6. q = [id |-> t.id, k |-> Size(t.id) - (t.left + 1)]
    BY <1>1, <1>3 DEF Serves, Ends, Written, Position
  <2> HIDE DEF q
  <2>7. Follows(q, b)
    <3>1. q.k < Size(t.id) /\ q.k + 1 = t.unit
      BY <1>1, <2>1, <2>6
    <3>2. QED
      BY <2>6, <3>1 DEF Follows
  <2> HIDE DEF b
  <2>8. /\ z \in ConnType /\ InStep(z) /\ z.state = "leased" /\ z.rx = Append(s.rx, b)
        /\ z.id = s.id /\ z.tx = s.tx /\ z.said = s.said /\ At(Read(z), z.rx, Len(z.rx)) = b
    BY <1>1, <2>4, <2>7, TokenWritten DEF q
  <2> HIDE DEF z
  <2>9. /\ NoHeads(s.rx) => NoHeads(z.rx)
        /\ OneHead(s.rx, t.id) => OneHead(z.rx, t.id)
    BY <1>1, <2>3, <2>4, <2>8, NoHeadsPush, ReadIs
  <2>10. Serves(z, v)
    BY <1>1, <2>2, <2>5, <2>8, <2>9 DEF Serves, Unread, Answering, Ends
  <2>11. t.lease = o
    OBVIOUS
  <2> HIDE DEF t, o, s
  <2>12. QED
    BY <1>1, <1>3, <2>2, <2>8, <2>10, <2>11, HolderMoves DEF t
<1>4. QED
  BY <1>2, <1>3 DEF StepUpstream, Set

LEMMA InformHolds ==
  ASSUME ClientHalf, OriginHalf, NEW c \in Clients, Inform(c)
  PROVE  OriginHalf'
<1> DEFINE t == task[c]  o == t.lease  s == conn[o]  z == [s EXCEPT !.tx = Tail(s.tx)]
<1>1. /\ t \in TaskType /\ t.at = "exchange" /\ o \in Origins /\ s \in ConnType /\ InStep(s)
      /\ s.state = "leased" /\ Serves(s, t) /\ s.tx # <<>> /\ s.tx \in Seq(Message)
      /\ s.said \in Sayings /\ Head(s.tx).kind = "info"
      /\ conn' = [conn EXCEPT ![o] = z] /\ UNCHANGED task
  BY HoldingIs DEF Inform, ConnType
<1>2. Answering(s, t) /\ Ends(Read(s), s.rx, Written(t))
  BY <1>1 DEF Serves, Unread
<1>3. Tail(s.tx) \in Seq(Message) /\ Script(Tail(s.tx), s.said) /\ AllFor(Tail(s.tx), t.id)
  BY <1>1, <1>2, ScriptPop, AllForPop DEF Answering
<1>4. /\ z \in ConnType /\ z.state = s.state /\ z.id = s.id /\ z.left = s.left
      /\ z.rx = s.rx /\ z.tx = Tail(s.tx) /\ z.said = s.said
  BY <1>1, <1>3 DEF ConnType
<1> HIDE DEF z
<1>5. Read(z) = Read(s)
  BY <1>4 DEF Read
<1>6. InStep(z)
  BY <1>1, <1>4, <1>5 DEF InStep
<1>7. Serves(z, t)
  BY <1>1, <1>2, <1>3, <1>4, <1>5 DEF Serves, Answering
<1>8. ASSUME NEW d \in Clients, task[d].lease = o PROVE Serves(z, task[d])
  <2>1. o # None
    BY <1>1, BodyAssumption
  <2>2. d = c
    BY <1>8, <2>1 DEF OriginHalf, Leases
  <2>3. QED
    BY <1>7, <2>2
<1>9. z.state = conn[o].state
  BY <1>4
<1> HIDE DEF o, s, t
<1>10. QED
  BY <1>1, <1>4, <1>6, <1>8, <1>9, ServerMoves

\* The head that comes is the head of the response to the request.
LEMMA HeadIs ==
  ASSUME ClientHalf, OriginHalf, NEW c \in Clients, ResponseHead(c)
  PROVE  LET t == task[c]
             s == conn[t.lease]
             h == Head(s.tx)
         IN
         /\ h \in Message /\ h.id = t.id /\ s.id = t.id /\ NoHeads(s.rx)
         /\ Ends(Read(s), s.rx, Written(t)) /\ Tail(s.tx) \in Seq(Message)
         /\ h.framing = "none" => Tail(s.tx) = <<>> /\ s.said = "done"
         /\ h.framing # "none" =>
              \/ Tail(s.tx) = <<>> /\ s.said \in Framings
              \/ /\ Len(Tail(s.tx)) = 1 /\ Tail(s.tx)[1].kind = "unit"
                 /\ Tail(s.tx)[1].id = t.id /\ s.said = "done"
<1> DEFINE t == task[c]  s == conn[t.lease]  h == Head(s.tx)
<1>1. /\ t \in TaskType /\ t.at = "exchange" /\ s \in ConnType /\ Serves(s, t) /\ s.tx # <<>>
      /\ s.tx \in Seq(Message) /\ s.said \in Sayings /\ h.kind = "head"
  BY HoldingIs DEF ResponseHead, ConnType
<1>2. Answering(s, t) /\ Ends(Read(s), s.rx, Written(t))
  BY <1>1 DEF Serves, Unread
<1>3. h.id = t.id
  BY <1>1, <1>2, AllForPop DEF Answering
<1>4. /\ h \in Message /\ Tail(s.tx) \in Seq(Message)
      /\ h.framing = "none" => Tail(s.tx) = <<>> /\ s.said = "done"
      /\ h.framing # "none" =>
           \/ Tail(s.tx) = <<>> /\ s.said \in Framings
           \/ Len(Tail(s.tx)) = 1 /\ Tail(s.tx)[1] = s.tx[2] /\ 2 \in 1..Len(s.tx)
                /\ Tail(s.tx)[1].kind = "unit" /\ s.said = "done"
  BY <1>1, <1>2, ScriptPop DEF Answering
<1>5. 2 \in 1..Len(s.tx) => s.tx[2].id = t.id
  BY <1>2 DEF Answering, AllFor
<1>6. s.id = t.id /\ NoHeads(s.rx)
  BY <1>2 DEF Answering
<1> HIDE DEF t, s, h
<1>7. QED
  BY <1>2, <1>3, <1>4, <1>5, <1>6 DEF t, s, h

LEMMA HeadsAreOwn ==
  ASSUME ClientHalf, OriginHalf PROVE \A c \in Clients : HeadIsOwn(c)
BY HeadIs DEF HeadIsOwn

\* An origin that is given back is quiet.
LEMMA ReleaseIs ==
  ASSUME NEW s \in ConnType, InStep(s), NoHeads(s.rx), s.said = "done",
         EndsFull(Read(s), s.rx)
  PROVE  LET z == [s EXCEPT !.state = "idle", !.tx = <<>>] IN
         z \in ConnType /\ InStep(z) /\ z.state = "idle"
<1> DEFINE z == [s EXCEPT !.state = "idle", !.tx = <<>>]
<1>1. /\ z \in ConnType /\ z.state = "idle" /\ z.id = s.id /\ z.left = s.left
      /\ z.rx = s.rx /\ z.tx = <<>> /\ z.said = s.said
  <2>1. <<>> \in Seq(Message) /\ "idle" \in {"none", "leased", "idle", "closed"}
    OBVIOUS
  <2>2. /\ z.state = "idle" /\ z.id = s.id /\ z.left = s.left /\ z.rx = s.rx
        /\ z.tx = <<>> /\ z.said = s.said
    BY DEF ConnType
  <2>3. z \in ConnType
    BY <2>1 DEF ConnType
  <2>4. QED
    BY <2>2, <2>3
<1> HIDE DEF z
<1>2. Read(z) = Read(s)
  BY <1>1 DEF Read
<1>3. InStep(z)
  BY <1>1, <1>2 DEF InStep, Quiet
<1>4. QED
  BY <1>1, <1>3 DEF z

LEMMA ReleaseGood ==
  ASSUME ClientHalf, ClientHalf', OriginHalf, NEW c \in Clients, NEW v, v.lease = None,
         task[c].lease # None, task' = [task EXCEPT ![c] = v], NEW poolable \in BOOLEAN,
         conn' = Release(task[c].lease, <<>>, poolable),
         LET s == conn[task[c].lease] IN
           poolable => NoHeads(s.rx) /\ s.said = "done" /\ EndsFull(Read(s), s.rx)
  PROVE  OriginHalf'
<1> DEFINE o == task[c].lease  s == conn[o]  z == [s EXCEPT !.state = "idle", !.tx = <<>>]
<1>1. o \in Origins /\ o # None /\ s \in ConnType /\ InStep(s)
  BY HoldingIs
<1>2. v \in TaskType /\ task[c].lease = o
  BY NextTask
<1>3. CASE ~(poolable /\ shutdown = "no")
  <2>1. conn' = [conn EXCEPT ![o] = Closed]
    BY <1>3 DEF Release
  <2> HIDE DEF o
  <2>2. QED
    BY <1>1, <1>2, <2>1, ConnsAre, HolderMoves
<1>4. CASE poolable /\ shutdown = "no"
  <2>1. conn' = [conn EXCEPT ![o] = z]
    BY <1>4 DEF Release
  <2>2. z \in ConnType /\ InStep(z) /\ z.state = "idle"
    BY <1>1, <1>4, ReleaseIs
  <2> HIDE DEF o, z
  <2>3. QED
    BY <1>1, <1>2, <2>1, <2>2, HolderMoves
<1>5. QED
  BY <1>3, <1>4

LEMMA ResponseHeadHolds ==
  ASSUME ClientHalf, ClientHalf', OriginHalf, NEW c \in Clients, ResponseHead(c)
  PROVE  OriginHalf'
<1> DEFINE t == task[c]  o == t.lease  s == conn[o]  h == Head(s.tx)  rest == Tail(s.tx)
           out == [from |-> h.id, framing |-> h.framing, poolable |-> Poolable(t, h),
                   consumed |-> Reusable(t), reusable |-> Reusable(t)]
           lease == IF h.framing = "none" THEN None ELSE o
           v == Commits(t, lease, out)
           z == [s EXCEPT !.tx = rest]
<1>1. /\ t \in TaskType /\ Shape(c, t) /\ t.at = "exchange" /\ o \in Origins /\ o # None
      /\ s \in ConnType /\ InStep(s) /\ s.state = "leased"
  BY HoldingIs DEF ResponseHead
<1>2. /\ h \in Message /\ h.id = t.id /\ s.id = t.id /\ NoHeads(s.rx)
      /\ Ends(Read(s), s.rx, Written(t)) /\ rest \in Seq(Message)
      /\ h.framing = "none" => rest = <<>> /\ s.said = "done"
      /\ h.framing # "none" =>
           \/ rest = <<>> /\ s.said \in Framings
           \/ /\ Len(rest) = 1 /\ rest[1].kind = "unit" /\ rest[1].id = t.id
              /\ s.said = "done"
  BY HeadIs
<1>3. task' = [task EXCEPT ![c] = v]
  BY DEF ResponseHead, Set, Commits
<1>4. conn' = IF h.framing = "none" THEN Release(o, rest, Poolable(t, h))
              ELSE [conn EXCEPT ![o] = z]
  BY DEF ResponseHead
<1>5. Poolable(t, h) \in BOOLEAN /\ Reusable(t) \in BOOLEAN
  BY <1>2 DEF Poolable, Reusable, Message
<1>6. ASSUME Poolable(t, h) PROVE EndsFull(Read(s), s.rx)
  <2>1. t.left = 0 /\ t.writer = "complete" /\ Size(t.id) \in Nat
    BY <1>1, <1>6, IdIs DEF Shape, Poolable, TaskType
  <2>2. Written(t) = [id |-> t.id, k |-> Size(t.id)]
    BY <2>1 DEF Written, Position
  <2>3. At(Read(s), s.rx, Len(s.rx)) = [id |-> t.id, k |-> Size(t.id)]
    BY <1>2, <2>2 DEF Ends
  <2> DEFINE q == At(Read(s), s.rx, Len(s.rx))
  <2> HIDE DEF q
  <2>4. q.k = Size(q.id)
    BY <2>3 DEF q
  <2>5. QED
    BY <2>4 DEF EndsFull, q
<1>7. out \in Outs /\ out.poolable = Poolable(t, h)
  BY <1>2, <1>5 DEF Outs, Message
<1>8. lease \in Origins \cup {None}
  BY <1>1
<1> HIDE DEF out, h, rest
<1>9. v \in TaskType /\ v.at = "commit" /\ v.out = out /\ v.id = t.id /\ v.lease = lease
  <2> HIDE DEF lease
  <2>1. QED
    BY <1>1, <1>7, <1>8, CommitsIs
<1> HIDE DEF v
<1>10. CASE h.framing = "none"
  <2>1. conn' = Release(o, <<>>, Poolable(t, h)) /\ s.said = "done" /\ v.lease = None
    BY <1>2, <1>4, <1>9, <1>10
  <2>2. Poolable(t, h) => NoHeads(s.rx) /\ s.said = "done" /\ EndsFull(Read(s), s.rx)
    BY <1>2, <1>6, <2>1
  <2>3. QED
    BY <1>1, <1>3, <1>5, <2>1, <2>2, ReleaseGood
<1>11. CASE h.framing # "none"
  <2>1. /\ z \in ConnType /\ z.state = "leased" /\ z.id = s.id /\ z.left = s.left
        /\ z.rx = s.rx /\ z.tx = rest /\ z.said = s.said
    BY <1>1, <1>2 DEF ConnType
  <2>2. conn' = [conn EXCEPT ![o] = z] /\ v.lease = o
    BY <1>4, <1>9, <1>11
  <2> HIDE DEF z
  <2>3. Read(z) = Read(s)
    BY <2>1 DEF Read
  <2>4. InStep(z)
    BY <1>1, <2>1, <2>3 DEF InStep
  <2>5. Finishing(z, v)
    BY <1>2, <1>6, <1>7, <1>9, <1>11, <2>1, <2>3 DEF Finishing
  <2>6. Serves(z, v)
    BY <1>9, <2>5 DEF Serves
  <2>7. task[c].lease = o
    OBVIOUS
  <2> HIDE DEF t, o, s
  <2>8. QED
    BY <1>1, <1>3, <1>9, <2>1, <2>2, <2>4, <2>6, <2>7, HolderMoves
<1>12. QED
  BY <1>10, <1>11

LEMMA CommitHolds ==
  ASSUME ClientHalf, ClientHalf', OriginHalf, NEW c \in Clients, Commit(c)
  PROVE  OriginHalf'
<1> DEFINE t == task[c]  s == conn[t.lease]  b == [t EXCEPT !.at = "body"]
<1>1. t \in TaskType /\ t.at = "commit" /\ UNCHANGED conn
  BY HalfIs DEF Commit
<1>2. CASE t.lease = None
  <2>1. task' = [task EXCEPT ![c] = After(t)] /\ After(t).lease = None
    BY <1>2 DEF Commit, Set, After, Drained, Over, Fresh
  <2>2. QED
    BY <1>1, <1>2, <2>1, NobodyMoves
<1>3. CASE t.lease # None
  <2>1. task' = [task EXCEPT ![c] = b]
    BY <1>3 DEF Commit, Set
  <2>2. b.at = "body" /\ b.id = t.id /\ b.lease = t.lease /\ b.out = t.out
    BY <1>1 DEF TaskType
  <2> HIDE DEF b
  <2>3. Serves(s, t)
    BY <1>3, HoldingIs
  <2>4. Serves(s, b)
    BY <1>1, <2>2, <2>3 DEF Serves, Finishing
  <2>5. QED
    BY <1>1, <2>1, <2>2, <2>4, NobodyMoves
<1>4. QED
  BY <1>2, <1>3

LEMMA BodyUnitHolds ==
  ASSUME ClientHalf, ClientHalf', OriginHalf, NEW c \in Clients, BodyUnit(c)
  PROVE  OriginHalf'
<1> DEFINE t == task[c]  s == conn[t.lease]
           poolable == t.out.poolable /\ t.out.framing # "trailers"
<1>1. /\ t \in TaskType /\ t.at = "body" /\ t.lease # None /\ s \in ConnType /\ InStep(s)
      /\ Serves(s, t) /\ s.tx # <<>> /\ s.tx \in Seq(Message)
  BY HoldingIs DEF BodyUnit, ConnType
<1>2. Finishing(s, t)
  BY <1>1 DEF Serves
<1>3. Len(s.tx) = 1 /\ s.said = "done" /\ NoHeads(s.rx)
  BY <1>1, <1>2 DEF Finishing
<1>4. Tail(s.tx) = <<>>
  <2> DEFINE tx == s.tx  rest == Tail(tx)
  <2>1. tx \in Seq(Message) /\ tx # <<>> /\ Len(tx) = 1
    BY <1>1, <1>3
  <2> HIDE DEF tx
  <2>2. rest \in Seq(Message) /\ Len(rest) = 0
    BY <2>1
  <2> HIDE DEF rest
  <2>3. rest = <<>>
    BY <2>2
  <2>4. QED
    BY <2>3 DEF tx, rest
<1>5. conn' = Release(t.lease, <<>>, poolable) /\ task' = [task EXCEPT ![c] = After(t)]
  BY <1>4 DEF BodyUnit, Set
<1>6. After(t).lease = None
  BY DEF After, Drained, Over, Fresh
<1>7. poolable => EndsFull(Read(s), s.rx)
  BY <1>2 DEF Finishing
<1>8. poolable \in BOOLEAN
  BY <1>1 DEF TaskType, Outs
<1> HIDE DEF poolable
<1>9. QED
  BY <1>1, <1>3, <1>5, <1>6, <1>7, <1>8, ReleaseGood

LEMMA StopHolds ==
  ASSUME ClientHalf, OriginHalf, Stop
  PROVE  OriginHalf'
<1>1. /\ conn' = [o \in Origins |-> IF conn[o].state = "idle" THEN Closed ELSE conn[o]]
      /\ UNCHANGED task
  BY DEF Stop
<1>2. \A o \in Origins : conn[o] \in ConnType /\ InStep(conn[o])
  BY HoldersAre
<1>3. conn' \in [Origins -> ConnType] /\ \A o \in Origins : InStep(conn'[o])
  BY <1>1, <1>2, ConnsAre
<1>4. \A o \in Origins : /\ conn[o].state = "leased" => conn'[o] = conn[o]
                         /\ conn'[o].state = "leased" => conn[o].state = "leased"
  BY <1>1, ConnsAre
<1>5. \A c \in Clients : task[c].lease # None =>
        task[c].lease \in Origins /\ conn[task[c].lease].state = "leased"
  BY HoldingIs
<1>6. \A c \in Clients : task[c].lease # None => conn'[task[c].lease] = conn[task[c].lease]
  BY <1>4, <1>5
<1>7. Held' = Held
  BY <1>4 DEF Held
<1>8. Leases'
  BY <1>1, <1>5, <1>6, <1>7 DEF OriginHalf, Leases
<1>9. \A c \in Clients : task'[c].lease # None => Serves(conn'[task'[c].lease], task'[c])
  BY <1>1, <1>6 DEF OriginHalf
<1>10. QED
  BY <1>3, <1>8, <1>9 DEF OriginHalf

LEMMA OriginHalfStep ==
  ASSUME ClientHalf, ClientHalf', OriginHalf, [Next]_vars
  PROVE  OriginHalf'
<1>1. CASE UNCHANGED <<task, conn>>
  BY <1>1 DEF OriginHalf, Leases, Held
<1>2. ASSUME NEW c \in Clients, Work(c) PROVE OriginHalf'
  <2>1. CASE ReadHead(c) \/ Drain(c) \/ \E reusable \in BOOLEAN : Own(c, reusable)
    BY <2>1, AloneGood
  <2>2. CASE \E o \in Origins : Checkout(c, o)
    BY <2>2, CheckoutHolds
  <2>3. CASE OriginLost(c) \/ ClientLost(c) \/ BodyEnd(c) \/ Leave(c)
    BY <2>3, GivenUp
  <2>4. CASE WriteHead(c) \/ StepDownstream(c) \/ StepUpstream(c) \/ Inform(c)
    BY <2>4, WriteHeadHolds, StepDownstreamHolds, StepUpstreamHolds, InformHolds
  <2>5. CASE ResponseHead(c) \/ Commit(c) \/ BodyUnit(c)
    BY <2>5, ResponseHeadHolds, CommitHolds, BodyUnitHolds
  <2>6. QED
    BY <1>2, <2>1, <2>2, <2>3, <2>4, <2>5 DEF Work
<1>3. ASSUME NEW o \in Origins, Serving(o) \/ OriginInforms(o) \/ OriginCloses(o)
      PROVE  OriginHalf'
  BY <1>3, OriginReadGood, OriginSaysGood, OriginClosesGood DEF Serving
<1>4. ASSUME NEW c \in Clients, ClientHead(c) \/ ClientUnit(c) \/ Impatient(c) \/ ClientGoes(c)
      PROVE  UNCHANGED <<task, conn>>
  BY <1>4 DEF ClientHead, ClientUnit, Impatient, SendUnit, ClientGoes
<1>5. QED
  BY <1>1, <1>2, <1>3, <1>4, StopHolds DEF Next, vars

LEMMA OriginHalfInit == ASSUME Init PROVE OriginHalf
<1>1. \A c \in Clients : task[c].lease = None
  BY StartIs DEF Init
<1>2. /\ conn \in [Origins -> ConnType]
      /\ \A o \in Origins : conn[o] = NewConn /\ InStep(conn[o]) /\ conn[o].state = "none"
  BY ConnsAre DEF Init
<1>3. Held = {}
  BY <1>2 DEF Held
<1>4. QED
  BY <1>1, <1>2, <1>3 DEF OriginHalf, Leases

-----------------------------------------------------------------------------
(* The inductive invariant.                                                *)

IInv == ClientHalf /\ OriginHalf

LEMMA Invariant == Spec => []IInv
<1>1. Init => IInv
  BY ClientHalfInit, OriginHalfInit DEF IInv
<1>2. IInv /\ [Next]_vars => IInv'
  BY HeadsAreOwn, ClientHalfStep, OriginHalfStep DEF IInv
<1>3. QED
  BY <1>1, <1>2, PTL DEF Spec

(* After early responses, failures, bodies that were drained or never sent *)
(* the proxy reads the next request head where one begins, and a body      *)
(* where the body goes on: serve_connection keeps a connection only when   *)
(* the body was consumed or can be drained (drain_http1_body, exchange).   *)
THEOREM BoundariesAreKept == Spec => []KeepsBoundaries
<1>1. IInv => KeepsBoundaries
  <2>1. ASSUME IInv, NEW c \in Clients, client[c].up # <<>>,
               task[c].at \in {"head", "exchange", "drain"}
        PROVE  /\ task[c].left > 0 =>
                    Head(client[c].up) =
                      [id |-> task[c].id, k |-> Body[task[c].id] - task[c].left + 1]
               /\ task[c].at = "head" => Head(client[c].up).k = 0
    <3> DEFINE t == task[c]  s == client[c]
    <3>1. s \in ClientType /\ t \in TaskType /\ Shape(c, t) /\ Sent(c, s, t) /\ ~Doomed(t)
      BY <2>1, HalfIs DEF IInv, ClientGood, Doomed
    <3>2. /\ t.left > 0 => Head(s.up) = [id |-> t.id, k |-> Size(t.id) - t.left + 1]
          /\ t.left = 0 => Head(s.up).k = 0
      BY <2>1, <3>1, NextIs
    <3>3. t.at = "head" => t.left = 0
      BY <3>1 DEF Shape
    <3>4. t.left > 0 => Size(t.id) = Body[t.id]
      <4>1. t.at # "head" /\ t.at # "closed" => t.id \in OwnIds(c)
        BY <3>1 DEF Shape
      <4>2. t.left > 0 => t.id \in Ids
        BY <2>1, <3>3, <4>1, OwnIdsAre
      <4>3. QED
        BY <4>2 DEF Size
    <3>5. QED
      BY <3>2, <3>3, <3>4
  <2>2. QED
    BY <2>1 DEF KeepsBoundaries, HeadsAreHeads, BodiesAreBodies
<1>2. QED
  BY <1>1, Invariant, PTL

(* An origin connection is lent to one client after the other, and each    *)
(* gets the response to its own request: put_if_reusable takes back only a *)
(* connection on which a request was written to the end and its response   *)
(* was read to the end, and no two tasks hold the same one.                *)
THEOREM OriginsStayClean == Spec => []OriginsAreClean
<1>1. ASSUME IInv PROVE TypeOK
  <2>1. \A c \in Clients : task[c] \in TaskType /\ Shape(c, task[c])
    BY <1>1 DEF IInv, ClientHalf
  <2>2. \A c \in Clients : task[c].lease # None => task[c].lease \in Held
    BY <1>1, HoldingIs DEF IInv, Held
  <2>3. \A o \in Origins : conn[o].state \in {"none", "leased", "idle", "closed"}
    BY <1>1 DEF IInv, OriginHalf, ConnType
  <2>4. QED
    BY <2>1, <2>2, <2>3 DEF TypeOK, TaskType, Ats, Shape
<1>2. ASSUME IInv PROVE OriginInStep
  <2>1. SUFFICES ASSUME NEW o \in Origins, conn[o].rx # <<>>
                 PROVE  IF conn[o].left > 0
                        THEN Head(conn[o].rx).id = conn[o].id /\ Head(conn[o].rx).k > 0
                        ELSE Head(conn[o].rx).k = 0
    BY DEF OriginInStep, Held
  <2> DEFINE s == conn[o]  p == Read(s)  b == Head(s.rx)
  <2>2. /\ p \in Token /\ p.id = s.id /\ p.k = Size(s.id) - s.left /\ s.left \in 0..Size(s.id)
        /\ Size(s.id) \in Nat /\ s.rx \in Seq(Token) /\ Chain(p, s.rx)
    BY <1>2, HoldersAre, ReadIs DEF IInv
  <2> HIDE DEF p
  <2>3. Follows(p, b)
    BY <2>1, <2>2, Pop
  <2> HIDE DEF s, b
  <2>4. IF s.left > 0 THEN b.id = s.id /\ b.k > 0 ELSE b.k = 0
    <3>1. CASE s.left > 0
      <4>1. p.k < Size(p.id)
        BY <2>2, <3>1
      <4>2. b = [id |-> p.id, k |-> p.k + 1] /\ p.k \in Nat
        BY <2>2, <2>3, <4>1 DEF Follows
      <4>3. QED
        BY <2>2, <3>1, <4>2
    <3>2. CASE s.left = 0
      BY <2>2, <2>3, <3>2 DEF Follows
    <3>3. QED
      BY <2>2, <3>1, <3>2
  <2>5. QED
    BY <2>4 DEF s, b
<1>3. ASSUME IInv PROVE AnswersItsRequest
  <2>1. ASSUME NEW c \in Clients, task[c].at \in {"commit", "body"}
        PROVE  task[c].out.from \in {NoId, task[c].id}
    BY <1>3, <2>1 DEF IInv, ClientHalf, Shape
  <2>2. ASSUME NEW c \in Clients, task[c].at = "body", conn[task[c].lease].tx # <<>>
        PROVE  /\ Head(conn[task[c].lease].tx).id = task[c].id
               /\ Head(conn[task[c].lease].tx).kind = "unit"
    <3> DEFINE tx == conn[task[c].lease].tx
    <3>1. Finishing(conn[task[c].lease], task[c]) /\ tx \in Seq(Message)
      BY <1>3, <2>2, HoldingIs DEF IInv, Serves, ConnType
    <3>2. tx[1].kind = "unit" /\ tx[1].id = task[c].id
      BY <2>2, <3>1 DEF Finishing
    <3>3. tx # <<>>
      BY <2>2
    <3> HIDE DEF tx
    <3>4. Head(tx) = tx[1]
      BY <3>1, <3>3
    <3>5. QED
      BY <3>2, <3>4 DEF tx
  <2>3. QED
    BY <2>1, <2>2 DEF AnswersItsRequest
<1>4. ASSUME IInv PROVE IdleIsClean
  BY <1>4 DEF IInv, OriginHalf, Leases, InStep, Quiet, IdleIsClean
<1>5. IInv => OriginsAreClean
  BY <1>1, <1>2, <1>3, <1>4 DEF OriginsAreClean
<1>6. QED
  BY <1>5, Invariant, PTL

------------------------------------------------------------------------------
(* The pool of idle connections (IdlePool).                                *)

Entry == [key : Keys, value : Values, since : Nat, sequence : Nat, age : Nat]

PoolTyped ==
  /\ \A e \in entries : e \in Entry /\ e.since <= now /\ e.sequence < Width /\ e.age < puts
  /\ IsFiniteSet(entries) /\ Cardinality(entries) <= Capacity
  /\ next \in Nat /\ next < Width
  /\ puts \in Nat /\ now \in Nat /\ now <= Horizon
  /\ closed \in {"no", "yes"}
  /\ live \subseteq Values /\ judged \subseteq Users
  /\ hand \in [Users -> SUBSET Values]

\* One entry of a key, one place for a value, one value in a hand.
Owned ==
  /\ \A e, f \in entries : e.key = f.key \/ e.value = f.value \/ e.age = f.age => e = f
  /\ \A u \in Users : \A v, w \in hand[u] : v = w
  /\ \A u \in Users : \A e \in entries : e.value \notin hand[u]
  /\ \A u, w \in Users : u # w => hand[u] \cap hand[w] = {}

\* The sequence numbers are the ages as long as the counter has not wrapped.
InSequence ==
  /\ puts < Width => next = puts
  /\ puts <= Width => \A e \in entries : e.sequence = e.age

PoolInv == PoolTyped /\ Owned /\ InSequence /\ (closed = "yes" => entries = {})

LEMMA CardinalityIs == ASSUME NEW S PROVE Pool!Cardinality(S) = Cardinality(S)
BY DEF Pool!Cardinality, Cardinality

LEMMA SizesAre ==
  /\ Capacity \in Nat /\ Capacity >= 1 /\ Width \in Nat /\ Width >= 1 /\ Horizon \in Nat /\ Lifetime \in Nat
BY PoolAssumption DEF Pool!PoolAssumption

\* A set with at most one member.
LEMMA OneAtMost ==
  ASSUME NEW S, \A v, w \in S : v = w
  PROVE  Pool!Cardinality(S) <= 1
<1>1. CASE S = {}
  BY <1>1, FS_EmptySet, CardinalityIs
<1>2. CASE S # {}
  <2>1. PICK v : v \in S
    BY <1>2
  <2>2. S = {v}
    BY <2>1
  <2>3. Cardinality(S) = 1
    BY <2>2, FS_Singleton
  <2>4. QED
    BY <2>3, CardinalityIs
<1>3. QED
  BY <1>1, <1>2

LEMMA PoolInvMeans == ASSUME PoolInv PROVE Pool!TypeOK /\ Pool!OneOwner /\ Pool!Bounded
<1>1. Pool!TypeOK
  <2>1. next \in 0..Width - 1 /\ now \in 0..Horizon
    BY SizesAre DEF PoolInv, PoolTyped
  <2>2. ASSUME NEW e \in entries
        PROVE  e \in [key : Keys, value : Values, since : 0..now, sequence : 0..Width - 1, age : 0..puts]
    <3>1. e \in Entry /\ e.since <= now /\ e.sequence < Width /\ e.age < puts /\ puts \in Nat /\ now \in Nat
      BY DEF PoolInv, PoolTyped
    <3>2. e.since \in 0..now /\ e.sequence \in 0..Width - 1 /\ e.age \in 0..puts
      BY <3>1, SizesAre DEF Entry
    <3>3. QED
      BY <3>1, <3>2 DEF Entry
  <2>3. QED
    BY <2>1, <2>2 DEF PoolInv, PoolTyped, Pool!TypeOK
<1>2. Pool!OneOwner
  BY OneAtMost DEF PoolInv, Owned, Pool!OneOwner
<1>3. Pool!Bounded
  BY CardinalityIs DEF PoolInv, PoolTyped, Pool!Bounded
<1>4. QED
  BY <1>1, <1>2, <1>3

LEMMA PoolInvInit == ASSUME Pool!Init PROVE PoolInv
BY SizesAre, FS_EmptySet DEF Pool!Init, PoolInv, PoolTyped, Owned, InSequence

\* Entries that only leave do no harm.
LEMMA EntriesLeave ==
  ASSUME PoolInv, entries' \subseteq entries, UNCHANGED <<next, puts>>,
         closed' \in {"no", "yes"}, closed' = "yes" => entries' = {} \/ closed = "yes",
         now' \in Nat, now <= now', now' <= Horizon, live' \subseteq Values, judged' \subseteq Users,
         hand' \in [Users -> SUBSET Values],
         \A u \in Users : \A v, w \in hand'[u] : v = w,
         \A u \in Users : \A e \in entries' : e.value \notin hand'[u],
         \A u, w \in Users : u # w => hand'[u] \cap hand'[w] = {}
  PROVE  PoolInv'
<1>1. IsFiniteSet(entries') /\ Cardinality(entries') <= Capacity
  <2>1. IsFiniteSet(entries) /\ Cardinality(entries) <= Capacity
    BY DEF PoolInv, PoolTyped
  <2>2. IsFiniteSet(entries') /\ Cardinality(entries') <= Cardinality(entries)
    BY <2>1, FS_Subset
  <2>3. Cardinality(entries) \in Nat /\ Cardinality(entries') \in Nat
    BY <2>1, <2>2, FS_CardinalityType
  <2>4. QED
    BY <2>1, <2>2, <2>3, SizesAre
<1>2. \A e \in entries' : e \in Entry /\ e.since <= now' /\ e.sequence < Width /\ e.age < puts'
  <2> SUFFICES ASSUME NEW e \in entries'
               PROVE  e \in Entry /\ e.since <= now' /\ e.sequence < Width /\ e.age < puts'
    OBVIOUS
  <2>1. e \in Entry /\ e.since <= now /\ e.sequence < Width /\ e.age < puts /\ now \in Nat
    BY DEF PoolInv, PoolTyped
  <2>2. e.since \in Nat
    BY <2>1 DEF Entry
  <2>3. QED
    BY <2>1, <2>2
<1>3. PoolTyped'
  BY <1>1, <1>2 DEF PoolInv, PoolTyped
<1>4. Owned'
  BY DEF PoolInv, Owned
<1>5. InSequence'
  BY DEF PoolInv, InSequence
<1>6. QED
  BY <1>3, <1>4, <1>5 DEF PoolInv

LEMMA LeastIs ==
  ASSUME NEW T \in SUBSET Nat, T # {}
  PROVE  \E n \in T : \A m \in T : n <= m
<1>1. PICK n \in T : \A m \in T : ~ (<<m, n>> \in OpToRel(<, Nat))
  BY WFMin, NatLessThanWellFounded, Zenon
<1>2. ASSUME NEW m \in T PROVE n <= m
  <2>1. m \in Nat /\ n \in Nat
    OBVIOUS
  <2>2. m < n => <<m, n>> \in OpToRel(<, Nat)
    BY <2>1 DEF OpToRel
  <2>3. ~ (m < n)
    BY <1>1, <2>2, Zenon
  <2>4. QED
    BY <2>1, <2>3
<1>3. QED
  BY <1>2

LEMMA OldestIs ==
  ASSUME NEW set, set # {}, \A e \in set : e.sequence \in Nat
  PROVE  Pool!Oldest(set) \in set /\ \A f \in set : Pool!Oldest(set).sequence <= f.sequence
<1> DEFINE sequences == {e.sequence : e \in set}
<1>1. sequences \subseteq Nat /\ sequences # {}
  OBVIOUS
<1>2. PICK n \in sequences : \A m \in sequences : n <= m
  BY <1>1, LeastIs
<1>3. \E e \in set : \A f \in set : e.sequence <= f.sequence
  BY <1>2
<1>4. QED
  BY <1>3 DEF Pool!Oldest

\* What a put leaves: itself, and of what was fresh and of other keys all, but for the
\* oldest when there are too many.
LEMMA EvictedIs ==
  ASSUME PoolInv, NEW k \in Keys, NEW v \in Values, closed = "no",
         \A e \in entries : e.value # v,
         NEW new, new = [key |-> k, value |-> v, since |-> now, sequence |-> next, age |-> puts],
         NEW set, set = Pool!Inserted(Pool!Pruned, new),
         NEW kept, kept = Pool!Evicted(set)
  PROVE  /\ kept \subseteq set /\ new \in set
         /\ \A f \in set : f = new \/ (f \in Pool!Pruned /\ f.key # k)
         /\ IsFiniteSet(kept) /\ Cardinality(kept) <= Capacity
         /\ kept # set => /\ Capacity < Cardinality(set)
                          /\ kept = set \ {Pool!Oldest(set)} /\ Pool!Oldest(set) \in set
                          /\ \A f \in set : Pool!Oldest(set).sequence <= f.sequence
<1>1. /\ Pool!Pruned \subseteq entries
      /\ IsFiniteSet(entries) /\ Cardinality(entries) <= Capacity
      /\ \A e \in entries : e.sequence \in Nat
      /\ next \in Nat
  BY DEF Pool!Pruned, PoolInv, PoolTyped, Entry
<1> DEFINE others == {f \in Pool!Pruned : f.key # k}
<1>2. set = others \cup {new}
  BY DEF Pool!Inserted
<1>3. IsFiniteSet(others) /\ Cardinality(others) <= Capacity /\ Cardinality(others) \in Nat
  <2>1. others \in SUBSET entries
    BY <1>1
  <2>2. IsFiniteSet(others) /\ Cardinality(others) <= Cardinality(entries)
    BY <1>1, <2>1, FS_Subset
  <2>3. Cardinality(others) \in Nat /\ Cardinality(entries) \in Nat
    BY <1>1, <2>2, FS_CardinalityType
  <2> HIDE DEF others
  <2>4. QED
    BY <1>1, <2>2, <2>3, SizesAre
<1>4. IsFiniteSet(set) /\ Cardinality(set) \in Nat /\ Cardinality(set) <= Capacity + 1
  <2> HIDE DEF others
  <2>1. IsFiniteSet(set) /\ Cardinality(set) = IF new \in others THEN Cardinality(others) ELSE Cardinality(others) + 1
    BY <1>2, <1>3, FS_AddElement
  <2>2. QED
    BY <1>3, <2>1, SizesAre
<1>5. new \in set /\ \A f \in set : f = new \/ (f \in Pool!Pruned /\ f.key # k)
  BY <1>2
<1>6. Pool!Oldest(set) \in set /\ \A f \in set : Pool!Oldest(set).sequence <= f.sequence
  <2>1. \A f \in set : f.sequence \in Nat
    BY <1>1, <1>5
  <2>2. QED
    BY <1>5, <2>1, OldestIs
<1>7. kept = IF Cardinality(set) > Capacity THEN set \ {Pool!Oldest(set)} ELSE set
  BY CardinalityIs DEF Pool!Evicted
<1>8. CASE Cardinality(set) > Capacity
  <2>1. kept = set \ {Pool!Oldest(set)}
    BY <1>7, <1>8
  <2>2. IsFiniteSet(kept) /\ Cardinality(kept) = Cardinality(set) - 1
    BY <1>4, <1>6, <2>1, FS_RemoveElement
  <2>3. Cardinality(kept) <= Capacity
    BY <1>4, <2>2, SizesAre
  <2>4. QED
    BY <1>5, <1>6, <1>8, <2>1, <2>2, <2>3, <1>4, SizesAre
<1>9. CASE ~ (Cardinality(set) > Capacity)
  BY <1>4, <1>5, <1>7, <1>9, SizesAre
<1>10. QED
  BY <1>8, <1>9

\* What a put makes of the entries, when it stores.
LEMMA PutStores ==
  ASSUME PoolInv, NEW u \in Users, NEW k \in Keys, Pool!Put(u, k), closed = "no"
  PROVE  \E v \in hand[u] :
           LET new == [key |-> k, value |-> v, since |-> now, sequence |-> next, age |-> puts]
               set == Pool!Inserted(Pool!Pruned, new)
           IN /\ v \in Values /\ entries' = Pool!Evicted(set)
              /\ \A e \in entries : e.value # v
              /\ hand' = [hand EXCEPT ![u] = {}]
              /\ next' = Pool!Successor(next) /\ puts' = puts + 1
BY DEF Pool!Put, Pool!Stores, PoolInv, PoolTyped, Owned

LEMMA SuccessorIs ==
  /\ Pool!Successor(next) = (next + 1) % Width
  /\ next \in Nat => Pool!Successor(next) \in Nat /\ Pool!Successor(next) < Width
  /\ next \in Nat /\ next + 1 < Width => Pool!Successor(next) = next + 1
BY SizesAre DEF Pool!Successor

LEMMA PutKeeps ==
  ASSUME PoolInv, NEW u \in Users, NEW k \in Keys, Pool!Put(u, k), closed = "no"
  PROVE  PoolInv'
<1>1. PICK v \in hand[u] :
        /\ v \in Values
        /\ entries' = Pool!Evicted(Pool!Inserted(Pool!Pruned,
                        [key |-> k, value |-> v, since |-> now, sequence |-> next, age |-> puts]))
        /\ \A e \in entries : e.value # v
        /\ hand' = [hand EXCEPT ![u] = {}]
        /\ next' = Pool!Successor(next) /\ puts' = puts + 1
  BY PutStores
<1>2. PICK new : new = [key |-> k, value |-> v, since |-> now, sequence |-> next, age |-> puts]
  OBVIOUS
<1>3. PICK set : set = Pool!Inserted(Pool!Pruned, new)
  OBVIOUS
<1>4. /\ entries' \subseteq set /\ new \in set
      /\ \A f \in set : f = new \/ (f \in Pool!Pruned /\ f.key # k)
      /\ IsFiniteSet(entries') /\ Cardinality(entries') <= Capacity
  BY <1>1, <1>2, <1>3, EvictedIs
<1>5. \A f \in entries' : f = new \/ (f \in entries /\ f.key # k)
  BY <1>4 DEF Pool!Pruned
<1>6. /\ new \in Entry /\ new.key = k /\ new.value = v /\ new.since = now
      /\ new.sequence = next /\ new.age = puts
  BY <1>1, <1>2 DEF PoolInv, PoolTyped, Entry
<1>7. closed' = "no" /\ now' = now /\ live' = live /\ judged' \subseteq judged
  BY DEF Pool!Put, PoolInv
<1>8. /\ next \in Nat /\ next < Width /\ puts \in Nat /\ now \in Nat /\ now <= Horizon
      /\ \A e \in entries : e \in Entry /\ e.since <= now /\ e.sequence < Width /\ e.age < puts
      /\ hand \in [Users -> SUBSET Values] /\ live \subseteq Values /\ judged \subseteq Users
  BY DEF PoolInv, PoolTyped
<1>9. \A e \in entries : e.age \in Nat /\ e.sequence \in Nat
  BY <1>8 DEF Entry
<1>10. PoolTyped'
  <2>1. \A e \in entries' : e \in Entry /\ e.since <= now' /\ e.sequence < Width /\ e.age < puts'
    <3> SUFFICES ASSUME NEW e \in entries' PROVE e \in Entry /\ e.since <= now' /\ e.sequence < Width /\ e.age < puts'
      OBVIOUS
    <3>1. CASE e = new
      BY <1>1, <1>6, <1>7, <1>8, <3>1
    <3>2. CASE e \in entries
      BY <1>1, <1>7, <1>8, <1>9, <3>2
    <3>3. QED
      BY <1>5, <3>1, <3>2
  <2>2. next' \in Nat /\ next' < Width /\ puts' \in Nat
    BY <1>1, <1>8, SuccessorIs
  <2>3. hand' \in [Users -> SUBSET Values]
    BY <1>1, <1>8
  <2>4. QED
    BY <1>4, <1>7, <1>8, <2>1, <2>2, <2>3 DEF PoolTyped
<1>11. Owned'
  <2>1. \A e, f \in entries' : e.key = f.key \/ e.value = f.value \/ e.age = f.age => e = f
    <3> SUFFICES ASSUME NEW e \in entries', NEW f \in entries', e.key = f.key \/ e.value = f.value \/ e.age = f.age
                 PROVE  e = f
      OBVIOUS
    <3>1. ASSUME NEW g \in entries, g.key # k PROVE g.key # new.key /\ g.value # new.value /\ g.age # new.age
      BY <1>1, <1>6, <1>8, <1>9, <3>1
    <3>2. CASE e \in entries /\ f \in entries
      BY <3>2 DEF PoolInv, Owned
    <3>3. QED
      BY <1>5, <3>1, <3>2
  <2>2. \A x \in Users : hand'[x] = IF x = u THEN {} ELSE hand[x]
    BY <1>1, <1>8
  <2>3. \A x \in Users : \A e \in entries' : e.value \notin hand'[x]
    BY <1>1, <1>5, <1>6, <2>2 DEF PoolInv, Owned
  <2>4. QED
    BY <2>1, <2>2, <2>3 DEF PoolInv, Owned
<1>12. InSequence'
  <2>1. puts' < Width => next' = puts'
    BY <1>1, <1>8, SuccessorIs, SizesAre DEF PoolInv, InSequence
  <2>2. puts' <= Width => next = puts /\ \A e \in entries : e.sequence = e.age
    BY <1>1, <1>8, SizesAre DEF PoolInv, InSequence
  <2>3. puts' <= Width => \A e \in entries' : e.sequence = e.age
    BY <1>5, <1>6, <2>2
  <2>4. QED
    BY <2>1, <2>3 DEF InSequence
<1>13. QED
  BY <1>7, <1>10, <1>11, <1>12 DEF PoolInv

\* A put that finds the pool closed stores nothing.
LEMMA PutTooLate ==
  ASSUME PoolInv, NEW u \in Users, NEW k \in Keys, Pool!Put(u, k), closed # "no"
  PROVE  PoolInv'
<1>1. /\ entries' = Pool!Pruned /\ UNCHANGED <<next, puts, closed, now, live>>
      /\ hand' = [hand EXCEPT ![u] = {}] /\ judged' = judged \ {u}
  BY DEF Pool!Put, Pool!Stores
<1>2. hand \in [Users -> SUBSET Values]
  BY DEF PoolInv, PoolTyped
<1>3. \A x \in Users : hand'[x] = IF x = u THEN {} ELSE hand[x]
  BY <1>1, <1>2
<1>4. hand' \in [Users -> SUBSET Values]
  BY <1>1, <1>2
<1>5. entries' \subseteq entries
  BY <1>1 DEF Pool!Pruned
<1>6. /\ \A x \in Users : \A v, w \in hand'[x] : v = w
      /\ \A x \in Users : \A e \in entries' : e.value \notin hand'[x]
      /\ \A x, w \in Users : x # w => hand'[x] \cap hand'[w] = {}
  BY <1>3, <1>5 DEF PoolInv, Owned
<1>7. QED
  BY <1>1, <1>4, <1>5, <1>6, EntriesLeave DEF PoolInv, PoolTyped

LEMMA TakeKeeps ==
  ASSUME PoolInv, NEW u \in Users, NEW k \in Keys, Pool!Take(u, k)
  PROVE  PoolInv'
<1> DEFINE taken == IF closed = "yes" THEN {}
                    ELSE {e.value : e \in {f \in Pool!Pruned : f.key = k /\ Pool!Reusable(f.value)}}
<1>1. /\ entries' = IF closed = "yes" THEN Pool!Pruned ELSE {e \in Pool!Pruned : e.key # k}
      /\ hand' = [hand EXCEPT ![u] = taken]
      /\ UNCHANGED <<next, puts, closed, now, live, judged>>
  BY DEF Pool!Take
<1>2. hand \in [Users -> SUBSET Values] /\ \A e \in entries : e.value \in Values
  BY DEF PoolInv, PoolTyped, Entry
<1>3. \A v \in taken : \E e \in entries : e.value = v /\ e.key = k /\ closed # "yes"
  BY DEF Pool!Pruned
<1>4. entries' \subseteq entries /\ \A e \in entries' : closed # "yes" => e.key # k
  BY <1>1 DEF Pool!Pruned
<1> HIDE DEF taken
<1>5. \A x \in Users : hand'[x] = IF x = u THEN taken ELSE hand[x]
  BY <1>1, <1>2
<1>6. taken \subseteq Values
  BY <1>2, <1>3
<1>7. hand' \in [Users -> SUBSET Values]
  BY <1>1, <1>2, <1>6
<1>8. /\ \A v, w \in taken : v = w
      /\ \A e \in entries' : e.value \notin taken
      /\ \A x \in Users : hand[x] \cap taken = {}
  BY <1>3, <1>4 DEF PoolInv, Owned
<1>9. /\ \A x \in Users : \A v, w \in hand'[x] : v = w
      /\ \A x \in Users : \A e \in entries' : e.value \notin hand'[x]
      /\ \A x, w \in Users : x # w => hand'[x] \cap hand'[w] = {}
  BY <1>4, <1>5, <1>8 DEF PoolInv, Owned
<1>10. QED
  BY <1>1, <1>4, <1>7, <1>9, EntriesLeave DEF PoolInv, PoolTyped

LEMMA OpenKeeps ==
  ASSUME PoolInv, NEW u \in Users, NEW v \in Values, Pool!Open(u, v)
  PROVE  PoolInv'
<1>1. /\ \A e \in entries : e.value # v
      /\ \A w \in Users : v \notin hand[w]
      /\ live' = live \cup {v} /\ hand' = [hand EXCEPT ![u] = {v}]
      /\ UNCHANGED <<entries, next, puts, closed, now, judged>>
  BY DEF Pool!Open
<1>2. hand \in [Users -> SUBSET Values] /\ live' \subseteq Values
  BY <1>1 DEF PoolInv, PoolTyped
<1>3. \A x \in Users : hand'[x] = IF x = u THEN {v} ELSE hand[x]
  BY <1>1, <1>2
<1>4. hand' \in [Users -> SUBSET Values]
  BY <1>1, <1>2
<1>5. /\ \A x \in Users : \A w, y \in hand'[x] : w = y
      /\ \A x \in Users : \A e \in entries' : e.value \notin hand'[x]
      /\ \A x, w \in Users : x # w => hand'[x] \cap hand'[w] = {}
  BY <1>1, <1>3 DEF PoolInv, Owned
<1>6. QED
  BY <1>1, <1>2, <1>4, <1>5, EntriesLeave DEF PoolInv, PoolTyped

LEMMA JudgeKeeps ==
  ASSUME PoolInv, NEW u \in Users, Pool!Judge(u)
  PROVE  PoolInv'
<1>1. /\ hand' = hand \/ hand' = [hand EXCEPT ![u] = {}]
      /\ judged' \subseteq judged \cup {u}
      /\ UNCHANGED <<entries, next, puts, closed, now, live>>
  BY DEF Pool!Judge
<1>2. hand \in [Users -> SUBSET Values] /\ judged' \subseteq Users
  BY <1>1 DEF PoolInv, PoolTyped
<1>3. hand' \in [Users -> SUBSET Values] /\ \A x \in Users : hand'[x] \subseteq hand[x]
  BY <1>1, <1>2
<1>4. /\ \A x \in Users : \A v, w \in hand'[x] : v = w
      /\ \A x \in Users : \A e \in entries' : e.value \notin hand'[x]
      /\ \A x, w \in Users : x # w => hand'[x] \cap hand'[w] = {}
  BY <1>1, <1>3 DEF PoolInv, Owned
<1>5. QED
  BY <1>1, <1>2, <1>3, <1>4, EntriesLeave DEF PoolInv, PoolTyped

LEMMA OthersKeep ==
  ASSUME PoolInv, \/ Pool!Prune \/ Pool!Close \/ Pool!Tick \/ UNCHANGED Pool!vars
                  \/ \E v \in Values : Pool!Dies(v)
  PROVE  PoolInv'
<1>1. /\ entries' \subseteq entries /\ UNCHANGED <<next, puts, hand, judged>>
      /\ closed' \in {"no", "yes"} /\ (closed' = "yes" => entries' = {} \/ closed = "yes")
      /\ live' \subseteq live /\ (now' = now \/ (now < Horizon /\ now' = now + 1))
  BY DEF Pool!Prune, Pool!Pruned, Pool!Close, Pool!Tick, Pool!Dies, Pool!vars, PoolInv, PoolTyped
<1>2. now' \in Nat /\ now <= now' /\ now' <= Horizon
  BY <1>1, SizesAre DEF PoolInv, PoolTyped
<1>3. /\ hand' \in [Users -> SUBSET Values] /\ judged' \subseteq Users /\ live' \subseteq Values
      /\ \A x \in Users : \A v, w \in hand'[x] : v = w
      /\ \A x \in Users : \A e \in entries' : e.value \notin hand'[x]
      /\ \A x, w \in Users : x # w => hand'[x] \cap hand'[w] = {}
  BY <1>1 DEF PoolInv, PoolTyped, Owned
<1>4. QED
  BY <1>1, <1>2, <1>3, EntriesLeave

LEMMA PoolInvStep == ASSUME PoolInv, [Pool!Next]_Pool!vars PROVE PoolInv'
BY PutKeeps, PutTooLate, TakeKeeps, OpenKeeps, JudgeKeeps, OthersKeep DEF Pool!Next

\* What a step gives to a hand that was empty was open, and not in the pool for too long.
LEMMA HandsOutFresh ==
  ASSUME PoolInv, [Pool!Next]_Pool!vars
  PROVE  [\A u \in Users : hand[u] = {} => \A e \in entries :
            e.value \in hand'[u] => e.value \in live /\ now - e.since < Lifetime]_Pool!vars
<1> SUFFICES ASSUME Pool!Next, NEW u \in Users, hand[u] = {}, NEW e \in entries, e.value \in hand'[u]
             PROVE  e.value \in live /\ now - e.since < Lifetime
  OBVIOUS
<1>1. hand \in [Users -> SUBSET Values]
  BY DEF PoolInv, PoolTyped
<1>2. hand'[u] # hand[u]
  OBVIOUS
<1>3. ASSUME NEW w \in Users, NEW v \in Values, Pool!Open(w, v) PROVE FALSE
  <2>1. hand' = [hand EXCEPT ![w] = {v}] /\ \A f \in entries : f.value # v
    BY <1>3 DEF Pool!Open
  <2>2. QED
    BY <1>1, <2>1
<1>4. ASSUME NEW w \in Users, NEW k \in Keys, Pool!Take(w, k)
      PROVE  e.value \in live /\ now - e.since < Lifetime
  <2> DEFINE taken == IF closed = "yes" THEN {}
                      ELSE {f.value : f \in {g \in Pool!Pruned : g.key = k /\ Pool!Reusable(g.value)}}
  <2>1. hand' = [hand EXCEPT ![w] = taken]
    BY <1>4 DEF Pool!Take
  <2>2. \A v \in taken : \E f \in Pool!Pruned : f.value = v /\ v \in live
    BY DEF Pool!Reusable
  <2> HIDE DEF taken
  <2>3. e.value \in taken
    BY <1>1, <2>1
  <2>4. PICK f \in Pool!Pruned : f.value = e.value /\ e.value \in live
    BY <2>2, <2>3
  <2>5. f \in entries /\ now - f.since < Lifetime
    BY DEF Pool!Pruned, Pool!Fresh
  <2>6. f = e
    BY <2>4, <2>5 DEF PoolInv, Owned
  <2>7. QED
    BY <2>4, <2>5, <2>6
<1>5. ASSUME NEW w \in Users, Pool!Judge(w) \/ \E k \in Keys : Pool!Put(w, k) PROVE FALSE
  <2>1. hand' = hand \/ hand' = [hand EXCEPT ![w] = {}]
    BY <1>5 DEF Pool!Judge, Pool!Put
  <2>2. QED
    BY <1>1, <2>1
<1>6. ASSUME Pool!Prune \/ Pool!Close \/ Pool!Tick \/ \E v \in Values : Pool!Dies(v) PROVE FALSE
  BY <1>2, <1>6 DEF Pool!Prune, Pool!Close, Pool!Tick, Pool!Dies
<1>7. QED
  BY <1>3, <1>4, <1>5, <1>6 DEF Pool!Next

\* The entry that a put makes is there after it: the youngest of two is not the oldest.
LEMMA PutIsKept ==
  ASSUME PoolInv, NEW u \in Users, NEW k \in Keys, Pool!Put(u, k), closed = "no", puts' <= Width
  PROVE  /\ \E e \in entries' : e.age = puts /\ e.key = k
         /\ \A e \in Pool!Pruned \ entries' : e.key = k \/ \A f \in entries' : e.age < f.age
<1>1. PICK v \in hand[u] :
        /\ v \in Values
        /\ entries' = Pool!Evicted(Pool!Inserted(Pool!Pruned,
                        [key |-> k, value |-> v, since |-> now, sequence |-> next, age |-> puts]))
        /\ \A e \in entries : e.value # v
        /\ puts' = puts + 1
  BY PutStores
<1>2. PICK new : new = [key |-> k, value |-> v, since |-> now, sequence |-> next, age |-> puts]
  OBVIOUS
<1>3. PICK set : set = Pool!Inserted(Pool!Pruned, new)
  OBVIOUS
<1>4. PICK oldest : oldest = Pool!Oldest(set)
  OBVIOUS
<1>5. /\ entries' \subseteq set /\ new \in set
      /\ \A f \in set : f = new \/ (f \in Pool!Pruned /\ f.key # k)
      /\ entries' # set => /\ Capacity < Cardinality(set)
                           /\ entries' = set \ {oldest} /\ oldest \in set
                           /\ \A f \in set : oldest.sequence <= f.sequence
  BY <1>1, <1>2, <1>3, <1>4, EvictedIs
<1>6. \A e \in Pool!Pruned : e.key # k => e \in set
  BY <1>3 , <1>2 DEF Pool!Inserted
<1>7. /\ puts \in Nat /\ next = puts
      /\ \A e \in entries : e.sequence = e.age /\ e.age \in Nat /\ e.age < puts
  BY <1>1, SizesAre DEF PoolInv, PoolTyped, InSequence, Entry
<1>8. new.key = k /\ new.age = puts /\ new.sequence = puts
  BY <1>2, <1>7
<1>9. \A e \in set : e.sequence = e.age /\ e.age \in Nat /\ (e # new => e.age < puts)
  BY <1>5, <1>7, <1>8 DEF Pool!Pruned
<1>10. \A e, f \in set : e.age = f.age => e = f
  BY <1>5, <1>7, <1>8 DEF Pool!Pruned, PoolInv, Owned
<1>11. new \in entries'
  <2> SUFFICES ASSUME entries' # set, oldest = new PROVE FALSE
    BY <1>5
  <2>1. \A f \in set : f = new
    BY <1>5, <1>7, <1>8, <1>9
  <2>2. set = {new}
    BY <1>5, <2>1
  <2>3. Cardinality(set) = 1
    BY <2>2, FS_Singleton
  <2>4. QED
    BY <1>5, <2>3, SizesAre
<1>12. ASSUME NEW e \in Pool!Pruned \ entries', e.key # k, NEW f \in entries' PROVE e.age < f.age
  <2>1. e \in set /\ f \in set /\ e # f
    BY <1>5, <1>6, <1>12
  <2>2. entries' # set /\ e = oldest
    BY <1>5, <2>1
  <2>3. e.sequence <= f.sequence
    BY <1>5, <2>1, <2>2
  <2>4. /\ e.sequence = e.age /\ f.sequence = f.age /\ e.age \in Nat /\ f.age \in Nat
        /\ e.age # f.age
    BY <1>9, <1>10, <2>1
  <2>5. QED
    BY <2>3, <2>4
<1>13. QED
  BY <1>8, <1>11, <1>12

LEMMA OldestLeaves ==
  ASSUME PoolInv, [Pool!Next]_Pool!vars
  PROVE  [puts' = puts + 1 /\ puts' <= Width =>
            /\ \E e \in entries' : e.age = puts
            /\ \A e \in Pool!Pruned \ entries' :
              \/ \E f \in entries' : f.key = e.key
              \/ \A f \in entries' : e.age < f.age]_Pool!vars
<1> SUFFICES ASSUME Pool!Next, puts' = puts + 1, puts' <= Width
             PROVE  /\ \E e \in entries' : e.age = puts
                    /\ \A e \in Pool!Pruned \ entries' :
                      \/ \E f \in entries' : f.key = e.key
                      \/ \A f \in entries' : e.age < f.age
  OBVIOUS
<1>1. puts' # puts
  BY DEF PoolInv, PoolTyped
<1>2. PICK u \in Users, k \in Keys : Pool!Put(u, k)
  BY <1>1 DEF Pool!Next, Pool!Prune, Pool!Close, Pool!Tick, Pool!Dies, Pool!Open, Pool!Judge, Pool!Take
<1>3. closed = "no"
  BY <1>1, <1>2 DEF Pool!Put, Pool!Stores
<1>4. QED
  BY <1>2, <1>3, PutIsKept

\* take_if_reusable, put_if_reusable: a connection has one owner; none is handed out that is
\* dead or was idle for the lifetime; the pool is within its capacity and empty once it is
\* closed; what is pushed out was put first, until the counter of puts wraps around.
THEOREM PoolStaysSound == Pool!Spec => PoolIsSound
<1>1. PoolInv => Pool!TypeOK /\ Pool!OneOwner /\ Pool!Bounded
  BY PoolInvMeans
<1>2. QED
  BY <1>1, PoolInvInit, PoolInvStep, HandsOutFresh, OldestLeaves, PTL
     DEF Pool!Spec, PoolIsSound, Pool!PoolIsSound, Pool!FreshHandout, Pool!EvictsFirst
=============================================================================
