------------------------------ MODULE Framing ------------------------------
(***************************************************************************)
(* Where a message ends.  The proxy reads the framing of a request from    *)
(* its head, forwards a head of its own, reads the framing of the origin's *)
(* response, and answers with a head of its own again, in which the body   *)
(* may be framed in another way.  At every hop the reader and the writer   *)
(* must mean the same end.                                                 *)
(*                                                                         *)
(* A head is reduced to what decides: the version, the members of          *)
(* Content-Length over all its fields, the transfer codings, the options   *)
(* of Connection.  Other fields, targets and sizes are left out.           *)
(***************************************************************************)
EXTENDS Naturals, Sequences, SequencesExt

CONSTANTS Lengths,       \* members of a Content-Length; "bad" is no u64
          Codings,       \* among "chunked", "gzip", "chunked;q", "bad"
          Connections    \* sets of options; "bad" is no token

Versions == {"1.0", "1.1"}
UpTo2(S) == {<<>>} \cup {<<a>> : a \in S} \cup (S \X S)

RawRequests ==
  [version : Versions \cup {"other"}, method : {"GET", "HEAD", "CONNECT"}, hosts : 0..2,
   length : UpTo2(Lengths), coding : UpTo2(Codings), connection : Connections,
   expect : {"no", "yes"}]
RawResponses ==
  [version : Versions, status : {100, 101, 200, 204, 304},
   length : UpTo2(Lengths), coding : UpTo2(Codings), connection : Connections]

VARIABLES
  stage,     \* "request", "forwarded", "waiting", "answered", "tunnel", "rejected"
  request,   \* the head that was read, and what was read from it
  sent,      \* the head the origin gets
  reply,     \* the head the client gets
  written,   \* how the body is written to the client
  kept       \* the client connection stays open: "no", "yes"

vars == <<stage, request, sent, reply, written, kept>>

None == [kind |-> "none", length |-> "-"]
Chunked == [kind |-> "chunked", length |-> "-"]
Fixed(n) == [kind |-> "length", length |-> n]
Close == [kind |-> "close", length |-> "-"]
NoHead == [version |-> "1.1", length |-> <<>>, coding |-> <<>>, connection |-> {}, status |-> 200]

-----------------------------------------------------------------------------
(* Reading a head.                                                         *)

\* Several lengths must be the same one.
LengthIsGood(h) ==
  /\ \A i \in DOMAIN h.length : h.length[i] # "bad"
  /\ \A i, j \in DOMAIN h.length : h.length[i] = h.length[j]

IsChunked(c) == c \in {"chunked", "chunked;q"}
LastIsChunked(h) == h.coding # <<>> /\ IsChunked(Last(h.coding))

CodingIsGood(h) ==
  /\ \A i \in DOMAIN h.coding : h.coding[i] \notin {"bad", "chunked;q"}
  /\ \A i \in 1..Len(h.coding) - 1 : ~IsChunked(h.coding[i])

ConnectionIsGood(h) == "bad" \notin h.connection
Closes(h) ==
  IF h.version = "1.0" THEN "keep-alive" \notin h.connection ELSE "close" \in h.connection

\* parse_framing.
FramingIsGood(h) ==
  /\ LengthIsGood(h) /\ CodingIsGood(h)
  /\ h.coding # <<>> => LastIsChunked(h)
  /\ h.coding = <<>> \/ h.length = <<>>

Framing(h) ==
  IF h.coding # <<>> THEN Chunked
  ELSE IF h.length # <<>> THEN Fixed(Last(h.length)) ELSE None

\* parse_head.
HeadIsGood(h) ==
  /\ h.version = "1.1" => h.hosts = 1
  /\ h.version = "1.0" => h.coding = <<>>
  /\ FramingIsGood(h) /\ ConnectionIsGood(h)

\* parse_origin_response_head.
Informational(h) == h.status \in {100, 101}
Bodyless(h, method) == method = "HEAD" \/ Informational(h) \/ h.status \in {204, 304}

ResponseIsGood(h) ==
  /\ LengthIsGood(h) /\ CodingIsGood(h) /\ ConnectionIsGood(h)
  /\ h.version = "1.0" => h.coding = <<>>
  /\ h.coding = <<>> \/ h.length = <<>>
  /\ Informational(h) \/ h.status = 204 => h.coding = <<>> /\ h.length = <<>>

ResponseFraming(h, method) ==
  IF Bodyless(h, method) THEN None
  ELSE IF LastIsChunked(h) THEN Chunked ELSE IF h.coding # <<>> THEN Close
  ELSE IF h.length # <<>> THEN Fixed(Last(h.length)) ELSE Close

-----------------------------------------------------------------------------
(* Writing a head.                                                         *)

\* sanitize_hop_by_hop: Connection, what it names and the fixed fields go.
Sanitized(h) ==
  [h EXCEPT !.connection = {}, !.coding = <<>>,
            !.length = IF "content-length" \in h.connection THEN <<>> ELSE @]

\* serialize_request_head.  A variant leaves the length as it was found.
SerializedAsFound(h) ==
  LET f == Framing(h) IN
    [Sanitized(h) EXCEPT !.version = "1.1",
       !.coding = IF f = Chunked THEN h.coding ELSE <<>>]
Serialized(h) ==
  LET f == Framing(h) IN
    [Sanitized(h) EXCEPT !.version = "1.1",
       !.coding = IF f = Chunked THEN h.coding ELSE <<>>,
       !.length = IF f.kind = "length" THEN <<f.length>> ELSE <<>>]

\* What exchange makes of the response head for a client of this version: "no" when a
\* client of HTTP/1.0 could not undo the codings.
Translatable(h, method, version) ==
  version = "1.1" \/ ResponseFraming(h, method) = None
    \/ h.coding = <<>> \/ h.coding = <<"chunked">>
Translated(h, method, version) ==
  LET more == IF h.coding # <<>> /\ ~LastIsChunked(h) /\ ResponseFraming(h, method) # None
              THEN <<"chunked">> ELSE <<>>
  IN [Sanitized(h) EXCEPT !.coding = IF version = "1.1" THEN h.coding \o more ELSE <<>>]

\* prepare_response_head: whether a body is allowed, whether it goes in chunks, whether
\* the connection is closed, and the head.
BodyAllowed(h, method) == method # "HEAD" /\ ~Informational(h) /\ h.status \notin {204, 304}
InChunks(h, method, version) ==
  BodyAllowed(h, method) /\ h.length = <<>> /\ version = "1.1"
MustClose(h, method, version, close) ==
  \/ close \/ "close" \in h.connection
  \/ BodyAllowed(h, method) /\ h.length = <<>> /\ version # "1.1"
Prepared(h, method, version, close) ==
  [h EXCEPT
     !.version = version,
     !.coding = IF version = "1.0" THEN <<>>
                ELSE IF InChunks(h, method, version) /\ @ = <<>> THEN <<"chunked">> ELSE @,
     !.connection = IF MustClose(h, method, version, close) THEN {"close"}
                    ELSE IF version = "1.0" THEN {"keep-alive"} ELSE {}]

\* How write_active_response_body writes it.
BodyAsWritten(h, method, version) ==
  IF ~BodyAllowed(h, method) THEN None
  ELSE IF InChunks(h, method, version) THEN Chunked
  ELSE IF h.length # <<>> THEN Fixed(Last(h.length)) ELSE Close

-----------------------------------------------------------------------------
Finish(result) == stage' = result /\ UNCHANGED <<sent, reply, written, kept>>

\* read_request_head answers 400 or 505; serve_http_request answers 501 to an upgrade.
Reject ==
  /\ stage = "request"
  /\ \/ request.version = "other" \/ ~HeadIsGood(request)
     \/ "upgrade" \in request.connection
     \/ /\ request.method = "CONNECT"
        /\ request.length # <<>> \/ request.coding # <<>> \/ request.expect = "yes"
  /\ Finish("rejected") /\ UNCHANGED request

Tunnel ==
  /\ stage = "request" /\ request.version # "other" /\ HeadIsGood(request)
  /\ request.method = "CONNECT" /\ request.expect = "no"
  /\ request.length = <<>> /\ request.coding = <<>>
  /\ Finish("tunnel") /\ UNCHANGED request

Forward ==
  /\ stage = "request" /\ request.version # "other" /\ HeadIsGood(request)
  /\ request.method # "CONNECT" /\ "upgrade" \notin request.connection
  /\ stage' = "forwarded"
  /\ sent' = Serialized(request)
  /\ UNCHANGED <<request, reply, written, kept>>

\* From here the version, the method and the wish to close are all that counts.
Await ==
  /\ stage = "forwarded" /\ stage' = "waiting"
  /\ \E complete \in {"no", "yes"} :
       kept' = IF Closes(request) \/ complete = "no" THEN "no" ELSE "yes"
  /\ request' = [NoHead EXCEPT !.version = request.version]
                  @@ [method |-> request.method, hosts |-> 1, expect |-> "no"]
  /\ sent' = NoHead
  /\ UNCHANGED <<reply, written>>

BadResponse(h) ==
  /\ \/ ~ResponseIsGood(h) \/ h.status = 101
     \/ ~Translatable(h, request.method, request.version)
  /\ Finish("rejected") /\ UNCHANGED request

\* forward_informational: a client of HTTP/1.0 is not told.
Inform(h) ==
  /\ ResponseIsGood(h) /\ h.status = 100
  /\ reply' = IF request.version = "1.0" THEN reply
              ELSE Translated(h, request.method, request.version)
  /\ UNCHANGED <<stage, request, sent, written, kept>>

Respond(h) ==
  /\ ResponseIsGood(h) /\ ~Informational(h)
  /\ Translatable(h, request.method, request.version)
  /\ LET t == Translated(h, request.method, request.version)
         close == kept = "no"
     IN /\ reply' = Prepared(t, request.method, request.version, close)
        /\ written' = IF ResponseFraming(h, request.method) = None THEN None
                      ELSE BodyAsWritten(t, request.method, request.version)
        /\ kept' = IF MustClose(t, request.method, request.version, close) THEN "no" ELSE "yes"
  /\ stage' = "answered"
  /\ UNCHANGED <<request, sent>>

Init ==
  /\ stage = "request" /\ request \in RawRequests
  /\ sent = NoHead /\ reply = NoHead /\ written = None /\ kept = "no"

Next ==
  \/ Reject \/ Tunnel \/ Forward \/ Await
  \/ stage = "waiting" /\ \E h \in RawResponses : BadResponse(h) \/ Inform(h) \/ Respond(h)

Spec == Init /\ [][Next]_vars

-----------------------------------------------------------------------------
(* Where a recipient that follows RFC 9112, 6.3 finds the end.             *)

RequestEnd(h) ==
  IF h.coding # <<>> THEN IF Last(h.coding) = "chunked" THEN Chunked ELSE Close
  ELSE IF h.length = <<>> THEN None
  ELSE IF Len(h.length) = 1 THEN Fixed(h.length[1]) ELSE Close

\* A recipient of HTTP/1.0 knows no transfer codings.
ResponseEnd(h, method) ==
  IF method = "HEAD" \/ h.status \in {100, 101, 204, 304} THEN None
  ELSE IF h.version = "1.1" /\ h.coding # <<>>
  THEN IF Last(h.coding) = "chunked" THEN Chunked ELSE Close
  ELSE IF h.length # <<>> THEN Fixed(h.length[1]) ELSE Close

\* Only checked values are passed on, and one length at most.
TypeOK ==
  /\ stage \in {"request", "forwarded", "waiting", "answered", "tunnel", "rejected"}
  /\ kept \in {"no", "yes"}
  /\ written.kind \in {"none", "chunked", "length", "close"}
  /\ sent.coding \in Seq(Codings \ {"bad"}) /\ reply.coding \in Seq(Codings \ {"bad"})
  /\ sent.length \in UpTo2(Lengths \ {"bad"}) /\ Len(sent.length) <= 1
  /\ reply.length \in UpTo2(Lengths \ {"bad"})

\* The origin finds the end of the request where the proxy does, whatever lengths,
\* codings and nominations the client sent: nothing of the body is taken for another
\* request and nothing of another request for the body.
RequestFramingAgrees == stage = "forwarded" => RequestEnd(sent) = Framing(request)

\* The client finds the end of the response where the proxy writes it, although the
\* proxy takes codings off and puts chunks on for the version of the client.
ResponseFramingAgrees == stage = "answered" => ResponseEnd(reply, request.method) = written

\* A connection that is kept has a response with an end of its own, the client has been
\* told that it is kept, and a connection that closes was announced.
KeptIsDelimited ==
  stage = "answered" =>
    /\ kept = "yes" => written # Close
    /\ kept = "no" <=> Closes(reply)

\* At every hop reader and writer mean the same end.
FramingAgrees == TypeOK /\ RequestFramingAgrees /\ ResponseFramingAgrees /\ KeptIsDelimited
=============================================================================
