---------------------------- MODULE MCMessages ----------------------------
(***************************************************************************)
(* Three parts of the proxy that share nothing, for TLC in one state space *)
(* of which each behaviour explores one: BodyCodec, with the wires and the *)
(* grammar of RFC 9112, 7.1 that the decoders are compared with, which     *)
(* sees the whole wire at once; Framing; and IdlePool, in Pooling.         *)
(***************************************************************************)
EXTENDS BodyCodec, Pooling, FiniteSets, TLC

VARIABLES
  part,                                                  \* the one that is explored
  stage, request, sent, reply, written, kept             \* of Framing

headVars == <<stage, request, sent, reply, written, kept>>

Heads == INSTANCE Framing WITH
  Lengths <- {"3", "5", "bad"},
  Codings <- {"chunked", "gzip", "chunked;q", "bad"},
  Connections <- {{}, {"close"}, {"keep-alive"}, {"content-length"}, {"upgrade"}, {"bad"}}

N == <<"CR", "LF">>
Chunks == {<<>>, <<"1">> \o N \o <<"x">> \o N, <<"2", ";", "x">> \o N \o <<"CR", "0">> \o N}
Ends == {<<"0">> \o N \o N, <<"0">> \o N \o <<"f">> \o N \o N,
         <<"0">> \o N \o <<"h">> \o N \o <<"f">> \o N \o N}
NextHead == <<"x">>
Good == {c \o d \o e \o NextHead : c \in Chunks, d \in {<<>>, <<"1">> \o N \o <<"x">> \o N}, e \in Ends}

\* One byte is missing, or is another one.
Symbols == {"0", ";", "t", "CR", "LF"}
Damaged(w) ==
  {SubSeq(w, 1, i - 1) \o SubSeq(w, i + 1, Len(w)) : i \in DOMAIN w}
    \cup {[w EXCEPT ![i] = s] : i \in DOMAIN w, s \in Symbols}
SomeWires == UNION {{w} \cup Damaged(w) : w \in Good}

-----------------------------------------------------------------------------
Bad == [status |-> "failed", data |-> <<>>, fields |-> <<>>, rest |-> <<>>]
From(w, i) == SubSeq(w, i, Len(w))

\* The first line by the grammar: up to a CR, which a LF follows, within the limit.
LineEnd(w, limit) ==
  LET ends == {i \in DOMAIN w : w[i] \in {"CR", "LF"}}
      i == CHOOSE j \in ends : \A k \in ends : j <= k
  IN IF ends # {} /\ w[i] = "CR" /\ i < Len(w) /\ w[i + 1] = "LF" /\ i + 1 <= limit THEN i ELSE 0

RECURSIVE ParseTrailers(_, _, _, _)
ParseTrailers(w, data_, fields, octets) ==
  LET e == LineEnd(w, TrailerLimit - octets) IN
    IF e = 0 THEN Bad
    ELSE IF e = 1
    THEN IF \E i \in DOMAIN fields : fields[i] = "t" \/ (fields[i] = "h" /\ side = "origin") THEN Bad
         ELSE [status |-> "complete", data |-> data_, fields |-> fields, rest |-> From(w, 3)]
    ELSE IF e = 2 /\ w[1] \in {"f", "t", "h"}
    THEN ParseTrailers(From(w, 4), data_, Append(fields, w[1]), octets + 3)
    ELSE Bad

RECURSIVE ParseChunks(_, _)
ParseChunks(w, data_) ==
  LET e == LineEnd(w, LineLimit)
      line == SubSeq(w, 1, e - 1)
      size == SizeOf(SizeDigits(line))
      body == From(w, e + 2)
  IN IF e = 0 \/ ~SizeIsGood(line) THEN Bad
     ELSE IF size = 0 THEN ParseTrailers(body, data_, <<>>, 0)
     ELSE IF Len(body) >= size + 2 /\ SubSeq(body, size + 1, size + 2) = N
     THEN ParseChunks(From(body, size + 3), data_ \o SubSeq(body, 1, size))
     ELSE Bad

Meaning == ParseChunks(wire, <<>>)

RECURSIVE ParseFields(_, _)
ParseFields(w, octets) ==
  LET e == LineEnd(w, TrailerLimit - octets) IN
    IF e = 0 THEN 0 ELSE IF e = 1 THEN octets + 2 ELSE ParseFields(From(w, e + 2), octets + e + 1)

\* The length of the head, or 0.
HeadLength ==
  LET line == LineEnd(wire, LineLimit)
      fields == IF line = 0 THEN 0 ELSE ParseFields(From(wire, line + 2), 0)
  IN IF fields = 0 THEN 0 ELSE line + 1 + fields

-----------------------------------------------------------------------------
(* One part moves, the others stay where they begin.                       *)

OneWire == CHOOSE w \in Good : TRUE
OneHead == CHOOSE h \in Heads!RawRequests : TRUE

PartsInit ==
  /\ part \in {"codec", "framing", "pool"}
  /\ IF part = "codec" THEN Init
     ELSE side = "request" /\ framing = "head" /\ wire = OneWire /\ buffer = <<>> /\ Init
  /\ IF part = "framing" THEN Heads!Init ELSE request = OneHead /\ Heads!Init
  /\ Pool!Init

PartsNext ==
  \/ part = "codec" /\ Next /\ UNCHANGED <<part, headVars, poolVars>>
  \/ part = "framing" /\ Heads!Next /\ UNCHANGED <<part, vars, poolVars>>
  \/ part = "pool" /\ Pool!Next /\ UNCHANGED <<part, vars, headVars>>

PartsSpec == PartsInit /\ [][PartsNext]_<<part, vars, headVars, poolVars>>

Symmetry == Permutations(Users) \cup Permutations(Keys) \cup Permutations(Values)

-----------------------------------------------------------------------------
(* Properties.                                                             *)

TypeOK ==
  /\ decoder.remaining <= SizeMax /\ decoder.octets <= TrailerLimit
  /\ Len(frame) <= FrameLimit

\* However the bytes arrive and however often a read is given up, a chunked body decodes
\* to the data and the trailers of the grammar, an invalid one fails, and the bytes after
\* its end are untouched.
ChunkedIsTheGrammar ==
  framing = "chunked" /\ Over =>
    /\ decoder.state = Meaning.status
    /\ decoder.state = "complete" =>
         /\ data = Meaning.data /\ decoder.fields = Meaning.fields
         /\ buffer \o socket = Meaning.rest

\* A head ends where the grammar ends it, whatever was read ahead of the next message;
\* one that is malformed, too long or broken off fails.
HeadIsTheGrammar ==
  framing = "head" /\ Over =>
    /\ decoder.state = IF HeadLength = 0 THEN "failed" ELSE "complete"
    /\ decoder.state = "complete" => Len(data) = HeadLength

\* No byte is lost, doubled or moved, in a head or a body without chunks: what
\* was delivered and what is still there make up the wire.
BytesInOrder ==
  framing # "chunked" =>
    /\ data \o buffer \o socket = wire
    /\ decoder.state = "complete" /\ framing = "close" => data = wire

\* The frame or the trailers in hand and the bytes read ahead stay within the budget of
\* the connection (APPLICATION_BUFFER_LIMIT, which is two frames).
WithinBudget ==
  framing # "head" => Len(frame) + decoder.octets + Len(buffer) <= 2 * FrameLimit

\* Both decoders find in any pieces what the grammar finds in the whole.
DecodesTheGrammar == TypeOK /\ ChunkedIsTheGrammar /\ HeadIsTheGrammar /\ BytesInOrder /\ WithinBudget

\* The proxy and its peers agree on the end of every message: the request as it is
\* forwarded, the response as it is written, and whether another may follow (Framing).
FramingAgrees == Heads!FramingAgrees
=============================================================================
