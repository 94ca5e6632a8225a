----------------------------- MODULE BodyCodec -----------------------------
(***************************************************************************)
(* How messages are cut out of a stream: their heads (read_head and        *)
(* read_response_head) and their bodies, by the decoder of requests        *)
(* (BodyDecoder over Http1Connection) and the one of responses             *)
(* (OriginDecoder over OriginReader).  Bytes come from the socket in       *)
(* pieces of any size, some have been read along with what was before, and *)
(* a read is abandoned and begun again whenever something else happens     *)
(* first.  The place where a part ends may depend on none of this.         *)
(*                                                                         *)
(* A byte is one of a few symbols: three hexadecimal digits, ";", "x" (any *)
(* other token), "f", "t" and "h" (a whole trailer field: a plain one, one *)
(* that frames a message, one for the next hop), "CR", "LF".  Quoted       *)
(* strings and blanks are left out.                                        *)
(***************************************************************************)
EXTENDS Naturals, Sequences, SequencesExt

CONSTANTS Wires,         \* byte sequences that follow the part before
          LineLimit, TrailerLimit, ReadAhead, FrameLimit, SizeMax

ASSUME LimitAssumption == ReadAhead <= FrameLimit /\ LineLimit > 1 /\ TrailerLimit > 1

VARIABLES
  side,      \* "request", "origin"
  framing,   \* "head", or that of a body: "chunked", "fixed", "close"
  wire,      \* all that follows the part before
  socket,    \* what the socket still has
  buffer,    \* buffer[start..end]
  decoder,   \* [state, remaining, fields, octets]
  frame,     \* the frame in hand; it is gone before more is read
  data       \* all frames of data

constant == <<side, framing, wire>>
vars == <<side, framing, wire, socket, buffer, decoder, frame, data>>

Digits == {"0", "1", "2"}
Digit(s) == IF s = "0" THEN 0 ELSE IF s = "1" THEN 1 ELSE 2
Smallest(a, b) == IF a <= b THEN a ELSE b

-----------------------------------------------------------------------------
(* Lines.                                                                  *)

\* Position of the first CR LF, or 0.
CrlfAt(b) ==
  LET at == {i \in 1..Len(b) - 1 : b[i] = "CR" /\ b[i + 1] = "LF"} IN
    IF at = {} THEN 0 ELSE CHOOSE i \in at : \A j \in at : i <= j

\* validate_line_endings.
EndingsAreGood(b) ==
  \A i \in 1..Len(b) :
    /\ b[i] = "LF" => i > 1 /\ b[i - 1] = "CR"
    /\ b[i] = "CR" /\ i < Len(b) => b[i + 1] = "LF"

\* What is known of the first line of the buffer.
Line(b, limit) ==
  LET e == CrlfAt(b) IN
    IF ~EndingsAreGood(IF e = 0 THEN b ELSE SubSeq(b, 1, e + 1)) THEN "bad"
    ELSE IF e = 0 THEN IF Len(b) >= limit THEN "bad" ELSE "more"
    ELSE IF e + 1 > limit THEN "bad" ELSE "line"
Text(b) == SubSeq(b, 1, CrlfAt(b) - 1)
Rest(b) == SubSeq(b, CrlfAt(b) + 2, Len(b))

\* parse_chunk_size: digits and extensions; SizeMax stands for u64::MAX.
SizeOf(digits) == FoldLeft(LAMBDA n, s : Smallest(16 * n + Digit(s), SizeMax + 1), 0, digits)
SizeText(line) == SelectInSeq(line, LAMBDA s : s = ";")
SizeDigits(line) ==
  IF SizeText(line) = 0 THEN line ELSE SubSeq(line, 1, SizeText(line) - 1)
SizeIsGood(line) ==
  LET size == SizeDigits(line) IN
    /\ size # <<>> /\ \A i \in DOMAIN size : size[i] \in Digits
    /\ \A i \in DOMAIN line : line[i] = ";" => i < Len(line) /\ line[i + 1] # ";"
    /\ SizeOf(size) <= SizeMax

\* append_field_line, and the fields validate_trailers and validate_origin_trailers
\* forbid.
FieldIsGood(line) == line \in {<<"f">>, <<"t">>, <<"h">>}
RequestForbids == {"t"}
OriginForbids == {"t", "h"}
Forbidden == IF side = "request" THEN RequestForbids ELSE OriginForbids

-----------------------------------------------------------------------------
(* The decoder: the steps between two reads, and the reads.                *)

To(state) == decoder' = [decoder EXCEPT !.state = state]
Fail == To("failed") /\ UNCHANGED <<constant, socket, buffer, frame, data>>

\* A read of the socket gives between one byte and what was asked for, or none at the
\* end of the stream.
Pieces(most) == 1..Smallest(most, Len(socket))
AtEof == socket = <<>>

\* The stream ends too early.
Broken == AtEof /\ Fail

\* read_more_until: how far it reads.
ReadMost(limit) == Smallest(ReadAhead, limit - Len(buffer))
ReadMore(limit) ==
  \E n \in Pieces(ReadMost(limit)) :
    /\ buffer' = buffer \o SubSeq(socket, 1, n)
    /\ socket' = SubSeq(socket, n + 1, Len(socket))
    /\ frame' = <<>>
    /\ UNCHANGED <<constant, decoder, data>>

\* find_head_end, after a first line of n bytes: the end of the empty line, or 0.
HeadEnd(b, n) ==
  LET at == {i \in n - 1..Len(b) - 3 : SubSeq(b, i, i + 3) = <<"CR", "LF", "CR", "LF">>} IN
    IF at = {} THEN 0 ELSE 3 + CHOOSE i \in at : \A j \in at : i <= j

\* read_head and read_response_head: the first line has its limit, and the fields.
HeadLine ==
  /\ decoder.state = "first line"
  /\ \/ Line(buffer, LineLimit) = "more" /\ (ReadMore(LineLimit) \/ Broken)
     \/ Line(buffer, LineLimit) = "bad" /\ Fail
     \/ /\ Line(buffer, LineLimit) = "line"
        /\ decoder' = [decoder EXCEPT !.state = "fields", !.remaining = CrlfAt(buffer) + 1]
        /\ UNCHANGED <<constant, socket, buffer, frame, data>>
HeadFields ==
  LET line == decoder.remaining
      e == HeadEnd(buffer, line)
      good == EndingsAreGood(IF e = 0 THEN buffer ELSE SubSeq(buffer, 1, e))
      short == (IF e = 0 THEN Len(buffer) + 1 ELSE e) - line <= TrailerLimit
  IN /\ decoder.state = "fields"
     /\ \/ good /\ short /\ e = 0 /\ (ReadMore(line + TrailerLimit) \/ Broken)
        \/ ~(good /\ short) /\ Fail
        \/ /\ good /\ short /\ e > 0
           /\ data' = SubSeq(buffer, 1, e)
           /\ buffer' = SubSeq(buffer, e + 1, Len(buffer))
           /\ To("complete")
           /\ UNCHANGED <<constant, socket, frame>>

InBody == decoder.state \in {"fixed", "chunk data"}
Deliver(n) ==
  LET left == decoder.remaining - n IN
    decoder' = [decoder EXCEPT !.remaining = left,
                  !.state = IF left > 0 THEN @ ELSE IF @ = "fixed" THEN "complete" ELSE "chunk end"]

\* read_body_data and read_data: first what is in the buffer, else from the socket
\* straight into the frame.
Maximum == Smallest(decoder.remaining, FrameLimit)
DataFromBuffer ==
  /\ InBody /\ decoder.remaining > 0 /\ buffer # <<>>
  /\ LET n == Smallest(Maximum, Len(buffer)) IN
       /\ frame' = SubSeq(buffer, 1, n)
       /\ data' = data \o SubSeq(buffer, 1, n)
       /\ buffer' = SubSeq(buffer, n + 1, Len(buffer))
       /\ Deliver(n)
  /\ UNCHANGED <<constant, socket>>
DataFromSocket ==
  /\ InBody /\ decoder.remaining > 0 /\ buffer = <<>>
  /\ \E n \in Pieces(Maximum) :
       /\ frame' = SubSeq(socket, 1, n)
       /\ data' = data \o SubSeq(socket, 1, n)
       /\ socket' = SubSeq(socket, n + 1, Len(socket))
       /\ Deliver(n)
  /\ UNCHANGED <<constant, buffer>>
FixedZero ==
  /\ decoder.state = "fixed" /\ decoder.remaining = 0 /\ To("complete")
  /\ UNCHANGED <<constant, socket, buffer, frame, data>>
DataEnds == InBody /\ decoder.remaining > 0 /\ buffer = <<>> /\ AtEof /\ Fail

\* read_body_line and read_line.
ChunkSize ==
  /\ decoder.state = "chunk size"
  /\ \/ Line(buffer, LineLimit) = "more" /\ (ReadMore(LineLimit) \/ Broken)
     \/ Line(buffer, LineLimit) = "bad" /\ Fail
     \/ Line(buffer, LineLimit) = "line" /\ ~SizeIsGood(Text(buffer)) /\ Fail
     \/ /\ Line(buffer, LineLimit) = "line" /\ SizeIsGood(Text(buffer))
        /\ LET size == SizeOf(SizeDigits(Text(buffer))) IN
             decoder' = [decoder EXCEPT !.remaining = size,
                           !.state = IF size = 0 THEN "trailers" ELSE "chunk data"]
        /\ buffer' = Rest(buffer)
        /\ UNCHANGED <<constant, socket, frame, data>>

\* ensure_buffered(2) and read_exact_delimiter: no more than the delimiter is read.
ChunkEnd ==
  /\ decoder.state = "chunk end"
  /\ \/ Len(buffer) < 2 /\ (ReadMore(2) \/ Broken)
     \/ Len(buffer) >= 2 /\ SubSeq(buffer, 1, 2) # <<"CR", "LF">> /\ Fail
     \/ /\ Len(buffer) >= 2 /\ SubSeq(buffer, 1, 2) = <<"CR", "LF">>
        /\ buffer' = SubSeq(buffer, 3, Len(buffer))
        /\ To("chunk size")
        /\ UNCHANGED <<constant, socket, frame, data>>

\* read_body_trailers and read_trailers: the limit is on all the lines together.
TrailerLine == Line(buffer, TrailerLimit - decoder.octets)
Trailers ==
  /\ decoder.state = "trailers"
  /\ \/ TrailerLine = "more" /\ (ReadMore(TrailerLimit - decoder.octets) \/ Broken)
     \/ TrailerLine = "bad" /\ Fail
     \/ TrailerLine = "line" /\ Text(buffer) # <<>> /\ ~FieldIsGood(Text(buffer)) /\ Fail
     \/ /\ TrailerLine = "line" /\ FieldIsGood(Text(buffer))
        /\ decoder' = [decoder EXCEPT !.fields = Append(@, Text(buffer)[1]), !.octets = @ + 3]
        /\ buffer' = Rest(buffer)
        /\ UNCHANGED <<constant, socket, frame, data>>
     \/ /\ TrailerLine = "line" /\ Text(buffer) = <<>>
        /\ To(IF \E i \in DOMAIN decoder.fields : decoder.fields[i] \in Forbidden
              THEN "failed" ELSE "complete")
        /\ buffer' = Rest(buffer)
        /\ UNCHANGED <<constant, socket, frame, data>>

\* The body ends with the stream.
UntilClose ==
  /\ decoder.state = "until close"
  /\ \/ /\ buffer # <<>>
        /\ LET n == Smallest(FrameLimit, Len(buffer)) IN
             /\ frame' = SubSeq(buffer, 1, n) /\ data' = data \o SubSeq(buffer, 1, n)
             /\ buffer' = SubSeq(buffer, n + 1, Len(buffer))
        /\ UNCHANGED <<constant, socket, decoder>>
     \/ /\ buffer = <<>>
        /\ \E n \in Pieces(FrameLimit) :
             /\ frame' = SubSeq(socket, 1, n) /\ data' = data \o SubSeq(socket, 1, n)
             /\ socket' = SubSeq(socket, n + 1, Len(socket))
        /\ UNCHANGED <<constant, buffer, decoder>>
     \/ /\ buffer = <<>> /\ AtEof /\ To("complete")
        /\ UNCHANGED <<constant, socket, buffer, frame, data>>

\* A select of advance_exchange gives up a read and asks again: what
\* was read is in the connection and in the decoder, and stays.  A variant has the
\* trailers in the read itself.
KeptForgets(d) == [d EXCEPT !.fields = <<>>, !.octets = 0]
Kept(d) == d
Abandon ==
  /\ side = "request" \/ framing = "head"
  /\ decoder.state \notin {"complete", "failed"}
  /\ decoder' = Kept(decoder)
  /\ UNCHANGED <<constant, socket, buffer, frame, data>>

-----------------------------------------------------------------------------
FirstState(f) ==
  IF f = "head" THEN "first line" ELSE IF f = "chunked" THEN "chunk size" ELSE IF f = "fixed" THEN "fixed" ELSE "until close"

\* Up to ReadAhead bytes came with the head.
Init ==
  /\ side \in {"request", "origin"}
  /\ framing \in {"head", "chunked", "fixed"} \cup IF side = "origin" THEN {"close"} ELSE {}
  /\ wire \in Wires
  /\ \E n \in 0..Smallest(ReadAhead, Len(wire)) :
       buffer = SubSeq(wire, 1, n) /\ socket = SubSeq(wire, n + 1, Len(wire))
  /\ \E length \in IF framing = "fixed" THEN {0, 3, 30} ELSE {0} :
       decoder = [state |-> FirstState(framing), remaining |-> length, fields |-> <<>>, octets |-> 0]
  /\ frame = <<>> /\ data = <<>>

Step ==
  \/ DataFromBuffer \/ DataFromSocket \/ FixedZero \/ DataEnds
  \/ HeadLine \/ HeadFields \/ ChunkSize \/ ChunkEnd \/ Trailers \/ UntilClose
Next == Step \/ Abandon

Spec == Init /\ [][Next]_vars

Over == decoder.state \in {"complete", "failed"}
=============================================================================
