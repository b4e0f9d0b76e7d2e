----------------------------- MODULE BodyRelay -------------------------------
(***************************************************************************)
(* The way of one request from the client's socket to the printer:         *)
(* main/ipp_http_request.c (head, body with a length or in chunks, read in *)
(* pieces of any size from the buffer of the head and then the socket),    *)
(* the receiving and streaming half of ipp_proxy.c, and ipp_stream.c       *)
(* (short writes, chunks). The PWG converter is left out.                  *)
(*                                                                         *)
(* The stream is a sequence of symbols: carriage return, line feed, the    *)
(* texts of chunk sizes, and any other text. The text of a line is one     *)
(* symbol; a longer one is too long (LineSize).                            *)
(***************************************************************************)
EXTENDS Integers, Sequences, SequencesExt

CONSTANTS
  BufferSize,        \* HTTP_BUFFER_SIZE
  TrailersMax,       \* HTTP_TRAILERS_MAX
  StreamChunk,       \* STREAM_CHUNK
  PrefixMax,         \* REQUEST_PREFIX_MAX
  MaxLength,         \* bound on Content-Length
  MaxHeard,          \* bound on the symbols of a body
  Sizes,             \* the sizes of chunks that a client may announce
  DataSymbols,       \* the symbols data is made of when it comes from the socket
  AttributesLength,  \* symbols of the IPP attributes
  RewrittenLength    \* symbols of what they are rewritten to

CR == <<"cr", 0>>
LF == <<"lf", 0>>
Other == <<"text", 0>>
SizeText(n) == <<"size", n>>
IsSize(s) == s[1] = "size"
SizeOf(s) == s[2]

Symbols == {CR, LF, Other} \cup {SizeText(n) : n \in Sizes}
AnySymbol == {CR, LF, Other} \cup ({"size"} \X Nat)
Strings == Seq(AnySymbol)
CRLF == <<CR, LF>>

ASSUME RelayAssumption ==
  /\ {BufferSize, StreamChunk, PrefixMax, AttributesLength,
      RewrittenLength} \subseteq Nat \ {0}
  /\ Sizes \subseteq Nat /\ DataSymbols \subseteq Symbols
  /\ {TrailersMax, MaxLength, MaxHeard} \subseteq Nat

VARIABLES
  phase,      \* where the worker is
  heard,      \* what the client has sent: the head, then (from parse_headers) the body
  used,       \* buffer_offset: the symbols of it that are read
  header_end,
  chunked, content_length, done,
  remaining,  \* fixed_remaining or chunk_remaining
  crlf_pending,
  line,       \* the part of a line or CRLF that is read, where the reader is in one
  trailers,   \* trailer_bytes, -1 before the last chunk's line
  call,       \* capacity of the call of ipp_http_request_read under way, or 0
  result,     \* what the call has returned: data, "done", an error, or "none"
  prefix, capacity,
  op,         \* kind of IPP operation
  to_copy,    \* what ipp_stream_copy has left
  pending,    \* what ipp_stream_write_all has left
  out         \* what the printer has received

clientVars == <<heard, used>>
framing == <<chunked, content_length>>
reader == <<done, remaining, crlf_pending, line, trailers>>
worker == <<prefix, capacity, op>>
writer == <<to_copy, pending, out>>
vars == <<phase, clientVars, header_end, framing, reader, call, result, worker, writer>>

LineSize == 2  \* HTTP_LINE_SIZE
Least(m, n) == IF m < n THEN m ELSE n

Nothing == [kind |-> "none", data |-> <<>>]
Data(d) == [kind |-> "data", data |-> d]
Ended == [kind |-> "done", data |-> <<>>]
Error(why) == [kind |-> why, data |-> <<>>]

RelayTypeOK ==
  /\ phase \in {"head", "headers", "receive", "drain", "peek", "plan", "write", "copy",
                "close", "relayed", "failed"}
  /\ heard \in Strings /\ used \in 0..Len(heard) /\ header_end \in 0..BufferSize
  /\ chunked \in BOOLEAN /\ content_length \in 0..MaxLength /\ done \in BOOLEAN
  /\ remaining \in Nat /\ crlf_pending \in BOOLEAN
  /\ line \in Strings /\ Len(line) <= LineSize + 1 /\ trailers \in -1..TrailersMax
  /\ call \in 0..(StreamChunk + PrefixMax)
  /\ result.kind \in {"none", "data", "done", "io", "malformed", "large"}
  /\ result.data \in Strings /\ Len(result.data) <= call
  /\ capacity \in 0..PrefixMax /\ prefix \in Strings /\ Len(prefix) <= capacity
  /\ op \in {"none", "print", "send", "other"}
  /\ to_copy \in 0..MaxLength /\ pending \in Strings /\ out \in Strings

Init ==
  /\ phase = "head"
  /\ heard = <<>> /\ used = 0 /\ header_end = 0
  /\ chunked = FALSE /\ content_length = 0 /\ done = FALSE
  /\ remaining = 0 /\ crlf_pending = FALSE /\ line = <<>> /\ trailers = -1
  /\ call = 0 /\ result = Nothing
  /\ prefix = <<>> /\ capacity = 0 /\ op = "none"
  /\ to_copy = 0 /\ pending = <<>> /\ out = <<>>

Fail ==
  /\ phase' = "failed"
  /\ call' = 0
  /\ UNCHANGED <<clientVars, header_end, framing, reader, result, worker, writer>>

----------------------------------------------------------------------------
(* ipp_http_request_open                                                   *)

(* A slip that a run must notice: the search goes on where it ended.       *)
SearchStartAtEnd(previous_length) == previous_length

SearchStart(previous_length) == IF previous_length >= 3 THEN previous_length - 3 ELSE 0

HeadEnds(buffer, start) ==
  {i \in (start + 4)..Len(buffer) : SubSeq(buffer, i - 3, i) = CRLF \o CRLF}

ReadHead ==
  /\ phase = "head"
  /\ \E k \in 1..(BufferSize - Len(heard)) : \E received \in [1..k -> Symbols] :
       LET buffer == heard \o received
           ends == HeadEnds(buffer, SearchStart(Len(heard)))
       IN  /\ heard' = buffer
           /\ \/ /\ ends = {}
                 /\ UNCHANGED <<phase, header_end>>
              \/ /\ ends # {}
                 /\ header_end' = CHOOSE i \in ends : \A j \in ends : i <= j
                 /\ phase' = "headers"
  /\ UNCHANGED <<used, framing, reader, call, result, worker, writer>>

(* The reader fails or the buffer is full.                                 *)
ReadHeadFails == phase = "head" /\ Fail

(* parse_headers: the body has a length or chunks, each said once, and not *)
(* both. What was read beyond the head stays in the buffer.                *)
ParseHeaders ==
  /\ phase = "headers"
  /\ \E lengths, codings \in 0..2 :
       /\ lengths <= 1 /\ codings <= 1 /\ (lengths = 1) # (codings = 1)
       /\ chunked' = (codings = 1)
       /\ content_length' \in IF lengths = 1 THEN 0..MaxLength ELSE {0}
  /\ remaining' = content_length'
  /\ heard' = SubSeq(heard, header_end + 1, Len(heard))
  /\ header_end' = 0
  /\ phase' = "receive"
  /\ UNCHANGED <<used, done, crlf_pending, line, trailers, call, result, worker, writer>>

ParseHeadersFails == phase = "headers" /\ Fail

----------------------------------------------------------------------------
(* ipp_http_request_read, one raw_read at a time                           *)

(* What raw_read may give: the rest of the buffer first, then what the     *)
(* socket has, of any size.                                                *)
Received(wanted, symbols) ==
  IF used < Len(heard)
    THEN {SubSeq(heard, used + 1, Least(used + wanted, Len(heard)))}
    ELSE UNION {[1..k -> symbols] : k \in 1..Least(wanted, MaxHeard - Len(heard))}

Take(data) ==
  /\ used' = used + Len(data)
  /\ heard' = IF used < Len(heard) THEN heard ELSE heard \o data

Reading == call > 0 /\ result = Nothing
InData == Reading /\ ~done /\ remaining > 0
InLine == Reading /\ ~done /\ chunked /\ remaining = 0

Return(r) == result' = r

Unread == <<phase, header_end, framing, call, worker, writer>>

(* The end of the socket, an error, or RECEIVE_TIMEOUT_RETRIES timeouts.   *)
ReadFails ==
  /\ InData \/ InLine
  /\ used = Len(heard)
  /\ Return(Error("io"))
  /\ UNCHANGED <<Unread, clientVars, reader>>

ReadEnd ==
  /\ Reading
  /\ done \/ (~chunked /\ remaining = 0)
  /\ done' = TRUE
  /\ Return(Ended)
  /\ UNCHANGED <<Unread, clientVars, remaining, crlf_pending, line, trailers>>

Wanted == Least(remaining, call)

(* A slip that a run must notice: a chunk's CRLF is forgotten when its end *)
(* fills the caller's buffer.                                              *)
CrlfUnlessFull(data) == chunked /\ remaining = Len(data) /\ Len(data) < call

CrlfAfter(data) == chunked /\ remaining = Len(data)

ReadData ==
  /\ InData
  /\ \E data \in Received(Wanted, DataSymbols) :
       /\ Take(data)
       /\ remaining' = remaining - Len(data)
       /\ crlf_pending' = CrlfAfter(data)
       /\ Return(Data(data))
  /\ UNCHANGED <<Unread, done, line, trailers>>

(* raw_exact: the rest of the two symbols it was asked for.                *)
CrlfSoFar(data) == line \o data

(* The CRLF after a chunk is looked at when both symbols are there.        *)
ReadCrlf ==
  /\ InLine /\ crlf_pending
  /\ \E data \in Received(2 - Len(line), Symbols) :
       LET read == CrlfSoFar(data)
       IN  /\ Take(data)
           /\ CASE Len(read) < 2 -> line' = read /\ UNCHANGED <<crlf_pending, result>>
                [] read = CRLF -> /\ line' = <<>> /\ crlf_pending' = FALSE
                                  /\ UNCHANGED result
                [] OTHER -> Return(Error("malformed")) /\ UNCHANGED <<line, crlf_pending>>
  /\ UNCHANGED <<Unread, done, remaining, trailers>>

(* read_line, which never reads beyond the line's end.                     *)
LineGoesOn(s) ==
  LET after_cr == line # <<>> /\ Last(line) = CR
  IN  IF after_cr THEN s = LF
      ELSE s = CR \/ (s # LF /\ Len(line) + 1 < LineSize)

LineRead == Len(line) >= 2 /\ SubSeq(line, Len(line) - 1, Len(line)) = CRLF
Text == SubSeq(line, 1, Len(line) - 2)

ReadLine ==
  /\ InLine /\ ~crlf_pending /\ ~LineRead
  /\ \E data \in Received(1, Symbols) :
       /\ Take(data)
       /\ \/ /\ LineGoesOn(data[1])
             /\ line' = line \o data
             /\ UNCHANGED result
          \/ /\ ~LineGoesOn(data[1])
             /\ Return(Error(IF Len(line) + 1 >= LineSize /\ Last(line) # CR
                               THEN "large" ELSE "malformed"))
             /\ UNCHANGED line
  /\ UNCHANGED <<Unread, done, remaining, crlf_pending, trailers>>

IsSizeLine == Text # <<>> /\ IsSize(Text[1])

(* A slip that a run must notice: the last chunk is taken to have a CRLF   *)
(* of its own, like the others.                                            *)
ParseChunkSizeWithCrlf ==
  /\ InLine /\ LineRead /\ trailers = -1
  /\ IsSizeLine
  /\ remaining' = SizeOf(Text[1])
  /\ trailers' = IF remaining' = 0 THEN 0 ELSE -1
  /\ crlf_pending' = (remaining' = 0)
  /\ line' = <<>>
  /\ UNCHANGED <<Unread, clientVars, done, result>>

(* parse_chunk_size; a chunk without data is the last.                     *)
ParseChunkSize ==
  /\ InLine /\ LineRead /\ trailers = -1
  /\ \/ /\ IsSizeLine
        /\ remaining' = SizeOf(Text[1])
        /\ trailers' = IF remaining' = 0 THEN 0 ELSE -1
        /\ line' = <<>>
        /\ UNCHANGED result
     \/ /\ ~IsSizeLine
        /\ Return(Error("malformed"))
        /\ UNCHANGED <<remaining, trailers, line>>
  /\ UNCHANGED <<Unread, clientVars, done, crlf_pending>>

(* finish_chunked_body                                                     *)
FinishChunkedBody ==
  /\ InLine /\ LineRead /\ trailers >= 0
  /\ \/ /\ Text = <<>>
        /\ done' = TRUE
        /\ Return(Ended)
        /\ UNCHANGED <<trailers, line>>
     \/ /\ Text # <<>>
        /\ Len(Text) > TrailersMax - trailers
        /\ Return(Error("large"))
        /\ UNCHANGED <<done, trailers, line>>
     \/ /\ Text # <<>>
        /\ Len(Text) <= TrailersMax - trailers
        /\ Other \notin ToSet(Text)
        /\ Return(Error("malformed"))
        /\ UNCHANGED <<done, trailers, line>>
     \/ /\ Text # <<>>
        /\ Len(Text) <= TrailersMax - trailers
        /\ Other \in ToSet(Text)
        /\ trailers' = trailers + Len(Text)
        /\ line' = <<>>
        /\ UNCHANGED <<done, result>>
  /\ UNCHANGED <<Unread, clientVars, remaining, crlf_pending>>

----------------------------------------------------------------------------
(* proxy_handler: the attributes and what comes with them                  *)

Call(n) == call' = n /\ result' = Nothing

(* receive_more, as far as the call it makes.                              *)
ReceiveMore ==
  LET wanted == Least(IF capacity = 0 THEN StreamChunk ELSE 2 * capacity, PrefixMax)
  IN  /\ phase \in {"receive", "drain", "peek"}
      /\ call = 0
      /\ Len(prefix) < PrefixMax
      /\ capacity' = wanted
      /\ Call(wanted - Len(prefix))
      /\ UNCHANGED <<phase, clientVars, header_end, framing, reader, prefix, op, writer>>

(* The prefix is too long or memory is short.                              *)
ReceiveMoreFails ==
  /\ phase \in {"receive", "drain", "peek"}
  /\ call = 0
  /\ Fail

Returned(kind) == call > 0 /\ result.kind = kind

(* A slip that a run must notice: an end that is an error is taken for the *)
(* end of the body.                                                        *)
EndOrError == Returned("done") \/ Returned("io")

(* receive_request gives 0.                                                *)
EndOfBody == Returned("done")

ReadError == call > 0 /\ result # Nothing /\ result.kind # "data" /\ ~EndOfBody

(* The attributes are complete, or are not; ipp_codec_inspect_request may  *)
(* also reject them.                                                       *)
InspectRequest ==
  /\ phase = "receive" /\ Returned("data")
  /\ prefix' = prefix \o result.data
  /\ Call(0)
  /\ \/ /\ Len(prefix') < AttributesLength
        /\ UNCHANGED <<phase, op>>
     \/ /\ Len(prefix') >= AttributesLength
        /\ op' \in {"print", "send", "other"}
        /\ phase' = CASE chunked /\ op' = "other" -> "drain"
                      [] chunked /\ op' = "print" /\ Len(prefix') = AttributesLength -> "peek"
                      [] OTHER -> "plan"
     \/ phase' = "failed" /\ UNCHANGED op
  /\ UNCHANGED <<clientVars, header_end, framing, reader, capacity, writer>>

DrainRequest ==
  /\ phase \in {"drain", "peek"} /\ Returned("data")
  /\ prefix' = prefix \o result.data
  /\ Call(0)
  /\ phase' = IF phase = "drain" THEN "drain" ELSE "plan"
  /\ UNCHANGED <<clientVars, header_end, framing, reader, capacity, op, writer>>

RequestEnds ==
  /\ phase \in {"drain", "peek"} /\ EndOfBody
  /\ Call(0)
  /\ phase' = "plan"
  /\ UNCHANGED <<clientVars, header_end, framing, reader, worker, writer>>

(* The body ends within the attributes, or reading it fails.               *)
ReceiveFails ==
  /\ \/ phase = "receive" /\ (EndOfBody \/ ReadError)
     \/ phase \in {"drain", "peek"} /\ ReadError
  /\ Fail

RequestBodyLength == IF chunked THEN Len(prefix) ELSE content_length
OutgoingChunked == chunked /\ op # "other"

(* The attributes rewritten, and what has arrived of the document.         *)
Rewritten == [i \in 1..RewrittenLength |-> Other]
Outgoing(body) == Rewritten \o SubSeq(body, AttributesLength + 1, Len(body))
OutgoingLength == RequestBodyLength + Len(Outgoing(prefix)) - Len(prefix)

(* ipp_proxy_plan_request on lengths                                       *)
PlanAllows ==
  CASE op = "print" -> RequestBodyLength > AttributesLength
    [] op = "send" -> RequestBodyLength >= AttributesLength
    [] op = "other" -> RequestBodyLength = AttributesLength

(* ipp_stream_write_http_chunk                                             *)
HttpChunk(data) == <<SizeText(Len(data))>> \o CRLF \o data \o CRLF

(* esp_http_client_open and the write of the prefix.                       *)
OpenUpstream ==
  /\ phase = "plan"
  /\ PlanAllows
  /\ pending' = IF OutgoingChunked THEN HttpChunk(Outgoing(prefix)) ELSE Outgoing(prefix)
  /\ to_copy' = IF OutgoingChunked THEN 0 ELSE RequestBodyLength - Len(prefix)
  /\ phase' = "write"
  /\ UNCHANGED <<clientVars, header_end, framing, reader, call, result, worker, out>>

(* Rejected by the plan, for this or another reason, or not opened.        *)
PlanFails == phase = "plan" /\ Fail

----------------------------------------------------------------------------
(* ipp_stream_write_all, ipp_stream_copy and stream_chunked_request        *)

Writing == phase \in {"write", "close"} /\ pending # <<>>

(* A slip that a run must notice: a short write starts the piece again.    *)
LeftFromStart(n) == IF n = Len(pending) THEN <<>> ELSE pending

Left(n) == SubSeq(pending, n + 1, Len(pending))

WriteSome ==
  /\ Writing
  /\ \E n \in 1..Len(pending) :
       /\ out' = out \o SubSeq(pending, 1, n)
       /\ pending' = Left(n)
  /\ UNCHANGED <<phase, clientVars, header_end, framing, reader, call, result, worker, to_copy>>

WriteFails == Writing /\ Fail

Written == phase = "write" /\ pending = <<>>

ReadNextPiece ==
  /\ Written
  /\ OutgoingChunked \/ to_copy > 0
  /\ Call(IF OutgoingChunked THEN StreamChunk ELSE Least(to_copy, StreamChunk))
  /\ phase' = "copy"
  /\ UNCHANGED <<clientVars, header_end, framing, reader, worker, writer>>

(* No memory for the buffer. The model allows this at every piece, the     *)
(* code at the first; a read may fail at any of them anyway.               *)
StreamFails == Written /\ (OutgoingChunked \/ to_copy > 0) /\ Fail

PassPiece ==
  /\ phase = "copy" /\ Returned("data")
  /\ pending' = IF OutgoingChunked THEN HttpChunk(result.data) ELSE result.data
  /\ to_copy' = IF OutgoingChunked THEN 0 ELSE to_copy - Len(result.data)
  /\ Call(0)
  /\ phase' = "write"
  /\ UNCHANGED <<clientVars, header_end, framing, reader, worker, out>>

PassEnd ==
  /\ phase = "copy" /\ EndOfBody
  /\ OutgoingChunked
  /\ pending' = HttpChunk(<<>>)
  /\ Call(0)
  /\ phase' = "close"
  /\ UNCHANGED <<clientVars, header_end, framing, reader, worker, to_copy, out>>

(* A body with a length cannot end before it: ipp_stream_copy's 0 is an    *)
(* error too.                                                              *)
CopyFails ==
  /\ phase = "copy"
  /\ call > 0 /\ result.kind \notin {"none", "data"}
  /\ ~(EndOfBody /\ OutgoingChunked)
  /\ Fail

Relayed ==
  /\ \/ Written /\ ~OutgoingChunked /\ to_copy = 0
     \/ phase = "close" /\ pending = <<>>
  /\ phase' = "relayed"
  /\ UNCHANGED <<clientVars, header_end, framing, reader, call, result, worker, writer>>

----------------------------------------------------------------------------
Next ==
  \/ ReadHead \/ ReadHeadFails \/ ParseHeaders \/ ParseHeadersFails
  \/ ReadFails \/ ReadEnd \/ ReadData \/ ReadCrlf \/ ReadLine \/ ParseChunkSize
  \/ FinishChunkedBody
  \/ ReceiveMore \/ ReceiveMoreFails \/ InspectRequest \/ DrainRequest \/ RequestEnds
  \/ ReceiveFails \/ OpenUpstream \/ PlanFails
  \/ WriteSome \/ WriteFails \/ ReadNextPiece \/ StreamFails \/ PassPiece \/ PassEnd
  \/ CopyFails \/ Relayed

Spec == Init /\ [][Next]_vars

----------------------------------------------------------------------------
(* What a body is, by RFC 9112, symbol by symbol and independent of how    *)
(* they are cut into reads: the data in it, and whether it is whole, open  *)
(* (more must follow) or bad.                                              *)

Body(data, status) == [data |-> data, status |-> status]

(* What is due, what is left of a chunk, and the data before.              *)
Start == [at |-> "size", left |-> 0, data |-> <<>>]

(* What is due after s.                                                    *)
Due(d, s) ==
  LET Literal(x, next) == IF s = x THEN next ELSE "bad"
  IN  CASE d.at = "size" -> IF IsSize(s) THEN "size cr" ELSE "bad"
        [] d.at = "size cr" -> Literal(CR, "size lf")
        [] d.at = "size lf" -> Literal(LF, IF d.left = 0 THEN "trailer" ELSE "data")
        [] d.at = "data" -> IF d.left = 1 THEN "cr" ELSE "data"
        [] d.at = "cr" -> Literal(CR, "lf")
        [] d.at = "lf" -> Literal(LF, "size")
        [] d.at = "trailer" -> IF s = Other THEN "trailer cr" ELSE Literal(CR, "last lf")
        [] d.at = "trailer cr" -> Literal(CR, "trailer lf")
        [] d.at = "trailer lf" -> Literal(LF, "trailer")
        [] d.at = "last lf" -> Literal(LF, "whole")
        [] d.at \in {"whole", "bad"} -> d.at

Follow(d, s) ==
  [at   |-> Due(d, s),
   left |-> CASE d.at = "size" /\ IsSize(s) -> SizeOf(s)
              [] d.at = "data" -> d.left - 1
              [] OTHER -> d.left,
   data |-> IF d.at = "data" THEN Append(d.data, s) ELSE d.data]

Decoding(w) ==
  LET d[i \in 0..Len(w)] == IF i = 0 THEN Start ELSE Follow(d[i - 1], w[i])
  IN  d

Decoded(w) == Decoding(w)[Len(w)]

ChunkedBody(w) ==
  LET d == Decoded(w)
  IN  Body(d.data, IF d.at \in {"whole", "bad"} THEN d.at ELSE "open")

FixedBody(w, length) ==
  Body(SubSeq(w, 1, Least(length, Len(w))), IF Len(w) < length THEN "open" ELSE "whole")

(* What the client has sent, and what the printer has received.            *)
Sent == IF chunked THEN ChunkedBody(heard) ELSE FixedBody(heard, content_length)
Got == IF OutgoingChunked THEN ChunkedBody(out) ELSE FixedBody(out, OutgoingLength)

Opened == phase \in {"write", "copy", "close", "relayed"} \/ out # <<>>

----------------------------------------------------------------------------
(* The head ends with the first empty line, wherever the reads of          *)
(* ipp_http_request_open cut it: the search neither misses one that came   *)
(* in two pieces nor takes a later one.                                    *)
HeadIsFound ==
  /\ phase = "head" => HeadEnds(heard, 0) = {}
  /\ phase = "headers" => HeadEnds(heard, 0) \cap 0..header_end = {header_end}

(* However the client's body is framed and cut, and whatever is buffered   *)
(* with the head, written short or fails: the printer has a prefix of the  *)
(* rewritten request, in a framing that is valid as far as it goes.        *)
PrinterGetsPrefix ==
  Opened => Got.status # "bad" /\ IsPrefix(Got.data, Outgoing(Sent.data))

(* The printer sees the end of the request only if the client sent its     *)
(* end, and then it has all of it: a broken upload never prints as a       *)
(* shorter document. The worker goes on to the answer only then.           *)
EndIsReal ==
  /\ Opened /\ Got.status = "whole" =>
       Sent.status = "whole" /\ Got.data = Outgoing(Sent.data)
  /\ phase = "relayed" => Got.status = "whole"

(* A body is called malformed only if it is: no cut of a valid one into    *)
(* reads is rejected.                                                      *)
OnlyBadIsMalformed == result.kind = "malformed" => Sent.status = "bad"

(* The worker waits on the socket only for what the client has to send: a  *)
(* client that waits for its answer is not waited for.                     *)
NoReadPastEnd ==
  [][phase \notin {"head", "headers"} /\ heard' # heard => Sent.status # "whole"]_vars
=============================================================================
