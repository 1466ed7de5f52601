----------------------------- MODULE HttpClient -----------------------------
(***************************************************************************)
(* The HTTP client of esp-ml307, src/http_client.cc: the task that opens   *)
(* requests and reads their answers, and the receive task of the TCP       *)
(* connection, which parses what comes.  The connection is kept for the    *)
(* next request when the last one is complete.                             *)
(*                                                                         *)
(* The server (external) answers a request with a body of BodyLength       *)
(* bytes, of known length, in one chunk or in two, or up to the end of the *)
(* connection, or with an empty body.  The stream is a sequence of lines   *)
(* and of bytes of a body; it comes in packets cut anywhere between these. *)
(***************************************************************************)
EXTENDS Naturals, Sequences

CONSTANTS MAX_BODY_CHUNKS_SIZE,   \* bytes kept for the reader (8 KB in the code)
          MaxRequests,            \* bound: Open calls
          BodyLength              \* bytes in the body of an answer, not 0: an empty body is another one

VARIABLES
    httpConnected, server_keep_alive,   \* fields of HttpClient that outlive a request
    req,           \* those that ResetRequestState resets
    body_chunks,   \* the bytes kept for the reader
    httpAt,        \* where the calling task is
    packet,        \* what a waiting OnTcpData holds; mutex_ is taken then
    net, closing,  \* the bytes on their way; has the server closed the connection
    request,       \* number of the request
    got,           \* history: what Read has returned since Open
    early          \* history: a connection was kept though its answer was not whole

stream == <<net, closing>>
caller == <<httpAt, request>>
vars == <<httpConnected, server_keep_alive, req, body_chunks, caller, packet, stream, got, early>>

NoHeaders == [length |-> 0, chunked |-> FALSE, connection |-> "none"]
NoRequest == [state |-> "STATUS_LINE", rx_buffer |-> <<>>, headers |-> NoHeaders, received |-> FALSE,
              chunked |-> FALSE, length |-> 0, total |-> 0, chunk |-> 0,
              eof |-> FALSE, connection_error |-> FALSE, failed |-> FALSE, keep |-> FALSE, body |-> <<>>]

Init ==
    /\ httpConnected = FALSE /\ server_keep_alive = FALSE
    /\ req = NoRequest /\ body_chunks = <<>> /\ httpAt = "idle" /\ packet = <<>>
    /\ net = <<>> /\ closing = FALSE /\ request = 0 /\ got = <<>> /\ early = FALSE

-----------------------------------------------------------------------------
(* The server *)

Line(k) == [kind |-> k, n |-> 0, of |-> 0, headers |-> NoHeaders]
Byte(q, i) == [Line("byte") EXCEPT !.of = q, !.n = i]
Size(n) == [Line("size") EXCEPT !.n = n]
Head3(h) == <<Line("status"), [Line("header") EXCEPT !.headers = h], Line("empty")>>

\* The bytes i to j of the body, and a chunk of them.
Bytes(q, i, j) == [n \in 1 .. j - i + 1 |-> Byte(q, i + n - 1)]
Chunk(q, i, j) == <<Size(j - i + 1)>> \o Bytes(q, i, j) \o <<Line("empty")>>
Chunked == [length |-> 0, chunked |-> TRUE, connection |-> "keep"]

Answers(q) ==
    LET body == Bytes(q, 1, BodyLength)
    IN  { Head3([length |-> BodyLength, chunked |-> FALSE, connection |-> "keep"]) \o body,
          Head3([length |-> BodyLength, chunked |-> FALSE, connection |-> "close"]) \o body,
          Head3([length |-> 0, chunked |-> FALSE, connection |-> "keep"]),
          Head3([length |-> 0, chunked |-> FALSE, connection |-> "none"]) \o body }
        \cup { Head3(Chunked) \o Chunk(q, 1, k)
                 \o (IF k < BodyLength THEN Chunk(q, k + 1, BodyLength) ELSE <<>>)
                 \o <<Size(0), Line("empty")>> : k \in 1 .. BodyLength }

\* The rest of what it was to send is lost.
ServerCloses ==
    /\ httpConnected /\ ~closing /\ closing' = TRUE
    /\ \E k \in 0 .. Len(net) : net' = SubSeq(net, 1, k)
    /\ UNCHANGED <<httpConnected, server_keep_alive, req, body_chunks, caller, packet, got, early>>

-----------------------------------------------------------------------------
(* ProcessReceivedData.  "body" gathers what AddBodyData gives the reader, "keep" *)
(* what becomes of server_keep_alive_; "failed" is SetError, which ends the loop. *)

HasCompleteLine(rx) == \E i \in DOMAIN rx : rx[i].kind # "byte"
\* The first line: bytes that stand before its end belong to it.
EndOfLine(rx) == CHOOSE i \in DOMAIN rx : rx[i].kind # "byte" /\ \A j \in 1 .. i - 1 : rx[j].kind = "byte"
GetNextLine(rx) == rx[1]
Rest(r) == [r EXCEPT !.rx_buffer = SubSeq(@, EndOfLine(@) + 1, Len(@))]
line(r) == GetNextLine(r.rx_buffer)

ParseStatusLine(r) ==
    IF line(r).kind = "status" THEN [Rest(r) EXCEPT !.state = "HEADERS"]
                               ELSE [Rest(r) EXCEPT !.failed = TRUE]

ParseHeaderLine(r) ==
    IF line(r).kind = "header" THEN [Rest(r) EXCEPT !.headers = line(r).headers]
                               ELSE [Rest(r) EXCEPT !.failed = TRUE]

HeadersEnd(r) ==
    LET h == r.headers
    IN  [Rest(r) EXCEPT !.received = TRUE,
                        !.keep = IF h.connection = "none" THEN @ ELSE h.connection = "keep",
                        !.chunked = h.chunked, !.length = h.length,
                        !.state = IF h.chunked THEN "CHUNK_SIZE" ELSE "BODY"]

\* All there is belongs to the body.
ParseRegularBody(r) ==
    LET all == r.total + Len(r.rx_buffer)
        done == r.length > 0 /\ all >= r.length
    IN  [r EXCEPT !.body = @ \o r.rx_buffer, !.total = all, !.rx_buffer = <<>>,
                  !.state = IF done THEN "COMPLETE" ELSE @, !.eof = IF done THEN TRUE ELSE @]

\* A line that is no number counts as 0.
ParseChunkSize(r) ==
    LET n == IF line(r).kind = "size" THEN line(r).n ELSE 0
    IN  [Rest(r) EXCEPT !.chunk = n, !.state = IF n = 0 THEN "CHUNK_TRAILER" ELSE "CHUNK_DATA"]

\* The line end after the chunk is skipped when it is there already.
ParseChunkData(r) ==
    LET n    == IF Len(r.rx_buffer) < r.chunk THEN Len(r.rx_buffer) ELSE r.chunk
        rest == SubSeq(r.rx_buffer, n + 1, Len(r.rx_buffer))
        end  == n = r.chunk
    IN  [r EXCEPT !.body = @ \o SubSeq(r.rx_buffer, 1, n), !.total = @ + n, !.chunk = @ - n,
                  !.rx_buffer = IF end /\ rest # <<>> /\ rest[1].kind = "empty" THEN Tail(rest) ELSE rest,
                  !.state = IF end THEN "CHUNK_SIZE" ELSE @]

ParseTrailer(r) ==
    IF line(r).kind = "empty" THEN [Rest(r) EXCEPT !.state = "COMPLETE", !.eof = TRUE] ELSE Rest(r)

ByLine == {"STATUS_LINE", "HEADERS", "CHUNK_SIZE", "CHUNK_TRAILER"}

Stops(r) == \/ r.failed \/ r.rx_buffer = <<>> \/ r.state = "COMPLETE"
            \/ r.state \in ByLine /\ ~HasCompleteLine(r.rx_buffer)

Parse(r) ==
    CASE r.state = "STATUS_LINE"   -> ParseStatusLine(r)
      [] r.state = "HEADERS"       -> IF line(r).kind = "empty" THEN HeadersEnd(r) ELSE ParseHeaderLine(r)
      [] r.state = "BODY"          -> ParseRegularBody(r)
      [] r.state = "CHUNK_SIZE"    -> ParseChunkSize(r)
      [] r.state = "CHUNK_DATA"    -> ParseChunkData(r)
      [] r.state = "CHUNK_TRAILER" -> ParseTrailer(r)

\* The loop goes round until it stops: each round takes something from rx_buffer.
ProcessReceivedData(r) ==
    LET after[n \in 0 .. Len(r.rx_buffer)] ==
            IF n = 0 THEN r
            ELSE IF Stops(after[n - 1]) THEN after[n - 1] ELSE Parse(after[n - 1])
    IN  after[Len(r.rx_buffer)]

-----------------------------------------------------------------------------
(* The callbacks of the connection, in the receive task *)

Room(p) == Len(body_chunks) + Len(p) < MAX_BODY_CHUNKS_SIZE \/ ~httpConnected

Received(p) ==
    LET r == ProcessReceivedData([req EXCEPT !.rx_buffer = @ \o p, !.failed = FALSE,
                                             !.keep = server_keep_alive])
    IN  /\ body_chunks' = body_chunks \o r.body
        /\ server_keep_alive' = r.keep
        /\ req' = [r EXCEPT !.body = <<>>]

free == packet = <<>>

\* It waits for room with mutex_ taken.
OnTcpData ==
    \/ /\ free
       /\ \E k \in 1 .. Len(net) :
             LET p == SubSeq(net, 1, k)
             IN  /\ net' = SubSeq(net, k + 1, Len(net))
                 /\ IF Room(p) THEN Received(p) /\ UNCHANGED packet
                    ELSE packet' = p /\ UNCHANGED <<req, body_chunks, server_keep_alive>>
    \/ /\ ~free /\ Room(packet)
       /\ Received(packet) /\ packet' = <<>> /\ UNCHANGED net

TcpData == OnTcpData /\ UNCHANGED <<httpConnected, caller, closing, got, early>>

IsDataComplete ==
    IF req.chunked THEN req.state = "COMPLETE" ELSE req.length > 0 => req.total >= req.length

Ended == IF req.received /\ ~IsDataComplete THEN [req EXCEPT !.connection_error = TRUE]
                                            ELSE [req EXCEPT !.eof = TRUE]

OnTcpDisconnected ==
    /\ free /\ closing /\ net = <<>> /\ httpConnected
    /\ httpConnected' = FALSE /\ server_keep_alive' = FALSE /\ req' = Ended
    /\ UNCHANGED <<body_chunks, caller, packet, stream, got, early>>

-----------------------------------------------------------------------------
(* The calling task *)

IsConnectionReusable == httpConnected /\ ~req.connection_error /\ server_keep_alive /\ IsDataComplete

\* Mutant: what the last request has left unread stays.
ResetRequestStateNot == req' = NoRequest /\ UNCHANGED body_chunks

ResetRequestState == req' = NoRequest /\ body_chunks' = <<>>

\* Disconnect of the connection returns when the receive task is not in a callback.
Open ==
    /\ httpAt \in {"idle", "open"} /\ request < MaxRequests
    /\ IF IsConnectionReusable
       THEN /\ httpAt' = "send" /\ UNCHANGED <<httpConnected, stream>>
            /\ early' = (early \/ ~req.received \/ ~free \/ net # <<>>)
       ELSE /\ httpConnected => free
            /\ net' = <<>> /\ closing' = FALSE /\ early' = FALSE
            /\ \E up \in BOOLEAN : httpConnected' = up /\ httpAt' = IF up THEN "send" ELSE "idle"
    /\ ResetRequestState
    /\ got' = <<>> /\ request' = request + 1
    /\ UNCHANGED <<server_keep_alive, packet>>

\* A request that cannot be sent closes the connection, which tells OnTcpDisconnected.
SendRequest ==
    /\ httpAt = "send"
    /\ \/ /\ httpAt' = "open"
          /\ IF closing THEN UNCHANGED net ELSE \E a \in Answers(request) : net' = net \o a
          /\ UNCHANGED <<httpConnected, server_keep_alive, req, closing>>
       \/ /\ free /\ httpAt' = "idle"
          /\ httpConnected' = FALSE /\ server_keep_alive' = FALSE /\ req' = Ended
          /\ net' = <<>> /\ closing' = TRUE
    /\ UNCHANGED <<body_chunks, request, packet, got, early>>

\* One byte; when there is nothing to wait for, or the time is over, none.
Read ==
    /\ httpAt = "open" /\ ~req.connection_error /\ body_chunks # <<>>
    /\ got' = Append(got, Head(body_chunks)) /\ body_chunks' = Tail(body_chunks)
    /\ UNCHANGED <<httpConnected, server_keep_alive, req, caller, packet, stream, early>>

\* All that is kept, which stays; it needs mutex_ to return, whatever happens.
ReadAll ==
    \/ /\ httpAt = "open" /\ httpAt' = "reading" /\ free
    \/ /\ httpAt = "reading" /\ httpAt' = "open" /\ free

ReadWhole == ReadAll /\ UNCHANGED <<httpConnected, server_keep_alive, req, body_chunks, request,
                                   packet, stream, got, early>>

Close ==
    \/ /\ httpAt = "open" /\ httpConnected
       /\ httpConnected' = FALSE /\ server_keep_alive' = FALSE /\ httpAt' = "closing"
       /\ UNCHANGED <<req, stream>>
    \/ /\ httpAt = "closing" /\ free
       /\ httpAt' = "idle" /\ req' = [req EXCEPT !.eof = TRUE] /\ net' = <<>> /\ closing' = TRUE
       /\ UNCHANGED <<httpConnected, server_keep_alive>>

CloseRequest == Close /\ UNCHANGED <<body_chunks, request, packet, got, early>>

Next == \/ ServerCloses \/ TcpData \/ OnTcpDisconnected
        \/ Open \/ SendRequest \/ Read \/ ReadWhole \/ CloseRequest

Spec == Init /\ [][Next]_vars

-----------------------------------------------------------------------------
(* Properties *)

\* Read gives the bytes of the body of the request that was opened last, in order
\* and none left out before them, on a kept connection too; except after a request
\* that was opened before the answer of the last one on its connection was whole.
BodyInOrder == ~early => \A i \in DOMAIN got : got[i] = Byte(request, i)

\* The comment in IsDataComplete, http_client.cc line 760: an answer in chunks whose
\* parser has come to COMPLETE has been received whole.
CompleteMeansWhole == req.chunked /\ req.state = "COMPLETE" => req.total = BodyLength
=============================================================================
