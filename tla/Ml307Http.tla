----------------------------- MODULE Ml307Http -----------------------------
(***************************************************************************)
(* The HTTP client inside the ML307: esp-ml307, ml307/ml307_http.cc.  One  *)
(* object makes one request, as README.md uses it: a task opens it, asks   *)
(* for its status, reads and closes it, and the receive task handles the   *)
(* lines of the modem.  A line may be lost on the serial line, or come      *)
(* without its last argument, which is sent in a packet of its own.        *)
(*                                                                         *)
(* The modem and the server are external.  A content line says how many    *)
(* bytes it has, how many there were up to it, and how many there will be  *)
(* (none when that is not known).  Its data is one number, its place in    *)
(* the body.                                                               *)
(***************************************************************************)
EXTENDS Naturals, Sequences

CONSTANTS BodyLines,   \* content lines of an answer
          MaxLosses    \* bound: lines that are lost or cut

VARIABLES
    instance_active, http_id,            \* fields of Ml307Http
    status_code, eof, body, body_offset,
    response_chunked, content_length, response_headers,
    mhttpBits,    \* its event group
    mhttpAt,      \* where the task is
    mhttpRx,      \* the receive task: stuck when a callback sends a command
    bodyMutex,    \* mutex_ is left taken by the receive task
    lines,        \* what the modem has said
    mhttpLosses,  \* counter for the bound
    readBytes,    \* history: what Read has returned
    without,      \* history: the bytes whose line came without its data
    crossed       \* history: another object has created an instance

fields == <<instance_active, http_id, status_code, response_chunked, content_length, response_headers>>
content == <<eof, body, body_offset>>
history == <<readBytes, without, crossed>>
vars == <<fields, content, mhttpBits, mhttpAt, mhttpRx, bodyMutex, lines, mhttpLosses, history>>

NoId == 0   \* -1 in the code
Own == 1
Other == 2

Init ==
    /\ instance_active = FALSE /\ http_id = NoId /\ status_code = FALSE
    /\ eof = FALSE /\ body = <<>> /\ body_offset = 0
    /\ response_chunked = FALSE /\ content_length = 0 /\ response_headers = {}
    /\ mhttpBits = {} /\ mhttpAt = "idle" /\ mhttpRx = "parse" /\ bodyMutex = FALSE
    /\ lines = <<>> /\ mhttpLosses = 0 /\ readBytes = <<>> /\ without = {} /\ crossed = FALSE

-----------------------------------------------------------------------------
(* The modem *)

Line(kind, id) == [kind |-> kind, id |-> id, chunked |-> FALSE, cut |-> FALSE, total |-> 0, sum |-> 0, cur |-> 0]
Create(id) == Line("create", id)
Content(ch, n) == [Line("content", Own) EXCEPT !.total = IF ch THEN 0 ELSE BodyLines, !.sum = n, !.cur = 1]
LastChunk == [Line("content", Own) EXCEPT !.sum = BodyLines]

Answers ==
    LET header(ch) == [Line("header", Own) EXCEPT !.chunked = ch]
        bytes(ch) == [n \in 1 .. BodyLines |-> Content(ch, n)]
    IN  { <<header(FALSE)>> \o bytes(FALSE), <<header(TRUE)>> \o bytes(TRUE) \o <<LastChunk>>,
          <<Line("err", Own)>>, <<>> }

LineLost ==
    /\ lines # <<>> /\ mhttpLosses < MaxLosses /\ mhttpLosses' = mhttpLosses + 1
    /\ lines' = Tail(lines)
    /\ UNCHANGED <<fields, content, mhttpBits, mhttpAt, mhttpRx, bodyMutex, history>>

\* The last argument of a line comes in another packet, and is taken for a response.
LineCut ==
    /\ lines # <<>> /\ mhttpLosses < MaxLosses /\ mhttpLosses' = mhttpLosses + 1
    /\ Head(lines).kind \in {"header", "content"} /\ ~Head(lines).cut
    /\ lines' = [lines EXCEPT ![1].cut = TRUE]
    /\ UNCHANGED <<fields, content, mhttpBits, mhttpAt, mhttpRx, bodyMutex, history>>

\* The buffer of the serial line was full: lines are lost, and that is told.
Overflow ==
    /\ mhttpLosses < MaxLosses /\ mhttpLosses' = mhttpLosses + 1
    /\ \E k \in 0 .. Len(lines) : lines' = <<Line("overflow", NoId)>> \o SubSeq(lines, k + 1, Len(lines))
    /\ UNCHANGED <<fields, content, mhttpBits, mhttpAt, mhttpRx, bodyMutex, history>>

\* Another Ml307Http is opened.
OtherCreates ==
    /\ ~crossed /\ crossed' = TRUE
    /\ lines' = Append(lines, Create(Other))
    /\ UNCHANGED <<fields, content, mhttpBits, mhttpAt, mhttpRx, bodyMutex, mhttpLosses, readBytes, without>>

-----------------------------------------------------------------------------
(* The callback *)

Handle(kind) == mhttpRx = "parse" /\ lines # <<>> /\ Head(lines).kind = kind /\ lines' = Tail(lines)
Mine == Head(lines).id = http_id
Bits(b) == mhttpBits' = mhttpBits \cup b

\* The number is taken whoever asked for it.
UrcCreate ==
    /\ Handle("create")
    /\ http_id' = Head(lines).id /\ instance_active' = TRUE /\ Bits({"INITIALIZED"})
    /\ UNCHANGED <<status_code, response_chunked, content_length, response_headers, content, mhttpRx,
                   bodyMutex, without>>

ParseResponseHeaders ==
    /\ response_chunked' = (response_chunked \/ Head(lines).chunked)
    /\ response_headers' = response_headers \cup {IF Head(lines).chunked THEN "Transfer-Encoding" ELSE "Content-Length"}

\* A line without its headers is an answer all the same.
UrcHeader ==
    /\ Handle("header") /\ Mine
    /\ eof' = FALSE /\ body' = <<>> /\ body_offset' = 0
    /\ status_code' = TRUE /\ Bits({"HEADERS_RECEIVED"})
    /\ IF Head(lines).cut THEN UNCHANGED <<response_chunked, response_headers>> ELSE ParseResponseHeaders
    /\ UNCHANGED <<instance_active, http_id, content_length, mhttpRx, bodyMutex, without>>

\* Mutant: what is missing is not noticed.
GapNot(offset) == FALSE

Gap(offset) == Head(lines).sum > offset

\* A line without its data is counted as if its bytes had come.
Data == IF Head(lines).cur = 0 \/ Head(lines).cut THEN <<>> ELSE <<Head(lines).sum>>

\* Close, called here with mutex_ held, sends a command: the receive task waits for
\* the AtUart mutex that it holds itself.
UrcContent ==
    /\ Handle("content") /\ Mine /\ ~bodyMutex
    /\ body' = body \o Data
    /\ without' = IF Head(lines).cur = 1 /\ Data = <<>> THEN without \cup {Head(lines).sum} ELSE without
    /\ eof' = (eof \/ IF response_chunked THEN Head(lines).cur = 0 ELSE Head(lines).sum >= Head(lines).total)
    /\ body_offset' = body_offset + Head(lines).cur
    /\ IF Gap(body_offset') /\ instance_active
       THEN mhttpRx' = "stuck" /\ bodyMutex' = TRUE
       ELSE UNCHANGED <<mhttpRx, bodyMutex>>
    /\ UNCHANGED <<fields, mhttpBits>>

UrcErr ==
    /\ Handle("err") /\ Mine /\ Bits({"ERROR"})
    /\ UNCHANGED <<fields, content, mhttpRx, bodyMutex, without>>

UrcOverflow ==
    /\ Handle("overflow") /\ Bits({"ERROR"})
    /\ mhttpRx' = IF instance_active THEN "stuck" ELSE mhttpRx
    /\ UNCHANGED <<fields, content, bodyMutex, without>>

UrcOfOther ==
    /\ lines # <<>> /\ Handle(Head(lines).kind) /\ Head(lines).kind \in {"header", "content", "err"} /\ ~Mine
    /\ UNCHANGED <<fields, content, mhttpBits, mhttpRx, bodyMutex, without>>

HandleUrc ==
    /\ \/ UrcCreate \/ UrcHeader \/ UrcContent \/ UrcErr \/ UrcOverflow \/ UrcOfOther
    /\ UNCHANGED <<mhttpAt, mhttpLosses, readBytes, crossed>>

-----------------------------------------------------------------------------
(* The task.  A command needs the receive task: it is answered, or fails. *)

Goto(from, to) == mhttpAt = from /\ mhttpAt' = to
Rest == UNCHANGED <<content, mhttpRx, bodyMutex, mhttpLosses, without, crossed>>

Open ==
    /\ \/ Goto("idle", "create") /\ lines' = Append(lines, Create(Own))
       \/ Goto("idle", "done") /\ UNCHANGED lines
    /\ UNCHANGED <<fields, mhttpBits, readBytes>> /\ Rest

Created ==
    /\ mhttpAt = "create" /\ mhttpAt' = (IF "INITIALIZED" \in mhttpBits THEN "request" ELSE "done")
    /\ mhttpBits' = mhttpBits \ {"INITIALIZED"}
    /\ UNCHANGED <<fields, lines, readBytes>> /\ Rest

\* The settings, the headers, the content and MHTTPREQUEST.  The server answers only
\* a request with the number of this object's instance.
Request ==
    /\ \/ /\ Goto("request", "status")
          /\ \E a \in Answers : lines' = IF http_id = Own THEN lines \o a ELSE lines
       \/ Goto("request", "done") /\ UNCHANGED lines
    /\ UNCHANGED <<fields, mhttpBits, readBytes>> /\ Rest

\* GetStatusCode and GetBodyLength: FetchHeaders waits only while no header line has
\* been handled, and it alone sets content_length_.
FetchHeaders ==
    /\ mhttpAt = "status"
    /\ IF status_code
       THEN mhttpAt' = "read" /\ UNCHANGED <<mhttpBits, content_length>>
       ELSE /\ mhttpBits' = mhttpBits \ {"HEADERS_RECEIVED", "ERROR"}
            /\ IF "HEADERS_RECEIVED" \in mhttpBits /\ "ERROR" \notin mhttpBits
               THEN /\ mhttpAt' = "read"
                    /\ content_length' = IF "Content-Length" \in response_headers THEN BodyLines ELSE content_length
               ELSE mhttpAt' = "close" /\ UNCHANGED content_length
    /\ UNCHANGED <<instance_active, http_id, status_code, response_chunked, response_headers, lines, readBytes>>
    /\ Rest

\* Read waits for bytes or the end; -1 when the time is over or the instance is gone.
Read ==
    /\ mhttpAt = "read" /\ ~bodyMutex
    /\ \/ /\ body # <<>> /\ instance_active
          /\ \E k \in 1 .. Len(body) : /\ readBytes' = readBytes \o SubSeq(body, 1, k)
                                       /\ body' = SubSeq(body, k + 1, Len(body))
          /\ UNCHANGED mhttpAt
       \/ (eof /\ body = <<>>) /\ mhttpAt' = "close" /\ UNCHANGED <<readBytes, body>>
       \/ ((body = <<>> /\ ~eof) \/ ~instance_active) /\ mhttpAt' = "close" /\ UNCHANGED <<readBytes, body>>
    /\ UNCHANGED <<fields, eof, body_offset, mhttpBits, mhttpRx, bodyMutex, lines, mhttpLosses, without, crossed>>

\* ReadAll waits for the end, and gives what there is when the time is over.
ReadAll ==
    /\ Goto("read", "close") /\ ~bodyMutex
    /\ readBytes' = readBytes \o body
    /\ UNCHANGED <<fields, mhttpBits, lines>> /\ Rest

Close ==
    /\ Goto("close", "done") /\ mhttpRx = "parse"
    /\ instance_active' = FALSE /\ eof' = (eof \/ instance_active)
    /\ UNCHANGED <<http_id, status_code, response_chunked, content_length, response_headers, body, body_offset,
                   mhttpBits, mhttpRx, bodyMutex, lines, mhttpLosses, history>>

Task == Open \/ Created \/ Request \/ FetchHeaders \/ Read \/ ReadAll \/ Close

Next == Task \/ HandleUrc \/ LineLost \/ LineCut \/ Overflow \/ OtherCreates
Spec == Init /\ [][Next]_vars

-----------------------------------------------------------------------------
(* Properties *)

\* Whatever lines are lost, Read and ReadAll give the bytes of the body in order from
\* its first on, and leave out only those whose line came without its data, unless
\* another object has created an instance.
BodyWithoutGap ==
    ~crossed =>
        /\ \A i, j \in 1 .. Len(readBytes) : i < j => readBytes[i] < readBytes[j]
        /\ \A i \in 1 .. Len(readBytes) : \A n \in 1 .. readBytes[i] :
               n \in without \/ \E j \in 1 .. i : readBytes[j] = n
=============================================================================
