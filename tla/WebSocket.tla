------------------------------ MODULE WebSocket ------------------------------
(***************************************************************************)
(* The WebSocket client of esp-ml307, src/web_socket.cc: the task that     *)
(* connects, and the receive task of the TCP connection.  The server       *)
(* (external) answers the handshake and sends messages of two bytes, whole *)
(* or in fragments, with empty fragments and control frames between.  The  *)
(* stream is made of the halves of the handshake, of the heads of frames   *)
(* and of bytes; it comes in packets cut anywhere between these.           *)
(* An object connects once: nothing resets handshake_completed_.           *)
(***************************************************************************)
EXTENDS Naturals, Sequences

CONSTANTS MaxMessages,   \* bound: messages the server sends
          MaxControls    \* bound: pings, closes and empty fragments it sends

VARIABLES
    wsConnected, handshake_completed,   \* fields of WebSocket
    receive_buffer, is_fragmented, current_message,
    wsBits,          \* HANDSHAKE_SUCCESS and HANDSHAKE_FAILED
    wsAt,            \* where Connect is
    wsNet,           \* what is on its way from the server
    wsUp,            \* is the TCP connection up
    messages_sent, fragment, controls,   \* the server's messages, a fragment that is
                                         \* to be continued, a counter for the bound
    onData,          \* history: the messages given to the application
    wsTold           \* history: the calls of on_connected_ and on_disconnected_

parser == <<handshake_completed, receive_buffer, is_fragmented, current_message>>
server == <<messages_sent, fragment, controls>>
vars == <<wsConnected, parser, wsBits, wsAt, wsNet, wsUp, server, onData, wsTold>>

Init ==
    /\ wsConnected = FALSE /\ handshake_completed = FALSE /\ receive_buffer = <<>>
    /\ is_fragmented = FALSE /\ current_message = <<>>
    /\ wsBits = {} /\ wsAt = "idle" /\ wsNet = <<>> /\ wsUp = FALSE
    /\ messages_sent = 0 /\ fragment = FALSE /\ controls = 0
    /\ onData = <<>> /\ wsTold = <<>>

-----------------------------------------------------------------------------
(* The server *)

Item(k, v) == [is |-> k, op |-> "", fin |-> TRUE, len |-> 0, v |-> v]
Frame(op, fin, bytes) ==
    <<[is |-> "head", op |-> op, fin |-> fin, len |-> Len(bytes), v |-> 0]>>
       \o [i \in DOMAIN bytes |-> Item("byte", bytes[i])]

host == <<wsConnected, parser, wsBits, wsAt, onData, wsTold>>

ServerAnswers ==
    /\ wsAt \in {"listen", "wait"} /\ wsUp /\ messages_sent = 0 /\ ~fragment /\ controls = 0
    /\ \E a \in {"101", "refused"} : wsNet' = <<Item(a, 1), Item(a, 2)>>
    /\ controls' = 1 /\ UNCHANGED <<host, wsUp, messages_sent, fragment>>

ServerSends ==
    /\ wsUp /\ controls > 0
    /\ LET m == messages_sent + 1
       IN  \/ /\ fragment /\ wsNet' = wsNet \o Frame("continue", TRUE, <<m>>)
              /\ fragment' = FALSE /\ messages_sent' = m /\ UNCHANGED controls
           \/ /\ ~fragment /\ m <= MaxMessages /\ UNCHANGED controls
              /\ \/ wsNet' = wsNet \o Frame("text", TRUE, <<m, m>>) /\ messages_sent' = m /\ UNCHANGED fragment
                 \/ wsNet' = wsNet \o Frame("text", FALSE, <<m>>) /\ fragment' = TRUE /\ UNCHANGED messages_sent
           \/ /\ controls <= MaxControls /\ controls' = controls + 1
              /\ \/ \E op \in {"ping", "close"} : wsNet' = wsNet \o Frame(op, TRUE, <<>>)
                 \/ fragment /\ wsNet' = wsNet \o Frame("continue", FALSE, <<>>)
              /\ UNCHANGED <<fragment, messages_sent>>
    /\ UNCHANGED <<host, wsUp>>

-----------------------------------------------------------------------------
(* The task of the application *)

ConnectTcp ==
    /\ wsAt = "idle" /\ wsConnected' = FALSE
    /\ \E up \in BOOLEAN : wsUp' = up /\ wsAt' = IF up THEN "listen" ELSE "failed"
    /\ UNCHANGED <<parser, wsBits, wsNet, server, onData, wsTold>>

\* The handshake is sent first; only then the bits are cleared and the callbacks
\* registered.
ConnectListens ==
    /\ wsAt = "listen" /\ wsAt' \in {"wait", "failed"}
    /\ wsBits' = IF wsAt' = "wait" THEN {} ELSE wsBits
    /\ UNCHANGED <<wsConnected, parser, wsNet, wsUp, server, onData, wsTold>>

\* A bit has come or the time is over.
Connect ==
    /\ wsAt = "wait"
    /\ IF "SUCCESS" \in wsBits
       THEN wsConnected' = TRUE /\ wsAt' = "up" /\ wsTold' = Append(wsTold, "connected")
       ELSE wsAt' = "given_up" /\ UNCHANGED <<wsConnected, wsTold>>
    /\ UNCHANGED <<parser, wsBits, wsNet, wsUp, server, onData>>

-----------------------------------------------------------------------------
(* OnTcpData.  p is the parser with what it does to the application. *)

Now == [buf |-> receive_buffer, frag |-> is_fragmented, msg |-> current_message,
        done |-> handshake_completed, bits |-> wsBits,
        up |-> wsConnected, data |-> onData, told |-> wsTold]

Cut(s, n) == SubSeq(s, n + 1, Len(s))

\* Half a handshake that is not preceded by its first half is no "101".
Handshake(p) ==
    LET e == CHOOSE i \in DOMAIN p.buf : p.buf[i].v = 2 /\ p.buf[i].is \in {"101", "refused"}
    IN  IF p.buf[1].is = "101" /\ p.buf[1].v = 1
        THEN [p EXCEPT !.buf = Cut(@, e), !.done = TRUE, !.bits = @ \cup {"SUCCESS"}]
        ELSE [p EXCEPT !.buf = Cut(@, e), !.bits = @ \cup {"FAILED"}]

HandshakeWhole(p) == \E i \in DOMAIN p.buf : p.buf[i].v = 2 /\ p.buf[i].is \in {"101", "refused"}

FrameWhole(p) == p.buf # <<>> /\ Len(p.buf) >= 1 + p.buf[1].len

\* Mutant: the end of a message leaves is_fragmented_ set.
DataFrameNot(p, h, bytes) ==
    IF h.op # "continue" /\ p.frag THEN p
    ELSE LET msg == (IF h.op = "continue" THEN p.msg ELSE <<>>) \o bytes
         IN  IF h.fin THEN [p EXCEPT !.msg = <<>>, !.data = Append(@, msg)]
                      ELSE [p EXCEPT !.msg = msg, !.frag = (IF h.op = "continue" THEN @ ELSE TRUE)]

DataFrame(p, h, bytes) ==
    IF h.op # "continue" /\ p.frag THEN p
    ELSE LET msg == (IF h.op = "continue" THEN p.msg ELSE <<>>) \o bytes
         IN  IF h.fin THEN [p EXCEPT !.msg = <<>>, !.data = Append(@, msg), !.frag = FALSE]
                      ELSE [p EXCEPT !.msg = msg, !.frag = (IF h.op = "continue" THEN @ ELSE TRUE)]

OneFrame(p) ==
    LET h     == p.buf[1]
        bytes == [i \in 1 .. h.len |-> p.buf[i + 1].v]
        rest  == [p EXCEPT !.buf = Cut(@, 1 + h.len)]
    IN  CASE h.op \in {"text", "continue"} -> DataFrame(rest, h, bytes)
          [] h.op = "close" -> [rest EXCEPT !.up = FALSE, !.told = Append(@, "disconnected")]
          [] h.op = "ping"  -> rest   \* answered by a pong

\* All that are whole: each takes something from receive_buffer_.
Frames(p) ==
    LET after[n \in 0 .. Len(p.buf)] ==
            IF n = 0 THEN p
            ELSE LET q == after[n - 1] IN IF FrameWhole(q) THEN OneFrame(q) ELSE q
    IN  after[Len(p.buf)]

OnTcpData(data) ==
    LET p == [Now EXCEPT !.buf = @ \o data]
        q == IF p.done THEN Frames(p)
             ELSE IF ~HandshakeWhole(p) THEN p
             ELSE IF Handshake(p).done THEN Frames(Handshake(p)) ELSE Handshake(p)
    IN  /\ receive_buffer' = q.buf /\ is_fragmented' = q.frag /\ current_message' = q.msg
        /\ handshake_completed' = q.done /\ wsBits' = q.bits
        /\ wsConnected' = q.up /\ onData' = q.data /\ wsTold' = q.told

Registered == wsAt \in {"wait", "up", "given_up"}

\* What comes before the callbacks are registered is lost.
TcpData ==
    /\ wsNet # <<>>
    /\ \E k \in 1 .. Len(wsNet) :
          /\ wsNet' = Cut(wsNet, k)
          /\ IF Registered THEN OnTcpData(SubSeq(wsNet, 1, k))
             ELSE UNCHANGED <<wsConnected, parser, wsBits, onData, wsTold>>
    /\ UNCHANGED <<wsAt, wsUp, server>>

OnDisconnected ==
    /\ wsUp /\ wsUp' = FALSE /\ wsNet' = <<>>
    /\ IF wsConnected /\ Registered
       THEN wsConnected' = FALSE /\ wsTold' = Append(wsTold, "disconnected")
       ELSE UNCHANGED <<wsConnected, wsTold>>
    /\ UNCHANGED <<parser, wsBits, wsAt, server, onData>>

Next == \/ ServerAnswers \/ ServerSends
        \/ ConnectTcp \/ ConnectListens \/ Connect
        \/ TcpData \/ OnDisconnected

Spec == Init /\ [][Next]_vars

-----------------------------------------------------------------------------
(* Properties *)

\* on_data_ is given the server's messages whole, each once and in order, however
\* they are cut into frames and packets and whatever control frames come between.
MessagesWhole == \A i \in DOMAIN onData : onData[i] = <<i, i>>
=============================================================================
