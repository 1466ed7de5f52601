---------------------------- MODULE Ec801eSocket ----------------------------
(***************************************************************************)
(* A socket of the EC801E: esp-ml307, ec801e_tcp.cc, ec801e_ssl.cc and     *)
(* ec801e_udp.cc, three classes of one shape; "kind" is the class.  One    *)
(* task connects, sends and disconnects; the receive task handles what the *)
(* modem says.  As in Ml307Tcp a command is one step: the modem obeys and  *)
(* the caller gets OK, or the caller gets an error or no answer, and the   *)
(* modem obeys or not.  The modem and the peer are external.  An overflow  *)
(* of the serial line is not here: what it does is CallbackSends of AtUart.*)
(***************************************************************************)
EXTENDS Naturals, Sequences

CONSTANTS MaxCalls,  \* bound: Connect, Send and Disconnect calls
          MaxSends,  \* bound: transmissions of one Send, the repeated ones included
          MaxLosses  \* bound: times the peer closes

VARIABLES
    kind,
    qConnected, qActive,   \* connected_ and instance_active_
    qBits,     \* the event group
    qAt,       \* where the caller is
    tries,     \* transmissions that are left
    qSock,     \* the modem: is the socket open
    qUrc,      \* what it has said
    qCalls, qLosses,   \* counters for the bounds
      \* history: chunks of the Send under way that the modem took
    taken, acked,   \* history: chunks Send took for sent; confirmations handled
    notices    \* history: disconnect_callback_ calls

fields == <<qConnected, qActive>>
history == <<taken, acked, notices>>
vars == <<kind, fields, qBits, qAt, tries, qSock, qUrc, qCalls, qLosses, history>>

Init ==
    /\ kind \in {"tcp", "ssl", "udp"}
    /\ qConnected = FALSE /\ qActive = FALSE /\ qBits = {}
    /\ qAt = "idle" /\ tries = 0 /\ qSock = FALSE /\ qUrc = <<>>
    /\ qCalls = 0 /\ qLosses = 0 /\ taken = 0 /\ acked = 0 /\ notices = 0

-----------------------------------------------------------------------------
(* What the modem does with a command *)

Says(u) == qUrc' = Append(qUrc, u)
Quiet == UNCHANGED <<qSock, qUrc>>

\* QISTATE and QSSLSTATE answer with a line for a socket that is open.
QISTATE == (IF qSock THEN Says("state") ELSE UNCHANGED qUrc) /\ UNCHANGED qSock
QICLOSE == qSock' = FALSE /\ (IF kind = "ssl" THEN Says("close") ELSE UNCHANGED qUrc)
QIOPEN ==
    \/ ~qSock /\ qSock' = TRUE /\ Says("opened")
    \/ Says("open_failed") /\ UNCHANGED qSock
QISEND == (IF qSock THEN Says("sent") \/ Says("send_failed") ELSE UNCHANGED qUrc) /\ UNCHANGED qSock

-----------------------------------------------------------------------------
(* Connect *)

Called == qAt = "idle" /\ qCalls < MaxCalls /\ qCalls' = qCalls + 1
Goto(from, to) == qAt = from /\ qAt' = to

ConnectCall ==
    /\ Called /\ qAt' = "connect"
    /\ qBits' = qBits \ {"CONNECTED", "DISCONNECTED", "ERROR"}
    /\ QISTATE \/ Quiet
    /\ UNCHANGED <<kind, fields, tries, qLosses, history>>

\* An old instance is closed.  For TCP and UDP the modem reports no end of a socket
\* it was told to close, so this wait takes its whole time.
CloseOld ==
    /\ qAt = "connect" /\ qActive
    /\ \/ QICLOSE /\ Goto("connect", "closing")
       \/ Quiet /\ Goto("connect", "closing")
    /\ UNCHANGED <<kind, fields, qBits, tries, qCalls, qLosses, history>>

OldClosed ==
    /\ Goto("closing", "open") /\ qActive' = FALSE
    /\ qBits' = qBits \ {"DISCONNECTED"}
    /\ UNCHANGED <<kind, qConnected, tries, qSock, qUrc, qCalls, qLosses, history>>

Open ==
    /\ qAt = "open" \/ (qAt = "connect" /\ ~qActive)
    /\ \/ QIOPEN /\ qAt' = "opening"
       \/ (QIOPEN \/ Quiet) /\ qAt' = "idle"
    /\ UNCHANGED <<kind, fields, qBits, tries, qCalls, qLosses, history>>

\* TRUE is returned as well when neither bit has come in time.
Opened ==
    /\ Goto("opening", "idle")
    /\ qBits' = qBits \ {"CONNECTED", "ERROR"}
    /\ UNCHANGED <<kind, fields, tries, qSock, qUrc, qCalls, qLosses, history>>

Connect == ConnectCall \/ CloseOld \/ OldClosed \/ Open \/ Opened

-----------------------------------------------------------------------------
(* Send: a chunk the modem reports as failed is sent again, but not over UDP. *)

SendCall ==
    /\ Called /\ qConnected /\ Goto("idle", "send")
    /\ tries' = MaxSends
    /\ UNCHANGED <<kind, fields, qBits, qSock, qUrc, qLosses, history>>

SendChunk ==
    /\ qAt = "send" /\ tries > 0 /\ tries' = tries - 1
    /\ \/ QISEND /\ qAt' = "sending"
       \/ Quiet /\ qAt' = (IF kind = "udp" THEN "idle" ELSE "drop")
    /\ UNCHANGED <<kind, fields, qBits, qCalls, qLosses, history>>

\* Mutant: what was confirmed stays confirmed.
ConsumedNot == UNCHANGED qBits

Consumed == qBits' = qBits \ {"SEND_COMPLETE", "SEND_FAILED"}

ChunkSent ==
    /\ qAt = "sending" /\ Consumed
    /\ IF "SEND_FAILED" \in qBits
       THEN qAt' = (IF kind = "udp" THEN "idle" ELSE "send") /\ UNCHANGED taken
       ELSE IF "SEND_COMPLETE" \notin qBits
       THEN qAt' = "idle" /\ UNCHANGED taken
       ELSE taken' = taken + 1 /\ qAt' \in (IF kind = "udp" THEN {"idle"} ELSE {"idle", "send"})
    /\ UNCHANGED <<kind, fields, tries, qSock, qUrc, qCalls, qLosses, acked, notices>>

-----------------------------------------------------------------------------
(* Disconnect: of the application, of a failed command of Send, of the destructor *)

DisconnectCall ==
    /\ Called /\ Goto("idle", "drop")
    /\ UNCHANGED <<kind, fields, qBits, tries, qSock, qUrc, qLosses, history>>

\* The SSL socket leaves instance_active_ to the URC.
Dropped(obeyed) == IF obeyed /\ kind # "ssl" THEN qActive' = FALSE ELSE UNCHANGED qActive

Tell == IF kind = "udp" THEN UNCHANGED <<qConnected, notices>>
        ELSE qConnected' = FALSE /\ notices' = IF qConnected THEN notices + 1 ELSE notices

Disconnect ==
    /\ Goto("drop", "idle")
    /\ \/ ~qActive /\ Quiet /\ UNCHANGED <<fields, notices>>
       \/ qActive /\ QICLOSE /\ Dropped(TRUE) /\ Tell
       \/ qActive /\ (QICLOSE \/ Quiet) /\ Dropped(FALSE) /\ Tell
    /\ UNCHANGED <<kind, qBits, tries, qCalls, qLosses, taken, acked>>

Caller == Connect \/ SendCall \/ SendChunk \/ ChunkSent \/ DisconnectCall \/ Disconnect

-----------------------------------------------------------------------------
(* The URC callbacks *)

Urc(u) == qUrc # <<>> /\ Head(qUrc) = u /\ qUrc' = Tail(qUrc)
Set(b) == qBits' = qBits \cup b
OpenBits == qBits' = (qBits \ {"DISCONNECTED", "ERROR"}) \cup {"CONNECTED"}

\* A TCP socket that could not be opened tells the application of a disconnection.
TcpOpen ==
    /\ kind = "tcp"
    /\ \/ Urc("opened") /\ qConnected' = TRUE /\ qActive' = TRUE /\ OpenBits /\ UNCHANGED notices
       \/ Urc("open_failed") /\ qConnected' = FALSE /\ Set({"ERROR"}) /\ notices' = notices + 1
          /\ UNCHANGED qActive
    /\ UNCHANGED acked

UdpOpen ==
    /\ kind = "udp"
    /\ \/ Urc("opened") /\ qConnected' = TRUE /\ qActive' = TRUE /\ OpenBits
       \/ Urc("open_failed") /\ qConnected' = FALSE /\ Set({"ERROR"}) /\ UNCHANGED qActive
    /\ UNCHANGED <<acked, notices>>

\* An SSL socket that is taken for active already ignores the report.
SslOpen ==
    /\ kind = "ssl"
    /\ \/ Urc("opened") /\ ~qActive /\ qConnected' = TRUE /\ qActive' = TRUE /\ OpenBits
       \/ Urc("open_failed") /\ ~qActive /\ qConnected' = FALSE /\ Set({"ERROR"}) /\ UNCHANGED qActive
       \/ (Urc("opened") \/ Urc("open_failed")) /\ qActive /\ UNCHANGED <<fields, qBits>>
    /\ UNCHANGED <<acked, notices>>

SslClose ==
    /\ Urc("close") /\ qActive' = FALSE
    /\ UNCHANGED <<qConnected, qBits, acked, notices>>

SendComplete ==
    /\ Urc("sent") /\ Set({"SEND_COMPLETE"}) /\ acked' = acked + 1
    /\ UNCHANGED <<fields, notices>>

TcpSendFailed ==
    /\ kind # "ssl" /\ Urc("send_failed") /\ Set({"SEND_FAILED"})
    /\ UNCHANGED <<fields, acked, notices>>

\* ERROR is set, which Send does not wait for.
SslSendFailed ==
    /\ kind = "ssl" /\ Urc("send_failed") /\ Set({"ERROR"})
    /\ UNCHANGED <<fields, acked, notices>>

\* The peer has closed: the instance is left to the next Disconnect or Connect.
TcpClosed ==
    /\ kind # "udp" /\ Urc("closed") /\ Set({"DISCONNECTED"})
    /\ qConnected' = FALSE /\ notices' = IF qConnected THEN notices + 1 ELSE notices
    /\ UNCHANGED <<qActive, acked>>

UdpClosed ==
    /\ kind = "udp" /\ Urc("closed") /\ Set({"DISCONNECTED"})
    /\ qConnected' = FALSE /\ qActive' = FALSE
    /\ UNCHANGED <<acked, notices>>

SocketState ==
    /\ Urc("state") /\ qConnected' = TRUE /\ qActive' = TRUE /\ Set({"INITIALIZED"})
    /\ UNCHANGED <<acked, notices>>

HandleUrc ==
    /\ \/ TcpOpen \/ UdpOpen \/ SslOpen \/ SslClose \/ SendComplete
       \/ TcpSendFailed \/ SslSendFailed \/ TcpClosed \/ UdpClosed \/ SocketState
    /\ UNCHANGED <<kind, qAt, tries, qSock, qCalls, qLosses, taken>>

PeerCloses ==
    /\ qSock /\ qLosses < MaxLosses /\ qLosses' = qLosses + 1
    /\ qSock' = FALSE /\ Says("closed")
    /\ UNCHANGED <<kind, fields, qBits, qAt, tries, qCalls, history>>

Next == Caller \/ HandleUrc \/ PeerCloses
Spec == Init /\ [][Next]_vars

-----------------------------------------------------------------------------
(* Properties *)

\* However late a confirmation comes and however often a chunk is sent again, Send
\* takes no more chunks for sent than the modem has confirmed.
AckedOnce == taken <= acked
=============================================================================
