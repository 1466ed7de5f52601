------------------------------ MODULE Ml307Tcp ------------------------------
(***************************************************************************)
(* A TCP or SSL socket of the ML307: esp-ml307, ml307_tcp.cc and           *)
(* ml307_ssl.cc.  One task connects, sends and disconnects; the receive    *)
(* task handles the URCs of the modem in the order they come.  A command   *)
(* is one step: the modem obeys it and the caller gets OK, or the caller   *)
(* gets an error or no answer in time, and the modem obeys it or not.      *)
(* AtUart has what is inside SendCommand.                                  *)
(***************************************************************************)
EXTENDS Naturals, Sequences

CONSTANTS MaxCalls,  \* bound: Connect, Send and Disconnect calls
          MaxChunks, \* bound: chunks of one Send
          MaxLosses  \* bound: times the peer closes

VARIABLES
    connected, instance_active,   \* fields of Ml307Tcp
    tcpBits,      \* its event group
    at, chunks,   \* where the caller is; chunks it has still to send
    result,       \* what its last call returned
    sock,         \* the modem: is the socket open
    urc,          \* URCs on their way
    calls, losses,   \* counters for the bounds
    sent, confirmed  \* history: chunks Send took for sent; confirmations of the modem

history == <<sent, confirmed>>
vars == <<connected, instance_active, tcpBits, at, chunks, result, sock, urc, calls, losses, history>>

Init ==
    /\ connected = FALSE /\ instance_active = FALSE /\ tcpBits = {}
    /\ at = "idle" /\ chunks = 0 /\ result = TRUE
    /\ sock = FALSE /\ urc = <<>> /\ calls = 0 /\ losses = 0
    /\ sent = 0 /\ confirmed = 0

-----------------------------------------------------------------------------
(* What the modem does with a command *)

Says(u) == urc' = Append(urc, u)
Quiet == UNCHANGED <<sock, urc>>

MIPSTATE == Says(IF sock THEN "state_open" ELSE "state_initial") /\ UNCHANGED sock
MIPCLOSE == sock' = FALSE /\ Says("close")
MIPOPEN ==
    \/ sock' = TRUE /\ Says("opened")
    \/ Says("open_failed") /\ UNCHANGED sock
MIPSEND == IF sock THEN Says("sent") /\ UNCHANGED sock ELSE Quiet

\* What is done, and the two places the caller may go on from.
Command(Done, ok, failed) ==
    \/ Done /\ at' \in {ok, failed}
    \/ Quiet /\ at' = failed

-----------------------------------------------------------------------------
(* The caller *)

Called == at = "idle" /\ calls < MaxCalls /\ calls' = calls + 1
Return(r) == at' = "idle" /\ result' = r

fields == <<connected, instance_active>>

ConnectCall ==
    /\ Called
    /\ tcpBits' = tcpBits \ {"CONNECTED", "DISCONNECTED", "ERROR"}
    /\ Command(MIPSTATE, "state", "state")
    /\ UNCHANGED <<fields, chunks, result, losses, history>>

StateKnown ==
    /\ at = "state"
    /\ IF "INITIALIZED" \in tcpBits
       THEN /\ at' = (IF instance_active THEN "close" ELSE "config") /\ UNCHANGED result
       ELSE Return(FALSE)
    /\ tcpBits' = tcpBits \ {"INITIALIZED"}
    /\ UNCHANGED <<fields, chunks, sock, urc, calls, losses, history>>

CloseOld ==
    /\ at = "close" /\ Command(MIPCLOSE, "closing", "config")
    /\ UNCHANGED <<fields, tcpBits, chunks, result, calls, losses, history>>

\* The wait for DISCONNECTED, with or without success
OldClosed ==
    /\ at = "closing" /\ at' = "config"
    /\ tcpBits' = tcpBits \ {"DISCONNECTED"}
    /\ UNCHANGED <<fields, chunks, result, sock, urc, calls, losses, history>>

\* The SSL settings, of Ml307Tcp or of Ml307Ssl, and the encoding
ConfigureSsl ==
    /\ at = "config"
    /\ \/ at' = "open" /\ UNCHANGED result
       \/ Return(FALSE)
    /\ UNCHANGED <<fields, tcpBits, chunks, sock, urc, calls, losses, history>>

Open ==
    /\ at = "open"
    /\ \/ Command(MIPOPEN, "opening", "opening") /\ UNCHANGED result
       \/ (MIPOPEN \/ Quiet) /\ Return(FALSE)
    /\ UNCHANGED <<fields, tcpBits, chunks, calls, losses, history>>

\* TRUE as well when neither bit has come in time.
Opened ==
    /\ at = "opening" /\ Return("ERROR" \notin tcpBits)
    /\ tcpBits' = tcpBits \ {"CONNECTED", "ERROR"}
    /\ UNCHANGED <<fields, chunks, sock, urc, calls, losses, history>>

SendCall ==
    /\ Called
    /\ IF connected THEN \E n \in 1 .. MaxChunks : chunks' = n /\ at' = "send" /\ UNCHANGED result
                    ELSE Return(FALSE) /\ UNCHANGED chunks
    /\ UNCHANGED <<fields, tcpBits, sock, urc, losses, history>>

SendChunk ==
    /\ at = "send" /\ Command(MIPSEND, "sending", "give_up") /\ result' = FALSE
    /\ UNCHANGED <<fields, tcpBits, chunks, calls, losses, history>>

\* Mutant: the confirmation stays for the next chunk.
TakenNot == UNCHANGED tcpBits

Taken == tcpBits' = tcpBits \ {"SEND_COMPLETE"}

\* SEND_COMPLETE or the time is over
ChunkSent ==
    /\ at = "sending" /\ Taken
    /\ IF "SEND_COMPLETE" \in tcpBits
       THEN /\ chunks' = chunks - 1 /\ sent' = sent + 1
            /\ IF chunks = 1 THEN Return(TRUE) ELSE at' = "send" /\ UNCHANGED result
       ELSE Return(FALSE) /\ UNCHANGED <<chunks, sent>>
    /\ UNCHANGED <<fields, sock, urc, calls, losses, confirmed>>

\* Disconnect: of the application, of a failed Send, of the destructor
DisconnectCall ==
    /\ Called
    /\ at' = "give_up"
    /\ UNCHANGED <<fields, tcpBits, chunks, result, sock, urc, losses, history>>

Disconnect ==
    /\ at = "give_up"
    /\ IF instance_active THEN Command(MIPCLOSE, "disconnecting", "disconnected")
                          ELSE Quiet /\ at' = "idle"
    /\ UNCHANGED <<fields, tcpBits, chunks, result, calls, losses, history>>

DisconnectWaited ==
    /\ at = "disconnecting" /\ at' = "disconnected"
    /\ tcpBits' = tcpBits \ {"DISCONNECTED"}
    /\ UNCHANGED <<fields, chunks, result, sock, urc, calls, losses, history>>

Disconnected ==
    /\ at = "disconnected" /\ at' = "idle"
    /\ connected' = FALSE
    /\ UNCHANGED <<instance_active, tcpBits, chunks, result, sock, urc, calls, losses, history>>

Caller == \/ ConnectCall \/ StateKnown \/ CloseOld \/ OldClosed \/ ConfigureSsl \/ Open \/ Opened
          \/ SendCall \/ SendChunk \/ ChunkSent
          \/ DisconnectCall \/ Disconnect \/ DisconnectWaited \/ Disconnected

-----------------------------------------------------------------------------
(* The URC callback, in the receive task *)

Urc(u) == urc # <<>> /\ Head(urc) = u /\ urc' = Tail(urc)

UrcOpen ==
    \/ /\ Urc("opened")
       /\ connected' = TRUE /\ instance_active' = TRUE
       /\ tcpBits' = (tcpBits \ {"DISCONNECTED", "ERROR"}) \cup {"CONNECTED"}
    \/ /\ Urc("open_failed")
       /\ connected' = FALSE /\ tcpBits' = tcpBits \cup {"ERROR"}
       /\ UNCHANGED instance_active

UrcClose ==
    /\ Urc("close")
    /\ instance_active' = FALSE /\ tcpBits' = tcpBits \cup {"DISCONNECTED"}
    /\ UNCHANGED <<connected, history>>

UrcSent ==
    /\ Urc("sent")
    /\ tcpBits' = tcpBits \cup {"SEND_COMPLETE"} /\ confirmed' = confirmed + 1
    /\ UNCHANGED <<fields, sent>>

UrcDisconn ==
    /\ Urc("disconn")
    /\ connected' = FALSE
    /\ instance_active' = FALSE /\ tcpBits' = tcpBits \cup {"DISCONNECTED"}
    /\ UNCHANGED history

UrcState ==
    /\ \E s \in {"state_open", "state_initial"} :
          /\ Urc(s) /\ connected' = (s = "state_open") /\ instance_active' = (s = "state_open")
    /\ tcpBits' = tcpBits \cup {"INITIALIZED"}
    /\ UNCHANGED history

HandleUrc ==
    /\ \/ UrcOpen /\ UNCHANGED history
       \/ UrcClose \/ UrcSent \/ UrcDisconn \/ UrcState
    /\ UNCHANGED <<at, chunks, result, sock, calls, losses>>

PeerCloses ==
    /\ sock /\ losses < MaxLosses
    /\ sock' = FALSE /\ losses' = losses + 1 /\ Says("disconn")
    /\ UNCHANGED <<fields, tcpBits, at, chunks, result, calls, history>>

Next == Caller \/ HandleUrc \/ PeerCloses
Spec == Init /\ [][Next]_vars

-----------------------------------------------------------------------------
(* Properties *)

\* No confirmation of the modem counts for two chunks, however late it comes: Send
\* never takes more chunks for sent than the modem has confirmed.
ConfirmedOnce == sent <= confirmed
=============================================================================
