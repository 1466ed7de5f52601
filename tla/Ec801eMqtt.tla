----------------------------- MODULE Ec801eMqtt -----------------------------
(***************************************************************************)
(* The MQTT client inside the EC801E: esp-ml307, ec801e/ec801e_mqtt.cc.    *)
(* One task connects, publishes and disconnects; the receive task handles  *)
(* what the modem reports.  The modem (external) has a client that is      *)
(* closed, open (a TCP connection to the broker) or on (accepted).         *)
(***************************************************************************)
EXTENDS Naturals, Sequences

CONSTANTS MaxTries,   \* bound: QMTOPEN commands and Disconnect calls
          MaxReports  \* bound: losses and messages

VARIABLES
    qmtConnected,   \* connected_
    error_code,     \* error_code_: is it 2, "identifier occupied"
    qmtBits,
    qmtAt,          \* where the task is
    client,         \* the modem's client
    qmtUrc,         \* what the modem has said
    opens, reports, \* counters for the bounds
    accepted,       \* history: the broker accepted since QMTCONN was sent
    result,         \* what Connect returned
    delivered       \* history: messages handed to the application

vars == <<qmtConnected, error_code, qmtBits, qmtAt, client, qmtUrc, opens, reports, accepted, result, delivered>>

Init ==
    /\ qmtConnected = FALSE /\ error_code = FALSE /\ qmtBits = {} /\ qmtAt = "idle"
    /\ client = "closed" /\ qmtUrc = <<>> /\ opens = 0 /\ reports = 0
    /\ accepted = FALSE /\ result = FALSE /\ delivered = 0

Says(u) == qmtUrc' = Append(qmtUrc, u)
Goto(from, to) == qmtAt = from /\ qmtAt' = to
Return(r) == qmtAt' = "idle" /\ result' = r
urcState == <<qmtConnected, error_code, delivered>>

-----------------------------------------------------------------------------
(* What the modem does with a command *)

QMTOPEN ==
    \/ client = "closed" /\ client' = "open" /\ Says("open_ok")
    \/ client # "closed" /\ Says("open_occupied") /\ UNCHANGED client
    \/ client = "closed" /\ Says("open_failed") /\ UNCHANGED client
QMTCONN ==
    \/ client = "open" /\ client' = "on" /\ Says("conn_ok")
    \/ client = "open" /\ client' = "closed" /\ Says("conn_refused")
    \/ client # "open" /\ Says("conn_refused") /\ UNCHANGED client
QMTDISC == client' = "closed" /\ Says(IF client = "closed" THEN "disc_failed" ELSE "disc_ok")
Quiet == UNCHANGED <<client, qmtUrc>>

-----------------------------------------------------------------------------
(* Connect *)

\* The settings of the client; one that fails ends the call.
Configure ==
    /\ qmtAt = "idle" /\ opens < MaxTries
    /\ \/ qmtAt' = "open" /\ UNCHANGED result
       \/ Return(FALSE)
    /\ UNCHANGED <<urcState, qmtBits, client, qmtUrc, opens, reports, accepted>>

Open ==
    /\ qmtAt = "open" /\ opens < MaxTries /\ opens' = opens + 1
    /\ qmtBits' = qmtBits \ {"OPEN_COMPLETE", "OPEN_FAILED"}
    /\ \/ QMTOPEN /\ qmtAt' = "opening" /\ UNCHANGED result
       \/ (QMTOPEN \/ Quiet) /\ Return(FALSE)
    /\ UNCHANGED <<urcState, reports, accepted>>

\* The identifier is occupied by an earlier client: it is closed first.
Opened ==
    /\ qmtAt = "opening"
    /\ qmtBits' = qmtBits \ {"OPEN_COMPLETE", "OPEN_FAILED"}
    /\ IF "OPEN_FAILED" \in qmtBits
       THEN IF error_code THEN qmtAt' = "free" /\ UNCHANGED result ELSE Return(FALSE)
       ELSE IF "OPEN_COMPLETE" \in qmtBits THEN qmtAt' = "conn" /\ UNCHANGED result ELSE Return(FALSE)
    /\ UNCHANGED <<urcState, client, qmtUrc, opens, reports, accepted>>

FreeIdentifier ==
    /\ Goto("free", "freeing") /\ (QMTDISC \/ Quiet)
    /\ UNCHANGED <<urcState, qmtBits, opens, reports, accepted, result>>

\* ... and Connect calls itself.
IdentifierFree ==
    /\ qmtAt = "freeing" /\ qmtBits' = qmtBits \ {"DISCONNECTED"}
    /\ IF "DISCONNECTED" \in qmtBits THEN qmtAt' = "open" /\ UNCHANGED result ELSE Return(FALSE)
    /\ UNCHANGED <<urcState, client, qmtUrc, opens, reports, accepted>>

\* Mutant: the bits of an earlier attempt stay.
ClearConnNot == UNCHANGED qmtBits

ClearConn == qmtBits' = qmtBits \ {"CONNECTED", "DISCONNECTED"}

Conn ==
    /\ qmtAt = "conn" /\ accepted' = FALSE /\ ClearConn
    /\ \/ QMTCONN /\ qmtAt' = "conning" /\ UNCHANGED result
       \/ (QMTCONN \/ Quiet) /\ Return(FALSE)
    /\ UNCHANGED <<urcState, opens, reports>>

Conned ==
    /\ qmtAt = "conning" /\ qmtBits' = qmtBits \ {"CONNECTED", "DISCONNECTED"}
    /\ Return("CONNECTED" \in qmtBits /\ "DISCONNECTED" \notin qmtBits)
    /\ UNCHANGED <<urcState, client, qmtUrc, opens, reports, accepted>>

\* connected_ is left to a QMTSTAT.
Disconnect ==
    /\ qmtAt = "idle" /\ qmtConnected /\ opens < MaxTries /\ opens' = opens + 1
    /\ QMTDISC \/ Quiet
    /\ UNCHANGED <<urcState, qmtBits, qmtAt, reports, accepted, result>>

Task == \/ Configure \/ Open \/ Opened \/ FreeIdentifier \/ IdentifierFree \/ Conn \/ Conned \/ Disconnect

-----------------------------------------------------------------------------
(* The URC callback *)

Urc(u) == qmtUrc # <<>> /\ Head(qmtUrc) = u /\ qmtUrc' = Tail(qmtUrc)
Set(b) == qmtBits' = qmtBits \cup {b}

UrcMessage ==
    /\ Urc("message") /\ delivered' = delivered + 1
    /\ UNCHANGED <<qmtConnected, error_code, qmtBits, accepted>>

UrcStat ==
    /\ Urc("stat") /\ qmtConnected' = FALSE /\ Set("DISCONNECTED")
    /\ UNCHANGED <<error_code, accepted, delivered>>

UrcConn ==
    /\ \/ Urc("conn_ok") /\ qmtConnected' = TRUE /\ Set("CONNECTED") /\ accepted' = TRUE
       \/ Urc("conn_refused") /\ qmtConnected' = FALSE /\ Set("DISCONNECTED") /\ UNCHANGED accepted
    /\ error_code' = FALSE /\ UNCHANGED delivered

UrcOpen ==
    /\ \/ Urc("open_ok") /\ error_code' = FALSE /\ Set("OPEN_COMPLETE")
       \/ Urc("open_occupied") /\ error_code' = TRUE /\ Set("OPEN_FAILED")
       \/ Urc("open_failed") /\ error_code' = FALSE /\ Set("OPEN_FAILED")
    /\ UNCHANGED <<qmtConnected, accepted, delivered>>

UrcDisc ==
    /\ \/ Urc("disc_ok") /\ Set("DISCONNECTED")
       \/ Urc("disc_failed") /\ UNCHANGED qmtBits
    /\ UNCHANGED <<qmtConnected, error_code, accepted, delivered>>

HandleUrc ==
    /\ UrcMessage \/ UrcStat \/ UrcConn \/ UrcOpen \/ UrcDisc
    /\ UNCHANGED <<qmtAt, client, opens, reports, result>>

BrokerReports ==
    /\ client = "on" /\ reports < MaxReports /\ reports' = reports + 1
    /\ \/ Says("message") /\ UNCHANGED client
       \/ Says("stat") /\ client' = "closed"
    /\ UNCHANGED <<urcState, qmtBits, qmtAt, opens, accepted, result>>

Next == Task \/ HandleUrc \/ BrokerReports
Spec == Init /\ [][Next]_vars

-----------------------------------------------------------------------------
(* Properties *)

\* Connect returns TRUE only when the broker has accepted since this call sent its
\* QMTCONN: what an earlier attempt left does not count, nor does the attempt that
\* Connect repeats when the identifier is occupied.
ConnectIsFresh == [][qmtAt = "conning" /\ qmtAt' = "idle" /\ result' => accepted]_vars
=============================================================================
