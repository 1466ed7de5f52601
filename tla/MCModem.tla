----------------------------- MODULE MCModem ------------------------------
(***************************************************************************)
(* The modem and what is built on it: each class of esp-ml307, the sockets *)
(* and the upgrade of main/, as a system of its own. They share no state   *)
(* but the command engine, which each models as the answers it may give,   *)
(* so that one run checks them in turn: the value of the variable "on"     *)
(* says which one moves in this behaviour. The .cfg gives the constants    *)
(* their values.                                                           *)
(***************************************************************************)

CONSTANTS Tasks, None, Remotes, Pollers, MaxCommands, MaxUrcs, PinTries,
          IpTries, MaxEvents, MaxCalls, MaxChunks, MaxLosses, MAX_CONN,
          MaxPackets, MqttCalls, MaxPolls, MqttMessages, BodyLines,
          LinesLost, MaxSends, MaxTries, MaxReports, MaxConnects,
          MaxClients, ClientEvents, MAX_BODY_CHUNKS_SIZE, MaxRequests,
          BodyLength, MaxMessages, MaxControls, ImageSize, MaxStarts

VARIABLES
    on,   \* the part that is checked in this behaviour: it alone moves
    at, cur, ok, command_mutex, mutex, bits, wait_for_response, response,
    prompt, rx, owed, expects, wire, issued, urcs, doneBy, clean,
    network_ready, stat, pin_ready, netBits, step, tries, status, told,
    events, fresh,
    connected, instance_active, tcpBits, tcpAt, chunks, result, sock,
    urc, calls, losses, sent, confirmed,
    conns, making, udp, used, next_id, udpAt, dest, udpBits, udp_event,
    reading, arriving, udpSock, udpUrc, udpCalls, packets, handed,
    mqttConnected, message_payload, mqttBits, mqttAt, poll, returned,
    link, piece, mqttUrc, mqttCalls, polls, mqttLosses, messages, upSince,
    mhttp_instance_active, http_id, status_code, eof, body, body_offset,
    response_chunked, content_length, response_headers, mhttpBits, mhttpAt,
    mhttpRx, bodyMutex, lines, mhttpLosses, readBytes, without, crossed,
    kind, qConnected, qActive, qBits, qAt, qsocketTries, qSock, qUrc,
    qCalls, qLosses, taken, acked, notices,
    qmtConnected, error_code, qmtBits, qmtAt, client, qmtUrc, opens,
    reports, accepted, qmqttResult, delivered,
    espKind, espConnected, fd, exitBit, group, espAt, rxTask, openFds,
    connects, callbacks, gaveUp, raced,
    emqConnected, emqPayload, emqBits, emqAt, library, espMPiece,
    clients, espMEvents, joined, connectOk,
    httpConnected, server_keep_alive, req, body_chunks, httpAt, packet,
    net, closing, request, got, early,
    wsConnected, handshake_completed, receive_buffer, is_fragmented,
    current_message, wsBits, wsAt, wsNet, wsUp,
    messages_sent, fragment, controls, onData, wsTold,
    s_ota_in_progress, checked, otaAt, success, restarting, ctx, otaBits, registered,
    callback, http, packet_no, stated, written, boot, starts

\* at_uart.cc: tasks that send commands, and URCs whose callbacks send some too.
At == INSTANCE AtUart
\* at_modem.cc and ml307_at_modem.cc: the registration and the PDP reports.
Network == INSTANCE AtNetwork
\* ml307_tcp.cc: Connect, Send and Disconnect, and losses of the connection.
Tcp == INSTANCE Ml307Tcp WITH
    at <- tcpAt
\* ml307_udp_socket.cc over ml307_udp.cc: connections that change hands between remotes.
Udp == INSTANCE UdpSocket
\* ml307_mqtt.cc: a task asks for the state while another connects.
Mqtt == INSTANCE Ml307Mqtt WITH
    MaxCalls <- MqttCalls, MaxMessages <- MqttMessages
\* ml307_http.cc: a body of lines that may be lost or cut.
Mhttp == INSTANCE Ml307Http WITH
    MaxLosses <- LinesLost, instance_active <- mhttp_instance_active
\* ec801e_tcp.cc, ec801e_ssl.cc and ec801e_udp.cc.
Qsocket == INSTANCE Ec801eSocket WITH
    tries <- qsocketTries
\* ec801e_mqtt.cc: attempts to connect.
Qmqtt == INSTANCE Ec801eMqtt WITH
    result <- qmqttResult
\* esp_tcp.cc, esp_ssl.cc and esp_udp.cc: the connections of one object.
Esp == INSTANCE EspSocket WITH
    kind <- espKind
\* esp_mqtt.cc: clients of the library, one after another.
EspM == INSTANCE EspMqtt WITH
    MaxEvents <- ClientEvents, piece <- espMPiece, events <- espMEvents
\* http_client.cc: requests, kept connections, a buffer that fills.
Http == INSTANCE HttpClient
\* web_socket.cc: messages in fragments and packets, control frames between.
Ws == INSTANCE WebSocket
\* otaupgrade.cpp: starts of the upgrade, and an image in packets.
Upgrade == INSTANCE Ota

atVars == <<at, cur, ok, command_mutex, mutex, bits, wait_for_response,
    response, prompt, rx, owed, expects, wire, issued, urcs, doneBy, clean>>
networkVars == <<network_ready, stat, pin_ready, netBits, step, tries,
    status, told, events, fresh>>
tcpVars == <<connected, instance_active, tcpBits, tcpAt, chunks, result,
    sock, urc, calls, losses, sent, confirmed>>
udpVars == <<conns, making, udp, used, next_id, udpAt, dest, udpBits,
    udp_event, reading, arriving, udpSock, udpUrc, udpCalls, packets, handed>>
mqttVars == <<mqttConnected, message_payload, mqttBits, mqttAt, poll,
    returned, link, piece, mqttUrc, mqttCalls, polls, mqttLosses, messages,
    upSince>>
mhttpVars == <<mhttp_instance_active, http_id, status_code, eof, body,
    body_offset, response_chunked, content_length, response_headers,
    mhttpBits, mhttpAt, mhttpRx, bodyMutex, lines, mhttpLosses, readBytes,
    without, crossed>>
qsocketVars == <<kind, qConnected, qActive, qBits, qAt, qsocketTries, qSock,
    qUrc, qCalls, qLosses, taken, acked, notices>>
qmqttVars == <<qmtConnected, error_code, qmtBits, qmtAt, client, qmtUrc,
    opens, reports, accepted, qmqttResult, delivered>>
espVars == <<espKind, espConnected, fd, exitBit, group, espAt, rxTask,
    openFds, connects, callbacks, gaveUp, raced>>
espMVars == <<emqConnected, emqPayload, emqBits, emqAt, library, espMPiece,
    clients, espMEvents, joined, connectOk>>
httpVars == <<httpConnected, server_keep_alive, req, body_chunks, httpAt,
    packet, net, closing, request, got, early>>
wsVars == <<wsConnected, handshake_completed, receive_buffer, is_fragmented,
    current_message, wsBits, wsAt, wsNet, wsUp, messages_sent,
    fragment, controls, onData, wsTold>>
upgradeVars == <<s_ota_in_progress, checked, otaAt, success, restarting, ctx, otaBits,
    registered, callback, http, packet_no, stated, written, boot, starts>>

MCInit ==
    /\ on \in {"at", "network", "tcp", "udp", "mqtt", "mhttp", "qsocket",
          "qmqtt", "esp", "espmqtt", "http", "ws", "ota"}
    /\ At!Init
    /\ Network!Init
    /\ Tcp!Init
    /\ Udp!Init
    /\ Mqtt!Init
    /\ Mhttp!Init
    /\ Qsocket!Init /\ (on # "qsocket" => kind = "tcp")
    /\ Qmqtt!Init
    /\ Esp!Init /\ (on # "esp" => espKind = "tcp")
    /\ EspM!Init
    /\ Http!Init
    /\ Ws!Init
    /\ Upgrade!Init

MCNext ==
    /\ UNCHANGED on
    /\ IF on = "at"      THEN At!Next ELSE UNCHANGED atVars
    /\ IF on = "network" THEN Network!Next ELSE UNCHANGED networkVars
    /\ IF on = "tcp"     THEN Tcp!Next ELSE UNCHANGED tcpVars
    /\ IF on = "udp"     THEN Udp!Next ELSE UNCHANGED udpVars
    /\ IF on = "mqtt"    THEN Mqtt!Next ELSE UNCHANGED mqttVars
    /\ IF on = "mhttp"   THEN Mhttp!Next ELSE UNCHANGED mhttpVars
    /\ IF on = "qsocket" THEN Qsocket!Next ELSE UNCHANGED qsocketVars
    /\ IF on = "qmqtt"   THEN Qmqtt!Next ELSE UNCHANGED qmqttVars
    /\ IF on = "esp"     THEN Esp!Next ELSE UNCHANGED espVars
    /\ IF on = "espmqtt" THEN EspM!Next ELSE UNCHANGED espMVars
    /\ IF on = "http"    THEN Http!Next ELSE UNCHANGED httpVars
    /\ IF on = "ws"      THEN Ws!Next ELSE UNCHANGED wsVars
    /\ IF on = "ota"     THEN Upgrade!Next ELSE UNCHANGED upgradeVars

mcvars == <<on, atVars, networkVars, tcpVars, udpVars, mqttVars, mhttpVars,
            qsocketVars, qmqttVars, espVars, espMVars, httpVars, wsVars,
            upgradeVars>>

MCSpec == MCInit /\ [][MCNext]_mcvars

\* Time passes: the tasks of AtUart that wait, and its receive task, go on.
CommandTurn(t) == on = "at" /\ At!SendCommandWithData(t)
ReceiveTurn == on = "at" /\ At!ReceiveTask
MCFairSpec == MCSpec /\ WF_atVars(ReceiveTurn) /\ \A t \in Tasks : WF_atVars(CommandTurn(t))

-----------------------------------------------------------------------------
\* The confirmations of at_uart.cc: a command sent when nothing of an earlier
\* one was on its way succeeds only on its own answer.
OkIsOwn == At!OkIsOwn

\* Every SendCommand returns, whatever the modem leaves unanswered, as long
\* as no callback sends a command: each wait has a timeout.
CommandReturns == At!CommandReturns

\* WaitForNetworkReady returns Ready only for a report that came while it
\* waited.
ReadyIsFresh == Network!ReadyIsFresh

\* Ml307Tcp::Send takes no confirmation for two chunks, however late it
\* comes.
ConfirmedOnce == Tcp!ConfirmedOnce

\* recv_any of the UDP sockets gives the packets of a connection in order, and none of
\* them a third time.
HandedInOrder == Udp!HandedInOrder

\* Connect of each MQTT class returns TRUE only for a connection made since
\* the call.
ConnectIsFresh == Mqtt!ConnectIsFresh /\ Qmqtt!ConnectIsFresh /\ EspM!ConnectIsFresh

\* Ml307Http reads the body in order, and leaves out only lines without their data.
BodyWithoutGap == Mhttp!BodyWithoutGap

\* The EC801E sockets take no confirmation for two chunks.
AckedOnce == Qsocket!AckedOnce

\* The receive task of an EspSsl or EspUdp has ended when its event group
\* goes.
GroupOutlivesTask == Esp!GroupOutlivesTask

\* HttpClient::Read gives the bytes of the last request in order, kept
\* connections included.
BodyInOrder == Http!BodyInOrder

\* WebSocket hands over every message whole, once and in order.
MessagesWhole == Ws!MessagesWhole

\* The partition is set to boot only with every packet of an image of a known length.
BootsWhole == Upgrade!BootsWhole
=============================================================================
