------------------------------ MODULE Ml307Mqtt ------------------------------
(***************************************************************************)
(* The MQTT client of the ML307: esp-ml307, ml307_mqtt.cc.  One task       *)
(* connects and disconnects, others publish after they have asked          *)
(* IsConnected, and the receive task handles the URCs in the order they    *)
(* come.  The modem (external) keeps the connection to the broker, loses   *)
(* it and makes it again by itself.  A message comes whole or in pieces.   *)
(***************************************************************************)
EXTENDS Naturals, Sequences

CONSTANTS Pollers,        \* tasks that ask IsConnected before they publish
          MaxCalls,       \* bound: Connect and Disconnect calls
          MaxPolls,       \* bound: IsConnected calls
          MaxLosses,      \* bound: times the connection is lost
          MaxMessages     \* bound: messages that come, of two pieces at most

VARIABLES
    mqttConnected,       \* connected_
    message_payload,     \* the pieces kept, by the message they are of
    mqttBits,            \* the event group
    mqttAt, poll,        \* where the connecting task and the others are
    returned,            \* what Connect returned
    link,                \* the modem: is it connected to the broker
    piece,               \* the modem: the message it has given the first piece of, or 0
    mqttUrc,             \* URCs on their way
    mqttCalls, polls, mqttLosses, messages,   \* counters for the bounds
    upSince              \* history: a "conn 0" handled since Connect was called

caller == <<mqttAt, poll, returned, mqttCalls, polls>>
modem  == <<link, piece, mqttUrc, mqttLosses, messages>>
vars   == <<mqttConnected, message_payload, mqttBits, caller, modem, upSince>>

Init ==
    /\ mqttConnected = FALSE /\ message_payload = <<>> /\ mqttBits = {}
    /\ mqttAt = "idle" /\ poll = [t \in Pollers |-> "idle"] /\ returned = FALSE
    /\ link = FALSE /\ piece = 0 /\ mqttUrc = <<>>
    /\ mqttCalls = 0 /\ polls = 0 /\ mqttLosses = 0 /\ messages = 0
    /\ upSince = FALSE

-----------------------------------------------------------------------------
(* The modem *)

Says(u, n) == mqttUrc' = Append(mqttUrc, [what |-> u, of |-> n])
Quiet == UNCHANGED <<link, mqttUrc>>
kept == <<piece, mqttLosses, messages, message_payload, mqttConnected>>
host == <<mqttConnected, message_payload, mqttBits, caller, upSince>>

MQTTSTATE == Says(IF link THEN "state_up" ELSE "state_down", 0) /\ UNCHANGED link
MQTTDISC == IF link THEN link' = FALSE /\ Says("conn_lost", 0) ELSE Quiet
MQTTCONN ==
    \/ link' = TRUE /\ Says("conn_ok", 0)
    \/ Says("conn_lost", 0) /\ UNCHANGED link

LinkLost ==
    /\ link /\ mqttLosses < MaxLosses /\ mqttLosses' = mqttLosses + 1
    /\ link' = FALSE /\ piece' = 0 /\ Says("conn_lost", 0)
    /\ UNCHANGED <<mqttConnected, message_payload, mqttBits, caller, messages, upSince>>

LinkBack ==
    /\ ~link /\ mqttLosses > 0 /\ link' = TRUE /\ Says("conn_ok", 0)
    /\ UNCHANGED <<host, piece, mqttLosses, messages>>

MessageComes ==
    /\ link
    /\ IF piece # 0 THEN piece' = 0 /\ Says("second", piece) /\ UNCHANGED messages
       ELSE /\ messages < MaxMessages /\ messages' = messages + 1
            /\ \/ Says("whole", messages + 1) /\ UNCHANGED piece
               \/ Says("first", messages + 1) /\ piece' = messages + 1
    /\ UNCHANGED <<host, link, mqttLosses>>

-----------------------------------------------------------------------------
(* IsConnected, of Connect and of the other tasks: one bit for all of them.  *)

AskState(t) ==
    /\ poll[t] = "idle" /\ polls < MaxPolls /\ polls' = polls + 1
    /\ poll' = [poll EXCEPT ![t] = "asked"]
    /\ MQTTSTATE \/ Quiet
    /\ UNCHANGED <<kept, mqttBits, mqttAt, returned, mqttCalls, upSince>>

IsConnected == "INITIALIZED" \in mqttBits /\ mqttConnected

StateKnown(t) ==
    /\ poll[t] = "asked"
    /\ poll' = [poll EXCEPT ![t] = IF IsConnected THEN "publish" ELSE "idle"]
    /\ mqttBits' = mqttBits \ {"INITIALIZED"}
    /\ Quiet /\ UNCHANGED <<kept, mqttAt, returned, mqttCalls, polls, upSince>>

\* Publish, Subscribe and Unsubscribe change nothing here.
Publish(t) ==
    /\ poll[t] = "publish" /\ poll' = [poll EXCEPT ![t] = "idle"]
    /\ UNCHANGED <<mqttConnected, message_payload, mqttBits, mqttAt, returned, mqttCalls, polls,
                   modem, upSince>>

-----------------------------------------------------------------------------
(* Connect and Disconnect *)

Called == mqttAt = "idle" /\ mqttCalls < MaxCalls /\ mqttCalls' = mqttCalls + 1
Return(r) == mqttAt' = "idle" /\ returned' = r
others == <<poll, polls>>

ConnectCall ==
    /\ Called /\ mqttAt' = "asked" /\ upSince' = FALSE
    /\ MQTTSTATE \/ Quiet
    /\ UNCHANGED <<kept, mqttBits, returned, others>>

ConnectAsked ==
    /\ mqttAt = "asked" /\ mqttAt' = (IF IsConnected THEN "disconnect" ELSE "config")
    /\ mqttBits' = mqttBits \ {"INITIALIZED"}
    /\ Quiet /\ UNCHANGED <<kept, returned, mqttCalls, upSince, others>>

\* The answer of the modem to the command is not looked at.
Disconnect ==
    /\ IF mqttConnected THEN MQTTDISC \/ Quiet ELSE Quiet
    /\ piece' = (IF link' THEN piece ELSE 0)

DisconnectFirst ==
    /\ mqttAt = "disconnect" /\ mqttAt' = "disconnecting" /\ Disconnect
    /\ UNCHANGED <<mqttLosses, messages, message_payload, mqttConnected, mqttBits,
                   returned, mqttCalls, upSince, others>>

DisconnectCall ==
    /\ Called /\ Disconnect
    /\ UNCHANGED <<mqttAt, mqttLosses, messages, message_payload, mqttConnected,
                   mqttBits, returned, upSince, others>>

DisconnectWaited ==
    /\ mqttAt = "disconnecting"
    /\ IF "DISCONNECTED" \in mqttBits THEN mqttAt' = "config" /\ UNCHANGED returned
                                      ELSE Return(FALSE)
    /\ mqttBits' = mqttBits \ {"DISCONNECTED"}
    /\ Quiet /\ UNCHANGED <<kept, mqttCalls, upSince, others>>

\* Mutant: the bits of what came before stay.
ConfigureNot ==
    /\ mqttAt = "config"
    /\ \/ mqttAt' = "connect" /\ UNCHANGED <<mqttBits, returned>>
       \/ Return(FALSE) /\ UNCHANGED mqttBits
    /\ Quiet /\ UNCHANGED <<kept, mqttCalls, upSince, others>>

\* The five settings, any of which may fail, and the clearing of the two bits
Configure ==
    /\ mqttAt = "config"
    /\ \/ /\ mqttAt' = "connect" /\ mqttBits' = mqttBits \ {"CONNECTED", "DISCONNECTED"}
          /\ UNCHANGED returned
       \/ Return(FALSE) /\ UNCHANGED mqttBits
    /\ Quiet /\ UNCHANGED <<kept, mqttCalls, upSince, others>>

Connect ==
    /\ mqttAt = "connect"
    /\ \/ MQTTCONN /\ mqttAt' = "connecting" /\ UNCHANGED returned
       \/ (MQTTCONN \/ Quiet) /\ Return(FALSE)
    /\ UNCHANGED <<kept, mqttBits, mqttCalls, upSince, others>>

Connected ==
    /\ mqttAt = "connecting" /\ Return("CONNECTED" \in mqttBits)
    /\ mqttBits' = mqttBits \ {"CONNECTED", "DISCONNECTED"}
    /\ Quiet /\ UNCHANGED <<kept, mqttCalls, upSince, others>>

-----------------------------------------------------------------------------
(* The URC callback *)

Urc(u) == mqttUrc # <<>> /\ Head(mqttUrc).what \in u
of == Head(mqttUrc).of

UrcConn ==
    /\ Urc({"conn_ok", "conn_lost"})
    /\ LET up == Head(mqttUrc).what = "conn_ok"
       IN  /\ mqttConnected' = up
           /\ mqttBits' = mqttBits \cup {IF up THEN "CONNECTED" ELSE "DISCONNECTED"}
           /\ upSince' = (upSince \/ up)
    /\ UNCHANGED message_payload

UrcPiece ==
    /\ Urc({"first", "second"})
    /\ IF Len(message_payload) + 1 >= 2
       THEN message_payload' = <<>>
       ELSE message_payload' = Append(message_payload, of)
    /\ UNCHANGED <<mqttConnected, mqttBits, upSince>>

UrcMessage ==
    /\ Urc({"whole"})
    /\ UNCHANGED <<mqttConnected, mqttBits, message_payload, upSince>>

\* MQTTSTATE: connected_ changes and no callback is told.
UrcState ==
    /\ Urc({"state_up", "state_down"})
    /\ mqttConnected' = (Head(mqttUrc).what = "state_up")
    /\ mqttBits' = mqttBits \cup {"INITIALIZED"}
    /\ UNCHANGED <<message_payload, upSince>>

HandleUrc ==
    /\ UrcConn \/ UrcPiece \/ UrcMessage \/ UrcState
    /\ mqttUrc' = Tail(mqttUrc)
    /\ UNCHANGED <<caller, link, piece, mqttLosses, messages>>

Next == \/ \E t \in Pollers : AskState(t) \/ StateKnown(t) \/ Publish(t)
        \/ ConnectCall \/ ConnectAsked \/ DisconnectFirst \/ DisconnectCall \/ DisconnectWaited
        \/ Configure \/ Connect \/ Connected
        \/ HandleUrc \/ LinkLost \/ LinkBack \/ MessageComes

Spec == Init /\ [][Next]_vars

-----------------------------------------------------------------------------
(* Properties *)

\* Connect returns TRUE only when the modem has reported a connection since it was
\* called: what an earlier connection or the modem's own attempts left is not it.
ConnectIsFresh == [][mqttAt = "connecting" /\ mqttAt' = "idle" /\ returned' => upSince]_vars
=============================================================================
