------------------------------ MODULE EspMqtt ------------------------------
(***************************************************************************)
(* The MQTT client of the Wi-Fi variant: esp-ml307, esp/esp_mqtt.cc.  One  *)
(* task connects and disconnects; the task of the esp-mqtt library calls   *)
(* MqttEventCallback.  The library (external) connects by itself, again    *)
(* and again, until it is stopped, and stopping it waits for its task.  A  *)
(* message longer than its buffer comes in pieces, here two.               *)
(***************************************************************************)
EXTENDS Naturals

CONSTANTS MaxClients,  \* bound: calls of Connect
          MaxEvents    \* bound: events of the library

VARIABLES
    emqConnected, emqPayload, emqBits,   \* connected_, message_payload_, the event group
    emqAt,       \* where the task is
    library,     \* the client: none, trying or on
    piece,       \* a message has come half
    clients, events,   \* counters for the bounds
    joined,      \* history: this client has been connected
    connectOk    \* what Connect returned

vars == <<emqConnected, emqPayload, emqBits, emqAt, library, piece, clients, events, joined, connectOk>>

Init ==
    /\ emqConnected = FALSE /\ emqPayload = 0 /\ emqBits = {} /\ emqAt = "idle"
    /\ library = "none" /\ piece = FALSE /\ clients = 0 /\ events = 0
    /\ joined = FALSE /\ connectOk = FALSE

-----------------------------------------------------------------------------
(* The task *)

\* Mutant: the bits stay for the next Connect.
ClearEventsNot == UNCHANGED emqBits

ClearEvents == emqBits' = {}

\* A client there is, is stopped and destroyed first.
Disconnected(to) ==
    /\ library' = "none" /\ piece' = FALSE
    /\ emqConnected' = FALSE /\ ClearEvents /\ emqAt' = to
    /\ UNCHANGED <<emqPayload, events, joined, connectOk>>

Connect ==
    /\ emqAt = "idle" /\ clients < MaxClients /\ clients' = clients + 1
    /\ IF library # "none" THEN Disconnected("start")
       ELSE emqAt' = "start" /\ UNCHANGED <<library, piece, emqConnected, emqBits, emqPayload, events, joined, connectOk>>

Start ==
    /\ emqAt = "start" /\ emqAt' = "wait"
    /\ library' = "trying" /\ joined' = FALSE
    /\ UNCHANGED <<emqConnected, emqPayload, emqBits, piece, clients, events, connectOk>>

\* A bit has come, or the time is over: the client goes on trying.
Waited ==
    /\ emqAt = "wait" /\ emqAt' = "idle"
    /\ connectOk' = ("CONNECTED" \in emqBits) /\ emqBits' = {}
    /\ UNCHANGED <<emqConnected, emqPayload, library, piece, clients, events, joined>>

Disconnect ==
    /\ emqAt = "idle" /\ Disconnected("idle")
    /\ UNCHANGED clients

-----------------------------------------------------------------------------
(* MqttEventCallback *)

Event == library # "none" /\ events < MaxEvents /\ events' = events + 1
EventUnchanged == UNCHANGED <<emqAt, clients, connectOk>>

EventConnected ==
    /\ Event /\ library = "trying" /\ library' = "on" /\ joined' = TRUE
    /\ emqConnected' = TRUE /\ emqBits' = emqBits \cup {"CONNECTED"}
    /\ UNCHANGED <<emqPayload, piece>> /\ EventUnchanged

\* What has come of a message stays in message_payload_.
EventDisconnected ==
    /\ Event /\ library' = "trying" /\ piece' = FALSE
    /\ emqConnected' = FALSE /\ emqBits' = emqBits \cup {"DISCONNECTED"}
    /\ UNCHANGED <<emqPayload, joined>> /\ EventUnchanged

EventError ==
    /\ Event /\ emqBits' = emqBits \cup {"ERROR"}
    /\ UNCHANGED <<emqConnected, emqPayload, library, piece, joined>> /\ EventUnchanged

\* The pieces are gathered until they are as long as the message.
EventData ==
    /\ Event /\ library = "on"
    /\ \/ UNCHANGED <<emqPayload, piece>>
       \/ /\ piece' = ~piece
          /\ emqPayload' = (emqPayload + 1) % 2
    /\ UNCHANGED <<emqConnected, emqBits, library, joined>> /\ EventUnchanged

MqttEventCallback == EventConnected \/ EventDisconnected \/ EventError \/ EventData

Next == Connect \/ Start \/ Waited \/ Disconnect \/ MqttEventCallback
Spec == Init /\ [][Next]_vars

-----------------------------------------------------------------------------
(* Properties *)

\* Connect returns TRUE only when the client it made has been connected, whatever
\* an earlier client that was given up reported late.
ConnectIsFresh == [][emqAt = "wait" /\ emqAt' = "idle" /\ connectOk' => joined]_vars
=============================================================================
