------------------------------- MODULE Bridge --------------------------------
(***************************************************************************)
(* The bridge of the signaling server (audio_server) between the devices,  *)
(* which speak MQTT, and the pages, which speak WebSocket:                 *)
(* MqttSignalingService, SignalingWebSocketHandler and the connections     *)
(* that MqttConfig makes.                                                  *)
(*                                                                         *)
(* One inbound thread takes the devices' messages in order and finishes    *)
(* one before it takes the next; each page has a handler thread of its     *)
(* own.  The inbound client reconnects by itself, the client that          *)
(* publishes was connected without that option.  Which session a page has  *)
(* is SessionManager's; here it has one or has none.                       *)
(***************************************************************************)
EXTENDS Naturals, Sequences, SequencesExt, FiniteSets

CONSTANTS Devices,
          Pages,      \* the identifiers pages register under
          Default,    \* the target a message without target gets
          MaxUps,     \* bound: messages the devices send
          MaxDowns,   \* bound: messages each page sends
          MaxDrops    \* bound: times the broker drops a connection

VARIABLES
    inbound, publisher,   \* the two MQTT clients: are they connected
    up,             \* what the broker has for the inbound client
    handling,       \* the message of the inbound thread, a queue of at most one
    callSessions,   \* the table: [caller, callee, ended]
    page,           \* the messages each page has sent to its handler
    bound,          \* pages with an open session
    got, down,      \* what each page has been sent; what each device
    ups, downs, drops

traffic == <<got, down, ups, downs>>
vars == <<inbound, publisher, up, handling, callSessions, page, bound, traffic, drops>>

Init ==
    /\ inbound = TRUE /\ publisher = TRUE
    /\ up = << >> /\ handling = << >> /\ callSessions = {}
    /\ page = [w \in Pages |-> << >>]
    /\ bound = {}
    /\ got = [w \in Pages |-> << >>] /\ down = [d \in Devices |-> << >>]
    /\ ups = 0 /\ downs = [w \in Pages |-> 0] /\ drops = 0

UpTypes == {"ice_request", "offer", "candidate", "bye", "ring", "version_report"}
DownTypes == {"offer", "bye", "customized", "ice_request"}

(* A device publishes.  It never writes a target: SignalingMessage's own   *)
(* is the identifier web_client_001.                                       *)
DevicePublishes(d) ==
    /\ ups < MaxUps /\ inbound
    /\ \E type \in UpTypes :
         up' = Append(up, [type |-> type, from |-> d, target |-> Default, n |-> ups + 1])
    /\ ups' = ups + 1
    /\ UNCHANGED <<inbound, publisher, handling, callSessions, page, bound, got, down,
                   downs, drops>>

(* A page sends, to a device or (a call that ends) to whatever is typed in *)
(* its target field.                                                       *)
PageSends(w) ==
    /\ w \in bound /\ downs[w] < MaxDowns
    /\ \E type \in DownTypes, target \in Devices \cup Pages :
         page' = [page EXCEPT ![w] =
                    Append(@, [type |-> type, from |-> w, target |-> target,
                               n |-> downs[w] + 1])]
    /\ downs' = [downs EXCEPT ![w] = @ + 1]
    /\ UNCHANGED <<inbound, publisher, up, handling, callSessions, bound, got, down,
                   ups, drops>>

(* The page's session comes and goes; what the page had sent goes with it. *)
SessionOpens(w) ==
    /\ w \notin bound /\ page[w] = << >>
    /\ bound' = bound \cup {w}
    /\ UNCHANGED <<inbound, publisher, up, handling, callSessions, page, traffic, drops>>

SessionCloses(w) ==
    /\ w \in bound /\ drops < MaxDrops
    /\ bound' = bound \ {w}
    /\ page' = [page EXCEPT ![w] = << >>]
    /\ drops' = drops + 1
    /\ UNCHANGED <<inbound, publisher, up, handling, callSessions, traffic>>

(* The broker drops a client.  The inbound one has a clean session: what   *)
(* is sent before it is back is not kept for it.                           *)
BrokerDrops ==
    /\ drops < MaxDrops
    /\ drops' = drops + 1
    /\ \/ inbound /\ inbound' = FALSE /\ up' = << >> /\ UNCHANGED publisher
       \/ publisher /\ publisher' = FALSE /\ UNCHANGED <<inbound, up>>
    /\ UNCHANGED <<handling, callSessions, page, bound, traffic>>

(* setAutomaticReconnect, for the clients of mqttClientFactory only.       *)
Reconnect ==
    /\ ~inbound /\ inbound' = TRUE
    /\ UNCHANGED <<publisher, up, handling, callSessions, page, bound, traffic, drops>>

-----------------------------------------------------------------------------
(* sendMessageToDevice to a page; sendMqttMessage to a device.  Of a       *)
(* message that arrived, who sent it as its how manieth.                   *)
Mark(m) == [from |-> m.from, n |-> m.n]
Tell(w, m) == got' = IF w \in bound THEN [got EXCEPT ![w] = Append(@, Mark(m))] ELSE got
Publish(d, m) == down' = IF publisher /\ d \in Devices
                         THEN [down EXCEPT ![d] = Append(@, Mark(m))] ELSE down

\* Mutant: the input channel hands each message to a thread of its own.
TakeAny ==
    /\ handling = << >>
    /\ \E i \in 1 .. Len(up) :
         handling' = <<up[i]>> /\ up' = SubSeq(up, 1, i - 1) \o SubSeq(up, i + 1, Len(up))

(* The inbound adapter gives the next message to handleMqttMessage, on its *)
(* own thread (a DirectChannel).                                           *)
Take ==
    /\ handling = << >> /\ up # << >>
    /\ handling' = <<Head(up)>> /\ up' = Tail(up)

Receive == /\ Take
           /\ UNCHANGED <<inbound, publisher, callSessions, page, bound, traffic, drops>>

createCallSession(m) ==
    callSessions' = callSessions \cup
        {[caller |-> m.from, callee |-> m.target, ended |-> FALSE]}

(* Every call the identifier takes part in, whoever the other side is.     *)
terminateCallSession(id) ==
    callSessions' = {[c EXCEPT !.ended = @ \/ id \in {c.caller, c.callee}] :
                        c \in callSessions}

handleIceRequest(m) ==
    /\ Publish(m.from, m)
    /\ UNCHANGED <<callSessions, got>>

handleWebRtcSignaling(m) ==
    /\ IF m.type = "offer" THEN createCallSession(m) ELSE UNCHANGED callSessions
    /\ Tell(m.target, m)
    /\ UNCHANGED down

handleCallTermination(m) ==
    /\ terminateCallSession(m.target)
    /\ Tell(m.target, m)
    /\ UNCHANGED down

(* A ring or a custom message is for every session only if its target is   *)
(* empty, which SignalingMessage's default excludes; a version report is   *)
(* recorded and passed on.                                                 *)
handleCustomizedMessage(m) == Tell(m.target, m) /\ UNCHANGED <<callSessions, down>>
handleVersionReport(m) == Tell(m.target, m) /\ UNCHANGED <<callSessions, down>>

handleMqttMessage ==
    /\ handling # << >> /\ handling' = << >>
    /\ LET m == Head(handling) IN
         \/ m.type = "ice_request" /\ handleIceRequest(m)
         \/ m.type \in {"offer", "candidate"} /\ handleWebRtcSignaling(m)
         \/ m.type = "bye" /\ handleCallTermination(m)
         \/ m.type = "ring" /\ handleCustomizedMessage(m)
         \/ m.type = "version_report" /\ handleVersionReport(m)
    /\ UNCHANGED <<inbound, publisher, up, page, bound, ups, downs, drops>>

(* handleTextMessage of page w's session.                                  *)
handleTextMessage(w) ==
    /\ page[w] # << >>
    /\ page' = [page EXCEPT ![w] = Tail(@)]
    /\ LET m == Head(page[w]) IN
         \/ m.type = "ice_request" /\ Tell(w, m) /\ UNCHANGED down
         \/ m.type = "bye" /\ Publish(m.target, m)
              /\ IF m.target \in Pages THEN Tell(m.target, m) ELSE UNCHANGED got
         \/ m.type \in {"offer", "customized"} /\ Publish(m.target, m) /\ UNCHANGED got
    /\ UNCHANGED <<inbound, publisher, up, handling, callSessions, bound, ups, downs, drops>>

Next ==
    \/ \E d \in Devices : DevicePublishes(d)
    \/ \E w \in Pages : PageSends(w) \/ SessionOpens(w) \/ SessionCloses(w)
                        \/ handleTextMessage(w)
    \/ BrokerDrops \/ Reconnect
    \/ Receive \/ handleMqttMessage

Spec == Init /\ [][Next]_vars

FairSpec == Spec /\ WF_vars(Receive) /\ WF_vars(handleMqttMessage) /\ WF_vars(Reconnect)
                 /\ \A w \in Pages : WF_vars(handleTextMessage(w))

-----------------------------------------------------------------------------
(* What one sender sends arrives in the order it was sent and once, over   *)
(* both protocols and both threads, whatever is lost on the way: a         *)
(* candidate is never before its offer, nor a bye before what it ends.     *)
InOrder(received) ==
    \A i, j \in 1 .. Len(received) :
        (i < j /\ received[i].from = received[j].from) => received[i].n < received[j].n

OrderKept == /\ \A w \in Pages : InOrder(got[w])
             /\ \A d \in Devices : InOrder(down[d])

(* A client that the broker has dropped comes back, so that what the pages *)
(* send reaches the devices again (initMqttClient).                        *)
PublisherReturns == ~publisher ~> publisher
=============================================================================
