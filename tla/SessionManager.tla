--------------------------- MODULE SessionManager ---------------------------
(***************************************************************************)
(* The web side of the signaling server (audio_server): the three          *)
(* concurrent maps of WebSocketSessionManager, and the threads that meet   *)
(* there.                                                                  *)
(*                                                                         *)
(*   - One handler thread per WebSocket session (the container delivers    *)
(*     the events of one session in order): connection, the page's single  *)
(*     "register", messages that end a call, close.                        *)
(*   - The scheduled cleaner, which drops sessions that are not open.      *)
(*   - The MQTT inbound thread, which forwards a device's message to the   *)
(*     browser session bound to the message's target.                      *)
(*                                                                         *)
(* Each step is one operation on one map: the maps are safe, the sequences *)
(* of operations are not atomic.  A message is only its target; what the   *)
(* server logs, acknowledges or persists is left out, as is the call table *)
(* of MqttSignalingService, which the server writes and never reads.       *)
(***************************************************************************)
EXTENDS Naturals, FiniteSets

CONSTANTS
  Sessions,     \* session ids; the container gives each connection a new one
  Devices,      \* identifiers a page may register under
  Mqtt,         \* the MQTT inbound thread
  Cleaner,      \* the thread of heartbeatExecutor
  NoSession,
  NoDevice

ASSUME SessionAssumption ==
  /\ Mqtt \notin Sessions /\ Cleaner \notin Sessions /\ Mqtt # Cleaner
  /\ NoSession \notin Sessions /\ NoDevice \notin Devices

VARIABLES
  open,               \* sessions whose isOpen() is true
  sessions,           \* keys of the sessions map
  deviceSessionMap,   \* device -> session, NoSession when absent
  sessionDeviceMap,   \* session -> device, NoDevice when absent
  at,                 \* where each thread is in its present operation
  device,             \* the device that operation is about
  peer,               \* the session that operation is about
  registeredAs,       \* history: the device each session has registered
  delivered           \* history: <<target, session>> of every message sent

vars == <<open, sessions, deviceSessionMap, sessionDeviceMap, at, device,
          peer, registeredAs, delivered>>

maps == <<sessions, deviceSessionMap, sessionDeviceMap>>

Threads == Sessions \union {Mqtt, Cleaner}

(* Where a thread may be.  A handler starts "new" and ends "gone"; the     *)
(* others start "idle".                                                    *)
Places == {"new", "idle", "bind", "unbind", "unmap", "remove", "send", "gone"}

-----------------------------------------------------------------------------
(* afterConnectionEstablished: the session enters the map.                 *)
Connect(s) ==
  /\ at[s] = "new"
  /\ at' = [at EXCEPT ![s] = "idle"]
  /\ open' = open \union {s}
  /\ sessions' = sessions \union {s}
  /\ UNCHANGED <<deviceSessionMap, sessionDeviceMap, device, peer,
                 registeredAs, delivered>>

(* The connection is lost or closed: isOpen() turns false, at any moment   *)
(* of the handlers and before the container reports it.                    *)
Drop(s) ==
  /\ s \in open
  /\ open' = open \ {s}
  /\ UNCHANGED <<sessions, deviceSessionMap, sessionDeviceMap, at, device,
                 peer, registeredAs, delivered>>

(* bindDevice, first put: the device now leads to this session, whatever   *)
(* session it led to.  The page registers once per connection.             *)
Register(s, d) ==
  /\ at[s] = "idle"
  /\ registeredAs[s] = NoDevice
  /\ at' = [at EXCEPT ![s] = "bind"]
  /\ device' = [device EXCEPT ![s] = d]
  /\ registeredAs' = [registeredAs EXCEPT ![s] = d]
  /\ deviceSessionMap' = [deviceSessionMap EXCEPT ![d] = s]
  /\ UNCHANGED <<open, sessions, sessionDeviceMap, peer, delivered>>

(* bindDevice, second put.                                                 *)
Bind(s) ==
  /\ at[s] = "bind"
  /\ at' = [at EXCEPT ![s] = "idle"]
  /\ sessionDeviceMap' = [sessionDeviceMap EXCEPT ![s] = device[s]]
  /\ device' = [device EXCEPT ![s] = NoDevice]
  /\ UNCHANGED <<open, sessions, deviceSessionMap, peer, registeredAs,
                 delivered>>

\* Mutant: afterConnectionClosed trusts the cleaner and does not unbind a
\* session that is already out of the sessions map.
CloseUnlessCleaned(s) ==
  /\ at[s] = "idle"
  /\ s \notin open
  /\ at' = [at EXCEPT ![s] = IF s \in sessions THEN "unbind" ELSE "gone"]
  /\ peer' = [peer EXCEPT ![s] = s]
  /\ sessions' = sessions \ {s}
  /\ UNCHANGED <<open, deviceSessionMap, sessionDeviceMap, device,
                 registeredAs, delivered>>

(* afterConnectionClosed -> removeSession, first remove.                   *)
Close(s) ==
  /\ at[s] = "idle"
  /\ s \notin open
  /\ at' = [at EXCEPT ![s] = "unbind"]
  /\ peer' = [peer EXCEPT ![s] = s]
  /\ sessions' = sessions \ {s}
  /\ UNCHANGED <<open, deviceSessionMap, sessionDeviceMap, device,
                 registeredAs, delivered>>

\* Mutant: the cleaner does not look at isOpen().
InspectAny(s) ==
  /\ at[Cleaner] = "idle"
  /\ s \in sessions
  /\ at' = [at EXCEPT ![Cleaner] = "unbind"]
  /\ peer' = [peer EXCEPT ![Cleaner] = s]
  /\ UNCHANGED <<open, maps, device, registeredAs, delivered>>

(* cleanupInactiveSessions: the removeIf test meets a closed session.      *)
Inspect(s) ==
  /\ at[Cleaner] = "idle"
  /\ s \in sessions \ open
  /\ at' = [at EXCEPT ![Cleaner] = "unbind"]
  /\ peer' = [peer EXCEPT ![Cleaner] = s]
  /\ UNCHANGED <<open, maps, device, registeredAs, delivered>>

(* Where unbindDevice returns to: the handler has finished, the cleaner    *)
(* still has to drop the entry its test accepted.                          *)
AfterUnbind(t) == IF t = Cleaner THEN "remove" ELSE "gone"

(* unbindDevice, first remove, which returns the device.                   *)
Unbind(t) ==
  /\ at[t] = "unbind"
  /\ LET d == sessionDeviceMap[peer[t]] IN
       /\ device' = [device EXCEPT ![t] = d]
       /\ at' = [at EXCEPT ![t] =
                   IF d = NoDevice THEN AfterUnbind(t) ELSE "unmap"]
  /\ sessionDeviceMap' = [sessionDeviceMap EXCEPT ![peer[t]] = NoDevice]
  /\ UNCHANGED <<open, sessions, deviceSessionMap, peer, registeredAs,
                 delivered>>

(* unbindDevice, second remove: the device's entry goes, whichever session *)
(* it leads to by now.                                                     *)
Unmap(t) ==
  /\ at[t] = "unmap"
  /\ at' = [at EXCEPT ![t] = AfterUnbind(t)]
  /\ deviceSessionMap' = [deviceSessionMap EXCEPT ![device[t]] = NoSession]
  /\ device' = [device EXCEPT ![t] = NoDevice]
  /\ UNCHANGED <<open, sessions, sessionDeviceMap, peer, registeredAs,
                 delivered>>

(* removeIf drops the entry and goes on to the next one.                   *)
Remove ==
  /\ at[Cleaner] = "remove"
  /\ at' = [at EXCEPT ![Cleaner] = "idle"]
  /\ sessions' = sessions \ {peer[Cleaner]}
  /\ peer' = [peer EXCEPT ![Cleaner] = NoSession]
  /\ UNCHANGED <<open, deviceSessionMap, sessionDeviceMap, device,
                 registeredAs, delivered>>

\* Mutant: a message for a device that is not bound goes to any known session.
LookupAny(t, d) ==
  /\ t # Cleaner
  /\ at[t] = "idle"
  /\ at' = [at EXCEPT ![t] = "send"]
  /\ device' = [device EXCEPT ![t] = d]
  /\ \E s \in IF deviceSessionMap[d] # NoSession
              THEN {deviceSessionMap[d]} ELSE sessions :
       peer' = [peer EXCEPT ![t] = s]
  /\ UNCHANGED <<open, maps, registeredAs, delivered>>

(* sendMessageToDevice finds the session of the target; a message for an   *)
(* unbound device is dropped.  The MQTT thread does so for what devices    *)
(* publish, a handler for a "bye", "reject" or "timeout" of its page.      *)
Lookup(t, d) ==
  /\ t # Cleaner
  /\ at[t] = "idle"
  /\ deviceSessionMap[d] # NoSession
  /\ at' = [at EXCEPT ![t] = "send"]
  /\ device' = [device EXCEPT ![t] = d]
  /\ peer' = [peer EXCEPT ![t] = deviceSessionMap[d]]
  /\ UNCHANGED <<open, maps, registeredAs, delivered>>

(* sendMessageToSession: the session must still be known and open.         *)
Send(t) ==
  /\ at[t] = "send"
  /\ at' = [at EXCEPT ![t] = "idle"]
  /\ delivered' = IF peer[t] \in sessions \intersect open
                  THEN delivered \union {<<device[t], peer[t]>>}
                  ELSE delivered
  /\ device' = [device EXCEPT ![t] = NoDevice]
  /\ peer' = [peer EXCEPT ![t] = NoSession]
  /\ UNCHANGED <<open, maps, registeredAs>>

-----------------------------------------------------------------------------
Init ==
  /\ open = {}
  /\ sessions = {}
  /\ deviceSessionMap = [d \in Devices |-> NoSession]
  /\ sessionDeviceMap = [s \in Sessions |-> NoDevice]
  /\ at = [t \in Threads |-> IF t \in Sessions THEN "new" ELSE "idle"]
  /\ device = [t \in Threads |-> NoDevice]
  /\ peer = [t \in Threads |-> NoSession]
  /\ registeredAs = [s \in Sessions |-> NoDevice]
  /\ delivered = {}

Next ==
  \/ \E s \in Sessions : Connect(s) \/ Drop(s) \/ Bind(s) \/ Close(s) \/ Inspect(s)
  \/ \E s \in Sessions, d \in Devices : Register(s, d)
  \/ \E t \in Threads : Unbind(t) \/ Unmap(t) \/ Send(t)
  \/ \E t \in Threads, d \in Devices : Lookup(t, d)
  \/ Remove

Spec == Init /\ [][Next]_vars

-----------------------------------------------------------------------------
(* Types, with what a ConcurrentHashMap insists on: no operation has a     *)
(* null key.                                                               *)
TypeOK ==
  /\ open \subseteq Sessions
  /\ sessions \subseteq Sessions
  /\ deviceSessionMap \in [Devices -> Sessions \union {NoSession}]
  /\ sessionDeviceMap \in [Sessions -> Devices \union {NoDevice}]
  /\ at \in [Threads -> Places]
  /\ device \in [Threads -> Devices \union {NoDevice}]
  /\ peer \in [Threads -> Sessions \union {NoSession}]
  /\ registeredAs \in [Sessions -> Devices \union {NoDevice}]
  /\ delivered \subseteq Devices \X Sessions
  /\ \A t \in Threads :
       /\ at[t] \in {"bind", "unmap", "send"} => device[t] \in Devices
       /\ at[t] \in {"unbind", "unmap", "remove", "send"} => peer[t] \in Sessions

(* Once the handler has finished with a closed session nothing leads to it *)
(* any more, unless the cleaner holds the device it is about to unmap: the *)
(* order of the two puts of bindDevice and of the removes of removeSession *)
(* leaves no orphan, however the cleaner interleaves with them.            *)
GoneForgotten ==
  \A s \in Sessions :
    at[s] = "gone" =>
      /\ s \notin sessions
      /\ sessionDeviceMap[s] = NoDevice
      /\ \A d \in Devices :
           deviceSessionMap[d] = s =>
             at[Cleaner] = "unmap" /\ device[Cleaner] = d

(* A page that shares its identifier with no other connection can be       *)
(* reached for as long as it is connected, whatever the cleaner and the    *)
(* handlers of other sessions do.                                          *)
SoleOwnerReachable ==
  \A s \in open :
    LET d == registeredAs[s] IN
      (d # NoDevice /\ \A r \in Sessions \ {s} : registeredAs[r] # d) =>
        s \in sessions /\ deviceSessionMap[d] = s

(* A message is only ever sent to a session that registered its target,    *)
(* although the session is found in one step and used in a later one.      *)
DeliveredToRegistrant ==
  \A m \in delivered : registeredAs[m[2]] = m[1]
=============================================================================
