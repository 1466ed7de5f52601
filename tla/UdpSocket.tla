------------------------------ MODULE UdpSocket ------------------------------
(***************************************************************************)
(* The UDP sockets of the peer library over 4G: main/ml307_udp_socket.cc,  *)
(* which keeps at most MAX_CONN connections, one for each remote address,  *)
(* and ml307_udp.cc of esp-ml307, the connection.  One task of the peer    *)
(* library (external) sends, receives and closes; the receive task handles *)
(* the URCs in the order they come.  The ticks of last_used are abstracted *)
(* to the order of the last uses.                                          *)
(***************************************************************************)
EXTENDS Naturals, Sequences, SequencesExt

CONSTANTS Remotes,
          MAX_CONN,
          MaxCalls,    \* bound: udp_socket_sendto calls
          MaxPackets   \* bound: packets that come

VARIABLES
    conns,       \* remotes with a connection in the map
    making,      \* the remote whose connection is being made, or 0
    udp,         \* the Ml307Udp of each remote and its packet
    used,        \* remotes of conns and making, the longest unused first
    next_id,
    udpAt, dest, \* where the caller is, and the remote it sends to
    udpBits,     \* the event group of the connection in hand
    udp_event,   \* UDP_EVT_RX
    reading,     \* the remote and the packet recv_any copies
    arriving,    \* the message the receive task hands round
    udpSock,     \* the modem: the remote of each socket, 0 when it is closed
    udpUrc,      \* URCs on their way
    udpCalls, packets,   \* counters for the bounds
    handed       \* history: the packets given to the peer library, with their connections

map  == <<conns, making, udp, used, next_id>>
caller == <<udpAt, dest, udpCalls>>
modem == <<udpSock, udpUrc>>
vars == <<map, caller, udpBits, udp_event, reading, arriving, modem, packets, handed>>

Ids == 0 .. MAX_CONN - 1
NoUdp == [id |-> 0, connected |-> FALSE, instance_active |-> FALSE, last_packet |-> 0, has_packet |-> FALSE]
Live == conns \cup ({making} \ {0})

\* The connections that are still to get the message, and the one whose last_packet is
\* stored and whose has_packet is not set yet.
NoMessage == [data |-> 0, to |-> {}, in |-> 0]
Torn == 0    \* what memcpy makes of a string that is assigned meanwhile

Init ==
    /\ conns = {} /\ making = 0 /\ udp = [r \in Remotes |-> NoUdp]
    /\ used = <<>> /\ next_id = 2
    /\ udpAt = "idle" /\ dest = 0 /\ udpBits = {} /\ udp_event = FALSE
    /\ reading = <<>> /\ arriving = NoMessage
    /\ udpSock = [i \in Ids |-> 0] /\ udpUrc = <<>>
    /\ udpCalls = 0 /\ packets = 0 /\ handed = <<>>

-----------------------------------------------------------------------------
(* The modem *)

Says(u, i) == udpUrc' = Append(udpUrc, [what |-> u, id |-> i, data |-> 0])
Quiet == UNCHANGED modem

MIPSTATE(i) == Says(IF udpSock[i] = 0 THEN "state_initial" ELSE "state_open", i) /\ UNCHANGED udpSock
MIPCLOSE(i) == udpSock' = [udpSock EXCEPT ![i] = 0] /\ Says("close", i)
MIPOPEN(i, r) ==
    \/ udpSock[i] = 0 /\ udpSock' = [udpSock EXCEPT ![i] = r] /\ Says("opened", i)
    \/ Says("open_failed", i) /\ UNCHANGED udpSock
MIPSEND(i) == IF udpSock[i] = 0 THEN Quiet ELSE Says("sent", i) /\ UNCHANGED udpSock

PacketComes(i) ==
    /\ udpSock[i] # 0 /\ packets < MaxPackets /\ packets' = packets + 1
    /\ udpUrc' = Append(udpUrc, [what |-> "rudp", id |-> i, data |-> packets + 1])
    /\ UNCHANGED <<map, caller, udpBits, udp_event, reading, arriving, udpSock, handed>>

-----------------------------------------------------------------------------
(* UdpManager::get *)

Goto(p) == udpAt' = p
Touch(r) == used' = Append(Remove(used, r), r)
mine == udp[making]
other == <<udp_event, reading, arriving, packets, handed>>

Found ==
    /\ dest \in conns /\ Touch(dest) /\ Goto("send")
    /\ UNCHANGED <<conns, making, udp, next_id>>

\* A connection that goes leaves the list of callbacks, and waits for that until the
\* receive task has ended with the message in hand (mutex_ of AtUart).
NoCallback == arriving = NoMessage

\* The destructor of the connection closes its socket.
evict_oldest(old) ==
    /\ NoCallback
    /\ conns' = conns \ {old} /\ udp' = [udp EXCEPT ![old] = NoUdp]
    /\ used' = Remove(used, old)
    /\ IF udp[old].instance_active THEN MIPCLOSE(udp[old].id) \/ Quiet ELSE Quiet
    /\ Goto("create") /\ UNCHANGED <<making, next_id>>

\* CreateUdp, OnMessage and the start of Connect, up to the answer to MIPSTATE
Create ==
    /\ udpAt = "create" /\ NoCallback
    /\ making' = dest /\ Touch(dest)
    /\ next_id' = next_id + 1
    /\ LET id == next_id % MAX_CONN
       IN  /\ udp' = [udp EXCEPT ![dest] = [NoUdp EXCEPT !.id = id]]
           /\ \/ MIPSTATE(id) /\ Goto("state")
              \/ (MIPSTATE(id) \/ Quiet) /\ Goto("failed")
    /\ udpBits' = {}
    /\ UNCHANGED <<conns, dest, udpCalls, other>>

get ==
    \/ Found /\ Quiet
    \/ /\ dest \notin conns /\ Len(used) >= MAX_CONN
       /\ \E old \in conns : old = Head(used) /\ evict_oldest(old)
    \/ /\ dest \notin conns /\ Len(used) < MAX_CONN
       /\ Goto("create") /\ UNCHANGED map /\ Quiet

-----------------------------------------------------------------------------
(* Ml307Udp::Connect *)

Wait(from) == udpAt = from /\ UNCHANGED <<conns, used, next_id, dest, udpCalls, other>>

initializeUdp ==
    /\ Wait("state")
    /\ Goto(IF "INITIALIZED" \notin udpBits THEN "failed"
            ELSE IF mine.instance_active THEN "close" ELSE "config")
    /\ udpBits' = udpBits \ {"INITIALIZED"}
    /\ Quiet /\ UNCHANGED <<making, udp>>

\* Disconnect, whatever the modem answers
Disconnect ==
    /\ Wait("close") /\ Goto("closing")
    /\ MIPCLOSE(mine.id) \/ Quiet
    /\ udp' = [udp EXCEPT ![making].connected = FALSE, ![making].instance_active = FALSE]
    /\ UNCHANGED <<making, udpBits>>

\* The wait for DISCONNECTED, with or without success; then configureUdp
configureUdp ==
    /\ Wait("closing") \/ Wait("config")
    /\ udpBits' = udpBits \ (IF udpAt = "closing" THEN {"DISCONNECTED"} ELSE {})
    /\ \/ Goto("open") \/ Goto("failed")
    /\ Quiet /\ UNCHANGED <<making, udp>>

Open ==
    /\ Wait("open")
    /\ \/ MIPOPEN(mine.id, making) /\ Goto("opening")
       \/ (MIPOPEN(mine.id, making) \/ Quiet) /\ Goto("failed")
    /\ UNCHANGED <<making, udp, udpBits>>

Connect ==
    /\ udpAt = "opening" /\ Quiet
    /\ udpBits' = udpBits \ {"CONNECTED", "ERROR"}
    /\ IF "CONNECTED" \in udpBits
       THEN conns' = conns \cup {making} /\ making' = 0 /\ Goto("send")
       ELSE Goto("failed") /\ UNCHANGED <<conns, making>>
    /\ UNCHANGED <<udp, used, next_id, dest, udpCalls, other>>

\* The connection is destroyed; the number it took stays taken.
Failed ==
    /\ udpAt = "failed" /\ NoCallback /\ Goto("idle") /\ dest' = 0
    /\ IF mine.instance_active THEN MIPCLOSE(mine.id) \/ Quiet ELSE Quiet
    /\ making' = 0 /\ udp' = [udp EXCEPT ![making] = NoUdp] /\ used' = Remove(used, making)
    /\ UNCHANGED <<conns, next_id, udpBits, udpCalls, other>>

-----------------------------------------------------------------------------
(* The calls of the peer library *)

udp_socket_sendto(r) ==
    /\ udpAt = "idle" /\ udpCalls < MaxCalls /\ udpCalls' = udpCalls + 1
    /\ dest' = r /\ Goto("get")
    /\ UNCHANGED <<map, udpBits, modem, other>>

Get == udpAt = "get" /\ get /\ UNCHANGED <<dest, udpCalls, udpBits, other>>

Send ==
    /\ udpAt = "send"
    /\ IF udp[dest].connected
       THEN /\ udpBits' = udpBits \ {"SEND_COMPLETE"}
            /\ \/ MIPSEND(udp[dest].id) /\ Goto("sending")
               \/ (MIPSEND(udp[dest].id) \/ Quiet) /\ Goto("idle")
       ELSE Goto("idle") /\ Quiet /\ UNCHANGED udpBits
    /\ UNCHANGED <<map, dest, udpCalls, other>>

Sent ==
    /\ udpAt = "sending" /\ Goto("idle")
    /\ udpBits' = udpBits \ {"SEND_COMPLETE"}
    /\ UNCHANGED <<map, dest, udpCalls, modem, other>>

\* Without waiting, or after the event; the event is cleared whatever is left.
recv_call ==
    /\ udpAt = "idle"
    /\ udp_event' \in (IF udp_event THEN {TRUE, FALSE} ELSE {FALSE})

copied == [from |-> reading[1], data |-> reading[2]]

\* Mutant: has_packet is not cleared.
ClearPacketNot ==
    /\ udpAt = "copied" /\ Goto("idle") /\ reading' = <<>>
    /\ handed' = Append(handed, copied) /\ UNCHANGED <<udp, udp_event>>

\* has_packet = false: of what came in between nothing is left.
ClearPacket ==
    /\ udpAt = "copied" /\ Goto("idle") /\ reading' = <<>>
    /\ udp' = [udp EXCEPT ![reading[1]].has_packet = FALSE]
    /\ handed' = Append(handed, copied) /\ UNCHANGED udp_event

\* The test of has_packet and the memcpy of last_packet, from its beginning to its end.
recv_any ==
    \/ /\ recv_call
       /\ \E r \in conns : udp[r].has_packet /\ reading' = <<r, udp[r].last_packet>>
       /\ Goto("copying") /\ UNCHANGED <<udp, handed>>
    \/ /\ udpAt = "copying" /\ Goto("copied")
       /\ UNCHANGED <<udp, udp_event, reading, handed>>
    \/ ClearPacket

recvfrom_nowait ==
    /\ recv_any
    /\ UNCHANGED <<conns, making, used, next_id, dest, udpCalls, udpBits, arriving, modem, packets>>

\* Each socket is closed by the modem, or its command fails; the URCs find no connection.
close_all ==
    /\ udpAt = "idle" /\ conns # {} /\ NoCallback
    /\ \E closed \in SUBSET {udp[r].id : r \in {c \in conns : udp[c].instance_active}} :
          /\ udpSock' = [i \in Ids |-> IF i \in closed THEN 0 ELSE udpSock[i]]
          /\ udpUrc' = udpUrc \o SetToSeq({[what |-> "close", id |-> i, data |-> 0] : i \in closed})
    /\ conns' = {} /\ used' = <<>> /\ udp' = [r \in Remotes |-> NoUdp]
    /\ udp_event' = FALSE
    /\ UNCHANGED <<making, next_id, caller, udpBits, reading, arriving, packets, handed>>

-----------------------------------------------------------------------------
(* handleUrc, for every connection with the number *)

Hit(i) == {r \in Live : udp[r].id = i}
Update(i, f(_)) == udp' = [r \in Remotes |-> IF r \in Hit(i) THEN f(udp[r]) ELSE udp[r]]

InHand(i) == dest \in Hit(i)
Bits(i, off, on) == udpBits' = IF InHand(i) THEN (udpBits \ off) \cup on ELSE udpBits

UrcState(u) ==
    /\ u.what \in {"state_open", "state_initial"}
    /\ LET up == u.what = "state_open"
       IN  Update(u.id, LAMBDA o : [o EXCEPT !.connected = up, !.instance_active = up])
    /\ Bits(u.id, {}, {"INITIALIZED"}) /\ UNCHANGED arriving

UrcOpen(u) ==
    \/ /\ u.what = "opened"
       /\ Update(u.id, LAMBDA o : [o EXCEPT !.connected = TRUE, !.instance_active = TRUE])
       /\ Bits(u.id, {"DISCONNECTED", "ERROR"}, {"CONNECTED"}) /\ UNCHANGED arriving
    \/ /\ u.what = "open_failed"
       /\ Update(u.id, LAMBDA o : [o EXCEPT !.connected = FALSE])
       /\ Bits(u.id, {}, {"ERROR"}) /\ UNCHANGED arriving

UrcClose(u) ==
    /\ u.what = "close"
    /\ Update(u.id, LAMBDA o : [o EXCEPT !.connected = FALSE, !.instance_active = FALSE])
    /\ Bits(u.id, {}, {"DISCONNECTED"}) /\ UNCHANGED arriving

UrcSent(u) ==
    /\ u.what = "sent" /\ Bits(u.id, {}, {"SEND_COMPLETE"})
    /\ UNCHANGED <<udp, arriving>>

\* The message callback of every connection with the number, one after the other
OnMessage(u) ==
    /\ u.what = "rudp"
    /\ arriving' = IF Hit(u.id) = {} THEN NoMessage ELSE [data |-> u.data, to |-> Hit(u.id), in |-> 0]
    /\ UNCHANGED <<udp, udpBits>>

handleUrc ==
    /\ NoCallback /\ udpUrc # <<>> /\ udpUrc' = Tail(udpUrc)
    /\ LET u == Head(udpUrc)
       IN  UrcState(u) \/ UrcOpen(u) \/ UrcClose(u) \/ UrcSent(u) \/ OnMessage(u)
    /\ UNCHANGED <<conns, making, used, next_id, caller, udp_event, reading, udpSock,
                   packets, handed>>

\* last_packet = data, without a lock
StorePacket ==
    /\ arriving.in = 0
    /\ \E r \in arriving.to :
          /\ udp' = [udp EXCEPT ![r].last_packet = arriving.data]
          /\ arriving' = [arriving EXCEPT !.to = @ \ {r}, !.in = r]
          /\ IF udpAt = "copying" /\ reading[1] = r
             THEN \E d \in {reading[2], arriving.data, Torn} : reading' = <<r, d>>
             ELSE UNCHANGED reading
    /\ UNCHANGED <<conns, making, used, next_id, caller, udpBits, udp_event, modem,
                   packets, handed>>

\* has_packet = true, last_used and the event
SetPacket ==
    /\ arriving.in # 0
    /\ udp' = [udp EXCEPT ![arriving.in].has_packet = TRUE] /\ Touch(arriving.in)
    /\ udp_event' = TRUE
    /\ arriving' = IF arriving.to = {} THEN NoMessage ELSE [arriving EXCEPT !.in = 0]
    /\ UNCHANGED <<conns, making, next_id, caller, udpBits, reading, modem, packets, handed>>

Next == \/ \E r \in Remotes : udp_socket_sendto(r)
        \/ Get \/ Create \/ initializeUdp \/ Disconnect \/ configureUdp \/ Open \/ Connect \/ Failed
        \/ Send \/ Sent \/ recvfrom_nowait \/ close_all \/ handleUrc
        \/ StorePacket \/ SetPacket
        \/ \E i \in Ids : PacketComes(i)

Spec == Init /\ [][Next]_vars

-----------------------------------------------------------------------------
(* Properties *)

\* What recv_any gives of one connection comes in the order in which the packets came,
\* and none comes a third time, though has_packet and last_packet are set and read by
\* two tasks without a lock.  (A packet may be lost, come twice or be torn.)
Whole(n) == handed[n].data # Torn
HandedInOrder ==
    /\ \A j, k \in 1 .. Len(handed) :
          j < k /\ handed[j].from = handed[k].from /\ Whole(j) /\ Whole(k)
             => handed[j].data <= handed[k].data
    /\ \A i, j, k \in 1 .. Len(handed) :
          i < j /\ j < k /\ handed[i] = handed[j] /\ handed[j] = handed[k] => ~Whole(i)

\* ml307_udp_socket.h says of udp_socket_sendto that it sends to the address it is
\* given: the socket a packet leaves through is bound to that address, or closed.
SentToItsRemote == udpAt = "sending" => udpSock[udp[dest].id] \in {0, dest}
=============================================================================
