----------------------- MODULE SessionManager_proofs -----------------------
(***************************************************************************)
(* Safety of the session maps, for any number of connections, identifiers  *)
(* and interleavings of the handlers, the cleaner and the MQTT thread; and *)
(* of the bridge beside them, for any number of devices, pages, messages   *)
(* and drops.                                                              *)
(***************************************************************************)
EXTENDS MCSessionManager, SequenceTheorems, TLAPS

\* Every entry of deviceSessionMap has somebody who will remove it: the session
\* that is still binding, the session it is bound to, or the thread that has
\* taken the device out of sessionDeviceMap.
Holder(d, s) ==
    \/ at[s] = "bind" /\ device[s] = d
    \/ sessionDeviceMap[s] = d
    \/ at[s] = "unmap" /\ device[s] = d
    \/ at[Cleaner] = "unmap" /\ device[Cleaner] = d

EntriesHeld ==
    \A d \in Devices, s \in Sessions :
        deviceSessionMap[d] = s => registeredAs[s] = d /\ Holder(d, s)

\* A session is bound to the device it registered.
BindingsRegistered ==
    \A s \in Sessions : sessionDeviceMap[s] \in Devices =>
                            registeredAs[s] = sessionDeviceMap[s]

\* What a thread remembers of the maps is about the session it works on, and
\* only sessions that are closed for good are unbound.
ThreadInv ==
    \A t \in Threads :
        /\ at[t] \in {"send", "unmap"} => registeredAs[peer[t]] = device[t]
        /\ at[t] \in {"unbind", "unmap", "remove"} =>
               peer[t] \notin open /\ at[peer[t]] # "new"

\* Where a handler is says what the maps still know of its session.
HandlerInv ==
    \A s \in Sessions :
        /\ at[s] = "bind" => registeredAs[s] = device[s]
        /\ at[s] \in {"unbind", "unmap"} => peer[s] = s
        /\ at[s] \in {"new", "unbind", "unmap", "gone"} => s \notin sessions
        /\ at[s] = "new" => registeredAs[s] = NoDevice
        /\ at[s] \in {"unmap", "gone"} => sessionDeviceMap[s] = NoDevice
        /\ s \in open => s \in sessions

\* The MQTT thread only sends.
MqttInv == at[Mqtt] \in {"idle", "send"}

\* The inductive invariant.
IInv == /\ TypeOK /\ EntriesHeld /\ BindingsRegistered /\ ThreadInv /\ HandlerInv
        /\ MqttInv /\ SoleOwnerReachable /\ DeliveredToRegistrant

\* A new session is in the sessions map only, and nothing mentions it yet.
LEMMA ConnectStep ==
    ASSUME IInv, NEW s \in Sessions, Connect(s)
    PROVE  IInv'
  <1> USE SessionAssumption DEF Threads, Places, maps, AfterUnbind
  <1>1. TypeOK'
    BY DEF IInv, Connect, TypeOK
  <1>2. EntriesHeld'
    BY DEF IInv, Connect, TypeOK, EntriesHeld, BindingsRegistered, HandlerInv, Holder
  <1>3. BindingsRegistered'
    BY DEF IInv, Connect, TypeOK, BindingsRegistered, HandlerInv
  <1>4. ThreadInv'
    BY DEF IInv, Connect, TypeOK, EntriesHeld, BindingsRegistered, ThreadInv, HandlerInv
  <1>5. HandlerInv'
    BY DEF IInv, Connect, TypeOK, ThreadInv, HandlerInv
  <1>6. SoleOwnerReachable'
    BY DEF IInv, Connect, TypeOK, EntriesHeld, ThreadInv, HandlerInv, SoleOwnerReachable
  <1>7. DeliveredToRegistrant'
    BY DEF IInv, Connect, TypeOK, ThreadInv, HandlerInv, DeliveredToRegistrant
  <1>8. MqttInv'
    BY DEF IInv, Connect, TypeOK, MqttInv
  <1> QED BY <1>1, <1>2, <1>3, <1>4, <1>5, <1>6, <1>7, <1>8 DEF IInv

\* A lost connection changes no map: only what is said of open sessions weakens.
LEMMA DropStep ==
    ASSUME IInv, NEW s \in Sessions, Drop(s)
    PROVE  IInv'
  <1> USE SessionAssumption DEF Threads, Places, maps, AfterUnbind
  <1>1. TypeOK'
    BY DEF IInv, Drop, TypeOK
  <1>2. EntriesHeld'
    BY DEF IInv, Drop, TypeOK, EntriesHeld, BindingsRegistered, HandlerInv, Holder
  <1>3. BindingsRegistered'
    BY DEF IInv, Drop, TypeOK, BindingsRegistered, HandlerInv
  <1>4. ThreadInv'
    BY DEF IInv, Drop, TypeOK, EntriesHeld, BindingsRegistered, ThreadInv, HandlerInv
  <1>5. HandlerInv'
    BY DEF IInv, Drop, TypeOK, ThreadInv, HandlerInv
  <1>6. SoleOwnerReachable'
    BY DEF IInv, Drop, TypeOK, EntriesHeld, ThreadInv, HandlerInv, SoleOwnerReachable
  <1>7. DeliveredToRegistrant'
    BY DEF IInv, Drop, TypeOK, ThreadInv, HandlerInv, DeliveredToRegistrant
  <1>8. MqttInv'
    BY DEF IInv, Drop, TypeOK, MqttInv
  <1> QED BY <1>1, <1>2, <1>3, <1>4, <1>5, <1>6, <1>7, <1>8 DEF IInv

\* The first put of bindDevice: the entry is held by the session that is binding.
LEMMA RegisterStep ==
    ASSUME IInv, NEW s \in Sessions, NEW d \in Devices, Register(s, d)
    PROVE  IInv'
  <1> USE SessionAssumption DEF Threads, Places, maps, AfterUnbind
  <1>1. TypeOK'
    BY DEF IInv, Register, TypeOK
  <1>2. EntriesHeld'
    BY DEF IInv, Register, TypeOK, EntriesHeld, BindingsRegistered, HandlerInv, Holder
  <1>3. BindingsRegistered'
    BY DEF IInv, Register, TypeOK, BindingsRegistered, HandlerInv
  <1>4. ThreadInv'
    BY DEF IInv, Register, TypeOK, EntriesHeld, BindingsRegistered, ThreadInv, HandlerInv
  <1>5. HandlerInv'
    BY DEF IInv, Register, TypeOK, ThreadInv, HandlerInv
  <1>6. SoleOwnerReachable'
    BY DEF IInv, Register, TypeOK, EntriesHeld, ThreadInv, HandlerInv, SoleOwnerReachable
  <1>7. DeliveredToRegistrant'
    BY DEF IInv, Register, TypeOK, ThreadInv, HandlerInv, DeliveredToRegistrant
  <1>8. MqttInv'
    BY DEF IInv, Register, TypeOK, MqttInv
  <1> QED BY <1>1, <1>2, <1>3, <1>4, <1>5, <1>6, <1>7, <1>8 DEF IInv

\* The second put: the entry is now held by the binding, even if the cleaner came between.
LEMMA BindStep ==
    ASSUME IInv, NEW s \in Sessions, Bind(s)
    PROVE  IInv'
  <1> USE SessionAssumption DEF Threads, Places, maps, AfterUnbind
  <1>1. TypeOK'
    BY DEF IInv, Bind, TypeOK
  <1>2. EntriesHeld'
    BY DEF IInv, Bind, TypeOK, EntriesHeld, BindingsRegistered, HandlerInv, Holder
  <1>3. BindingsRegistered'
    BY DEF IInv, Bind, TypeOK, BindingsRegistered, HandlerInv
  <1>4. ThreadInv'
    BY DEF IInv, Bind, TypeOK, EntriesHeld, BindingsRegistered, ThreadInv, HandlerInv
  <1>5. HandlerInv'
    BY DEF IInv, Bind, TypeOK, ThreadInv, HandlerInv
  <1>6. SoleOwnerReachable'
    BY DEF IInv, Bind, TypeOK, EntriesHeld, ThreadInv, HandlerInv, SoleOwnerReachable
  <1>7. DeliveredToRegistrant'
    BY DEF IInv, Bind, TypeOK, ThreadInv, HandlerInv, DeliveredToRegistrant
  <1>8. MqttInv'
    BY DEF IInv, Bind, TypeOK, MqttInv
  <1> QED BY <1>1, <1>2, <1>3, <1>4, <1>5, <1>6, <1>7, <1>8 DEF IInv

\* The handler takes the closed session out before it unbinds it.
LEMMA CloseStep ==
    ASSUME IInv, NEW s \in Sessions, Close(s)
    PROVE  IInv'
  <1> USE SessionAssumption DEF Threads, Places, maps, AfterUnbind
  <1>1. TypeOK'
    BY DEF IInv, Close, TypeOK
  <1>2. EntriesHeld'
    BY DEF IInv, Close, TypeOK, EntriesHeld, BindingsRegistered, HandlerInv, Holder
  <1>3. BindingsRegistered'
    BY DEF IInv, Close, TypeOK, BindingsRegistered, HandlerInv
  <1>4. ThreadInv'
    BY DEF IInv, Close, TypeOK, EntriesHeld, BindingsRegistered, ThreadInv, HandlerInv
  <1>5. HandlerInv'
    BY DEF IInv, Close, TypeOK, ThreadInv, HandlerInv
  <1>6. SoleOwnerReachable'
    BY DEF IInv, Close, TypeOK, EntriesHeld, ThreadInv, HandlerInv, SoleOwnerReachable
  <1>7. DeliveredToRegistrant'
    BY DEF IInv, Close, TypeOK, ThreadInv, HandlerInv, DeliveredToRegistrant
  <1>8. MqttInv'
    BY DEF IInv, Close, TypeOK, MqttInv
  <1> QED BY <1>1, <1>2, <1>3, <1>4, <1>5, <1>6, <1>7, <1>8 DEF IInv

\* The cleaner picks a session that is closed for good.
LEMMA InspectStep ==
    ASSUME IInv, NEW s \in Sessions, Inspect(s)
    PROVE  IInv'
  <1> USE SessionAssumption DEF Threads, Places, maps, AfterUnbind
  <1>1. TypeOK'
    BY DEF IInv, Inspect, TypeOK
  <1>2. EntriesHeld'
    BY DEF IInv, Inspect, TypeOK, EntriesHeld, BindingsRegistered, HandlerInv, Holder
  <1>3. BindingsRegistered'
    BY DEF IInv, Inspect, TypeOK, BindingsRegistered, HandlerInv
  <1>4. ThreadInv'
    BY DEF IInv, Inspect, TypeOK, EntriesHeld, BindingsRegistered, ThreadInv, HandlerInv
  <1>5. HandlerInv'
    BY DEF IInv, Inspect, TypeOK, ThreadInv, HandlerInv
  <1>6. SoleOwnerReachable'
    BY DEF IInv, Inspect, TypeOK, EntriesHeld, ThreadInv, HandlerInv, SoleOwnerReachable
  <1>7. DeliveredToRegistrant'
    BY DEF IInv, Inspect, TypeOK, ThreadInv, HandlerInv, DeliveredToRegistrant
  <1>8. MqttInv'
    BY DEF IInv, Inspect, TypeOK, MqttInv
  <1> QED BY <1>1, <1>2, <1>3, <1>4, <1>5, <1>6, <1>7, <1>8 DEF IInv

\* Taking the device out of sessionDeviceMap passes the entry to the thread that took it.
LEMMA UnbindStep ==
    ASSUME IInv, NEW t \in Threads, Unbind(t)
    PROVE  IInv'
  <1> USE SessionAssumption DEF Threads, Places, maps, AfterUnbind
  <1>1. TypeOK'
    BY DEF IInv, Unbind, TypeOK
  <1>2. EntriesHeld'
    <2> SUFFICES ASSUME NEW d \in Devices, NEW s \in Sessions,
                        deviceSessionMap[d] = s
                 PROVE  registeredAs[s] = d /\ Holder(d, s)'
      BY DEF Unbind, EntriesHeld
    <2>1. registeredAs[s] = d /\ Holder(d, s)
      BY DEF IInv, EntriesHeld
    <2>2. t \in Sessions \cup {Cleaner}
      BY DEF IInv, MqttInv, Unbind
    <2>3. CASE s = peer[t] /\ sessionDeviceMap[s] = d
      BY <2>1, <2>2, <2>3 DEF IInv, Unbind, TypeOK, HandlerInv, ThreadInv, Holder
    <2>4. CASE ~(s = peer[t] /\ sessionDeviceMap[s] = d)
      BY <2>1, <2>4 DEF IInv, Unbind, TypeOK, Holder
    <2> QED BY <2>3, <2>4
  <1>3. BindingsRegistered'
    BY DEF IInv, Unbind, TypeOK, BindingsRegistered, HandlerInv
  <1>4. ThreadInv'
    BY DEF IInv, Unbind, TypeOK, EntriesHeld, BindingsRegistered, ThreadInv, HandlerInv
  <1>5. HandlerInv'
    BY DEF IInv, Unbind, TypeOK, ThreadInv, HandlerInv
  <1>6. SoleOwnerReachable'
    BY DEF IInv, Unbind, TypeOK, EntriesHeld, ThreadInv, HandlerInv, SoleOwnerReachable
  <1>7. DeliveredToRegistrant'
    BY DEF IInv, Unbind, TypeOK, ThreadInv, HandlerInv, DeliveredToRegistrant
  <1>8. MqttInv'
    BY DEF IInv, Unbind, TypeOK, MqttInv
  <1> QED BY <1>1, <1>2, <1>3, <1>4, <1>5, <1>6, <1>7, <1>8 DEF IInv

\* Removing the device's entry harms nobody whose identifier is his own.
LEMMA UnmapStep ==
    ASSUME IInv, NEW t \in Threads, Unmap(t)
    PROVE  IInv'
  <1> USE SessionAssumption DEF Threads, Places, maps, AfterUnbind
  <1>1. TypeOK'
    BY DEF IInv, Unmap, TypeOK
  <1>2. EntriesHeld'
    BY DEF IInv, Unmap, TypeOK, EntriesHeld, BindingsRegistered, HandlerInv, Holder
  <1>3. BindingsRegistered'
    BY DEF IInv, Unmap, TypeOK, BindingsRegistered, HandlerInv
  <1>4. ThreadInv'
    BY DEF IInv, Unmap, TypeOK, EntriesHeld, BindingsRegistered, ThreadInv, HandlerInv
  <1>5. HandlerInv'
    BY DEF IInv, Unmap, TypeOK, ThreadInv, HandlerInv
  <1>6. SoleOwnerReachable'
    BY DEF IInv, Unmap, TypeOK, EntriesHeld, ThreadInv, HandlerInv, SoleOwnerReachable
  <1>7. DeliveredToRegistrant'
    BY DEF IInv, Unmap, TypeOK, ThreadInv, HandlerInv, DeliveredToRegistrant
  <1>8. MqttInv'
    BY DEF IInv, Unmap, TypeOK, MqttInv
  <1> QED BY <1>1, <1>2, <1>3, <1>4, <1>5, <1>6, <1>7, <1>8 DEF IInv

\* The cleaner drops the closed session.
LEMMA RemoveStep ==
    ASSUME IInv, Remove
    PROVE  IInv'
  <1> USE SessionAssumption DEF Threads, Places, maps, AfterUnbind
  <1>1. TypeOK'
    BY DEF IInv, Remove, TypeOK
  <1>2. EntriesHeld'
    BY DEF IInv, Remove, TypeOK, EntriesHeld, BindingsRegistered, HandlerInv, Holder
  <1>3. BindingsRegistered'
    BY DEF IInv, Remove, TypeOK, BindingsRegistered, HandlerInv
  <1>4. ThreadInv'
    BY DEF IInv, Remove, TypeOK, EntriesHeld, BindingsRegistered, ThreadInv, HandlerInv
  <1>5. HandlerInv'
    BY DEF IInv, Remove, TypeOK, ThreadInv, HandlerInv
  <1>6. SoleOwnerReachable'
    BY DEF IInv, Remove, TypeOK, EntriesHeld, ThreadInv, HandlerInv, SoleOwnerReachable
  <1>7. DeliveredToRegistrant'
    BY DEF IInv, Remove, TypeOK, ThreadInv, HandlerInv, DeliveredToRegistrant
  <1>8. MqttInv'
    BY DEF IInv, Remove, TypeOK, MqttInv
  <1> QED BY <1>1, <1>2, <1>3, <1>4, <1>5, <1>6, <1>7, <1>8 DEF IInv

\* A sender remembers a session that registered the target.
LEMMA LookupStep ==
    ASSUME IInv, NEW t \in Threads, NEW d \in Devices, Lookup(t, d)
    PROVE  IInv'
  <1> USE SessionAssumption DEF Threads, Places, maps, AfterUnbind
  <1>1. TypeOK'
    BY DEF IInv, Lookup, TypeOK
  <1>2. EntriesHeld'
    BY DEF IInv, Lookup, TypeOK, EntriesHeld, BindingsRegistered, HandlerInv, Holder
  <1>3. BindingsRegistered'
    BY DEF IInv, Lookup, TypeOK, BindingsRegistered, HandlerInv
  <1>4. ThreadInv'
    BY DEF IInv, Lookup, TypeOK, EntriesHeld, BindingsRegistered, ThreadInv, HandlerInv
  <1>5. HandlerInv'
    BY DEF IInv, Lookup, TypeOK, ThreadInv, HandlerInv
  <1>6. SoleOwnerReachable'
    BY DEF IInv, Lookup, TypeOK, EntriesHeld, ThreadInv, HandlerInv, SoleOwnerReachable
  <1>7. DeliveredToRegistrant'
    BY DEF IInv, Lookup, TypeOK, ThreadInv, HandlerInv, DeliveredToRegistrant
  <1>8. MqttInv'
    BY DEF IInv, Lookup, TypeOK, MqttInv
  <1> QED BY <1>1, <1>2, <1>3, <1>4, <1>5, <1>6, <1>7, <1>8 DEF IInv

\* What is sent goes to the session that was looked up.
LEMMA SendStep ==
    ASSUME IInv, NEW t \in Threads, Send(t)
    PROVE  IInv'
  <1> USE SessionAssumption DEF Threads, Places, maps, AfterUnbind
  <1>1. TypeOK'
    BY DEF IInv, Send, TypeOK
  <1>2. EntriesHeld'
    BY DEF IInv, Send, TypeOK, EntriesHeld, BindingsRegistered, HandlerInv, Holder
  <1>3. BindingsRegistered'
    BY DEF IInv, Send, TypeOK, BindingsRegistered, HandlerInv
  <1>4. ThreadInv'
    BY DEF IInv, Send, TypeOK, EntriesHeld, BindingsRegistered, ThreadInv, HandlerInv
  <1>5. HandlerInv'
    BY DEF IInv, Send, TypeOK, ThreadInv, HandlerInv
  <1>6. SoleOwnerReachable'
    BY DEF IInv, Send, TypeOK, EntriesHeld, ThreadInv, HandlerInv, SoleOwnerReachable
  <1>7. DeliveredToRegistrant'
    BY DEF IInv, Send, TypeOK, ThreadInv, HandlerInv, DeliveredToRegistrant
  <1>8. MqttInv'
    BY DEF IInv, Send, TypeOK, MqttInv
  <1> QED BY <1>1, <1>2, <1>3, <1>4, <1>5, <1>6, <1>7, <1>8 DEF IInv

\* Every step keeps the invariant.
LEMMA StepKeeps == IInv /\ [Next]_vars => IInv'
  <1> SUFFICES ASSUME IInv, [Next]_vars PROVE IInv'
    OBVIOUS
  <1>1. ASSUME NEW s \in Sessions,
               Connect(s) \/ Drop(s) \/ Bind(s) \/ Close(s) \/ Inspect(s)
        PROVE  IInv'
    BY <1>1, ConnectStep, DropStep, BindStep, CloseStep, InspectStep
  <1>2. ASSUME NEW s \in Sessions, NEW d \in Devices, Register(s, d)
        PROVE  IInv'
    BY <1>2, RegisterStep
  <1>3. ASSUME NEW t \in Threads, Unbind(t) \/ Unmap(t) \/ Send(t)
        PROVE  IInv'
    BY <1>3, UnbindStep, UnmapStep, SendStep
  <1>4. ASSUME NEW t \in Threads, NEW d \in Devices, Lookup(t, d)
        PROVE  IInv'
    BY <1>4, LookupStep
  <1>5. CASE UNCHANGED vars
    BY <1>5 DEF vars, IInv, TypeOK, EntriesHeld, Holder, BindingsRegistered,
       ThreadInv, HandlerInv, MqttInv, SoleOwnerReachable, DeliveredToRegistrant
  <1> QED BY <1>1, <1>2, <1>3, <1>4, <1>5, RemoveStep DEF Next

\* The invariant holds of the empty maps.
LEMMA InitHolds == Init => IInv
  BY SessionAssumption
     DEF Init, Threads, Places, IInv, TypeOK, EntriesHeld, Holder,
         BindingsRegistered, ThreadInv, HandlerInv, MqttInv,
         SoleOwnerReachable, DeliveredToRegistrant

\* The inductive invariant of the session maps.
THEOREM Invariance == Spec => []IInv
  BY InitHolds, StepKeeps, PTL DEF Spec

-----------------------------------------------------------------------------
\* Every variable keeps its type and no map is asked for a null key.
THEOREM TypeCorrect == Spec => []TypeOK
  <1>1. IInv => TypeOK
    BY DEF IInv
  <1> QED BY <1>1, Invariance, PTL

\* A session whose handler has ended is in no map, unless the cleaner is about
\* to remove the last entry: bindDevice and removeSession leave no orphans.
THEOREM NoOrphans == Spec => []GoneForgotten
  <1>1. ASSUME IInv PROVE GoneForgotten
    <2> SUFFICES ASSUME NEW s \in Sessions, at[s] = "gone"
                 PROVE  /\ s \notin sessions
                        /\ sessionDeviceMap[s] = NoDevice
                        /\ \A d \in Devices : deviceSessionMap[d] = s =>
                               at[Cleaner] = "unmap" /\ device[Cleaner] = d
      BY DEF GoneForgotten
    <2>1. s \notin sessions /\ sessionDeviceMap[s] = NoDevice
      BY <1>1 DEF IInv, HandlerInv
    <2>2. ASSUME NEW d \in Devices, deviceSessionMap[d] = s
          PROVE  at[Cleaner] = "unmap" /\ device[Cleaner] = d
      <3>1. Holder(d, s)
        BY <1>1, <2>2 DEF IInv, EntriesHeld
      <3> QED BY <2>1, <3>1, SessionAssumption DEF Holder
    <2> QED BY <2>1, <2>2
  <1> QED BY <1>1, Invariance, PTL

\* A connected page whose identifier nobody else uses can be reached.
THEOREM SoleOwnersReachable == Spec => []SoleOwnerReachable
  <1>1. IInv => SoleOwnerReachable
    BY DEF IInv
  <1> QED BY <1>1, Invariance, PTL

\* Messages are sent to sessions that registered their target only.
THEOREM DeliveryCorrect == Spec => []DeliveredToRegistrant
  <1>1. IInv => DeliveredToRegistrant
    BY DEF IInv
  <1> QED BY <1>1, Invariance, PTL
-----------------------------------------------------------------------------
(* The bridge *)

Senders == Cameras \cup Webs
Marks   == [from : Senders, n : Nat]
UpMsgs  == [type : Bridges!UpTypes, from : Cameras, target : {Default}, n : Nat]
DownMsgs(w) == [type : Bridges!DownTypes, from : {w}, target : Senders, n : Nat]

BridgeType ==
    /\ ups \in Nat /\ downs \in [Webs -> Nat] /\ bound \subseteq Webs
    /\ up \in Seq(UpMsgs) /\ handling \in Seq(UpMsgs) /\ Len(handling) <= 1
    /\ DOMAIN page = Webs /\ \A w \in Webs : page[w] \in Seq(DownMsgs(w))
    /\ got \in [Webs -> Seq(Marks)] /\ down \in [Cameras -> Seq(Marks)]

\* What the broker and the pages' handlers still hold is in the order it was sent.
Rising(s, last) ==
    /\ \A i, j \in 1 .. Len(s) : i < j => s[i].n < s[j].n
    /\ \A i \in 1 .. Len(s) : s[i].n <= last

\* Every message m of s came after e.
Before(e, s) == \A i \in 1 .. Len(s) : e.n < s[i].n

\* Nothing that e's sender sent before e is still on its way.
Past(e) ==
    /\ e.from \in Cameras => e.n <= ups /\ Before(e, up) /\ Before(e, handling)
    /\ e.from \in Webs => e.n <= downs[e.from] /\ Before(e, page[e.from])

Arrived(s) == Bridges!InOrder(s) /\ \A i \in 1 .. Len(s) : Past(s[i])

BridgeInv ==
    /\ BridgeType
    /\ Rising(up, ups) /\ \A w \in Webs : Rising(page[w], downs[w])
    /\ \A i \in 1 .. Len(handling) : handling[i].n <= ups /\ Before(handling[i], up)
    /\ \A w \in Webs : Arrived(got[w])
    /\ \A d \in Cameras : Arrived(down[d])

\* A message is put behind those of its sender ...
LEMMA Queued ==
    ASSUME NEW M, \A x \in M : x.n \in Nat, NEW s \in Seq(M), NEW m \in M,
           NEW last \in Nat, Rising(s, last), m.n = last + 1
    PROVE  /\ Append(s, m) \in Seq(M) /\ Rising(Append(s, m), last + 1)
           /\ \A e \in Marks : e.n <= last /\ Before(e, s) => Before(e, Append(s, m))
  <1>1. /\ Append(s, m) \in Seq(M) /\ Len(Append(s, m)) = Len(s) + 1 /\ Len(s) \in Nat
        /\ \A i \in 1 .. Len(s) : Append(s, m)[i] = s[i] /\ s[i].n \in Nat
        /\ Append(s, m)[Len(s) + 1] = m
    OBVIOUS
  <1>2. \A e \in Marks : e.n \in Nat
    BY DEF Marks
  <1> QED BY <1>1, <1>2 DEF Rising, Before

\* ... and taken before those that its sender sent later.
LEMMA Taken ==
    ASSUME NEW M, \A x \in M : x.n \in Nat, NEW s \in Seq(M), s # <<>>,
           NEW last \in Nat, Rising(s, last)
    PROVE  /\ Head(s) \in M /\ Tail(s) \in Seq(M)
           /\ Rising(Tail(s), last) /\ Head(s).n <= last /\ Before(Head(s), Tail(s))
           /\ \A e : Before(e, s) => e.n < Head(s).n /\ Before(e, Tail(s))
  <1>1. /\ Head(s) \in M /\ Tail(s) \in Seq(M) /\ Len(Tail(s)) = Len(s) - 1 /\ Len(s) \in Nat \ {0}
        /\ Head(s) = s[1] /\ \A i \in 1 .. Len(s) - 1 : Tail(s)[i] = s[i + 1]
    OBVIOUS
  <1> QED BY <1>1 DEF Rising, Before

LEMMA Told ==
    ASSUME NEW s \in Seq(Marks), NEW e \in Marks, Bridges!InOrder(s),
           \A i \in 1 .. Len(s) : s[i].from = e.from => s[i].n < e.n
    PROVE  /\ Append(s, e) \in Seq(Marks) /\ Bridges!InOrder(Append(s, e))
           /\ \A i \in 1 .. Len(Append(s, e)) : (\E k \in 1 .. Len(s) : Append(s, e)[i] = s[k]) \/ Append(s, e)[i] = e
  <1>1. /\ Append(s, e) \in Seq(Marks) /\ Len(Append(s, e)) = Len(s) + 1 /\ Len(s) \in Nat
        /\ \A i \in 1 .. Len(s) : Append(s, e)[i] = s[i]
        /\ Append(s, e)[Len(s) + 1] = e
    OBVIOUS
  <1> QED BY <1>1 DEF Bridges!InOrder

\* What the handlers tell and publish is the message e or nothing.
LEMMA Passed ==
    ASSUME BridgeInv, NEW e \in Marks, Past(e)',
           \A x \in Marks : Past(x) => Past(x)' /\ (x.from = e.from => x.n < e.n),
           got' \in [Webs -> Seq(Marks)], down' \in [Cameras -> Seq(Marks)],
           \A w \in Webs : got'[w] \in {got[w], Append(got[w], e)},
           \A d \in Cameras : down'[d] \in {down[d], Append(down[d], e)}
    PROVE  (\A w \in Webs : Arrived(got[w])') /\ (\A d \in Cameras : Arrived(down[d])')
  <1> DEFINE P == {x \in Marks : Past(x)'}
  <1>0. e \in P /\ \A x \in Marks : Past(x) => x \in P
    OBVIOUS
  <1> HIDE DEF P
  <1>1. ASSUME NEW s \in Seq(Marks), NEW v \in {s, Append(s, e)}, Arrived(s)
        PROVE  Bridges!InOrder(v) /\ \A i \in 1 .. Len(v) : v[i] \in P
    <2>1. \A i \in 1 .. Len(s) : s[i] \in Marks
      OBVIOUS
    <2>2. CASE v = s
      BY <1>0, <1>1, <2>1, <2>2 DEF Arrived
    <2>3. CASE v = Append(s, e)
      <3>1. /\ Bridges!InOrder(v)
            /\ \A i \in 1 .. Len(v) : (\E k \in 1 .. Len(s) : v[i] = s[k]) \/ v[i] = e
        BY <1>1, <2>1, <2>3, Told DEF Arrived
      <3> QED BY <1>0, <1>1, <2>1, <3>1 DEF Arrived
    <2> QED BY <2>2, <2>3
  <1>2. /\ \A w \in Webs : got[w] \in Seq(Marks) /\ Arrived(got[w])
        /\ \A d \in Cameras : down[d] \in Seq(Marks) /\ Arrived(down[d])
    BY DEF BridgeInv, BridgeType
  <1>3. ASSUME NEW w \in Webs PROVE Arrived(got[w])'
    <2>1. Bridges!InOrder(got'[w]) /\ \A i \in 1 .. Len(got'[w]) : got'[w][i] \in P
      BY <1>1, <1>2
    <2> QED BY <2>1 DEF P, Past, Before, Arrived, Bridges!InOrder
  <1>4. ASSUME NEW d \in Cameras PROVE Arrived(down[d])'
    <2>1. Bridges!InOrder(down'[d]) /\ \A i \in 1 .. Len(down'[d]) : down'[d][i] \in P
      BY <1>1, <1>2
    <2> QED BY <2>1 DEF P, Past, Before, Arrived, Bridges!InOrder
  <1> QED BY <1>3, <1>4

\* A step that delivers nothing keeps what has arrived, if it sends nothing late.
LEMMA NothingPassed ==
    ASSUME BridgeInv, UNCHANGED <<got, down>>, \A x \in Marks : Past(x) => Past(x)'
    PROVE  (\A w \in Webs : Arrived(got[w])') /\ (\A d \in Cameras : Arrived(down[d])')
  <1> DEFINE P == {x \in Marks : Past(x)'}
  <1>0. \A x \in Marks : Past(x) => x \in P
    OBVIOUS
  <1> HIDE DEF P
  <1>1. /\ \A w \in Webs : got[w] \in Seq(Marks) /\ Arrived(got[w])
        /\ \A d \in Cameras : down[d] \in Seq(Marks) /\ Arrived(down[d])
    BY DEF BridgeInv, BridgeType
  <1>2. ASSUME NEW s \in Seq(Marks), Arrived(s)
        PROVE  Bridges!InOrder(s) /\ \A i \in 1 .. Len(s) : s[i] \in P
    <2>1. \A i \in 1 .. Len(s) : s[i] \in Marks
      OBVIOUS
    <2> QED BY <1>0, <1>2, <2>1 DEF Arrived
  <1>3. ASSUME NEW w \in Webs PROVE Arrived(got[w])'
    <2>1. Bridges!InOrder(got[w]) /\ \A i \in 1 .. Len(got[w]) : got[w][i] \in P
      BY <1>1, <1>2
    <2> QED BY <2>1 DEF P, Past, Before, Arrived, Bridges!InOrder
  <1>4. ASSUME NEW d \in Cameras PROVE Arrived(down[d])'
    <2>1. Bridges!InOrder(down[d]) /\ \A i \in 1 .. Len(down[d]) : down[d][i] \in P
      BY <1>1, <1>2
    <2> QED BY <2>1 DEF P, Past, Before, Arrived, Bridges!InOrder
  <1> QED BY <1>3, <1>4

LEMMA MessageFacts ==
    /\ \A m \in UpMsgs : m.n \in Nat /\ m.from \in Cameras /\ Bridges!Mark(m) \in Marks
                         /\ Bridges!Mark(m).n = m.n /\ Bridges!Mark(m).from = m.from
    /\ \A w \in Webs : \A m \in DownMsgs(w) :
         m.n \in Nat /\ m.from = w /\ Bridges!Mark(m) \in Marks
         /\ Bridges!Mark(m).n = m.n /\ Bridges!Mark(m).from = w
    /\ \A e \in Marks : e.n \in Nat /\ e.from \in Senders
  BY DEF UpMsgs, DownMsgs, Marks, Senders, Bridges!Mark

LEMMA PublishesInv ==
    ASSUME BridgeInv, NEW d \in Cameras, Bridges!DevicePublishes(d)
    PROVE  BridgeInv'
  <1>1. PICK m \in UpMsgs : up' = Append(up, m) /\ m.n = ups + 1
    <2>1. PICK type \in Bridges!UpTypes :
            up' = Append(up, [type |-> type, from |-> d, target |-> Default, n |-> ups + 1])
      BY DEF Bridges!DevicePublishes
    <2>2. ups + 1 \in Nat
      BY DEF BridgeInv, BridgeType
    <2> QED BY <2>1, <2>2 DEF UpMsgs
  <1>2. /\ ups' = ups + 1
        /\ UNCHANGED <<inbound, publisher, handling, callSessions, page, bound, got, down, downs, drops>>
    BY DEF Bridges!DevicePublishes
  <1>3. /\ up \in Seq(UpMsgs) /\ ups \in Nat /\ Rising(up, ups)
        /\ \A i \in 1 .. Len(handling) : handling[i] \in UpMsgs
    BY DEF BridgeInv, BridgeType
  <1>4. /\ up' \in Seq(UpMsgs) /\ Rising(up', ups')
        /\ \A e \in Marks : e.n <= ups /\ Before(e, up) => Before(e, up')
    BY <1>1, <1>2, <1>3, MessageFacts, Queued
  <1>5. \A i \in 1 .. Len(handling) : handling[i].n <= ups' /\ Before(handling[i], up')
    <2> SUFFICES ASSUME NEW i \in 1 .. Len(handling)
                 PROVE  handling[i].n <= ups' /\ Before(handling[i], up')
      OBVIOUS
    <2>1. handling[i] \in UpMsgs /\ handling[i].n <= ups /\ Before(handling[i], up)
      BY <1>3 DEF BridgeInv
    <2>2. Bridges!Mark(handling[i]) \in Marks /\ Bridges!Mark(handling[i]).n = handling[i].n /\ handling[i].n \in Nat
      BY <2>1, MessageFacts
    <2>3. Before(Bridges!Mark(handling[i]), up')
      BY <1>4, <2>1, <2>2 DEF Before
    <2> QED BY <1>2, <1>3, <2>1, <2>2, <2>3 DEF Before
  <1>6. \A x \in Marks : Past(x) => Past(x)'
    BY <1>2, <1>3, <1>4, MessageFacts DEF Past, Before
  <1>7. (\A w \in Webs : Arrived(got[w])') /\ (\A c \in Cameras : Arrived(down[c])')
    BY <1>2, <1>6, NothingPassed
  <1>8. BridgeType'
    BY <1>2, <1>3, <1>4 DEF BridgeInv, BridgeType
  <1>9. (\A w \in Webs : Rising(page[w], downs[w]))'
    BY <1>2 DEF BridgeInv, Rising
  <1>10. (Rising(up, ups) /\ \A i \in 1 .. Len(handling) : handling[i].n <= ups /\ Before(handling[i], up))'
    BY <1>2, <1>4, <1>5 DEF Rising, Before
  <1> QED BY <1>7, <1>8, <1>9, <1>10 DEF BridgeInv

LEMMA PageSendsInv ==
    ASSUME BridgeInv, NEW w \in Webs, Bridges!PageSends(w)
    PROVE  BridgeInv'
  <1>1. PICK m \in DownMsgs(w) : page' = [page EXCEPT ![w] = Append(page[w], m)] /\ m.n = downs[w] + 1
    <2>1. PICK type \in Bridges!DownTypes, target \in Cameras \cup Webs :
            page' = [page EXCEPT ![w] =
                       Append(page[w], [type |-> type, from |-> w, target |-> target, n |-> downs[w] + 1])]
      BY DEF Bridges!PageSends, BridgeInv, BridgeType
    <2>2. downs[w] + 1 \in Nat
      <3>1. downs[w] \in Nat
        BY DEF BridgeInv, BridgeType
      <3> QED BY <3>1
    <2> DEFINE m == [type |-> type, from |-> w, target |-> target, n |-> downs[w] + 1]
    <2>3. m \in DownMsgs(w) /\ m.n = downs[w] + 1
      BY <2>2 DEF DownMsgs, Senders
    <2>4. page' = [page EXCEPT ![w] = Append(page[w], m)]
      BY <2>1
    <2> HIDE DEF m
    <2> QED BY <2>3, <2>4
  <1>2. /\ downs' = [downs EXCEPT ![w] = downs[w] + 1]
        /\ UNCHANGED <<inbound, publisher, up, handling, callSessions, bound, got, down, ups, drops>>
    BY DEF Bridges!PageSends, BridgeInv, BridgeType
  <1>3. /\ page[w] \in Seq(DownMsgs(w)) /\ downs[w] \in Nat /\ Rising(page[w], downs[w])
        /\ \A v \in Webs : v # w => page'[v] = page[v] /\ downs'[v] = downs[v]
        /\ page'[w] = Append(page[w], m) /\ downs'[w] = downs[w] + 1
        /\ DOMAIN page' = Webs /\ downs' \in [Webs -> Nat]
    BY <1>1, <1>2 DEF BridgeInv, BridgeType
  <1>4. /\ page'[w] \in Seq(DownMsgs(w)) /\ Rising(page'[w], downs'[w])
        /\ \A e \in Marks : e.n <= downs[w] /\ Before(e, page[w]) => Before(e, page'[w])
    BY <1>1, <1>3, MessageFacts, Queued
  <1>6. \A x \in Marks : Past(x) => Past(x)'
    <2> SUFFICES ASSUME NEW x \in Marks, Past(x) PROVE Past(x)'
      OBVIOUS
    <2>0. x.n \in Nat
      BY MessageFacts
    <2>1. x.from \in Webs => x.n <= downs'[x.from] /\ Before(x, page'[x.from])
      <3>1. CASE x.from = w
        <4>1. x.n <= downs[w] /\ Before(x, page[w])
          BY <3>1 DEF Past
        <4>2. Before(x, page'[w])
          BY <1>4, <4>1
        <4>3. \A a, b \in Nat : a <= b => a <= b + 1
          OBVIOUS
        <4>4. x.n <= downs'[w]
          BY <1>3, <2>0, <4>1, <4>3
        <4> QED BY <3>1, <4>2, <4>4
      <3>2. CASE x.from # w
        BY <1>3, <3>2 DEF Past
      <3> QED BY <3>1, <3>2
    <2> QED BY <1>2, <2>1 DEF Past, Before
  <1>7. (\A v \in Webs : Arrived(got[v])') /\ (\A c \in Cameras : Arrived(down[c])')
    BY <1>2, <1>6, NothingPassed
  <1>8. BridgeType'
    BY <1>2, <1>3, <1>4 DEF BridgeInv, BridgeType
  <1>9. (\A v \in Webs : Rising(page[v], downs[v]))'
    BY <1>3, <1>4 DEF BridgeInv, Rising
  <1>10. (Rising(up, ups) /\ \A i \in 1 .. Len(handling) : handling[i].n <= ups /\ Before(handling[i], up))'
    BY <1>2 DEF BridgeInv, Rising, Before
  <1> QED BY <1>7, <1>8, <1>9, <1>10 DEF BridgeInv

\* Messages are lost with a session or a connection, and sessions open.
LEMMA LostInv ==
    ASSUME BridgeInv, up' \in {up, <<>>}, DOMAIN page' = Webs, \A w \in Webs : page'[w] \in {page[w], <<>>},
           bound' \subseteq Webs, UNCHANGED <<handling, got, down, ups, downs>>
    PROVE  BridgeInv'
  <1>1. <<>> \in Seq(UpMsgs) /\ Len(<<>>) = 0 /\ \A w \in Webs : <<>> \in Seq(DownMsgs(w))
    OBVIOUS
  <1>2. (\A e : Before(e, <<>>)) /\ \A last : Rising(<<>>, last)
    BY <1>1 DEF Before, Rising
  <1>3. \A x \in Marks : Past(x) => Past(x)'
    <2> SUFFICES ASSUME NEW x \in Marks, Past(x) PROVE Past(x)'
      OBVIOUS
    <2>1. Before(x, up) => Before(x, up')
      BY <1>2
    <2>2. x.from \in Webs => x.n <= downs'[x.from] /\ Before(x, page'[x.from])
      BY <1>2 DEF Past
    <2> QED BY <2>1, <2>2 DEF Past, Before
  <1>4. (\A w \in Webs : Arrived(got[w])') /\ (\A c \in Cameras : Arrived(down[c])')
    BY <1>3, NothingPassed
  <1>5. BridgeType'
    BY <1>1 DEF BridgeInv, BridgeType
  <1>6. Rising(up', ups') /\ \A i \in 1 .. Len(handling) : handling[i].n <= ups' /\ Before(handling[i], up')
    BY <1>2 DEF BridgeInv
  <1>7. \A w \in Webs : Rising(page'[w], downs'[w])
    BY <1>2 DEF BridgeInv
  <1>8. (Rising(up, ups) /\ \A i \in 1 .. Len(handling) : handling[i].n <= ups /\ Before(handling[i], up))'
    BY <1>6 DEF Rising, Before
  <1>9. (\A w \in Webs : Rising(page[w], downs[w]))'
    BY <1>7 DEF Rising
  <1> QED BY <1>4, <1>5, <1>8, <1>9 DEF BridgeInv

LEMMA ReceiveInv ==
    ASSUME BridgeInv, Bridges!Receive
    PROVE  BridgeInv'
  <1>1. /\ up # <<>> /\ handling' = <<Head(up)>> /\ up' = Tail(up) /\ handling = <<>>
        /\ UNCHANGED <<inbound, publisher, callSessions, page, bound, got, down, ups, downs, drops>>
    BY DEF Bridges!Receive, Bridges!Take, Bridges!traffic
  <1>2. up \in Seq(UpMsgs) /\ ups \in Nat /\ Rising(up, ups)
    BY DEF BridgeInv, BridgeType
  <1>3. /\ Head(up) \in UpMsgs /\ up' \in Seq(UpMsgs) /\ Rising(up', ups)
        /\ Head(up).n <= ups /\ Before(Head(up), up')
        /\ \A e : Before(e, up) => e.n < Head(up).n /\ Before(e, up')
    BY <1>1, <1>2, MessageFacts, Taken
  <1>4. /\ handling' \in Seq(UpMsgs) /\ Len(handling') = 1 /\ handling'[1] = Head(up)
        /\ 1 .. Len(handling') = {1}
    BY <1>1, <1>3
  <1>5. \A x \in Marks : Past(x) => Past(x)'
    BY <1>1, <1>3, <1>4 DEF Past, Before
  <1>6. (\A w \in Webs : Arrived(got[w])') /\ (\A c \in Cameras : Arrived(down[c])')
    BY <1>1, <1>5, NothingPassed
  <1>7. BridgeType'
    BY <1>1, <1>3, <1>4 DEF BridgeInv, BridgeType
  <1>8. (Rising(up, ups) /\ \A i \in 1 .. Len(handling) : handling[i].n <= ups /\ Before(handling[i], up))'
    BY <1>1, <1>3, <1>4 DEF Rising, Before
  <1>9. (\A w \in Webs : Rising(page[w], downs[w]))'
    BY <1>1 DEF BridgeInv, Rising
  <1> QED BY <1>6, <1>7, <1>8, <1>9 DEF BridgeInv

\* Tell and Publish: the message itself, to whoever there is, or nothing.
LEMMA TellPublish ==
    ASSUME BridgeType, NEW m, NEW t, Bridges!Mark(m) \in Marks,
           Bridges!Tell(t, m) \/ got' = got, NEW u, Bridges!Publish(u, m) \/ down' = down
    PROVE  /\ got' \in [Webs -> Seq(Marks)] /\ down' \in [Cameras -> Seq(Marks)]
           /\ \A w \in Webs : got'[w] \in {got[w], Append(got[w], Bridges!Mark(m))}
           /\ \A d \in Cameras : down'[d] \in {down[d], Append(down[d], Bridges!Mark(m))}
  <1> DEFINE e == Bridges!Mark(m)
  <1>1. \/ got' = got
        \/ t \in Webs /\ got' = [got EXCEPT ![t] = Append(got[t], e)]
    BY DEF Bridges!Tell, BridgeType
  <1>2. \/ down' = down
        \/ u \in Cameras /\ down' = [down EXCEPT ![u] = Append(down[u], e)]
    BY DEF Bridges!Publish, BridgeType
  <1>3. \A s \in Seq(Marks) : Append(s, e) \in Seq(Marks)
    OBVIOUS
  <1> HIDE DEF e
  <1>4. got' \in [Webs -> Seq(Marks)] /\ \A w \in Webs : got'[w] \in {got[w], Append(got[w], e)}
    BY <1>1, <1>3 DEF BridgeType
  <1>5. down' \in [Cameras -> Seq(Marks)] /\ \A d \in Cameras : down'[d] \in {down[d], Append(down[d], e)}
    BY <1>2, <1>3 DEF BridgeType
  <1> QED BY <1>4, <1>5 DEF e

LEMMA HandleMqttInv ==
    ASSUME BridgeInv, Cameras \cap Webs = {}, Bridges!handleMqttMessage
    PROVE  BridgeInv'
  <1>1. PICK m \in UpMsgs : m = Head(handling) /\ handling # <<>> /\ handling[1] = m /\ Len(handling) = 1
    <2>1. handling \in Seq(UpMsgs) /\ handling # <<>> /\ Len(handling) <= 1
      BY DEF BridgeInv, BridgeType, Bridges!handleMqttMessage
    <2>2. Len(handling) = 1 /\ handling[1] \in UpMsgs /\ Head(handling) = handling[1]
      <3>1. Len(handling) \in Nat \ {0} /\ Head(handling) = handling[1] /\ Head(handling) \in UpMsgs
        BY <2>1
      <3>2. \A n \in Nat \ {0} : n <= 1 => n = 1
        OBVIOUS
      <3> QED BY <2>1, <3>1, <3>2
    <2> QED BY <2>1, <2>2
  <1>2. handling' = <<>> /\ UNCHANGED <<inbound, publisher, up, page, bound, ups, downs, drops>>
    BY DEF Bridges!handleMqttMessage
  <1> DEFINE e == Bridges!Mark(m)
  <1>3. e \in Marks /\ e.n = m.n /\ e.from = m.from /\ m.from \in Cameras /\ m.n \in Nat
    BY MessageFacts
  <1>4. \/ Bridges!handleIceRequest(m) \/ Bridges!handleWebRtcSignaling(m) \/ Bridges!handleCallTermination(m)
        \/ Bridges!handleCustomizedMessage(m) \/ Bridges!handleVersionReport(m)
    BY <1>1 DEF Bridges!handleMqttMessage
  <1>5. (Bridges!Tell(m.target, m) \/ got' = got) /\ (Bridges!Publish(m.from, m) \/ down' = down)
    BY <1>4 DEF Bridges!handleIceRequest, Bridges!handleWebRtcSignaling, Bridges!handleCallTermination,
                Bridges!handleCustomizedMessage, Bridges!handleVersionReport
  <1>6. /\ got' \in [Webs -> Seq(Marks)] /\ down' \in [Cameras -> Seq(Marks)]
        /\ \A w \in Webs : got'[w] \in {got[w], Append(got[w], e)}
        /\ \A d \in Cameras : down'[d] \in {down[d], Append(down[d], e)}
    BY <1>3, <1>5, TellPublish DEF BridgeInv
  <1> HIDE DEF e
  <1>7. Before(m, up) /\ m.n <= ups /\ \A x \in Marks : Before(x, handling) => x.n < m.n
    BY <1>1 DEF BridgeInv, Before
  <1>8. <<>> \in Seq(UpMsgs) /\ Len(<<>>) = 0 /\ 1 .. Len(<<>>) = {}
    OBVIOUS
  <1>9. Past(e)' /\ \A x \in Marks : Past(x) => Past(x)' /\ (x.from = e.from => x.n < e.n)
    <2>1. Past(e)'
      BY <1>2, <1>3, <1>7, <1>8 DEF Past, Before
    <2>2. \A x \in Marks : Past(x) => Past(x)'
      BY <1>2, <1>8 DEF Past, Before
    <2>3. \A x \in Marks : Past(x) => (x.from = e.from => x.n < e.n)
      BY <1>3, <1>7 DEF Past
    <2> QED BY <2>1, <2>2, <2>3
  <1>10. (\A w \in Webs : Arrived(got[w])') /\ (\A c \in Cameras : Arrived(down[c])')
    BY <1>3, <1>6, <1>9, Passed
  <1>11. BridgeType'
    BY <1>2, <1>6, <1>8 DEF BridgeInv, BridgeType
  <1>12. (Rising(up, ups) /\ \A i \in 1 .. Len(handling) : handling[i].n <= ups /\ Before(handling[i], up))'
    BY <1>2, <1>8 DEF BridgeInv, Rising, Before
  <1>13. (\A w \in Webs : Rising(page[w], downs[w]))'
    BY <1>2 DEF BridgeInv, Rising
  <1> QED BY <1>10, <1>11, <1>12, <1>13 DEF BridgeInv

LEMMA HandleTextInv ==
    ASSUME BridgeInv, Cameras \cap Webs = {}, NEW w \in Webs, Bridges!handleTextMessage(w)
    PROVE  BridgeInv'
  <1>1. /\ page[w] # <<>> /\ page' = [page EXCEPT ![w] = Tail(page[w])]
        /\ UNCHANGED <<inbound, publisher, up, handling, callSessions, bound, ups, downs, drops>>
    BY DEF Bridges!handleTextMessage, BridgeInv, BridgeType
  <1>2. page[w] \in Seq(DownMsgs(w)) /\ downs[w] \in Nat /\ Rising(page[w], downs[w])
    BY DEF BridgeInv, BridgeType
  <1>3. PICK m \in DownMsgs(w) : m = Head(page[w])
    BY <1>1, <1>2
  <1>4. /\ Tail(page[w]) \in Seq(DownMsgs(w)) /\ Rising(Tail(page[w]), downs[w])
        /\ m.n <= downs[w] /\ Before(m, Tail(page[w]))
        /\ \A x : Before(x, page[w]) => x.n < m.n /\ Before(x, Tail(page[w]))
    BY <1>1, <1>2, <1>3, MessageFacts, Taken
  <1>5. /\ page'[w] = Tail(page[w]) /\ DOMAIN page' = Webs
        /\ \A v \in Webs : v # w => page'[v] = page[v]
    BY <1>1 DEF BridgeInv, BridgeType
  <1> DEFINE e == Bridges!Mark(m)
  <1>6. e \in Marks /\ e.n = m.n /\ e.from = w /\ m.n \in Nat
    BY MessageFacts
  <1>7. \E t, u : (Bridges!Tell(t, m) \/ got' = got) /\ (Bridges!Publish(u, m) \/ down' = down)
    BY <1>3 DEF Bridges!handleTextMessage
  <1>8. /\ got' \in [Webs -> Seq(Marks)] /\ down' \in [Cameras -> Seq(Marks)]
        /\ \A v \in Webs : got'[v] \in {got[v], Append(got[v], e)}
        /\ \A d \in Cameras : down'[d] \in {down[d], Append(down[d], e)}
    BY <1>6, <1>7, TellPublish DEF BridgeInv
  <1> HIDE DEF e
  <1>9. Past(e)' /\ \A x \in Marks : Past(x) => Past(x)' /\ (x.from = e.from => x.n < e.n)
    <2>1. Past(e)'
      BY <1>1, <1>4, <1>5, <1>6 DEF Past, Before
    <2>2. ASSUME NEW x \in Marks, Past(x) PROVE Past(x)'
      <3>1. x.from \in Webs => x.n <= downs'[x.from] /\ Before(x, page'[x.from])
        BY <1>1, <1>4, <1>5, <2>2 DEF Past
      <3> QED BY <1>1, <2>2, <3>1 DEF Past, Before
    <2>3. \A x \in Marks : Past(x) => (x.from = e.from => x.n < e.n)
      BY <1>4, <1>6 DEF Past
    <2> QED BY <2>1, <2>2, <2>3
  <1>10. (\A v \in Webs : Arrived(got[v])') /\ (\A c \in Cameras : Arrived(down[c])')
    BY <1>6, <1>8, <1>9, Passed
  <1>11. BridgeType'
    BY <1>1, <1>4, <1>5, <1>8 DEF BridgeInv, BridgeType
  <1>12. (Rising(up, ups) /\ \A i \in 1 .. Len(handling) : handling[i].n <= ups /\ Before(handling[i], up))'
    BY <1>1 DEF BridgeInv, Rising, Before
  <1>13. (\A v \in Webs : Rising(page[v], downs[v]))'
    <2>1. \A v \in Webs : Rising(page'[v], downs'[v])
      BY <1>1, <1>4, <1>5 DEF BridgeInv
    <2> QED BY <2>1 DEF Rising
  <1> QED BY <1>10, <1>11, <1>12, <1>13 DEF BridgeInv

LEMMA BridgeNextInv ==
    ASSUME BridgeInv, Cameras \cap Webs = {}, [Bridges!Next]_(Bridges!vars)
    PROVE  BridgeInv'
  <1>1. ASSUME NEW w \in Webs, Bridges!SessionOpens(w) PROVE BridgeInv'
    <2>1. up' = up /\ page' = page /\ bound' \subseteq Webs /\ UNCHANGED <<handling, got, down, ups, downs>>
      BY <1>1 DEF Bridges!SessionOpens, Bridges!traffic, BridgeInv, BridgeType
    <2> QED BY <2>1, LostInv DEF BridgeInv, BridgeType
  <1>2. ASSUME NEW w \in Webs, Bridges!SessionCloses(w) PROVE BridgeInv'
    <2>1. /\ up' = up /\ bound' \subseteq Webs /\ UNCHANGED <<handling, got, down, ups, downs>>
          /\ DOMAIN page' = Webs /\ \A v \in Webs : page'[v] \in {page[v], <<>>}
      BY <1>2 DEF Bridges!SessionCloses, Bridges!traffic, BridgeInv, BridgeType
    <2> QED BY <2>1, LostInv
  <1>3. CASE Bridges!BrokerDrops \/ Bridges!Reconnect \/ UNCHANGED Bridges!vars
    <2>1. up' \in {up, <<>>} /\ page' = page /\ bound' \subseteq Webs /\ UNCHANGED <<handling, got, down, ups, downs>>
      BY <1>3 DEF Bridges!BrokerDrops, Bridges!Reconnect, Bridges!vars, Bridges!traffic, BridgeInv, BridgeType
    <2> QED BY <2>1, LostInv DEF BridgeInv, BridgeType
  <1> QED BY <1>1, <1>2, <1>3, PublishesInv, PageSendsInv, HandleTextInv, ReceiveInv, HandleMqttInv DEF Bridges!Next

LEMMA BridgeInitInv == Bridges!Init => BridgeInv
  <1> SUFFICES ASSUME Bridges!Init PROVE BridgeInv
    OBVIOUS
  <1>1. Len(<<>>) = 0 /\ 1 .. 0 = {} /\ <<>> \in Seq(UpMsgs) /\ <<>> \in Seq(Marks) /\ \A w \in Webs : <<>> \in Seq(DownMsgs(w))
    OBVIOUS
  <1>2. BridgeType
    BY <1>1 DEF Bridges!Init, BridgeType
  <1>3. Rising(<<>>, 0) /\ Arrived(<<>>)
    BY <1>1 DEF Rising, Arrived, Bridges!InOrder
  <1> QED BY <1>1, <1>2, <1>3 DEF Bridges!Init, BridgeInv

\* What a device or a page sends arrives at every page and at every device in the
\* order it was sent and once, over handleMqttMessage and handleTextMessage, and
\* whatever is lost with a connection or a session.  A device's identifier is never
\* a page's.
THEOREM BridgeKeepsOrder ==
    ASSUME Cameras \cap Webs = {}
    PROVE  Bridges!Spec => []OrderKept
  <1>1. BridgeInv => OrderKept
    BY DEF BridgeInv, Arrived, OrderKept, Bridges!OrderKept
  <1>2. BridgeInv /\ [Bridges!Next]_(Bridges!vars) => BridgeInv'
    BY BridgeNextInv
  <1> QED BY <1>1, <1>2, BridgeInitInv, PTL DEF Bridges!Spec
-----------------------------------------------------------------------------
(* The run *)

\* In a behaviour of the run the sessions or the bridge move and the other keeps still.
LEMMA PartsOfTheRun == MCSpec => Spec /\ Bridges!Spec
  <1>1. MCInit => Init /\ Bridges!Init
    BY DEF MCInit
  <1>2. [MCNext]_mcvars => [Next]_vars
    BY DEF MCNext, mcvars
  <1>3. [MCNext]_mcvars => [Bridges!Next]_(Bridges!vars)
    BY DEF MCNext, mcvars, bridgesVars, Bridges!vars, Bridges!traffic
  <1> QED BY <1>1, <1>2, <1>3, PTL DEF MCSpec, Spec, Bridges!Spec

\* The properties of both parts hold in what the run checks, for every value of the
\* bounds.
THEOREM SessionsRunCorrect ==
    ASSUME Cameras \cap Webs = {}
    PROVE  MCSpec => [](GoneForgotten /\ SoleOwnerReachable /\ DeliveredToRegistrant /\ OrderKept)
  <1> QED BY PartsOfTheRun, NoOrphans, SoleOwnersReachable, DeliveryCorrect, BridgeKeepsOrder, PTL
=============================================================================
