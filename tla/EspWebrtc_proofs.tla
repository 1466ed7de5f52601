------------------------- MODULE EspWebrtc_proofs -------------------------
(***************************************************************************)
(* The handshake between a BYE and pc_task over the flags and bits of      *)
(* webrtc_t, for every configuration of the peer connection and every set  *)
(* of calls, messages and network events.                                  *)
(***************************************************************************)
EXTENDS EspWebrtc, TLAPS

\* A call of the application and a message of the signaling exclude one another
\* (Free), so that one of the two tasks is always idle.
OneCaller == at["app"] = "idle" \/ at["sig"] = "idle"

AppPoints == {"idle", "stop", "stop_set", "stop_wait", "stop_clear", "resume", "set_resume",
              "close", "close_resume", "close_run", "close_wait", "close_end"}
SigPoints == {"idle", "stop", "stop_set", "stop_wait", "stop_clear", "resume", "set_resume",
              "bye_wait", "bye_clear", "bye_disconnect", "reconnect"}
PcPoints  == {"none", "top", "pausing", "wait_resume", "clear_resume", "main", "start",
              "stop", "stop_set", "stop_wait", "stop_clear"}
Places == at["app"] \in AppPoints /\ at["sig"] \in SigPoints /\ at["pc"] \in PcPoints

\* The BYE has asked for a pause and not yet taken note of it.
Asking == at["sig"] \in {"bye_wait", "bye_clear"}

\* A task has cleared pause and not yet set PC_RESUME_BIT.
Waking == at["app"] \in {"set_resume", "close_resume"} \/ at["sig"] = "set_resume"

\* pc_task waits, and nobody has woken it yet.
Asleep == at["pc"] = "wait_resume" /\ bits \cap {"paused", "resume"} = {}

\* What each flag and bit says about the place of pc_task.
PauseInv ==
    /\ pause /\ ~Asking => Asleep
    /\ Waking => Asleep
    /\ Asking \/ at["sig"] \in StopPoints \cup {"bye_disconnect", "reconnect", "resume"} => pause
    /\ Waking => ~pause
    /\ "paused" \in bits => Asking /\ at["pc"] = "wait_resume" /\ "resume" \notin bits
    /\ at["sig"] = "bye_clear" => "paused" \in bits
    /\ at["pc"] = "pausing" => at["sig"] = "bye_wait" /\ bits \cap {"paused", "resume"} = {}
    /\ "resume" \in bits => at["pc"] \in {"wait_resume", "clear_resume"}
    /\ at["pc"] = "wait_resume" => "resume" \in bits \/ "paused" \in bits \/ pause \/ Waking

\* The life of pc_task: it runs while the connection is open, and pc_close waits for
\* its end before it clears pc.
LifeInv ==
    /\ pause => pc_open
    /\ running => pc_open
    /\ pc_open /\ at["app"] \notin {"close_wait", "close_end"} => running
    /\ at["app"] \in {"close_resume", "close_run", "close_wait"} => still_running
    /\ at["app"] \in {"close_resume", "close_run", "close_wait", "close_end"} => pc_open /\ ~pause
    /\ at["app"] \in {"close_wait", "close_end"} => ~running
    /\ "exit" \in bits => at["pc"] = "none" /\ ~running
    /\ at["app"] = "close_end" => at["pc"] = "none"
    /\ ~pc_open => at["pc"] = "none"
    /\ at["pc"] = "none" => ~running

IInv == TypeOK /\ Places /\ OneCaller /\ PauseInv /\ LifeInv

\* stop_stream, in whichever task runs it.
LEMMA StopStreamStep ==
    ASSUME IInv, NEW t \in Tasks, stop_stream(t)
    PROVE  IInv'
  <1> USE DEF IInv, TypeOK, Tasks, peer, flags, Goto
  <1>1. CASE TestSending(t)
    <2>1. TypeOK'
      <3>1. (at \in [Tasks -> Points])'
        BY <1>1 DEF Points, StopPoints, TestSending, AfterStop
      <3>2. (bits \subseteq {"exit", "paused", "resume", "quit"})'
        BY <1>1 DEF TestSending
      <3>3. ({pc_open, wait_event, running, pause, send_going, pending_connect,
              ice_info_loaded, signaling_connected, still_running} \subseteq BOOLEAN)'
        BY <1>1 DEF TestSending
      <3>4. (senders \in 0 .. MaxSenders /\ conn \in {"closed", "connecting", "connected"})'
        BY <1>1 DEF TestSending, AfterStop
      <3> QED BY <3>1, <3>2, <3>3, <3>4
    <2>2. Places' /\ OneCaller'
      BY <1>1 DEF Places, OneCaller, AppPoints, SigPoints, PcPoints, StopPoints, TestSending,
         AfterStop
    <2>3. PauseInv'
      BY <1>1 DEF OneCaller, StopPoints, PauseInv, LifeInv, Asking, Waking, Asleep, TestSending,
         AfterStop
    <2>4. LifeInv'
      BY <1>1 DEF OneCaller, StopPoints, PauseInv, LifeInv, Asking, Waking, Asleep, TestSending,
         AfterStop
    <2> QED BY <2>1, <2>2, <2>3, <2>4
  <1>2. CASE StopSending(t)
    <2>1. TypeOK'
      <3>1. (at \in [Tasks -> Points])'
        BY <1>2 DEF Points, StopPoints, StopSending
      <3>2. (bits \subseteq {"exit", "paused", "resume", "quit"})'
        BY <1>2 DEF StopSending
      <3>3. ({pc_open, wait_event, running, pause, send_going, pending_connect,
              ice_info_loaded, signaling_connected, still_running} \subseteq BOOLEAN)'
        BY <1>2 DEF StopSending
      <3>4. (senders \in 0 .. MaxSenders /\ conn \in {"closed", "connecting", "connected"})'
        BY <1>2 DEF StopSending
      <3> QED BY <3>1, <3>2, <3>3, <3>4
    <2>2. Places' /\ OneCaller'
      BY <1>2 DEF Places, OneCaller, AppPoints, SigPoints, PcPoints, StopPoints, StopSending
    <2>3. PauseInv'
      BY <1>2 DEF OneCaller, StopPoints, PauseInv, LifeInv, Asking, Waking, Asleep, StopSending
    <2>4. LifeInv'
      BY <1>2 DEF OneCaller, StopPoints, PauseInv, LifeInv, Asking, Waking, Asleep, StopSending
    <2> QED BY <2>1, <2>2, <2>3, <2>4
  <1>3. CASE WaitQuit(t)
    <2>1. TypeOK'
      <3>1. (at \in [Tasks -> Points])'
        BY <1>3 DEF Points, StopPoints, WaitQuit
      <3>2. (bits \subseteq {"exit", "paused", "resume", "quit"})'
        BY <1>3 DEF WaitQuit
      <3>3. ({pc_open, wait_event, running, pause, send_going, pending_connect,
              ice_info_loaded, signaling_connected, still_running} \subseteq BOOLEAN)'
        BY <1>3 DEF WaitQuit
      <3>4. (senders \in 0 .. MaxSenders /\ conn \in {"closed", "connecting", "connected"})'
        BY <1>3 DEF WaitQuit
      <3> QED BY <3>1, <3>2, <3>3, <3>4
    <2>2. Places' /\ OneCaller'
      BY <1>3 DEF Places, OneCaller, AppPoints, SigPoints, PcPoints, StopPoints, WaitQuit
    <2>3. PauseInv'
      BY <1>3 DEF OneCaller, StopPoints, PauseInv, LifeInv, Asking, Waking, Asleep, WaitQuit
    <2>4. LifeInv'
      BY <1>3 DEF OneCaller, StopPoints, PauseInv, LifeInv, Asking, Waking, Asleep, WaitQuit
    <2> QED BY <2>1, <2>2, <2>3, <2>4
  <1>4. CASE ClearQuit(t)
    <2>1. TypeOK'
      <3>1. (at \in [Tasks -> Points])'
        BY <1>4 DEF Points, StopPoints, ClearQuit, AfterStop
      <3>2. (bits \subseteq {"exit", "paused", "resume", "quit"})'
        BY <1>4 DEF ClearQuit
      <3>3. ({pc_open, wait_event, running, pause, send_going, pending_connect,
              ice_info_loaded, signaling_connected, still_running} \subseteq BOOLEAN)'
        BY <1>4 DEF ClearQuit
      <3>4. (senders \in 0 .. MaxSenders /\ conn \in {"closed", "connecting", "connected"})'
        BY <1>4 DEF ClearQuit, AfterStop
      <3> QED BY <3>1, <3>2, <3>3, <3>4
    <2>2. Places' /\ OneCaller'
      BY <1>4 DEF Places, OneCaller, AppPoints, SigPoints, PcPoints, StopPoints, ClearQuit,
         AfterStop
    <2>3. PauseInv'
      BY <1>4 DEF OneCaller, StopPoints, PauseInv, LifeInv, Asking, Waking, Asleep, ClearQuit,
         AfterStop
    <2>4. LifeInv'
      BY <1>4 DEF OneCaller, StopPoints, PauseInv, LifeInv, Asking, Waking, Asleep, ClearQuit,
         AfterStop
    <2> QED BY <2>1, <2>2, <2>3, <2>4
  <1> QED BY <1>1, <1>2, <1>3, <1>4 DEF stop_stream

\* The end of an enable or of a BYE: only the one caller clears pause and wakes pc_task.
LEMMA ResumeStep ==
    ASSUME IInv, NEW t \in {"app", "sig"}, Resume(t) \/ SetResume(t)
    PROVE  IInv'
  <1> USE DEF IInv, TypeOK, Tasks, peer, flags, Goto
  <1>1. CASE Resume(t)
    <2>1. TypeOK'
      BY <1>1 DEF Points, StopPoints, Resume
    <2>2. Places' /\ OneCaller'
      BY <1>1 DEF Places, OneCaller, AppPoints, SigPoints, PcPoints, StopPoints, Resume
    <2>3. PauseInv'
      BY <1>1 DEF OneCaller, StopPoints, PauseInv, LifeInv, Asking, Waking, Asleep, Resume
    <2>4. LifeInv'
      BY <1>1 DEF OneCaller, StopPoints, PauseInv, LifeInv, Asking, Waking, Asleep, Resume
    <2> QED BY <2>1, <2>2, <2>3, <2>4
  <1>2. CASE SetResume(t)
    <2>1. TypeOK'
      BY <1>2 DEF Points, StopPoints, SetResume
    <2>2. Places' /\ OneCaller'
      BY <1>2 DEF Places, OneCaller, AppPoints, SigPoints, PcPoints, StopPoints, SetResume
    <2>3. PauseInv'
      BY <1>2 DEF OneCaller, StopPoints, PauseInv, LifeInv, Asking, Waking, Asleep, SetResume
    <2>4. LifeInv'
      BY <1>2 DEF OneCaller, StopPoints, PauseInv, LifeInv, Asking, Waking, Asleep, SetResume
    <2> QED BY <2>1, <2>2, <2>3, <2>4
  <1> QED BY <1>1, <1>2

\* The application calls while the signaling is idle.
LEMMA AppCallStep ==
    ASSUME IInv, Enable \/ Disable
    PROVE  IInv'
  <1> USE DEF IInv, TypeOK, Tasks, peer, flags, Goto
  <1>1. CASE Enable
    <2>1. TypeOK'
      BY <1>1 DEF Points, StopPoints, Enable, Free, pc_start, esp_peer_new_connection
    <2>2. Places' /\ OneCaller'
      BY <1>1 DEF Places, OneCaller, AppPoints, SigPoints, PcPoints, StopPoints, Enable, Free,
         pc_start, esp_peer_new_connection
    <2>3. PauseInv'
      BY <1>1 DEF OneCaller, StopPoints, PauseInv, LifeInv, Asking, Waking, Asleep, Enable,
         Free, pc_start, esp_peer_new_connection
    <2>4. LifeInv'
      BY <1>1 DEF OneCaller, StopPoints, PauseInv, LifeInv, Asking, Waking, Asleep, Enable,
         Free, pc_start, esp_peer_new_connection
    <2> QED BY <2>1, <2>2, <2>3, <2>4
  <1>2. CASE Disable
    <2>1. TypeOK'
      BY <1>2 DEF Points, StopPoints, Disable, Free
    <2>2. Places' /\ OneCaller'
      BY <1>2 DEF Places, OneCaller, AppPoints, SigPoints, PcPoints, StopPoints, Disable, Free
    <2>3. PauseInv'
      BY <1>2 DEF OneCaller, StopPoints, PauseInv, LifeInv, Asking, Waking, Asleep, Disable,
         Free
    <2>4. LifeInv'
      BY <1>2 DEF OneCaller, StopPoints, PauseInv, LifeInv, Asking, Waking, Asleep, Disable,
         Free
    <2> QED BY <2>1, <2>2, <2>3, <2>4
  <1> QED BY <1>1, <1>2

\* pc_close: a paused pc_task is woken, and its end waited for.
LEMMA CloseStep ==
    ASSUME IInv, CloseBegin \/ CloseResume \/ CloseRun \/ CloseWait \/ CloseEnd
    PROVE  IInv'
  <1> USE DEF IInv, TypeOK, Tasks, peer, flags, Goto
  <1>1. CASE CloseBegin
    <2>1. TypeOK'
      <3>1. (at \in [Tasks -> Points])'
        BY <1>1 DEF Points, StopPoints, CloseBegin, esp_peer_disconnect
      <3>2. (bits \subseteq {"exit", "paused", "resume", "quit"})'
        BY <1>1 DEF CloseBegin
      <3>3. ({pc_open, wait_event, running, pause, send_going, pending_connect,
              ice_info_loaded, signaling_connected, still_running} \subseteq BOOLEAN)'
        BY <1>1 DEF CloseBegin
      <3>4. (senders \in 0 .. MaxSenders /\ conn \in {"closed", "connecting", "connected"})'
        BY <1>1 DEF CloseBegin, esp_peer_disconnect
      <3> QED BY <3>1, <3>2, <3>3, <3>4
    <2>2. Places' /\ OneCaller'
      BY <1>1 DEF Places, OneCaller, AppPoints, SigPoints, PcPoints, StopPoints, CloseBegin,
         esp_peer_disconnect
    <2>3. PauseInv'
      BY <1>1 DEF OneCaller, StopPoints, PauseInv, LifeInv, Asking, Waking, Asleep, CloseBegin,
         esp_peer_disconnect
    <2>4. LifeInv'
      BY <1>1 DEF OneCaller, StopPoints, PauseInv, LifeInv, Asking, Waking, Asleep, CloseBegin,
         esp_peer_disconnect
    <2> QED BY <2>1, <2>2, <2>3, <2>4
  <1>2. CASE CloseResume
    <2>1. TypeOK'
      BY <1>2 DEF Points, StopPoints, CloseResume
    <2>2. Places' /\ OneCaller'
      BY <1>2 DEF Places, OneCaller, AppPoints, SigPoints, PcPoints, StopPoints, CloseResume
    <2>3. PauseInv'
      BY <1>2 DEF OneCaller, StopPoints, PauseInv, LifeInv, Asking, Waking, Asleep, CloseResume
    <2>4. LifeInv'
      BY <1>2 DEF OneCaller, StopPoints, PauseInv, LifeInv, Asking, Waking, Asleep, CloseResume
    <2> QED BY <2>1, <2>2, <2>3, <2>4
  <1>3. CASE CloseRun
    <2>1. TypeOK'
      BY <1>3 DEF Points, StopPoints, CloseRun
    <2>2. Places' /\ OneCaller'
      BY <1>3 DEF Places, OneCaller, AppPoints, SigPoints, PcPoints, StopPoints, CloseRun
    <2>3. PauseInv'
      BY <1>3 DEF OneCaller, StopPoints, PauseInv, LifeInv, Asking, Waking, Asleep, CloseRun
    <2>4. LifeInv'
      BY <1>3 DEF OneCaller, StopPoints, PauseInv, LifeInv, Asking, Waking, Asleep, CloseRun
    <2> QED BY <2>1, <2>2, <2>3, <2>4
  <1>4. CASE CloseWait
    <2>1. TypeOK'
      BY <1>4 DEF Points, StopPoints, CloseWait
    <2>2. Places' /\ OneCaller'
      BY <1>4 DEF Places, OneCaller, AppPoints, SigPoints, PcPoints, StopPoints, CloseWait
    <2>3. PauseInv'
      BY <1>4 DEF OneCaller, StopPoints, PauseInv, LifeInv, Asking, Waking, Asleep, CloseWait
    <2>4. LifeInv'
      BY <1>4 DEF OneCaller, StopPoints, PauseInv, LifeInv, Asking, Waking, Asleep, CloseWait
    <2> QED BY <2>1, <2>2, <2>3, <2>4
  <1>5. CASE CloseEnd
    <2>1. TypeOK'
      BY <1>5 DEF Points, StopPoints, CloseEnd
    <2>2. Places' /\ OneCaller'
      BY <1>5 DEF Places, OneCaller, AppPoints, SigPoints, PcPoints, StopPoints, CloseEnd
    <2>3. PauseInv'
      BY <1>5 DEF OneCaller, StopPoints, PauseInv, LifeInv, Asking, Waking, Asleep, CloseEnd
    <2>4. LifeInv'
      BY <1>5 DEF OneCaller, StopPoints, PauseInv, LifeInv, Asking, Waking, Asleep, CloseEnd
    <2> QED BY <2>1, <2>2, <2>3, <2>4
  <1> QED BY <1>1, <1>2, <1>3, <1>4, <1>5

\* A message of the signaling arrives while the application is idle.
LEMMA SignalStep ==
    ASSUME IInv, Ice \/ Connected \/ SignalClosed \/ Bye
    PROVE  IInv'
  <1> USE DEF IInv, TypeOK, Tasks, peer, flags, Goto
  <1>1. CASE Ice
    <2>1. TypeOK'
      BY <1>1 DEF Points, StopPoints, Ice, Free, pc_start, esp_peer_new_connection
    <2>2. Places' /\ OneCaller'
      BY <1>1 DEF Places, OneCaller, AppPoints, SigPoints, PcPoints, StopPoints, Ice, Free,
         pc_start, esp_peer_new_connection
    <2>3. PauseInv'
      BY <1>1 DEF OneCaller, StopPoints, PauseInv, LifeInv, Asking, Waking, Asleep, Ice, Free,
         pc_start, esp_peer_new_connection
    <2>4. LifeInv'
      BY <1>1 DEF OneCaller, StopPoints, PauseInv, LifeInv, Asking, Waking, Asleep, Ice, Free,
         pc_start, esp_peer_new_connection
    <2> QED BY <2>1, <2>2, <2>3, <2>4
  <1>2. CASE Connected
    <2>1. TypeOK'
      BY <1>2 DEF Points, StopPoints, Connected, Free, esp_peer_new_connection
    <2>2. Places' /\ OneCaller'
      BY <1>2 DEF Places, OneCaller, AppPoints, SigPoints, PcPoints, StopPoints, Connected,
         Free, esp_peer_new_connection
    <2>3. PauseInv'
      BY <1>2 DEF OneCaller, StopPoints, PauseInv, LifeInv, Asking, Waking, Asleep, Connected,
         Free, esp_peer_new_connection
    <2>4. LifeInv'
      BY <1>2 DEF OneCaller, StopPoints, PauseInv, LifeInv, Asking, Waking, Asleep, Connected,
         Free, esp_peer_new_connection
    <2> QED BY <2>1, <2>2, <2>3, <2>4
  <1>3. CASE SignalClosed
    <2>1. TypeOK'
      BY <1>3 DEF Points, StopPoints, SignalClosed, Free, esp_peer_disconnect
    <2>2. Places' /\ OneCaller'
      BY <1>3 DEF Places, OneCaller, AppPoints, SigPoints, PcPoints, StopPoints, SignalClosed,
         Free, esp_peer_disconnect
    <2>3. PauseInv'
      BY <1>3 DEF OneCaller, StopPoints, PauseInv, LifeInv, Asking, Waking, Asleep,
         SignalClosed, Free, esp_peer_disconnect
    <2>4. LifeInv'
      BY <1>3 DEF OneCaller, StopPoints, PauseInv, LifeInv, Asking, Waking, Asleep,
         SignalClosed, Free, esp_peer_disconnect
    <2> QED BY <2>1, <2>2, <2>3, <2>4
  <1>4. CASE Bye
    <2>1. TypeOK'
      BY <1>4 DEF Points, StopPoints, Bye, Free
    <2>2. Places' /\ OneCaller'
      BY <1>4 DEF Places, OneCaller, AppPoints, SigPoints, PcPoints, StopPoints, Bye, Free
    <2>3. PauseInv'
      BY <1>4 DEF OneCaller, StopPoints, PauseInv, LifeInv, Asking, Waking, Asleep, Bye, Free
    <2>4. LifeInv'
      BY <1>4 DEF OneCaller, StopPoints, PauseInv, LifeInv, Asking, Waking, Asleep, Bye, Free
    <2> QED BY <2>1, <2>2, <2>3, <2>4
  <1> QED BY <1>1, <1>2, <1>3, <1>4

\* The rest of a BYE.
LEMMA ByeStep ==
    ASSUME IInv, ByeWait \/ ByeClear \/ ByeDisconnect \/ ByeReconnect
    PROVE  IInv'
  <1> USE DEF IInv, TypeOK, Tasks, peer, flags, Goto
  <1>1. CASE ByeWait
    <2>1. TypeOK'
      BY <1>1 DEF Points, StopPoints, ByeWait
    <2>2. Places' /\ OneCaller'
      BY <1>1 DEF Places, OneCaller, AppPoints, SigPoints, PcPoints, StopPoints, ByeWait
    <2>3. PauseInv'
      BY <1>1 DEF OneCaller, StopPoints, PauseInv, LifeInv, Asking, Waking, Asleep, ByeWait
    <2>4. LifeInv'
      BY <1>1 DEF OneCaller, StopPoints, PauseInv, LifeInv, Asking, Waking, Asleep, ByeWait
    <2> QED BY <2>1, <2>2, <2>3, <2>4
  <1>2. CASE ByeClear
    <2>1. TypeOK'
      BY <1>2 DEF Points, StopPoints, ByeClear
    <2>2. Places' /\ OneCaller'
      BY <1>2 DEF Places, OneCaller, AppPoints, SigPoints, PcPoints, StopPoints, ByeClear
    <2>3. PauseInv'
      BY <1>2 DEF OneCaller, StopPoints, PauseInv, LifeInv, Asking, Waking, Asleep, ByeClear
    <2>4. LifeInv'
      BY <1>2 DEF OneCaller, StopPoints, PauseInv, LifeInv, Asking, Waking, Asleep, ByeClear
    <2> QED BY <2>1, <2>2, <2>3, <2>4
  <1>3. CASE ByeDisconnect
    <2>1. TypeOK'
      BY <1>3 DEF Points, StopPoints, ByeDisconnect, esp_peer_disconnect
    <2>2. Places' /\ OneCaller'
      BY <1>3 DEF Places, OneCaller, AppPoints, SigPoints, PcPoints, StopPoints, ByeDisconnect,
         esp_peer_disconnect
    <2>3. PauseInv'
      BY <1>3 DEF OneCaller, StopPoints, PauseInv, LifeInv, Asking, Waking, Asleep,
         ByeDisconnect, esp_peer_disconnect
    <2>4. LifeInv'
      BY <1>3 DEF OneCaller, StopPoints, PauseInv, LifeInv, Asking, Waking, Asleep,
         ByeDisconnect, esp_peer_disconnect
    <2> QED BY <2>1, <2>2, <2>3, <2>4
  <1>4. CASE ByeReconnect
    <2>1. TypeOK'
      BY <1>4 DEF Points, StopPoints, ByeReconnect, esp_peer_new_connection
    <2>2. Places' /\ OneCaller'
      BY <1>4 DEF Places, OneCaller, AppPoints, SigPoints, PcPoints, StopPoints, ByeReconnect,
         esp_peer_new_connection
    <2>3. PauseInv'
      BY <1>4 DEF OneCaller, StopPoints, PauseInv, LifeInv, Asking, Waking, Asleep,
         ByeReconnect, esp_peer_new_connection
    <2>4. LifeInv'
      BY <1>4 DEF OneCaller, StopPoints, PauseInv, LifeInv, Asking, Waking, Asleep,
         ByeReconnect, esp_peer_new_connection
    <2> QED BY <2>1, <2>2, <2>3, <2>4
  <1> QED BY <1>1, <1>2, <1>3, <1>4

\* The main loop.
LEMMA PcTaskStep ==
    ASSUME IInv, Top \/ Pausing \/ WaitResume \/ ClearResume \/ MainLoop \/ start_stream
    PROVE  IInv'
  <1> USE DEF IInv, TypeOK, Tasks, peer, flags, Goto
  <1>1. CASE Top
    <2>1. TypeOK'
      <3>1. (at \in [Tasks -> Points])'
        BY <1>1 DEF Points, StopPoints, Top
      <3>2. (bits \subseteq {"exit", "paused", "resume", "quit"})'
        BY <1>1 DEF Top
      <3>3. ({pc_open, wait_event, running, pause, send_going, pending_connect,
              ice_info_loaded, signaling_connected, still_running} \subseteq BOOLEAN)'
        BY <1>1 DEF Top
      <3>4. (senders \in 0 .. MaxSenders /\ conn \in {"closed", "connecting", "connected"})'
        BY <1>1 DEF Top
      <3> QED BY <3>1, <3>2, <3>3, <3>4
    <2>2. Places' /\ OneCaller'
      BY <1>1 DEF Places, OneCaller, AppPoints, SigPoints, PcPoints, StopPoints, Top
    <2>3. PauseInv'
      BY <1>1 DEF OneCaller, StopPoints, PauseInv, LifeInv, Asking, Waking, Asleep, Top
    <2>4. LifeInv'
      BY <1>1 DEF OneCaller, StopPoints, PauseInv, LifeInv, Asking, Waking, Asleep, Top
    <2> QED BY <2>1, <2>2, <2>3, <2>4
  <1>2. CASE Pausing
    <2>1. TypeOK'
      BY <1>2 DEF Points, StopPoints, Pausing
    <2>2. Places' /\ OneCaller'
      BY <1>2 DEF Places, OneCaller, AppPoints, SigPoints, PcPoints, StopPoints, Pausing
    <2>3. PauseInv'
      BY <1>2 DEF OneCaller, StopPoints, PauseInv, LifeInv, Asking, Waking, Asleep, Pausing
    <2>4. LifeInv'
      BY <1>2 DEF OneCaller, StopPoints, PauseInv, LifeInv, Asking, Waking, Asleep, Pausing
    <2> QED BY <2>1, <2>2, <2>3, <2>4
  <1>3. CASE WaitResume
    <2>1. TypeOK'
      BY <1>3 DEF Points, StopPoints, WaitResume
    <2>2. Places' /\ OneCaller'
      BY <1>3 DEF Places, OneCaller, AppPoints, SigPoints, PcPoints, StopPoints, WaitResume
    <2>3. PauseInv'
      BY <1>3 DEF OneCaller, StopPoints, PauseInv, LifeInv, Asking, Waking, Asleep, WaitResume
    <2>4. LifeInv'
      BY <1>3 DEF OneCaller, StopPoints, PauseInv, LifeInv, Asking, Waking, Asleep, WaitResume
    <2> QED BY <2>1, <2>2, <2>3, <2>4
  <1>4. CASE ClearResume
    <2>1. TypeOK'
      BY <1>4 DEF Points, StopPoints, ClearResume
    <2>2. Places' /\ OneCaller'
      BY <1>4 DEF Places, OneCaller, AppPoints, SigPoints, PcPoints, StopPoints, ClearResume
    <2>3. PauseInv'
      BY <1>4 DEF OneCaller, StopPoints, PauseInv, LifeInv, Asking, Waking, Asleep, ClearResume
    <2>4. LifeInv'
      BY <1>4 DEF OneCaller, StopPoints, PauseInv, LifeInv, Asking, Waking, Asleep, ClearResume
    <2> QED BY <2>1, <2>2, <2>3, <2>4
  <1>5. CASE MainLoop
    <2>1. TypeOK'
      BY <1>5 DEF Points, StopPoints, MainLoop
    <2>2. Places' /\ OneCaller'
      BY <1>5 DEF Places, OneCaller, AppPoints, SigPoints, PcPoints, StopPoints, MainLoop
    <2>3. PauseInv'
      BY <1>5 DEF OneCaller, StopPoints, PauseInv, LifeInv, Asking, Waking, Asleep, MainLoop
    <2>4. LifeInv'
      BY <1>5 DEF OneCaller, StopPoints, PauseInv, LifeInv, Asking, Waking, Asleep, MainLoop
    <2> QED BY <2>1, <2>2, <2>3, <2>4
  <1>6. CASE start_stream
    <2>1. TypeOK'
      <3>1. (at \in [Tasks -> Points])'
        BY <1>6 DEF Points, StopPoints, start_stream
      <3>2. (bits \subseteq {"exit", "paused", "resume", "quit"})'
        BY <1>6 DEF start_stream
      <3>3. ({pc_open, wait_event, running, pause, send_going, pending_connect,
              ice_info_loaded, signaling_connected, still_running} \subseteq BOOLEAN)'
        BY <1>6 DEF start_stream
      <3>4. (senders \in 0 .. MaxSenders /\ conn \in {"closed", "connecting", "connected"})'
        BY <1>6 DEF start_stream, MaxSenders
      <3> QED BY <3>1, <3>2, <3>3, <3>4
    <2>2. Places' /\ OneCaller'
      BY <1>6 DEF Places, OneCaller, AppPoints, SigPoints, PcPoints, StopPoints, start_stream,
         MaxSenders
    <2>3. PauseInv'
      BY <1>6 DEF OneCaller, StopPoints, PauseInv, LifeInv, Asking, Waking, Asleep,
         start_stream, MaxSenders
    <2>4. LifeInv'
      BY <1>6 DEF OneCaller, StopPoints, PauseInv, LifeInv, Asking, Waking, Asleep,
         start_stream, MaxSenders
    <2> QED BY <2>1, <2>2, <2>3, <2>4
  <1> QED BY <1>1, <1>2, <1>3, <1>4, <1>5, <1>6

\* A sender that ends touches the bit of stop_stream only.
LEMMA SenderStep ==
    ASSUME IInv, SenderQuits
    PROVE  IInv'
  <1> USE DEF IInv, TypeOK, Tasks, peer, flags, Goto
  <1>1. CASE SenderQuits
    <2>1. TypeOK'
      BY <1>1 DEF Points, StopPoints, SenderQuits, MaxSenders
    <2>2. Places' /\ OneCaller'
      BY <1>1 DEF Places, OneCaller, AppPoints, SigPoints, PcPoints, StopPoints, SenderQuits,
         MaxSenders
    <2>3. PauseInv'
      BY <1>1 DEF OneCaller, StopPoints, PauseInv, LifeInv, Asking, Waking, Asleep, SenderQuits,
         MaxSenders
    <2>4. LifeInv'
      BY <1>1 DEF OneCaller, StopPoints, PauseInv, LifeInv, Asking, Waking, Asleep, SenderQuits,
         MaxSenders
    <2> QED BY <2>1, <2>2, <2>3, <2>4
  <1> QED BY <1>1

\* The handshake between a BYE, pc_close and pc_task keeps its invariant, for every
\* configuration.
THEOREM Invariance == Spec => []IInv
  <1>1. Init => IInv
    <2> SUFFICES ASSUME Init PROVE IInv
      OBVIOUS
    <2>1. at \in [Tasks -> Points]
      BY DEF Init, Tasks, Points, StopPoints
    <2>2. {pc_open, wait_event, running, pause, send_going, pending_connect,
           ice_info_loaded, signaling_connected, still_running} \subseteq BOOLEAN
      BY DEF Init
    <2>3. /\ bits \subseteq {"exit", "paused", "resume", "quit"}
          /\ senders \in 0 .. MaxSenders /\ conn \in {"closed", "connecting", "connected"}
      BY DEF Init, MaxSenders
    <2>4. Places /\ OneCaller
      BY DEF Init, Places, AppPoints, SigPoints, PcPoints, OneCaller
    <2>5. PauseInv /\ LifeInv
      BY DEF Init, PauseInv, LifeInv, Asking, Waking, Asleep, StopPoints
    <2> QED BY <2>1, <2>2, <2>3, <2>4, <2>5 DEF IInv, TypeOK
  <1>2. IInv /\ [Next]_vars => IInv'
    <2> SUFFICES ASSUME IInv, [Next]_vars PROVE IInv'
      OBVIOUS
    <2>1. CASE Enable \/ Disable
      BY <2>1, AppCallStep
    <2>2. CASE Ice \/ Connected \/ SignalClosed \/ Bye
      BY <2>2, SignalStep
    <2>3. CASE AppStep
      BY <2>3, StopStreamStep, ResumeStep, CloseStep DEF AppStep, CallStep, Tasks
    <2>4. CASE SigStep
      BY <2>4, StopStreamStep, ResumeStep, ByeStep DEF SigStep, CallStep, Tasks
    <2>5. CASE pc_task
      BY <2>5, StopStreamStep, PcTaskStep DEF pc_task, Tasks
    <2>6. CASE SenderQuits
      BY <2>6, SenderStep
    <2>7. CASE UNCHANGED vars
      BY <2>7 DEF vars, peer, flags, IInv, TypeOK, Places, OneCaller, PauseInv, LifeInv,
                  Asking, Waking, Asleep
    <2> QED BY <2>1, <2>2, <2>3, <2>4, <2>5, <2>6, <2>7 DEF Next
  <1> QED BY <1>1, <1>2, PTL DEF Spec

\* Every variable keeps its type.
THEOREM TypeCorrect == Spec => []TypeOK
  <1>1. IInv => TypeOK
    BY DEF IInv
  <1> QED BY <1>1, Invariance, PTL

\* While signal_new_msg tears the connection down after a BYE, pc_task stands still:
\* the BYE holds pause, so that pc_task waits in pc_task's pause and nobody but the
\* BYE itself can wake it.
THEOREM ByeIsAlone == Spec => []ByeAlone
  <1>1. IInv => ByeAlone
    BY DEF IInv, PauseInv, ByeAlone, Asking, Asleep, InLoop, StopPoints
  <1> QED BY <1>1, Invariance, PTL

\* pc_start makes pc_task only when the previous one has ended: pc_close clears pc
\* only after it has seen PC_EXIT_BIT.
OnePcTask == [][~pc_open /\ pc_open' => at["pc"] = "none"]_vars

\* OnePcTask holds in every behaviour, whoever opens and closes.
THEOREM PcTaskIsAlone == Spec => OnePcTask
  <1>1. IInv => OnePcTask!1
    BY DEF IInv, LifeInv
  <1> QED BY <1>1, Invariance, PTL DEF OnePcTask
=============================================================================
