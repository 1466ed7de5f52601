----------------------------- MODULE EspWebrtc -----------------------------
(***************************************************************************)
(* components/esp_webrtc/src/esp_webrtc.c: the life of a peer connection.  *)
(*                                                                         *)
(* Three tasks work on one webrtc_t without a lock: "app" calls            *)
(* esp_webrtc_enable_peer_connection, "sig" is the task in which a message *)
(* of the signaling arrives, "pc" is pc_task, which runs the main loop of  *)
(* the peer library and the callbacks it makes.  A fourth, media_send_task,*)
(* is made by each start_stream.  They meet in flags and in the event      *)
(* group wait_event.  The peer library itself is external: a connection    *)
(* that is being made may come up or fail, one that is up may be lost, and *)
(* it tells so from its main loop.                                         *)
(***************************************************************************)
EXTENDS Naturals

CONSTANTS AppOps,          \* calls of the application: "enable", "disable"
          SigMsgs,         \* what arrives: "ice", "connected", "bye", "closed"
          PeerEvents,      \* what the network does: "up", "down", "failed"
          NoAutoReconnect  \* peer_cfg.no_auto_reconnect

ASSUME CfgAssumption == /\ AppOps \subseteq {"enable", "disable"}
                        /\ SigMsgs \subseteq {"ice", "connected", "bye", "closed"}
                        /\ PeerEvents \subseteq {"up", "down", "failed"}
                        /\ NoAutoReconnect \in BOOLEAN

VARIABLES
    at,          \* where each task is
    pc_open,     \* rtc->pc # NULL
    wait_event,  \* rtc->wait_event # NULL
    bits,        \* PC_EXIT_BIT, PC_PAUSED_BIT, PC_RESUME_BIT, PC_SEND_QUIT_BIT
    running, pause, send_going, pending_connect,
    ice_info_loaded, signaling_connected,
    still_running,  \* of pc_close
    senders,        \* tasks in media_send_task
    conn            \* the connection in the peer library

flags == <<pending_connect, ice_info_loaded, signaling_connected>>
peer  == <<pc_open, wait_event, running>>
vars  == <<at, peer, bits, pause, send_going, flags, still_running, senders, conn>>

Tasks == {"app", "sig", "pc"}
StopPoints == {"stop", "stop_set", "stop_wait", "stop_clear"}
Points == StopPoints \cup
          {"idle", "none", "top", "pausing", "wait_resume", "clear_resume", "main",
           "start", "bye_wait", "bye_clear", "bye_disconnect", "reconnect", "resume",
           "set_resume", "close", "close_resume", "close_run", "close_wait",
           "close_end"}
MaxSenders == 2   \* one more than the code means to have

TypeOK ==
    /\ at \in [Tasks -> Points]
    /\ bits \subseteq {"exit", "paused", "resume", "quit"}
    /\ {pc_open, wait_event, running, pause, send_going, pending_connect,
        ice_info_loaded, signaling_connected, still_running} \subseteq BOOLEAN
    /\ senders \in 0 .. MaxSenders
    /\ conn \in {"closed", "connecting", "connected"}

\* After esp_webrtc_open and the enable_peer_connection(FALSE) of start_webrtc.
Init ==
    /\ at = [app |-> "idle", sig |-> "idle", pc |-> "none"]
    /\ pc_open = FALSE /\ wait_event = FALSE /\ running = FALSE
    /\ bits = {} /\ pause = FALSE /\ send_going = FALSE /\ pending_connect = TRUE
    /\ ice_info_loaded = FALSE /\ signaling_connected = FALSE
    /\ still_running = FALSE /\ senders = 0 /\ conn = "closed"

Goto(t, p) == at' = [at EXCEPT ![t] = p]

\* Bound: the calls of the application and the messages of the signaling come one
\* at a time; pc_task and the senders run at any time.
Free == \A t \in {"app", "sig"} : at[t] = "idle"

-----------------------------------------------------------------------------
(* The peer library *)

esp_peer_new_connection == conn' = IF conn = "closed" THEN "connecting" ELSE conn
esp_peer_disconnect == conn' = "closed"

-----------------------------------------------------------------------------
(* stop_stream, which any of the three tasks runs *)

AfterStop(t) == CASE t = "app" -> "close" [] t = "sig" -> "reconnect" [] t = "pc" -> "top"

TestSending(t) ==
    /\ at[t] = "stop"
    /\ Goto(t, IF send_going THEN "stop_set" ELSE AfterStop(t))
    /\ UNCHANGED <<peer, bits, pause, send_going, flags, still_running, senders, conn>>

StopSending(t) ==
    /\ at[t] = "stop_set"
    /\ send_going' = FALSE
    /\ Goto(t, "stop_wait")
    /\ UNCHANGED <<peer, bits, pause, flags, still_running, senders, conn>>

WaitQuit(t) ==
    /\ at[t] = "stop_wait" /\ "quit" \in bits
    /\ Goto(t, "stop_clear")
    /\ UNCHANGED <<peer, bits, pause, send_going, flags, still_running, senders, conn>>

ClearQuit(t) ==
    /\ at[t] = "stop_clear"
    /\ bits' = bits \ {"quit"}
    /\ Goto(t, AfterStop(t))
    /\ UNCHANGED <<peer, pause, send_going, flags, still_running, senders, conn>>

stop_stream(t) == TestSending(t) \/ StopSending(t) \/ WaitQuit(t) \/ ClearQuit(t)

\* media_send_task ends when it finds send_going cleared.
SenderQuits ==
    /\ senders > 0 /\ ~send_going
    /\ senders' = senders - 1
    /\ bits' = bits \cup {"quit"}
    /\ UNCHANGED <<at, peer, pause, send_going, flags, still_running, conn>>

-----------------------------------------------------------------------------
(* pc_task *)

Top ==
    /\ at["pc"] = "top"
    /\ \/ ~running /\ Goto("pc", "none") /\ bits' = bits \cup {"exit"}
       \/ running /\ Goto("pc", IF pause THEN "pausing" ELSE "main") /\ UNCHANGED bits
    /\ UNCHANGED <<peer, pause, send_going, flags, still_running, senders, conn>>

Pausing ==
    /\ at["pc"] = "pausing"
    /\ bits' = bits \cup {"paused"}
    /\ Goto("pc", "wait_resume")
    /\ UNCHANGED <<peer, pause, send_going, flags, still_running, senders, conn>>

WaitResume ==
    /\ at["pc"] = "wait_resume" /\ "resume" \in bits
    /\ Goto("pc", "clear_resume")
    /\ UNCHANGED <<peer, bits, pause, send_going, flags, still_running, senders, conn>>

ClearResume ==
    /\ at["pc"] = "clear_resume"
    /\ bits' = bits \ {"resume"}
    /\ Goto("pc", "top")
    /\ UNCHANGED <<peer, pause, send_going, flags, still_running, senders, conn>>

\* One turn of esp_peer_main_loop, and what it makes of the connection.
MainLoop ==
    /\ at["pc"] = "main"
    /\ \/ Goto("pc", "top") /\ UNCHANGED conn
       \/ "up" \in PeerEvents /\ conn = "connecting"
          /\ conn' = "connected" /\ Goto("pc", "start")
       \/ "failed" \in PeerEvents /\ conn = "connecting"
          /\ conn' = "closed" /\ Goto("pc", "top")
       \/ "down" \in PeerEvents /\ conn = "connected"
          /\ conn' = "closed" /\ Goto("pc", "stop")
    /\ UNCHANGED <<peer, bits, pause, send_going, flags, still_running, senders>>

\* pc_on_state(CONNECTED): start_stream, if the capture can be started.
start_stream ==
    /\ at["pc"] = "start" /\ senders < MaxSenders
    /\ Goto("pc", "top")
    /\ \/ send_going' = TRUE /\ senders' = senders + 1
       \/ UNCHANGED <<send_going, senders>>
    /\ UNCHANGED <<peer, bits, pause, flags, still_running, conn>>

pc_task == \/ Top \/ Pausing \/ WaitResume \/ ClearResume \/ MainLoop \/ start_stream
           \/ stop_stream("pc")

-----------------------------------------------------------------------------
(* pc_start *)

pc_start == pc_open' = TRUE /\ wait_event' = TRUE /\ running' = TRUE

\* Resuming the main loop, at the end of a BYE or of an enable.
Resume(t) ==
    /\ at[t] = "resume"
    /\ pause' = FALSE
    /\ Goto(t, IF pause THEN "set_resume" ELSE "idle")
    /\ UNCHANGED <<peer, bits, send_going, flags, still_running, senders, conn>>

\* Mutant: the flag is cleared and the waiting task is not told.
SetResumeNot(t) ==
    /\ at[t] = "set_resume"
    /\ Goto(t, "idle")
    /\ UNCHANGED <<peer, bits, pause, send_going, flags, still_running, senders, conn>>

SetResume(t) ==
    /\ at[t] = "set_resume"
    /\ bits' = bits \cup {"resume"}
    /\ Goto(t, "idle")
    /\ UNCHANGED <<peer, pause, send_going, flags, still_running, senders, conn>>

-----------------------------------------------------------------------------
(* The application *)

\* esp_webrtc_enable_peer_connection(TRUE)
Enable ==
    /\ "enable" \in AppOps /\ Free
    /\ pending_connect' = FALSE
    /\ \/ /\ ~pc_open /\ ~ice_info_loaded
          /\ UNCHANGED <<at, peer, conn, bits>>
       \/ /\ pc_open
          /\ IF signaling_connected
             THEN esp_peer_new_connection /\ Goto("app", "resume")
             ELSE UNCHANGED <<at, conn>>
          /\ UNCHANGED <<peer, bits>>
       \/ /\ ~pc_open /\ ice_info_loaded
          /\ pc_start /\ bits' = {}
          /\ IF signaling_connected
             THEN /\ esp_peer_new_connection
                  /\ at' = [at EXCEPT !["app"] = "resume", !["pc"] = "top"]
             ELSE Goto("pc", "top") /\ UNCHANGED conn
    /\ UNCHANGED <<pause, send_going, ice_info_loaded, signaling_connected,
                   still_running, senders>>

\* esp_webrtc_enable_peer_connection(FALSE): stop_stream, then pc_close.
Disable ==
    /\ "disable" \in AppOps /\ Free
    /\ pending_connect' = TRUE
    /\ Goto("app", "stop")
    /\ UNCHANGED <<peer, bits, pause, send_going, ice_info_loaded,
                   signaling_connected, still_running, senders, conn>>

CloseBegin ==
    /\ at["app"] = "close"
    /\ \/ /\ ~pc_open
          /\ Goto("app", "idle") /\ wait_event' = FALSE
          /\ UNCHANGED <<pause, still_running, conn>>
       \/ /\ pc_open
          /\ esp_peer_disconnect
          /\ still_running' = running /\ pause' = FALSE
          /\ Goto("app", IF pause THEN "close_resume" ELSE "close_run")
          /\ UNCHANGED wait_event
    /\ UNCHANGED <<pc_open, running, bits, send_going, flags, senders>>

CloseResume ==
    /\ at["app"] = "close_resume"
    /\ bits' = bits \cup {"resume"}
    /\ Goto("app", "close_run")
    /\ UNCHANGED <<peer, pause, send_going, flags, still_running, senders, conn>>

CloseRun ==
    /\ at["app"] = "close_run"
    /\ running' = FALSE
    /\ Goto("app", IF still_running THEN "close_wait" ELSE "close_end")
    /\ UNCHANGED <<pc_open, wait_event, bits, pause, send_going, flags,
                   still_running, senders, conn>>

CloseWait ==
    /\ at["app"] = "close_wait" /\ "exit" \in bits
    /\ Goto("app", "close_end")
    /\ UNCHANGED <<peer, bits, pause, send_going, flags, still_running, senders, conn>>

CloseEnd ==
    /\ at["app"] = "close_end"
    /\ pc_open' = FALSE /\ wait_event' = FALSE /\ bits' = {}
    /\ Goto("app", "idle")
    /\ UNCHANGED <<running, pause, send_going, flags, still_running, senders, conn>>

-----------------------------------------------------------------------------
(* The signaling *)

\* signal_ice_received
Ice ==
    /\ "ice" \in SigMsgs /\ Free
    /\ ice_info_loaded' = TRUE
    /\ \/ pending_connect /\ UNCHANGED <<at, peer, bits, conn>>
       \/ /\ ~pending_connect
          /\ \/ pc_open /\ UNCHANGED <<at, peer, bits>>
             \/ ~pc_open /\ pc_start /\ bits' = {} /\ Goto("pc", "top")
          /\ IF signaling_connected THEN esp_peer_new_connection ELSE UNCHANGED conn
    /\ UNCHANGED <<pause, send_going, pending_connect, signaling_connected,
                   still_running, senders>>

\* signal_connected
Connected ==
    /\ "connected" \in SigMsgs /\ Free
    /\ signaling_connected' = TRUE
    /\ IF pc_open /\ ~(NoAutoReconnect /\ pending_connect)
       THEN esp_peer_new_connection ELSE UNCHANGED conn
    /\ UNCHANGED <<at, peer, bits, pause, send_going, pending_connect,
                   ice_info_loaded, still_running, senders>>

\* signal_closed
SignalClosed ==
    /\ "closed" \in SigMsgs /\ Free
    /\ signaling_connected' = FALSE
    /\ esp_peer_disconnect
    /\ UNCHANGED <<at, peer, bits, pause, send_going, pending_connect,
                   ice_info_loaded, still_running, senders>>

\* Mutant: the handler does not wait for the main loop.
ByeNow ==
    /\ "bye" \in SigMsgs /\ Free /\ running
    /\ pause' = TRUE
    /\ Goto("sig", "bye_disconnect")
    /\ UNCHANGED <<peer, bits, send_going, flags, still_running, senders, conn>>

\* signal_new_msg(BYE): "Wait for main loop paused", disconnect, stop_stream.
Bye ==
    /\ "bye" \in SigMsgs /\ Free /\ running
    /\ pause' = TRUE
    /\ Goto("sig", IF pause THEN "bye_disconnect" ELSE "bye_wait")
    /\ UNCHANGED <<peer, bits, send_going, flags, still_running, senders, conn>>

ByeWait ==
    /\ at["sig"] = "bye_wait" /\ "paused" \in bits
    /\ Goto("sig", "bye_clear")
    /\ UNCHANGED <<peer, bits, pause, send_going, flags, still_running, senders, conn>>

ByeClear ==
    /\ at["sig"] = "bye_clear"
    /\ bits' = bits \ {"paused"}
    /\ Goto("sig", "bye_disconnect")
    /\ UNCHANGED <<peer, pause, send_going, flags, still_running, senders, conn>>

ByeDisconnect ==
    /\ at["sig"] = "bye_disconnect"
    /\ esp_peer_disconnect
    /\ Goto("sig", "stop")
    /\ UNCHANGED <<peer, bits, pause, send_going, flags, still_running, senders>>

ByeReconnect ==
    /\ at["sig"] = "reconnect"
    /\ \/ NoAutoReconnect /\ Goto("sig", "idle") /\ UNCHANGED conn
       \/ ~NoAutoReconnect /\ Goto("sig", "resume") /\ esp_peer_new_connection
    /\ UNCHANGED <<peer, bits, pause, send_going, flags, still_running, senders>>

-----------------------------------------------------------------------------
CallStep(t) == stop_stream(t) \/ Resume(t) \/ SetResume(t)
AppStep == CallStep("app") \/ CloseBegin \/ CloseResume \/ CloseRun \/ CloseWait \/ CloseEnd
SigStep == CallStep("sig") \/ ByeWait \/ ByeClear \/ ByeDisconnect \/ ByeReconnect

Next == \/ Enable \/ Disable \/ Ice \/ Connected \/ SignalClosed \/ Bye
        \/ AppStep \/ SigStep \/ pc_task \/ SenderQuits

Spec == Init /\ [][Next]_vars

\* Every task is scheduled; nothing obliges anybody to call or to send a message.
FairSpec == Spec /\ WF_vars(AppStep) /\ WF_vars(SigStep) /\ WF_vars(pc_task)
                 /\ WF_vars(SenderQuits)

-----------------------------------------------------------------------------
\* While a BYE tears the connection down the main loop stands still, so that no
\* callback starts or stops a stream at the same time.
InLoop == at["pc"] \in {"main", "start"} \cup StopPoints
ByeAlone == at["sig"] \in StopPoints \cup {"bye_disconnect", "reconnect"} => ~InLoop

\* A BYE that has asked the main loop to pause gets its answer and ends.
ByeReturns == at["sig"] # "idle" ~> at["sig"] = "idle"

\* esp_webrtc_enable_peer_connection returns.
AppReturns == at["app"] # "idle" ~> at["app"] = "idle"
=============================================================================
