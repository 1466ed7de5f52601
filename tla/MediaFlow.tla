----------------------------- MODULE MediaFlow ------------------------------
(***************************************************************************)
(* The media of a call in components/esp_webrtc/src/esp_webrtc.c: what     *)
(* media_send_task takes from the capture and gives to the peer, what the  *)
(* callbacks of pc_task give to the player, and stop_stream, which takes   *)
(* both away when the connection is lost (in pc_task itself) or the peer   *)
(* says goodbye (in the signaling's task, while pc_task stands still).     *)
(*                                                                         *)
(* EspWebrtc has the flags and bits by which those tasks pause, start and  *)
(* close each other, and the application's enable(FALSE), which stops the  *)
(* stream without pausing pc_task; here the frames are followed.  Capture, *)
(* player and peer library are external: a frame may be there or not.      *)
(***************************************************************************)
EXTENDS Naturals

VARIABLES
    mcfg,         \* peer_cfg and no_auto_capture, see Settings
    conn,         \* is the connection up
    capture,      \* is esp_capture started
    sink,         \* is capture_path enabled
    send_going,
    sender,       \* media_send_task: where it is
    frame,        \* the frame it has acquired and not yet released
    quit,         \* PC_SEND_QUIT_BIT
    stopper,      \* who is in stop_stream
    stop,         \* where in it
    player,       \* streams the player has
    recv          \* recv_aud_info, recv_vid_info: streams with a codec

vars == <<mcfg, conn, capture, sink, send_going, sender, frame, quit, stopper, stop, player, recv>>

\* audio: audio_info.codec; over_data: video_over_data_channel.
Settings == [audio : BOOLEAN, over_data : BOOLEAN, no_auto_capture : BOOLEAN]

\* After pc_start, which sets up and enables the sink (pc_apply_capture_pre_setting).
Init ==
    /\ mcfg \in Settings
    /\ conn = FALSE /\ capture = FALSE /\ sink = TRUE
    /\ send_going = FALSE /\ sender = "none" /\ frame = "none" /\ quit = FALSE
    /\ stopper = "none" /\ stop = "none"
    /\ player = {} /\ recv = {}

sending == <<sender, frame>>
stopping == <<stopper, stop>>

-----------------------------------------------------------------------------
(* media_send_task *)

TestGoing ==
    /\ sender = "loop"
    /\ \/ send_going /\ sender' = (IF mcfg.audio THEN "audio" ELSE "video") /\ UNCHANGED quit
       \/ ~send_going /\ sender' = "none" /\ quit' = TRUE
    /\ UNCHANGED <<mcfg, conn, capture, sink, send_going, frame, stopping, player, recv>>

\* _media_send takes every audio frame there is, then one of video.
Acquire ==
    /\ sender \in {"audio", "video"} /\ frame = "none"
    /\ \/ capture /\ sink /\ frame' = sender /\ UNCHANGED sender
       \/ sender' = (IF sender = "audio" THEN "video" ELSE "loop") /\ UNCHANGED frame
    /\ UNCHANGED <<mcfg, conn, capture, sink, send_going, quit, stopping, player, recv>>

\* Sent on its own track, as data, or vetoed, it is released.
SendAndRelease ==
    /\ frame # "none"
    /\ frame' = "none"
    /\ sender' = IF frame = "video" THEN "loop" ELSE sender
    /\ UNCHANGED <<mcfg, conn, capture, sink, send_going, quit, stopping, player, recv>>

media_send_task == TestGoing \/ Acquire \/ SendAndRelease

-----------------------------------------------------------------------------
(* Callbacks of pc_task, which runs unless a stop_stream is under way *)

LoopRuns == stopper = "none"

\* pc_on_state(CONNECTED) with start_stream: the capture or the thread may fail.
Connected ==
    /\ LoopRuns /\ ~conn /\ conn' = TRUE
    /\ \/ capture' = TRUE /\ send_going' = TRUE /\ sender' = "loop"
       \/ capture' = TRUE /\ UNCHANGED <<send_going, sender>>
       \/ UNCHANGED <<capture, send_going, sender>>
    /\ UNCHANGED <<mcfg, sink, frame, quit, stopping, player, recv>>

\* pc_on_audio_info, pc_on_video_info
StreamInfo(s) ==
    /\ LoopRuns /\ conn
    /\ s = "video" => ~mcfg.over_data
    /\ player' = player \cup {s} /\ recv' = recv \cup {s}
    /\ UNCHANGED <<mcfg, conn, capture, sink, send_going, sending, quit, stopping>>

\* pc_on_data: video over the data channel tells nothing of its stream; the first
\* frame adds it.
VideoAsData ==
    /\ LoopRuns /\ conn /\ mcfg.over_data
    /\ player' = IF "video" \in recv THEN player ELSE player \cup {"video"}
    /\ recv' = recv \cup {"video"}
    /\ UNCHANGED <<mcfg, conn, capture, sink, send_going, sending, quit, stopping>>

-----------------------------------------------------------------------------
(* stop_stream *)

\* The connection is lost: pc_on_state(DISCONNECTED).  Or a BYE: the main loop is
\* paused and the peer disconnected.
Lost(who) ==
    /\ LoopRuns /\ (who = "pc" => conn)
    /\ conn' = FALSE /\ stopper' = who /\ stop' = "test"
    /\ UNCHANGED <<mcfg, capture, sink, send_going, sending, quit, player, recv>>

\* Mutant: the task that sends is told to end and not waited for.
StopSendingNot ==
    /\ stop = "test"
    /\ send_going' = FALSE /\ stop' = "capture"
    /\ UNCHANGED <<mcfg, conn, capture, sink, sending, quit, stopper, player, recv>>

StopSending ==
    /\ stop = "test"
    /\ send_going' = FALSE /\ stop' = IF send_going THEN "wait" ELSE "capture"
    /\ UNCHANGED <<mcfg, conn, capture, sink, sending, quit, stopper, player, recv>>

WaitQuit ==
    /\ stop = "wait" /\ quit
    /\ quit' = FALSE /\ stop' = "capture"
    /\ UNCHANGED <<mcfg, conn, capture, sink, send_going, sending, stopper, player, recv>>

\* esp_capture_stop; with no_auto_capture only the sink is disabled.
StopCapture ==
    /\ stop = "capture" /\ stop' = "player"
    /\ IF mcfg.no_auto_capture
       THEN sink' = FALSE /\ UNCHANGED capture
       ELSE capture' = FALSE /\ UNCHANGED sink
    /\ UNCHANGED <<mcfg, conn, send_going, sending, quit, stopper, player, recv>>

\* av_render_reset; the codecs of the streams received so far are kept.
ResetPlayer ==
    /\ stop = "player"
    /\ player' = {} /\ stop' = "none" /\ stopper' = "none"
    /\ UNCHANGED <<mcfg, conn, capture, sink, send_going, sending, quit, recv>>

stop_stream == StopSending \/ WaitQuit \/ StopCapture \/ ResetPlayer

-----------------------------------------------------------------------------
Next == \/ media_send_task \/ stop_stream \/ Connected \/ VideoAsData
        \/ \E s \in {"audio", "video"} : StreamInfo(s)
        \/ \E who \in {"pc", "sig"} : Lost(who)
Spec == Init /\ [][Next]_vars

\* A frame belongs to the capture's memory: when the capture is stopped, or its sink
\* disabled, no frame is out, over any number of connections that come up only in
\* part and are lost or ended while a frame is being sent.
FramesReturned == ~capture \/ ~sink => frame = "none"
=============================================================================
