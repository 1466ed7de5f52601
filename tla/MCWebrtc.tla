----------------------------- MODULE MCWebrtc -----------------------------
(***************************************************************************)
(* The call as esp_webrtc drives it: the peer connection, its two other    *)
(* signalings, the frames it sends and the session that encrypts them, and *)
(* the players and displays it feeds. Each module models what the others   *)
(* do as choices of its environment, so that one run checks them in turn:  *)
(* the value of the variable "on" says which one moves in this behaviour.  *)
(* The constants of the .cfg are those of "life", the peer connection as   *)
(* main/webrtc_mqtt.c configures it; in "bye" it reconnects by itself.     *)
(***************************************************************************)
EXTENDS EspWebrtc

CONSTANTS Redirects, Pieces, MaxResponses, Messages, MaxMessages, MaxStarts,
          VdecSlots, VrenSlots, MaxFeeds, MaxVideoCalls, MaxBlocks,
          FramesPerBlock, ArenSlots, Channels, Rates, Bytes, FrameSamples,
          MaxWrites, MaxOpens, MaxCerts, MaxRounds

VARIABLES
    on,   \* the part that is checked in this behaviour: it alone moves
    mcfg, mediaConn, capture, sink, media_send_going, sender, frame,
    quit, stopper, stop, player, recv,
    sig, request, info, resp, responses, answers,
    sg, caller, room, ws, handler, reload, told, label, starts, arrived,
    vcfg, v_render, header_parsed, use_fb, vq, fq, fb, vdec, vren,
    vpaused, vbits, vcall, feeds, vcalls, seek, stale,
    acfg, aq, adec, audio_header_parsed, a_render, aren, rq, apaused,
    errs, blocks, made, next, badOrder,
    input_info, output_info, ops, work_buf, step, cur_info, samples,
    need_size, last, given, writes,
    p4, framed, render, lcdInfo, sel, drawing, held, drawn, blank, due,
    writing, lcdWrites, opens,
    dtls, init_count, up, already_signed, signed_cert, freed, certs,
    dtlsOpens, rounds

\* esp_webrtc.c: the sender, its frames and stop_stream, at their full detail.
Media == INSTANCE MediaFlow WITH
    conn <- mediaConn, send_going <- media_send_going
\* whip_signaling.c and https_client.c.
WhipSig == INSTANCE Whip
\* signal_default.c and its room.
Rtc == INSTANCE AppRtc
\* av_render.c and video_decoder.c.
Video == INSTANCE VideoPlay
\* av_render.c and audio_decoder.c.
Audio == INSTANCE AudioPlay WITH
    header_parsed <- audio_header_parsed
\* audio_resample.c.
Samples == INSTANCE Resample
\* video_render.c and lcd_render.c.
Lcd == INSTANCE LcdRender WITH
    info <- lcdInfo, writes <- lcdWrites
\* dtls_srtp.c.
Dtls == INSTANCE DtlsSrtp WITH
    opens <- dtlsOpens

\* The automatic reconnect: a BYE connects and resumes.
Resuming == INSTANCE EspWebrtc WITH
    AppOps <- {"enable"}, SigMsgs <- {"ice", "connected", "bye"},
    PeerEvents <- {"up", "down", "failed"}, NoAutoReconnect <- FALSE

mediaVars == <<mcfg, mediaConn, capture, sink, media_send_going, sender,
    frame, quit, stopper, stop, player, recv>>
whipSigVars == <<sig, request, info, resp, responses, answers>>
rtcVars == <<sg, caller, room, ws, handler, reload, told, label, starts,
    arrived>>
videoVars == <<vcfg, v_render, header_parsed, use_fb, vq, fq, fb, vdec,
    vren, vpaused, vbits, vcall, feeds, vcalls, seek, stale>>
audioVars == <<acfg, aq, adec, audio_header_parsed, a_render, aren, rq,
    apaused, errs, blocks, made, next, badOrder>>
samplesVars == <<input_info, output_info, ops, work_buf, step, cur_info,
    samples, need_size, last, given, writes>>
lcdVars == <<p4, framed, render, lcdInfo, sel, drawing, held, drawn, blank, due,
    writing, lcdWrites, opens>>
dtlsVars == <<dtls, init_count, up, already_signed, signed_cert, freed,
    certs, dtlsOpens, rounds>>

MCInit ==
    /\ on \in {"life", "bye", "media", "whip", "apprtc", "video", "audio",
          "resample", "lcd", "dtls"}
    /\ Init
    /\ Media!Init /\ (on # "media" => mcfg = CHOOSE c \in Media!Settings : TRUE)
    /\ WhipSig!Init
    /\ Rtc!Init
    /\ Video!Init /\ (on # "video" => vcfg = CHOOSE c \in Video!Configs : TRUE)
    /\ Audio!Init /\ (on # "audio" => acfg = CHOOSE c \in Audio!Options : c.threshold = 0)
    /\ Samples!Init /\ (on # "resample" => input_info = CHOOSE f \in Samples!Formats : TRUE)
                     /\ (on # "resample" => output_info = input_info)
    /\ Lcd!Init /\ (on # "lcd" => ~p4 /\ ~framed)
    /\ Dtls!Init

MCNext ==
    /\ UNCHANGED on
    /\ CASE on = "life" -> Next
         [] on = "bye"  -> Resuming!Next
         [] OTHER       -> UNCHANGED vars
    /\ IF on = "media"    THEN Media!Next ELSE UNCHANGED mediaVars
    /\ IF on = "whip"     THEN WhipSig!Next ELSE UNCHANGED whipSigVars
    /\ IF on = "apprtc"   THEN Rtc!Next ELSE UNCHANGED rtcVars
    /\ IF on = "video"    THEN Video!Next ELSE UNCHANGED videoVars
    /\ IF on = "audio"    THEN Audio!Next ELSE UNCHANGED audioVars
    /\ IF on = "resample" THEN Samples!Next ELSE UNCHANGED samplesVars
    /\ IF on = "lcd"      THEN Lcd!Next ELSE UNCHANGED lcdVars
    /\ IF on = "dtls"     THEN Dtls!Next ELSE UNCHANGED dtlsVars

mcvars == <<on, vars, mediaVars, whipSigVars, rtcVars, videoVars, audioVars,
            samplesVars, lcdVars, dtlsVars>>

MCSpec == MCInit /\ [][MCNext]_mcvars

\* The tasks of esp_webrtc.c are scheduled.
BackAgain(A) == on = "bye" /\ A
MCFairSpec ==
    /\ MCSpec
    /\ WF_vars(BackAgain(Resuming!AppStep)) /\ WF_vars(BackAgain(Resuming!SigStep))
    /\ WF_vars(BackAgain(Resuming!pc_task)) /\ WF_vars(BackAgain(Resuming!SenderQuits))

-----------------------------------------------------------------------------
\* ByeReturns of EspWebrtc: with the automatic reconnect a BYE gets its
\* answers from the main loop and ends.
ByeReturnsAgain == on = "bye" => ByeReturns

\* FramesReturned of MediaFlow: no frame is out when the capture is stopped.
FramesReturned == Media!FramesReturned

\* AnswerOfOneResponse of Whip: the answer handed on never joins two response bodies.
AnswerOfOneResponse == WhipSig!AnswerOfOneResponse

\* AliveWhileUsed of AppRtc: stop frees the signaling when no task uses it.
AliveWhileUsed == Rtc!AliveWhileUsed

\* NothingStale of VideoPlay: nothing from before a flush is shown after it.
NothingStale == Video!NothingStale

\* PlaysInOrder of AudioPlay: frames are played in order, none twice.
PlaysInOrder == Audio!PlaysInOrder

\* LeavesConverted of Resample: a frame leaves in the output format, whatever
\* failed before it.
LeavesConverted == Samples!LeavesConverted

\* LastDrawnKept of LcdRender: the decoder never fills the buffer of the picture that
\* was drawn last.
LastDrawnKept == Lcd!LastDrawnKept

\* KeysAsNegotiated of DtlsSrtp: a connected session writes and reads with
\* the keys of its end.
KeysAsNegotiated == Dtls!KeysAsNegotiated

\* SharedAlive of DtlsSrtp: libsrtp and the certificate outlive every session
\* that uses them.
SharedAlive == Dtls!SharedAlive
=============================================================================
