----------------------------- MODULE VideoPlay -----------------------------
(***************************************************************************)
(* The way of a picture through av_render.c and video_decoder.c: the       *)
(* application puts a block in the decoder's queue; the decoder reserves a *)
(* buffer in the renderer's queue, decodes into it, has its header written *)
(* by av_render_video_frame_reached and sends it; the renderer shows it.   *)
(* AvRender models the messages of the threads at their full length for    *)
(* the audio half; here they are what a flush, a pause and a new stream    *)
(* need.  The library that decodes may fail on any block, and the display  *)
(* may fail to open.  Clocks are abstract: whether a block is late is a    *)
(* choice.  quit_when_eos and pause_render_only are off.                   *)
(***************************************************************************)
EXTENDS Naturals, Sequences

CONSTANTS VdecSlots, VrenSlots,   \* capacities of the two data queues
          MaxFeeds,               \* bound: blocks of a behaviour
          MaxVideoCalls           \* bound: API calls of a behaviour

VARIABLES
    vcfg,      \* how the stream is set up, see Configs
    v_render,  \* the fields of av_render_video_res_t that are read here
    header_parsed, use_fb,
    vq, fq,    \* the data queues of the decoder and of the renderer
    fb,        \* the buffer the decoder has reserved in fq
    vdec, vren,          \* where each thread is, its block and its messages
    vpaused,             \* paused of both thread_res
    vbits,               \* render->event_group
    vcall,     \* the API call under way: what it is, its messages, its bit
    feeds, vcalls,
    seek,      \* history: flushes that have returned
    stale      \* history: a frame from before a flush was shown after it

streams == <<v_render, header_parsed, use_fb>>
vcount  == <<feeds, vcalls>>
vhist   == <<seek, stale>>
vars == <<vcfg, streams, vq, fq, fb, vdec, vren, vpaused, vbits, vcall, vcount, vhist>>

\* decode: in a thread, in the task that feeds, or not at all (a raw stream).
\* drop: allow_drop_data and the sync mode, as they act before decoding.
Configs == [decode : {"thread", "sync", "raw"}, render : {"thread", "sync"},
            drop : {"never", "full", "late"}, pause_on_first_frame : BOOLEAN]
\* A block added while a flush runs may be of either side of it.
Block(k) == [kind |-> k,
             era |-> IF vcall.op \in {"flush", "flushed"} THEN seek + 1 ELSE seek]
Zero == [kind |-> "zero", era |-> 0]
None == [kind |-> "none", era |-> 0]
Thread == [pc |-> "none", blk |-> None, msgs |-> <<>>]
NoCall == [op |-> "idle", togo |-> <<>>, bit |-> "none"]

Init ==
    /\ vcfg \in Configs
    /\ v_render = [open |-> FALSE, vdec |-> FALSE, sent |-> FALSE, video_packet_reached |-> FALSE, video_rendered |-> FALSE,
                   v_render_in_sync |-> FALSE, flushing |-> FALSE]
    /\ header_parsed = FALSE /\ use_fb = FALSE
    /\ vq = <<>> /\ fq = <<>> /\ fb = None
    /\ vdec = Thread /\ vren = Thread
    /\ vpaused = [vdec |-> FALSE, vren |-> FALSE] /\ vbits = {}
    /\ vcall = NoCall /\ feeds = 0 /\ vcalls = 0
    /\ seek = 0 /\ stale = FALSE

-----------------------------------------------------------------------------
(* Showing a frame *)

\* _video_check_first_frame_render_notify: the first frame pauses the renderer.
FirstPauses(f, seen) == /\ seen \/ f.kind = "eos"
                        /\ ~v_render.video_rendered /\ vcfg.pause_on_first_frame
InSync == v_render.v_render_in_sync /\ vcfg.decode # "raw"

\* video_sync_control_before_render starts anew when sync is lost, and always ends
\* with frames sent; whether the frame is late makes no difference to its writing.
SyncBeforeRender == vcfg.drop # "full"

\* _render_write_video.  seen: its time is not before video_start_pts.  In sync the
\* first frame pauses the decoder too, and a paused renderer runs on when its
\* decoder does.
Write(f, seen) ==
    LET first == FirstPauses(f, seen)
        both  == first /\ InSync
        show  == seen /\ ~v_render.flushing
        runOn == show /\ InSync /\ ~vpaused.vdec /\ ~both
        stop  == (vpaused.vren \/ first) /\ ~runOn
    IN  /\ v_render' = [v_render EXCEPT
                          !.video_rendered = @ \/ seen \/ f.kind = "eos",
                          !.sent = @ \/ (show /\ ~stop /\ SyncBeforeRender)]
        /\ vpaused' = [vdec |-> vpaused.vdec \/ both, vren |-> stop]
        /\ stale' = (stale \/ (show /\ f.era < seek))

-----------------------------------------------------------------------------
(* The decoder, in its thread or in the task that feeds it *)

InThread == vcfg.decode = "thread"
VdecThread == InThread /\ vdec.pc # "none"
BlockDone == IF InThread THEN "unlock" ELSE "none"

\* The head of render_thread for the decoder.
VdecRecv ==
    /\ InThread /\ vdec.pc = "loop"
    /\ \/ /\ vdec.msgs = <<>> /\ ~vpaused.vdec
          /\ vdec' = [vdec EXCEPT !.pc = "read"]
          /\ UNCHANGED <<vq, vpaused, vbits>>
       \/ /\ vdec.msgs # <<>>
          /\ LET m == Head(vdec.msgs)
                 stays == m = "PAUSE" \/ (m # "RESUME" /\ vpaused.vdec)
             IN  /\ vdec' = [vdec EXCEPT !.msgs = Tail(@),
                                         !.pc = IF m = "CLOSE" THEN "none"
                                                ELSE IF stays THEN "loop" ELSE "read"]
                 /\ vpaused' = [vpaused EXCEPT !.vdec = (@ \/ m = "PAUSE") /\ m # "RESUME"]
                 /\ vq' = IF m \in {"FLUSH", "CLOSE"} THEN <<>> ELSE vq
                 /\ vbits' = IF m = "FLUSH" THEN vbits \cup {"vdec"}
                             ELSE IF m = "CLOSE" THEN vbits \cup {"closed"} ELSE vbits
    /\ UNCHANGED <<vcfg, streams, fq, fb, vren, vcall, vcount, vhist>>

\* video_sync_control_before_decode: a block may be late once a frame was sent, or
\* is skipped while others wait.
MaySkip == \/ vcfg.drop = "full" /\ Len(vq) >= 2
           \/ vcfg.drop = "late" /\ v_render.sent

\* vdec_body up to decode_video
VdecTake ==
    /\ vdec.pc = "read" /\ vq # <<>>
    /\ \/ /\ Head(vq).kind # "zero"
          /\ vcfg.drop = "full" => ~MaySkip \/ Head(vq).kind = "eos"
          /\ vdec' = [vdec EXCEPT !.blk = Head(vq), !.pc = "decode"]
       \/ /\ Head(vq).kind = "zero" \/ (MaySkip /\ Head(vq).kind # "eos")
          /\ vdec' = [vdec EXCEPT !.blk = Head(vq), !.pc = "unlock"]
    /\ UNCHANGED <<vcfg, streams, vq, fq, fb, vren, vpaused, vbits, vcall, vcount, vhist>>

\* av_render_fetch_vid_fb: room in the queue; the header is not yet written.
Reserve == /\ Len(fq) < VrenSlots
           /\ fb' = [vdec.blk EXCEPT !.kind = "junk"]

\* do_decode up to the buffer: the first block must tell the size of the picture.
FetchFb ==
    /\ vdec.pc = "decode"
    /\ \/ /\ ~header_parsed
          /\ vdec' = [vdec EXCEPT !.pc = BlockDone]
          /\ UNCHANGED <<header_parsed, fb>>
       \/ /\ header_parsed' = TRUE
          /\ \/ use_fb /\ Reserve
             \/ ~use_fb /\ UNCHANGED fb
          /\ vdec' = [vdec EXCEPT !.pc = "process"]
    /\ UNCHANGED <<vcfg, v_render, use_fb, vq, fq, vren, vpaused, vbits, vcall, vcount, vhist>>

\* esp_video_dec_process or the colour conversion fails: fb_return, dropped.
DecodeFails ==
    /\ vdec.pc = "process"
    /\ vdec' = [vdec EXCEPT !.pc = BlockDone]
    /\ fb' = None
    /\ UNCHANGED <<vcfg, streams, vq, fq, vren, vpaused, vbits, vcall, vcount, vhist>>

Decoded ==
    /\ vdec.pc = "process"
    /\ vdec' = [vdec EXCEPT !.pc = "reached"]
    /\ UNCHANGED <<vcfg, streams, vq, fq, fb, vren, vpaused, vbits, vcall, vcount, vhist>>

\* av_render_video_frame_reached opens the display for the first frame; when that
\* fails the header of the buffer stays unwritten and the buffer is sent.
OpenDisplay ==
    /\ vdec.pc = "reached" /\ ~v_render.video_packet_reached
    /\ \/ /\ v_render' = [v_render EXCEPT !.video_packet_reached = TRUE, !.v_render_in_sync = TRUE]
          /\ UNCHANGED vdec
       \/ /\ vdec' = [vdec EXCEPT !.pc = "release"]
          /\ UNCHANGED v_render
    /\ UNCHANGED <<vcfg, header_parsed, use_fb, vq, fq, fb, vren, vpaused, vbits, vcall,
                   vcount, vhist>>

\* The rest of it: the header of the buffer, a copy, or the display itself.
FrameReached ==
    /\ vdec.pc = "reached" /\ v_render.video_packet_reached
    /\ vdec' = [vdec EXCEPT !.pc = "release"]
    /\ \/ /\ vren.pc # "none" /\ fb # None
          /\ fb' = vdec.blk
          /\ UNCHANGED <<fq, v_render, vpaused, stale>>
       \/ /\ vren.pc # "none" /\ ~use_fb /\ Len(fq) < VrenSlots
          /\ fq' = Append(fq, vdec.blk)
          /\ UNCHANGED <<fb, v_render, vpaused, stale>>
       \/ /\ vren.pc = "none"
          /\ \E seen \in BOOLEAN : Write(vdec.blk, seen)
          /\ UNCHANGED <<fq, fb>>
    /\ UNCHANGED <<vcfg, header_parsed, use_fb, vq, vren, vbits, vcall, vcount, seek>>

\* fb_return: the buffer is sent to the renderer.
ReleaseFb ==
    /\ vdec.pc = "release"
    /\ vdec' = [vdec EXCEPT !.pc = BlockDone]
    /\ fq' = IF fb = None THEN fq ELSE Append(fq, fb)
    /\ fb' = None
    /\ UNCHANGED <<vcfg, streams, vq, vren, vpaused, vbits, vcall, vcount, vhist>>

\* data_queue_read_unlock; the thread pauses after the last block.
VdecUnlock ==
    /\ vdec.pc = "unlock"
    /\ vdec' = [vdec EXCEPT !.pc = "loop", !.blk = None]
    /\ vq' = Tail(vq)
    /\ vpaused' = [vpaused EXCEPT !.vdec = @ \/ vdec.blk.kind = "eos"]
    /\ UNCHANGED <<vcfg, streams, fq, fb, vren, vbits, vcall, vcount, vhist>>

-----------------------------------------------------------------------------
(* The renderer thread *)

VrenRecv ==
    /\ vren.pc = "loop"
    /\ \/ /\ vren.msgs = <<>> /\ ~vpaused.vren
          /\ vren' = [vren EXCEPT !.pc = "read"]
          /\ UNCHANGED <<fq, vpaused, vbits, v_render>>
       \/ /\ vren.msgs # <<>>
          /\ LET m == Head(vren.msgs)
                 stays == m = "PAUSE" \/ (m # "RESUME" /\ vpaused.vren)
             IN  /\ vren' = [vren EXCEPT !.msgs = Tail(@), !.pc = IF stays THEN "loop" ELSE "read"]
                 /\ vpaused' = [vpaused EXCEPT !.vren = (@ \/ m = "PAUSE") /\ m # "RESUME"]
                 /\ fq' = IF m = "FLUSH" THEN <<>> ELSE fq
                 /\ vbits' = IF m = "FLUSH" THEN vbits \cup {"vren"} ELSE vbits
                 /\ v_render' = [v_render EXCEPT !.flushing = @ /\ m # "FLUSH"]
    /\ UNCHANGED <<vcfg, header_parsed, use_fb, vq, fb, vdec, vcall, vcount, vhist>>

\* read_for_v_render
VrenTake ==
    /\ vren.pc = "read" /\ fq # <<>>
    /\ vren' = [vren EXCEPT !.blk = Head(fq), !.pc = "show"]
    /\ UNCHANGED <<vcfg, streams, vq, fq, fb, vdec, vpaused, vbits, vcall, vcount, vhist>>

\* v_render_body.  A buffer without a header is an end of stream or nothing, as
\* the memory has it.
VrenShow ==
    /\ vren.pc = "show"
    /\ vren' = [vren EXCEPT !.pc = "unlock"]
    /\ \/ /\ vren.blk.kind # "zero"
          /\ \E seen \in BOOLEAN : Write(vren.blk, seen)
       \/ /\ vren.blk.kind \in {"zero", "junk"}
          /\ UNCHANGED <<v_render, vpaused, stale>>
    /\ UNCHANGED <<vcfg, header_parsed, use_fb, vq, fq, fb, vdec, vbits, vcall, vcount, seek>>

\* A renderer that is paused keeps its block; the queue may have been emptied.
VrenUnlock ==
    /\ vren.pc = "unlock"
    /\ vren' = [vren EXCEPT !.pc = "loop", !.blk = None]
    /\ fq' = IF vpaused.vren \/ fq = <<>> THEN fq ELSE Tail(fq)
    /\ UNCHANGED <<vcfg, streams, vq, fb, vdec, vpaused, vbits, vcall, vcount, vhist>>

-----------------------------------------------------------------------------
(* The application: av_render_add_video_data and the calls under api_lock *)

\* put_to_vdec, after the lock was given back.
PutToVdec(k) ==
    /\ InThread /\ vdec.pc # "none" /\ Len(vq) < VdecSlots /\ feeds < MaxFeeds
    /\ vq' = Append(vq, Block(k)) /\ feeds' = feeds + 1
    /\ UNCHANGED <<vcfg, streams, fq, fb, vdec, vren, vpaused, vbits, vcall, vcalls, vhist>>

\* decode_video in the caller, and a raw frame that is reached at once.
AddInSync(k) ==
    /\ ~InThread /\ v_render.vdec /\ vdec.pc = "none" /\ vcall = NoCall /\ feeds < MaxFeeds
    /\ vdec' = [vdec EXCEPT !.blk = Block(k), !.pc = IF vcfg.decode = "raw" THEN "reached" ELSE "decode"]
    /\ feeds' = feeds + 1
    /\ UNCHANGED <<vcfg, streams, vq, fq, fb, vren, vpaused, vbits, vcall, vcalls, vhist>>

ApiLock == vcall = NoCall /\ vcalls < MaxVideoCalls /\ (InThread \/ vdec.pc = "none")

\* The message m for the thread t, if there is one.
To(t, m) == IF (t = "vdec" /\ VdecThread) \/ (t = "vren" /\ vren.pc # "none")
            THEN <<[to |-> t, msg |-> m]>> ELSE <<>>
Call(op, togo, bit) == /\ vcall' = [op |-> op, togo |-> togo, bit |-> bit]
                       /\ vcalls' = vcalls + 1

\* av_render_add_video_stream: an old decoder's thread is closed first.
AddStream ==
    /\ ApiLock
    /\ Call("add", To("vdec", "CLOSE"), IF VdecThread THEN "closed" ELSE "none")
    /\ UNCHANGED <<vcfg, streams, vq, fq, fb, vdec, vren, vpaused, vbits, feeds, vhist>>

AddReady == vcall.op = "add" /\ vcall.togo = <<>> /\ vcall.bit = "none"
Stream(r) == [v_render EXCEPT !.open = TRUE, !.vdec = r, !.video_packet_reached = FALSE,
                              !.video_rendered = FALSE]

\* vdec_open, the rest of the call.  The buffers of the renderer's queue are used
\* only with the renderer thread that this call makes.
OpenStream ==
    /\ AddReady
    /\ LET makes == vcfg.decode # "raw" /\ vcfg.render = "thread" /\ vren.pc = "none"
       IN  /\ v_render' = [Stream(TRUE) EXCEPT !.v_render_in_sync = @ /\ ~makes]
           /\ use_fb' = (makes \/ vcfg.decode = "raw") /\ header_parsed' = FALSE
           /\ vren' = IF makes THEN [vren EXCEPT !.pc = "loop"] ELSE vren
           /\ vdec' = IF InThread THEN [vdec EXCEPT !.pc = "loop"] ELSE vdec
    /\ vcall' = NoCall
    /\ UNCHANGED <<vcfg, vq, fq, fb, vpaused, vbits, vcount, vhist>>

\* get_support_output_format finds no common format: the stream has no decoder,
\* and the call returns 0.
NoFormat ==
    /\ AddReady /\ vcfg.decode # "raw"
    /\ v_render' = Stream(FALSE) /\ use_fb' = TRUE
    /\ vcall' = NoCall
    /\ UNCHANGED <<vcfg, header_parsed, vq, fq, fb, vdec, vren, vpaused, vbits, vcount, vhist>>

\* render_pause: the decoder stops first and starts last.
Pause ==
    /\ ApiLock /\ v_render.open
    /\ \/ Call("pause", To("vdec", "PAUSE") \o To("vren", "PAUSE"), "none")
       \/ Call("pause", To("vren", "RESUME") \o To("vdec", "RESUME"), "none")
    /\ UNCHANGED <<vcfg, streams, vq, fq, fb, vdec, vren, vpaused, vbits, feeds, vhist>>

\* render_flush: what the renderer has is consumed so that the decoder can output.
FlushDecoder ==
    /\ ApiLock /\ v_render.open
    /\ v_render' = [v_render EXCEPT !.flushing = @ \/ (VdecThread /\ vren.pc # "none")]
    /\ fq' = IF VdecThread THEN <<>> ELSE fq
    /\ Call("flush", To("vdec", "FLUSH"), IF VdecThread THEN "vdec" ELSE "none")
    /\ UNCHANGED <<vcfg, header_parsed, use_fb, vq, fb, vdec, vren, vpaused, vbits, feeds, vhist>>

\* Mutant: the renderer is not flushed again after the decoder.
FlushRendererNot ==
    /\ vcall.op = "flush" /\ vcall.togo = <<>> /\ vcall.bit = "none"
    /\ vcall' = [vcall EXCEPT !.op = "flushed"]
    /\ UNCHANGED <<vcfg, streams, vq, fq, fb, vdec, vren, vpaused, vbits, vcount, vhist>>

\* The decoder is empty: the renderer is told to empty its queue once more.
FlushRenderer ==
    /\ vcall.op = "flush" /\ vcall.togo = <<>> /\ vcall.bit = "none"
    /\ v_render' = [v_render EXCEPT !.flushing = @ \/ vren.pc # "none"]
    /\ vcall' = [op |-> "flushed", togo |-> To("vren", "FLUSH"),
                 bit |-> IF vren.pc # "none" THEN "vren" ELSE "none"]
    /\ UNCHANGED <<vcfg, header_parsed, use_fb, vq, fq, fb, vdec, vren, vpaused, vbits, vcount, vhist>>

\* send_msg_to_thread: the message, and an empty block for a thread that waits.
SendMsg ==
    /\ vcall.togo # <<>>
    /\ LET m == Head(vcall.togo) IN
       \/ /\ m.to = "vdec"
          /\ vdec' = [vdec EXCEPT !.msgs = Append(@, m.msg)]
          /\ vq' = IF vq = <<>> THEN <<Zero>> ELSE vq
          /\ UNCHANGED <<vren, fq>>
       \/ /\ m.to = "vren" /\ (fq = <<>> => fb = None)
          /\ vren' = [vren EXCEPT !.msgs = Append(@, m.msg)]
          /\ fq' = IF fq = <<>> THEN <<Zero>> ELSE fq
          /\ UNCHANGED <<vdec, vq>>
    /\ vcall' = [vcall EXCEPT !.togo = Tail(@)]
    /\ UNCHANGED <<vcfg, streams, fb, vpaused, vbits, vcount, vhist>>

\* media_lib_event_group_wait_bits
WaitBits ==
    /\ vcall.togo = <<>> /\ vcall.bit \in vbits
    /\ vbits' = vbits \ {vcall.bit}
    /\ vcall' = [vcall EXCEPT !.bit = "none"]
    /\ UNCHANGED <<vcfg, streams, vq, fq, fb, vdec, vren, vpaused, vcount, vhist>>

Returns ==
    /\ vcall.op \in {"pause", "flushed"} /\ vcall.togo = <<>> /\ vcall.bit = "none"
    /\ v_render' = [v_render EXCEPT !.video_rendered = @ /\ vcall.op = "pause",
                                    !.sent = @ /\ vcall.op = "pause"]
    /\ seek' = IF vcall.op = "flushed" THEN seek + 1 ELSE seek
    /\ vcall' = NoCall
    /\ UNCHANGED <<vcfg, header_parsed, use_fb, vq, fq, fb, vdec, vren, vpaused, vbits,
                   vcount, stale>>

-----------------------------------------------------------------------------
vdec_body == VdecRecv \/ VdecTake \/ FetchFb \/ DecodeFails \/ Decoded \/ OpenDisplay
             \/ FrameReached \/ ReleaseFb \/ VdecUnlock
v_render_body == VrenRecv \/ VrenTake \/ VrenShow \/ VrenUnlock
Api == AddStream \/ OpenStream \/ NoFormat \/ Pause \/ FlushDecoder \/ FlushRenderer \/ SendMsg
       \/ WaitBits \/ Returns

Next == \/ vdec_body \/ v_render_body \/ Api
        \/ \E k \in {"data", "eos"} : PutToVdec(k) \/ AddInSync(k)

Spec == Init /\ [][Next]_vars

-----------------------------------------------------------------------------
(* Properties *)

\* Once av_render_flush has returned no picture of a block added before it is
\* shown, wherever the block was when the flush began: in a queue, being decoded,
\* in a reserved buffer or in the renderer's hands.
NothingStale == ~stale
=============================================================================
