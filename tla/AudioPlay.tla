----------------------------- MODULE AudioPlay -----------------------------
(***************************************************************************)
(* The way of the sound through av_render.c, audio_decoder.c and           *)
(* i2s_render.c: a block is decoded into frames, the first of which opens  *)
(* the device and makes the renderer; frames pass the resampler (Resample) *)
(* to the renderer's queue or straight to the device.  AvRender models the *)
(* messages, the flush and the reset of these two threads; here it is what *)
(* becomes of each frame, which AvRender leaves open.  The library that    *)
(* decodes and the device may fail at any time.                            *)
(***************************************************************************)
EXTENDS Naturals, Sequences

CONSTANTS MaxBlocks,       \* bound: blocks of a behaviour
          FramesPerBlock,  \* bound: frames a block decodes to
          ArenSlots        \* capacity of the renderer's queue

VARIABLES
    acfg,      \* the options, see Options
    aq,        \* blocks for the decoder
    adec,      \* where the decoder is; frames it may still take from the block
    header_parsed,
    a_render,  \* audio_packet_reached, audio_rendered, thread: is there one
    aren,      \* the renderer thread: where it is, its frame
    rq,        \* its data queue
    apaused,   \* its paused
    errs,      \* audio_err_cnt
    blocks,
    made,      \* history: frames made so far, each is known by its number
    next,      \* history: the frame that is due at the device
    badOrder   \* history: another one was written

source == <<aq, adec, header_parsed, errs, blocks>>
history == <<made, next, badOrder>>
vars == <<acfg, source, a_render, aren, rq, apaused, history>>

\* threshold: blocks the renderer wants before it starts, 0: audio_threshold not set.
Options == [threshold : {0, 2}, render : {"thread", "sync"}, drop : BOOLEAN,
            pause_on_first_frame : BOOLEAN]
AUDIO_ERR_FRAME_TOLERANCE == 2   \* 10 in the code

Init ==
    /\ acfg \in Options /\ (acfg.render = "sync" => acfg.threshold = 0)
    /\ aq = <<>> /\ adec = [pc |-> "idle", left |-> 0, eos |-> FALSE] /\ header_parsed = FALSE
    /\ a_render = [audio_packet_reached |-> FALSE, audio_rendered |-> FALSE, thread |-> FALSE]
    /\ aren = [pc |-> "none", frame |-> 0, eos |-> FALSE] /\ rq = <<>> /\ apaused = FALSE
    /\ errs = 0 /\ blocks = 0
    /\ made = 0 /\ next = 1 /\ badOrder = FALSE

Frame == [n |-> made, eos |-> adec.eos]

-----------------------------------------------------------------------------
(* Writing a frame: _render_write_audio and i2s_render_write *)

\* What becomes of frame f at the device: shown, or lost for a reason that is told.
Passed(f, written) ==
    /\ next' = f.n + 1
    /\ badOrder' = (badOrder \/ (written /\ f.n # next))

\* The first frame only pauses the renderer and is not written now.
HeldBack == \/ apaused
            \/ ~a_render.audio_rendered /\ acfg.pause_on_first_frame

\* i2s_render_write writes a frame, at another speed in pieces; either may fail.
\* A frame that is held back stays with its thread; without a thread it is gone.
Write(f) ==
    /\ a_render' = [a_render EXCEPT !.audio_rendered = TRUE]
    /\ apaused' = HeldBack
    /\ \/ /\ HeldBack
          /\ UNCHANGED <<next, badOrder>>
          /\ a_render.thread
       \/ \E written \in BOOLEAN :
            /\ HeldBack => ~written /\ ~a_render.thread
            /\ Passed(f, written)

-----------------------------------------------------------------------------
(* The task that decodes *)

\* put_to_adec
AddData(eos) ==
    /\ blocks < MaxBlocks /\ Len(aq) < 2
    /\ aq' = Append(aq, eos) /\ blocks' = blocks + 1
    /\ UNCHANGED <<acfg, adec, header_parsed, errs, a_render, aren, rq, apaused, history>>

\* read_for_adec and adec_decode: an end of stream without data is not decoded.
TakeBlock ==
    /\ adec.pc = "idle" /\ aq # <<>>
    /\ \/ /\ Head(aq)
          /\ adec' = [pc |-> "reached", left |-> 0, eos |-> TRUE]
          /\ made' = made + 1
       \/ /\ ~Head(aq)
          /\ \E n \in 1 .. FramesPerBlock : adec' = [pc |-> "decode", left |-> n, eos |-> FALSE]
          /\ UNCHANGED made
    /\ UNCHANGED <<acfg, aq, header_parsed, errs, blocks, a_render, aren, rq, apaused, next, badOrder>>

\* decoder_one_frame: a larger buffer is fetched and the frame tried again until it
\* fits; the rest of the block is gone on with.
DecodeFrame ==
    /\ adec.pc = "decode"
    /\ header_parsed' = TRUE /\ made' = made + 1
    /\ adec' = [adec EXCEPT !.pc = "reached", !.left = @ - 1]
    /\ UNCHANGED <<acfg, aq, errs, blocks, a_render, aren, rq, apaused, next, badOrder>>

\* data_queue_read_unlock
EndBlock == /\ adec' = [adec EXCEPT !.pc = "idle", !.left = 0]
            /\ aq' = Tail(aq)

\* The library fails, or the larger buffer is not to be had: the rest of the block is
\* lost.  The application hears of it once in a row of such blocks.
DecodeFails ==
    /\ adec.pc = "decode"
    /\ EndBlock
    /\ errs' = IF errs >= AUDIO_ERR_FRAME_TOLERANCE - 1 THEN AUDIO_ERR_FRAME_TOLERANCE + 1 ELSE errs + 1
    /\ UNCHANGED <<acfg, header_parsed, blocks, a_render, aren, rq, apaused, history>>

AfterFrame == /\ adec' = [adec EXCEPT !.pc = IF adec.left > 0 THEN "decode" ELSE "done"]
              /\ UNCHANGED aq

\* av_render_audio_frame_reached opens the device and the resampler for the first
\* frame; that fails, and the frame is gone.
OpenFails ==
    /\ adec.pc = "reached" /\ ~a_render.audio_packet_reached
    /\ Passed(Frame, FALSE)
    /\ AfterFrame
    /\ UNCHANGED <<acfg, header_parsed, errs, blocks, a_render, aren, rq, apaused, made>>

OpenDevice ==
    /\ adec.pc = "reached" /\ ~a_render.audio_packet_reached
    /\ a_render' = [a_render EXCEPT !.audio_packet_reached = TRUE,
                                    !.thread = @ \/ acfg.render = "thread"]
    /\ aren' = IF acfg.render = "thread" THEN [aren EXCEPT !.pc = "loop"] ELSE aren
    /\ UNCHANGED <<acfg, source, rq, apaused, history>>

\* audio_render_frame_reached: to the queue when there is a thread
PutToRender ==
    /\ adec.pc = "reached" /\ a_render.thread /\ Len(rq) < ArenSlots
    /\ rq' = Append(rq, Frame)
    /\ AfterFrame
    /\ UNCHANGED <<acfg, header_parsed, errs, blocks, a_render, aren, apaused, history>>

\* and straight to the device when there is none.
WriteInSync ==
    /\ adec.pc = "reached" /\ a_render.audio_packet_reached /\ ~a_render.thread
    /\ Write(Frame)
    /\ AfterFrame
    /\ UNCHANGED <<acfg, header_parsed, errs, blocks, aren, rq, made>>

BlockDone ==
    /\ adec.pc = "done"
    /\ EndBlock /\ errs' = 0
    /\ UNCHANGED <<acfg, header_parsed, blocks, a_render, aren, rq, apaused, history>>

-----------------------------------------------------------------------------
(* The renderer thread: a_render_body *)

ReadFrame ==
    /\ aren.pc = "loop" /\ ~apaused /\ rq # <<>>
    /\ aren' = [pc |-> "body", frame |-> Head(rq).n, eos |-> Head(rq).eos]
    /\ UNCHANGED <<acfg, source, a_render, rq, apaused, history>>

Held == [n |-> aren.frame, eos |-> aren.eos]

\* With a threshold the renderer starts when there is enough, and starts again when
\* fewer than 3 blocks are left; a frame it does not take stays at the head.
Wants == IF a_render.audio_rendered THEN 3 ELSE acfg.threshold

Threshold ==
    /\ aren.pc = "body" /\ acfg.threshold # 0 /\ ~aren.eos /\ Len(rq) < Wants
    /\ a_render' = [a_render EXCEPT !.audio_rendered = FALSE]
    /\ aren' = [aren EXCEPT !.pc = "loop"]
    /\ UNCHANGED <<acfg, source, rq, apaused, history>>

Ready == aren.pc = "body" /\ (acfg.threshold = 0 \/ aren.eos \/ Len(rq) >= Wants)

\* audio_drop_before_render
DropFrame ==
    /\ Ready /\ acfg.drop /\ ~aren.eos
    /\ Passed(Held, FALSE)
    /\ aren' = [aren EXCEPT !.pc = "unlock"]
    /\ UNCHANGED <<acfg, source, a_render, rq, apaused, made>>

WriteFrame ==
    /\ Ready
    /\ Write(Held)
    /\ aren' = [aren EXCEPT !.pc = "unlock"]
    /\ UNCHANGED <<acfg, source, rq, made>>

\* Mutant: the frame of a paused renderer is consumed.
UnlockNot ==
    /\ aren.pc = "unlock"
    /\ rq' = Tail(rq)
    /\ aren' = [aren EXCEPT !.pc = "loop"]
    /\ UNCHANGED <<acfg, source, a_render, apaused, history>>

\* A paused renderer gives its frame back unread, to write it when it is resumed.
Unlock ==
    /\ aren.pc = "unlock"
    /\ rq' = IF apaused THEN rq ELSE Tail(rq)
    /\ aren' = [aren EXCEPT !.pc = "loop"]
    /\ UNCHANGED <<acfg, source, a_render, apaused, history>>

\* The thread takes the message of av_render_pause between two frames.
PauseMsg ==
    /\ aren.pc = "loop"
    /\ apaused' = ~apaused
    /\ UNCHANGED <<acfg, source, a_render, aren, rq, history>>

a_render_body == ReadFrame \/ Threshold \/ DropFrame \/ WriteFrame \/ Unlock \/ PauseMsg
adec_body == TakeBlock \/ DecodeFrame \/ DecodeFails \/ OpenFails \/ OpenDevice
             \/ PutToRender \/ WriteInSync \/ BlockDone

Next == adec_body \/ a_render_body \/ \E eos \in BOOLEAN : AddData(eos)
Spec == Init /\ [][Next]_vars

-----------------------------------------------------------------------------
(* Properties *)

\* Frames reach the device in the order they were decoded, none twice, and none is
\* skipped but those whose loss is decided: over a pause in the middle of a frame, a
\* threshold that sends a frame back, and a renderer that starts late.
PlaysInOrder == ~badOrder
=============================================================================
