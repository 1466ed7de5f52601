------------------------------ MODULE AvRender ------------------------------
(***************************************************************************)
(* The audio half of components/av_render/src/av_render.c: a decoder       *)
(* thread and a render thread, both running render_thread, the caller of   *)
(* the av_render_* functions and the task that feeds encoded audio.        *)
(*                                                                         *)
(* Each thread has a queue of messages (msg_q) and a queue of blocks       *)
(* (data_queue); both are taken here as the bounded FIFOs that MsgQueue    *)
(* and DataQueue are shown to implement.  Every API function holds         *)
(* api_lock to its end, so API calls follow one another and are modelled   *)
(* by one task, "api"; av_render_add_audio_data alone releases the lock    *)
(* before it puts its block.  The video half has the same structure; it    *)
(* and the options quit_when_eos and pause_render_only are off, as in      *)
(* main/media_sys.c.                                                       *)
(***************************************************************************)
EXTENDS Integers, Sequences, FiniteSets

CONSTANTS MsgSlots, DecSlots, RenSlots,  \* capacities of the queues
          Frames,           \* numbers of frames one encoded block decodes to
          Kinds,            \* kinds of blocks the application feeds
          Calls,            \* the API calls the application makes; "again" adds
                            \* a stream to a player that has one
          MaxDying          \* bound: exits of a thread that are under way

adec == "adec"
a_render == "a_render"
Thr == {adec, a_render}

ASSUME SlotAssumption == /\ {MsgSlots, DecSlots, RenSlots} \subseteq Nat \ {0}
                         /\ Frames \subseteq Nat /\ Kinds \subseteq {"data", "eos"}
                         /\ MaxDying \in Nat

VARIABLES
    res,      \* the thread's resources are allocated
    thread,   \* res->thread # NULL
    pc,       \* where the thread is
    dying,    \* threads past "res->thread = NULL" that have not ended
    paused,   \* res->paused
    msgs, q,  \* res->msg_q, res->data_q
    held,     \* the block the thread is working on
    left,     \* frames the decoder has still to output from it
    opened,   \* audio_packet_reached
    bits,     \* render->event_group
    op, at,   \* the API call under way, and where it is
    togo,     \* threads it has still to send msg to
    msg,
    waits,    \* bits it waits for
    recvd, round,  \* recv_bits and i of av_render_reset
    feed      \* the block av_render_add_audio_data is about to put

thrVars == <<res, thread, pc, dying, paused, held, left, opened>>
apiVars == <<op, at, togo, msg, waits, recvd, round>>
vars == <<thrVars, msgs, q, bits, apiVars, feed>>

Msgs   == {"PAUSE", "RESUME", "FLUSH", "CLOSE"}
Blocks == [kind : {"data", "eos", "zero"}, old : BOOLEAN]
Zero   == [kind |-> "zero", old |-> FALSE]
Bits   == Thr \X {"closed", "flush"}
Closed(t)  == <<t, "closed">>
Flushed(t) == <<t, "flush">>
Slots(t) == IF t = adec THEN DecSlots ELSE RenSlots

TypeOK ==
    /\ res \in [Thr -> BOOLEAN] /\ thread \in [Thr -> BOOLEAN]
    /\ paused \in [Thr -> BOOLEAN] /\ dying \in [Thr -> 0 .. MaxDying]
    /\ pc \in [Thr -> {"none", "recv", "flush", "read", "work"}]
    /\ \A t \in Thr : /\ msgs[t] \in Seq(Msgs) /\ Len(msgs[t]) <= MsgSlots
                      /\ q[t] \in Seq(Blocks) /\ Len(q[t]) <= Slots(t)
    /\ held \in [Thr -> Blocks] /\ left \in Nat
    /\ opened \in BOOLEAN /\ bits \subseteq Bits
    /\ op \in {"idle", "add", "pause", "resume", "flush", "reset"}
    /\ at \in {"check", "send", "query", "dummy", "wait", "aborted"}
    /\ togo \in Seq(Thr) /\ msg \in Msgs
    /\ waits \subseteq Bits /\ recvd \subseteq Bits /\ round \in 0 .. 2
    /\ feed \in {"none"} \cup Kinds

\* av_render_open
Init ==
    /\ res = [t \in Thr |-> FALSE] /\ thread = [t \in Thr |-> FALSE]
    /\ pc = [t \in Thr |-> "none"] /\ dying = [t \in Thr |-> 0]
    /\ paused = [t \in Thr |-> FALSE]
    /\ msgs = [t \in Thr |-> <<>>] /\ q = [t \in Thr |-> <<>>]
    /\ held = [t \in Thr |-> Zero] /\ left = 0 /\ opened = FALSE
    /\ bits = {} /\ op = "idle" /\ at = "check" /\ togo = <<>> /\ msg = "PAUSE"
    /\ waits = {} /\ recvd = {} /\ round = 0 /\ feed = "none"

-----------------------------------------------------------------------------
(* render_thread *)

\* Leaving the loop: res->thread = NULL; Die is the rest.
Exit(t) ==
    /\ dying[t] < MaxDying
    /\ thread' = [thread EXCEPT ![t] = FALSE]
    /\ dying' = [dying EXCEPT ![t] = @ + 1]
    /\ pc' = [pc EXCEPT ![t] = "none"]

\* msg_q_recv, which waits only when the thread is paused, and what the message
\* makes the thread do before it works on a block.
RecvMsg(t) ==
    /\ pc[t] = "recv" /\ msgs[t] # <<>>
    /\ msgs' = [msgs EXCEPT ![t] = Tail(@)]
    /\ LET m == Head(msgs[t])
       IN  \/ /\ m = "CLOSE"
              /\ Exit(t)
              /\ UNCHANGED paused
           \/ /\ m = "FLUSH"
              /\ pc' = [pc EXCEPT ![t] = "flush"]
              /\ UNCHANGED <<thread, dying, paused>>
           \/ /\ m \in {"PAUSE", "RESUME"}
              /\ paused' = [paused EXCEPT ![t] = (m = "PAUSE")]
              /\ pc' = [pc EXCEPT ![t] = IF m = "PAUSE" THEN "recv" ELSE "read"]
              /\ UNCHANGED <<thread, dying>>
    /\ UNCHANGED <<res, held, left, opened, q, bits, apiVars, feed>>

RecvNone(t) ==
    /\ pc[t] = "recv" /\ msgs[t] = <<>> /\ ~paused[t]
    /\ pc' = [pc EXCEPT ![t] = "read"]
    /\ UNCHANGED <<res, thread, dying, paused, held, left, opened, msgs, q,
                   bits, apiVars, feed>>

\* Mutant: the bit of the flush is set and the queue kept.
HandleFlushKeep(t) ==
    /\ pc[t] = "flush"
    /\ bits' = bits \cup {Flushed(t)}
    /\ pc' = [pc EXCEPT ![t] = IF paused[t] THEN "recv" ELSE "read"]
    /\ UNCHANGED <<res, thread, dying, paused, held, left, opened, msgs, q,
                   apiVars, feed>>

\* AV_RENDER_MSG_FLUSH: render_consume_all, then the bit.
HandleFlush(t) ==
    /\ pc[t] = "flush"
    /\ q' = [q EXCEPT ![t] = <<>>]
    /\ bits' = bits \cup {Flushed(t)}
    /\ pc' = [pc EXCEPT ![t] = IF paused[t] THEN "recv" ELSE "read"]
    /\ UNCHANGED <<res, thread, dying, paused, held, left, opened, msgs,
                   apiVars, feed>>

\* read_for_adec, read_for_a_render: wait for a block, which stays in the queue.
ReadBlock(t) ==
    /\ pc[t] = "read" /\ q[t] # <<>>
    /\ held' = [held EXCEPT ![t] = Head(q[t])]
    /\ \/ /\ t = adec /\ Head(q[t]).kind # "zero"
          /\ left' \in Frames
       \/ /\ t = a_render \/ Head(q[t]).kind = "zero"
          /\ UNCHANGED left
    /\ pc' = [pc EXCEPT ![t] = "work"]
    /\ UNCHANGED <<res, thread, dying, paused, opened, msgs, q, bits, apiVars,
                   feed>>

\* The first frame creates the render thread (av_render_audio_frame_reached).
OpenRender ==
    /\ pc[adec] = "work" /\ left > 0 /\ ~opened
    /\ opened' = TRUE
    /\ \/ /\ ~thread[a_render]
          /\ thread' = [thread EXCEPT ![a_render] = TRUE]
          /\ pc' = [pc EXCEPT ![a_render] = "recv"]
       \/ thread[a_render] /\ UNCHANGED <<thread, pc>>
    /\ UNCHANGED <<res, dying, paused, held, left, msgs, q, bits, apiVars, feed>>

\* audio_render_frame_reached: into the render queue, waiting for room, or
\* straight to the output when there is no render thread.
OutputFrame ==
    /\ pc[adec] = "work" /\ left > 0 /\ opened
    /\ \/ /\ thread[a_render] /\ Len(q[a_render]) < RenSlots
          /\ q' = [q EXCEPT ![a_render] =
                     Append(@, [kind |-> "data", old |-> held[adec].old])]
       \/ ~thread[a_render] /\ UNCHANGED q
    /\ left' = left - 1
    /\ UNCHANGED <<res, thread, pc, dying, paused, held, opened, msgs, bits,
                   apiVars, feed>>

\* data_queue_read_unlock takes whatever block is now the oldest.
Unlock(t) == q' = [q EXCEPT ![t] = IF @ = <<>> THEN @ ELSE Tail(@)]

\* The end of adec_body and a_render_body.
DoneBlock(t) ==
    /\ pc[t] = "work" /\ (t = adec => left = 0)
    /\ Unlock(t)
    /\ paused' = [paused EXCEPT ![t] = @ \/ (t = adec /\ held[t].kind = "eos")]
    /\ pc' = [pc EXCEPT ![t] = "recv"]
    /\ UNCHANGED <<res, thread, dying, held, left, opened, msgs, bits, apiVars, feed>>

\* The rest of render_thread: render_consume_all, then the bit.
Die(t) ==
    /\ dying[t] > 0
    /\ q' = [q EXCEPT ![t] = <<>>]
    /\ bits' = bits \cup {Closed(t)}
    /\ dying' = [dying EXCEPT ![t] = @ - 1]
    /\ UNCHANGED <<res, thread, pc, paused, held, left, opened, msgs, apiVars, feed>>

-----------------------------------------------------------------------------
(* The API task *)

Start(name, m, order) ==
    /\ op = "idle"
    /\ op' = name /\ at' = "check" /\ togo' = order /\ msg' = m
    /\ waits' = {} /\ recvd' = {} /\ round' = 0
    /\ UNCHANGED <<res, thread, pc, dying, paused, left, opened, msgs, bits, feed>>

AddStream == /\ ("add" \in Calls /\ ~res[adec]) \/ "again" \in Calls
             /\ Start("add", "CLOSE", <<adec>>) /\ UNCHANGED <<q, held>>

Pause == /\ "pause" \in Calls
         /\ Start("pause", "PAUSE", <<adec, a_render>>) /\ UNCHANGED <<q, held>>
Resume == /\ "resume" \in Calls
          /\ Start("resume", "RESUME", <<a_render, adec>>) /\ UNCHANGED <<q, held>>
\* Not while a block is about to be put: its queue would be freed (README).
Reset  == /\ "reset" \in Calls /\ feed = "none"
          /\ Start("reset", "CLOSE", <<adec, a_render>>) /\ UNCHANGED <<q, held>>

\* av_render_flush.  Everything in the pipeline at this moment is marked old.
Flush ==
    /\ "flush" \in Calls
    /\ Start("flush", "FLUSH", <<adec, a_render>>)
    /\ q' = [t \in Thr |-> [i \in 1 .. Len(q[t]) |-> [q[t][i] EXCEPT !.old = TRUE]]]
    /\ held' = [t \in Thr |-> [held[t] EXCEPT !.old = (pc[t] = "work")]]

\* Is there a thread to send to?  A flush empties the render queue first "so that
\* decode can output even render is paused".
Check ==
    /\ op # "idle" /\ at = "check" /\ togo # <<>>
    /\ LET t == Head(togo)
       IN  \/ /\ thread[t] /\ Closed(t) \notin recvd
              /\ at' = "send"
              /\ q' = IF op = "flush" /\ t = adec
                      THEN [q EXCEPT ![a_render] = <<>>] ELSE q
              /\ UNCHANGED togo
           \/ /\ ~thread[t] \/ Closed(t) \in recvd
              /\ togo' = Tail(togo)
              /\ UNCHANGED <<at, q>>
    /\ UNCHANGED <<thrVars, msgs, bits, op, msg, waits, recvd, round, feed>>

\* send_msg_to_thread: the message ...
SendMsg ==
    /\ op # "idle" /\ at = "send"
    /\ LET t == Head(togo)
       IN  /\ Len(msgs[t]) < MsgSlots
           /\ msgs' = [msgs EXCEPT ![t] = Append(@, msg)]
           /\ waits' = CASE op = "flush" -> {Flushed(t)}
                         [] op \in {"add", "reset"} -> waits \cup {Closed(t)}
                         [] OTHER -> {}
    /\ at' = "query"
    /\ UNCHANGED <<thrVars, q, bits, op, togo, msg, recvd, round, feed>>

\* After a send, a flush waits at once, the others send on.
Sent == /\ togo' = Tail(togo)
        /\ at' = IF op = "flush" THEN "wait" ELSE "check"

\* Mutant: nothing wakes a thread that waits for a block.
QueryNever ==
    /\ op # "idle" /\ at = "query"
    /\ Sent
    /\ UNCHANGED <<thrVars, msgs, q, bits, op, msg, waits, recvd, round, feed>>

\* ... then a dummy block if the queue is empty, as the thread may wait for one.
Query ==
    /\ op # "idle" /\ at = "query"
    /\ \/ q[Head(togo)] = <<>> /\ at' = "dummy" /\ UNCHANGED togo
       \/ q[Head(togo)] # <<>> /\ Sent
    /\ UNCHANGED <<thrVars, msgs, q, bits, op, msg, waits, recvd, round, feed>>

Dummy ==
    /\ op # "idle" /\ at = "dummy"
    /\ LET t == Head(togo)
       IN  /\ Len(q[t]) < Slots(t)
           /\ q' = [q EXCEPT ![t] = Append(@, Zero)]
    /\ Sent
    /\ UNCHANGED <<thrVars, msgs, bits, op, msg, waits, recvd, round, feed>>

\* All messages of this part of the call are sent.
AllSent == op # "idle" /\ (at = "wait" \/ (at = "check" /\ togo = <<>>))

\* media_lib_event_group_wait_bits for all the bits, then clr_bits.
WaitDone == AllSent /\ waits \subseteq bits

FinishPause ==
    /\ op \in {"pause", "resume"} /\ WaitDone
    /\ op' = "idle" /\ at' = "check"
    /\ UNCHANGED <<thrVars, msgs, q, bits, togo, msg, waits, recvd, round, feed>>

\* The decoder is flushed: on to the render thread.
FlushedDecoder ==
    /\ op = "flush" /\ at = "wait" /\ togo # <<>> /\ waits \subseteq bits
    /\ bits' = bits \ waits /\ waits' = {} /\ at' = "check"
    /\ UNCHANGED <<thrVars, msgs, q, op, togo, msg, recvd, round, feed>>

FinishFlush ==
    /\ op = "flush" /\ togo = <<>> /\ WaitDone /\ waits # {}
    /\ bits' = bits \ waits /\ waits' = {} /\ at' = "check" /\ op' = "idle"
    /\ UNCHANGED <<thrVars, msgs, q, togo, msg, recvd, round, feed>>

\* With no render thread the last wait is for no bits at all, which FreeRTOS
\* asserts against.
FlushNoBits ==
    /\ op = "flush" /\ at = "check" /\ togo = <<>> /\ waits = {}
    /\ at' = "aborted"
    /\ UNCHANGED <<thrVars, msgs, q, bits, op, togo, msg, waits, recvd, round, feed>>

\* The rest of av_render_add_audio_stream: a new decoder and its thread.
FinishAdd ==
    /\ op = "add" /\ WaitDone
    /\ bits' = bits \ waits /\ waits' = {}
    /\ res' = [t \in Thr |-> TRUE]
    /\ opened' = FALSE
    /\ thread' = [thread EXCEPT ![adec] = TRUE]
    /\ pc' = [pc EXCEPT ![adec] = "recv"]
    /\ op' = "idle"
    /\ UNCHANGED <<dying, paused, held, left, msgs, q, at, togo, msg, recvd,
                   round, feed>>

\* The end of a round of av_render_reset: "Wait for all thread to quit, run 2
\* times to avoid render thread creating during closing".
NextRound ==
    /\ op = "reset" /\ WaitDone /\ waits # {} /\ round < 1
    /\ bits' = bits \ waits /\ waits' = {} /\ recvd' = recvd \cup waits
    /\ round' = round + 1
    /\ togo' = <<adec, a_render>> /\ at' = "check"
    /\ UNCHANGED <<thrVars, msgs, q, op, msg, feed>>

\* Mutant: one round only.
FinishResetOnce ==
    /\ op = "reset" /\ WaitDone
    /\ bits' = bits \ waits
    /\ res' = [t \in Thr |-> FALSE] /\ paused' = [t \in Thr |-> FALSE]
    /\ thread' = [t \in Thr |-> FALSE]
    /\ msgs' = [t \in Thr |-> <<>>] /\ q' = [t \in Thr |-> <<>>]
    /\ opened' = FALSE
    /\ op' = "idle" /\ at' = "check" /\ waits' = {}
    /\ UNCHANGED <<pc, dying, held, left, togo, msg, recvd, round, feed>>

\* ... and the resources are freed.
FinishReset ==
    /\ op = "reset" /\ WaitDone /\ (waits = {} \/ round = 1)
    /\ bits' = bits \ waits
    /\ res' = [t \in Thr |-> FALSE] /\ paused' = [t \in Thr |-> FALSE]
    /\ thread' = [t \in Thr |-> FALSE]
    /\ msgs' = [t \in Thr |-> <<>>] /\ q' = [t \in Thr |-> <<>>]
    /\ opened' = FALSE
    /\ op' = "idle" /\ at' = "check" /\ waits' = {}
    /\ UNCHANGED <<pc, dying, held, left, togo, msg, recvd, round, feed>>

-----------------------------------------------------------------------------
\* av_render_add_audio_data up to the release of api_lock.
AddData(kind) ==
    /\ feed = "none" /\ op = "idle" /\ thread[adec]
    /\ feed' = kind
    /\ UNCHANGED <<thrVars, msgs, q, bits, apiVars>>

\* put_to_adec.
PutData ==
    /\ feed # "none" /\ Len(q[adec]) < DecSlots
    /\ q' = [q EXCEPT ![adec] = Append(@, [kind |-> feed, old |-> FALSE])]
    /\ feed' = "none"
    /\ UNCHANGED <<thrVars, msgs, bits, apiVars>>

-----------------------------------------------------------------------------
ApiStart == AddStream \/ Pause \/ Resume \/ Flush \/ Reset
ApiStep  == \/ Check \/ SendMsg \/ Query \/ Dummy
            \/ FinishPause \/ FlushedDecoder \/ FinishFlush \/ FlushNoBits
            \/ FinishAdd \/ NextRound \/ FinishReset
ThreadStep(t) ==
    \/ RecvMsg(t) \/ RecvNone(t) \/ HandleFlush(t) \/ ReadBlock(t)
    \/ DoneBlock(t) \/ Die(t) \/ (t = adec /\ (OpenRender \/ OutputFrame))

Next == \/ ApiStart \/ ApiStep \/ PutData
        \/ \E k \in Kinds : AddData(k)
        \/ \E t \in Thr : ThreadStep(t)

Spec == Init /\ [][Next]_vars

\* The tasks are scheduled.  Nothing obliges the application to call or to feed.
FairSpec == Spec /\ WF_vars(ApiStep) /\ WF_vars(PutData) /\ \A t \in Thr : WF_vars(ThreadStep(t))

-----------------------------------------------------------------------------
\* av_render_reset frees a thread's queues and state only when no thread that
\* uses them is left, whichever way and however late the threads ended.
FreedUnused == \A t \in Thr : pc[t] # "none" \/ dying[t] > 0 => res[t]

\* av_render.h: "Flush will flush all pending data in decoder or render fifo".
\* Nothing that was in the pipeline when the flush began is left to a running
\* thread when it ends.
FlushComplete ==
    op # "flush" => \A t \in Thr : thread[t] =>
        /\ \A i \in 1 .. Len(q[t]) : ~q[t][i].old
        /\ pc[t] = "work" => ~held[t].old
=============================================================================
