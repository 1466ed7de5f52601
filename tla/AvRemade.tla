------------------------------ MODULE AvRemade ------------------------------
(***************************************************************************)
(* The audio player of AvRender with a history variable: whether a render  *)
(* thread was made in a reset that had told the one before it to end.  It  *)
(* is what av_render_reset's two rounds do not see (the run player_freed), *)
(* and the theorems say that nothing else makes a reset go wrong.          *)
(***************************************************************************)
EXTENDS AvRender

VARIABLE remade

\* av_render_audio_frame_reached makes a render thread; the reset under way has
\* sent CLOSE to the last one, and its second round will pass over this one.
Remake == /\ ~thread[a_render] /\ thread'[a_render]
          /\ op = "reset" /\ Closed(a_render) \in recvd \cup waits

RemadeInit == Init /\ remade = FALSE
Record     == remade' = (remade \/ Remake)
RemadeSpec == RemadeInit /\ [][Next /\ Record]_<<vars, remade>>

-----------------------------------------------------------------------------
\* av_render_reset frees a thread's queues and state only when no thread that
\* uses them is left, unless a reset has seen its render thread made again.
FreedUnlessRemade == ~remade => FreedUnused

\* av_render.h: "Flush will flush all pending data in decoder or render fifo":
\* nothing that was in the pipeline when the flush began is left to a running
\* thread when it ends.  What follows the use of freed memory is not asked about.
FlushUnlessRemade == ~remade => FlushComplete
=============================================================================
