----------------------------- MODULE MCAvRender -----------------------------
(***************************************************************************)
(* Small instances of the audio player.  The variable "on" says which one  *)
(* a behaviour is about: "ends" has the constants of the .cfg, with calls  *)
(* that must return; in "pauses" the application also pauses, resumes and  *)
(* resets, over queues of one message and one block, so that every put may *)
(* have to wait.  There a call may never return, so that only the calls of *)
(* "ends" are asked to.  In both it adds its stream again and resets; what *)
(* comes after a render thread was made again in a reset is left out.      *)
(***************************************************************************)
EXTENDS AvRemade

VARIABLE on

Pauses == INSTANCE AvRender WITH
              MsgSlots <- 1, DecSlots <- 1, RenSlots <- 1, Frames <- {2},
              Calls <- {"add", "again", "pause", "resume", "flush", "reset"}

MCInit == on \in {"ends", "pauses"} /\ RemadeInit

MCNext == /\ ~remade /\ UNCHANGED on
          /\ \/ on = "ends" /\ Next
             \/ on = "pauses" /\ Pauses!Next
          /\ Record

Ends(A) == on = "ends" /\ A
MCSpec == /\ MCInit /\ [][MCNext]_<<on, remade, vars>>
          /\ WF_vars(Ends(ApiStep)) /\ WF_vars(Ends(PutData))
          /\ \A t \in Thr : WF_vars(Ends(ThreadStep(t)))

-----------------------------------------------------------------------------
\* Without pauses every API call returns (and api_lock is free again), whatever
\* the threads do when its messages reach them.  An abort is another matter.
EndingCallReturns == on = "ends" => (op # "idle" ~> op = "idle" \/ at = "aborted" \/ remade)
=============================================================================
