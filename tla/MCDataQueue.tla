---------------------------- MODULE MCDataQueue ----------------------------
(***************************************************************************)
(* The two queues of media_lib_sal.  The variable "on" says what a         *)
(* behaviour is about: "ring" is data_queue with two writers, the reader   *)
(* av_render gives every queue, and a task that wakes everybody up;        *)
(* "flush" is data_queue with one writer and the task that flushes, as     *)
(* render_flush of av_render.c does it; "msgs" is msg_q with two senders   *)
(* and one receiver.                                                       *)
(***************************************************************************)
EXTENDS DataQueueFifo

CONSTANTS Second,      \* the writer of "ring" alone
          Plain,       \* what its blocks carry, lest its liveness be too large
          Number, Messages, Senders, Receivers, Pollers, Destroyers, NoMsg

VARIABLES on, cur, msgFilled, msgQuit, msgUser, data, msgPc, arg, freed

Msgs == INSTANCE MsgQueue WITH
            filled <- msgFilled, quit <- msgQuit, user <- msgUser, pc <- msgPc
msgVars == <<cur, msgFilled, msgQuit, msgUser, data, msgPc, arg, freed>>

MCInit == on \in {"ring", "flush", "msgs"} /\ Init /\ Msgs!Init

\* The tasks of data_queue that take no part.
Idle == CASE on = "ring"  -> Flushers
          [] on = "flush" -> Closers \cup {Second}
          [] on = "msgs"  -> Threads

MCNext ==
    /\ UNCHANGED on
    /\ IF on = "msgs" THEN Msgs!Next /\ UNCHANGED vars
       ELSE /\ Next /\ UNCHANGED msgVars
            /\ \A t \in Idle : pc'[t] = "idle"
            /\ on = "ring" => \A p \in DOMAIN mem : mem'[p].tag \in {NoTag, Plain}

\* Fairness of DataQueue and of MsgQueue, each for the behaviours it is about.
Ring(A)  == on = "ring" /\ ~halted /\ A
Queue(A) == on = "msgs" /\ A
MCSpec ==
    /\ MCInit /\ [][MCNext]_<<on, vars, msgVars>>
    /\ \A t \in Threads \ Flushers : WF_vars(Ring(WaitNext(t)))
    /\ \A w \in Writers : WF_vars(Ring(RetryGetBuffer(w) \/ DropBuffer(w)))
    /\ \A r \in Readers : /\ WF_vars(Ring(ReadLock(r) \/ RetryRead(r)))
                          /\ SF_vars(Ring(ReadUnlock(r)))
    /\ \A s \in Senders : /\ WF_msgVars(Queue(Msgs!ResumeSend(s)))
                          /\ WF_msgVars(Queue(Msgs!NotifyOne(s)))
    /\ \A r \in Receivers : WF_msgVars(Queue(Msgs!Recv(r) \/ Msgs!ResumeRecv(r) \/ Msgs!NotifyOne(r)))
    /\ \A x \in Destroyers : WF_msgVars(Queue(Msgs!DestroyEnd(x)))

-----------------------------------------------------------------------------
\* ImplementsFifo of either queue: both are queues of whole blocks in order, the
\* ring while another task flushes it.
BothImplementFifo == ImplementsFifo /\ Msgs!ImplementsFifo

\* WriterServed of data_queue, whose writers are told to go on by its readers.
RingWriterServed == on = "ring" => WriterServed

\* QueueDrains of msg_q: a full queue is read from.
MsgQueueDrains == Msgs!QueueDrains

\* MsgQueueNoWaiterFreed of msg_q: no task waits in the queue that msg_q_destroy frees.
MsgQueueNoWaiterFreed == Msgs!MsgQueueNoWaiterFreed
=============================================================================
