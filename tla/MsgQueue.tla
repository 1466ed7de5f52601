------------------------------ MODULE MsgQueue ------------------------------
(***************************************************************************)
(* The message queue of components/media_lib_sal/port/msg_q.c: a ring of   *)
(* messages of one size under a mutex, with ONE condition variable for     *)
(* "not full" and "not empty", which sends and receives signal (waking one *)
(* waiter of either kind) after they have released the mutex.              *)
(*                                                                         *)
(* Each critical section is one step.  A task in pthread_cond_wait is in   *)
(* "wait" until it is signalled, then in "woken" until it has the mutex    *)
(* back; "signal" is the gap between unlock and pthread_cond_signal.       *)
(***************************************************************************)
EXTENDS Integers, Sequences, FiniteSets

CONSTANTS Number,      \* q->number, slots
          Messages,
          Senders,     \* tasks calling msg_q_send
          Receivers,   \* tasks calling msg_q_recv
          Pollers,     \* the receivers that may call it with no_wait
          Destroyers,  \* tasks calling msg_q_destroy
          NoMsg

Threads == Senders \cup Receivers \cup Destroyers

\* What the proofs assume: a queue has a slot, and each task calls one of the three.
QueueAssumption ==
    /\ Number \in Nat \ {0} /\ IsFiniteSet(Threads)
    /\ Senders \cap Receivers = {} /\ (Senders \cup Receivers) \cap Destroyers = {}

VARIABLES cur, filled, quit, user,  \* fields of msg_q_t
          data,
          pc,
          arg,      \* the message a sender is sending
          freed     \* msg_q_destroy has freed the queue

vars == <<cur, filled, quit, user, data, pc, arg, freed>>

PCs == {"idle", "wait", "woken", "signal", "spin", "done"}

TypeOK ==
    /\ cur \in 0 .. Number - 1
    /\ filled \in 0 .. Number
    /\ quit \in BOOLEAN /\ freed \in BOOLEAN
    /\ user \in Nat
    /\ data \in [0 .. Number - 1 -> Messages \cup {NoMsg}]
    /\ pc \in [Threads -> PCs]
    /\ arg \in [Senders -> Messages \cup {NoMsg}]

\* msg_q_create
Init ==
    /\ cur = 0 /\ filled = 0 /\ user = 0
    /\ quit = FALSE /\ freed = FALSE
    /\ data = [i \in 0 .. Number - 1 |-> NoMsg]
    /\ pc = [t \in Threads |-> "idle"]
    /\ arg = [s \in Senders |-> NoMsg]

Goto(t, next) == pc' = [pc EXCEPT ![t] = next]

\* pthread_cond_signal by t, which continues at next: one waiter, any, is woken.
CondSignal(t, next) ==
    \/ /\ \A x \in Threads : pc[x] # "wait"
       /\ Goto(t, next)
    \/ \E x \in Threads : /\ pc[x] = "wait"
                          /\ pc' = [pc EXCEPT ![t] = next, ![x] = "woken"]

-----------------------------------------------------------------------------
\* Mutant: a send signals only when the queue was empty before.
TrySendQuiet(s, m, u) ==
    \/ /\ ~quit /\ filled >= Number
       /\ user' = u + 1
       /\ arg' = [arg EXCEPT ![s] = m]
       /\ Goto(s, "wait")
       /\ UNCHANGED <<cur, filled, quit, data, freed>>
    \/ /\ ~quit /\ filled < Number
       /\ data' = [data EXCEPT ![(cur + filled) % Number] = m]
       /\ filled' = filled + 1
       /\ user' = u
       /\ arg' = [arg EXCEPT ![s] = NoMsg]
       /\ Goto(s, IF filled = 0 THEN "signal" ELSE "idle")
       /\ UNCHANGED <<cur, quit, freed>>

\* Mutant: a send finds room once more than there is.
TrySendOver(s, m, u) ==
    /\ quit' = quit /\ user' = u /\ UNCHANGED <<cur, freed>>
    /\ filled <= Number /\ filled' = filled + 1
    /\ data' = [data EXCEPT ![(cur + filled) % Number] = m]
    /\ arg' = [arg EXCEPT ![s] = NoMsg]
    /\ Goto(s, "signal")

\* The critical section of msg_q_send, entered with u users.
TrySend(s, m, u) ==
    \/ /\ ~quit /\ filled >= Number
       /\ user' = u + 1
       /\ arg' = [arg EXCEPT ![s] = m]
       /\ Goto(s, "wait")
       /\ UNCHANGED <<cur, filled, quit, data, freed>>
    \/ /\ quit \/ filled < Number
       /\ user' = u
       /\ arg' = [arg EXCEPT ![s] = NoMsg]
       /\ \/ /\ ~quit
             /\ data' = [data EXCEPT ![(cur + filled) % Number] = m]
             /\ filled' = filled + 1
             /\ Goto(s, "signal")
          \/ /\ quit
             /\ Goto(s, "idle")
             /\ UNCHANGED <<data, filled>>
       /\ UNCHANGED <<cur, quit, freed>>

\* msg_q_send
Send(s, m) == pc[s] = "idle" /\ ~freed /\ TrySend(s, m, user)

ResumeSend(s) == pc[s] = "woken" /\ TrySend(s, arg[s], user - 1)

\* The critical section of msg_q_recv, entered with u users.
TryRecv(r, u, noWait) ==
    \/ /\ ~quit /\ filled = 0
       /\ user' = IF noWait THEN u ELSE u + 1
       /\ Goto(r, IF noWait THEN "idle" ELSE "wait")
       /\ UNCHANGED <<cur, filled, quit, data, arg, freed>>
    \/ /\ ~quit /\ filled # 0
       /\ user' = u
       /\ filled' = filled - 1
       /\ cur' = (cur + 1) % Number
       /\ Goto(r, "signal")
       /\ UNCHANGED <<quit, data, arg, freed>>
    \/ /\ quit
       /\ user' = u
       /\ Goto(r, "idle")
       /\ UNCHANGED <<cur, filled, quit, data, arg, freed>>

\* msg_q_recv
Recv(r) == /\ pc[r] = "idle" /\ ~freed
           /\ \/ TryRecv(r, user, FALSE)
              \/ r \in Pollers /\ TryRecv(r, user, TRUE)

ResumeRecv(r) == pc[r] = "woken" /\ TryRecv(r, user - 1, FALSE)

\* The signal after a successful send or receive.  The queue may be freed by then (its
\* task is not in user): the signal is then a use of freed memory, of which the model
\* takes the outcome that wakes nobody; the other, a panic, ends the program.
NotifyOne(t) ==
    /\ pc[t] = "signal"
    /\ CondSignal(t, "idle")
    /\ UNCHANGED <<cur, filled, quit, user, data, arg, freed>>

-----------------------------------------------------------------------------
\* msg_q_destroy up to its loop, and what follows the loop.
DestroyBegin(x) ==
    /\ pc[x] = "idle" /\ ~freed
    /\ quit' = TRUE
    /\ CondSignal(x, "spin")
    /\ UNCHANGED <<cur, filled, user, data, arg, freed>>

\* Mutant: the users are not waited for.
DestroyAtOnce(x) ==
    /\ pc[x] = "spin"
    /\ freed' = TRUE
    /\ Goto(x, "done")
    /\ UNCHANGED <<cur, filled, quit, user, data, arg>>

DestroyEnd(x) ==
    /\ pc[x] = "spin" /\ user = 0
    /\ freed' = TRUE
    /\ Goto(x, "done")
    /\ UNCHANGED <<cur, filled, quit, user, data, arg>>

Next ==
    \/ \E s \in Senders : ResumeSend(s) \/ \E m \in Messages : Send(s, m)
    \/ \E r \in Receivers : Recv(r) \/ ResumeRecv(r)
    \/ \E t \in Senders \cup Receivers : NotifyOne(t)
    \/ \E x \in Destroyers : DestroyBegin(x) \/ DestroyEnd(x)

Spec == Init /\ [][Next]_vars

\* A task inside a call runs on; a receiver calls msg_q_recv again and again.
Fairness ==
    /\ \A s \in Senders : WF_vars(ResumeSend(s)) /\ WF_vars(NotifyOne(s))
    /\ \A r \in Receivers : WF_vars(Recv(r) \/ ResumeRecv(r) \/ NotifyOne(r))
    /\ \A x \in Destroyers : WF_vars(DestroyEnd(x))

FairSpec == Spec /\ Fairness

-----------------------------------------------------------------------------
\* The messages in the queue, oldest first.
Queued == [i \in 1 .. filled |-> data[(cur + i - 1) % Number]]

Fifo == INSTANCE BlockFifo WITH
            Capacity <- Number, Sizes <- {1}, Payload <- Messages,
            queue <- [i \in 1 .. filled |-> [size |-> 1, tag |-> Queued[i]]]

\* Messages are received once each, in the order of the sends, and no more than
\* msg_number of them are ever queued.
ImplementsFifo == Fifo!Spec

\* user counts every task in pthread_cond_wait, woken or not, so that msg_q_destroy
\* frees the queue under none of them.  A task whose send or receive is done but for
\* its signal (pc "signal") is not counted, and msg_q_destroy does not wait for it.
MsgQueueNoWaiterFreed == freed => \A t \in Threads : pc[t] \notin {"wait", "woken"}

\* A full queue is read from, whatever senders do: the receiver does not sleep
\* through it.  (A given sender may starve: another may take its slot.)
QueueDrains == filled = Number ~> filled < Number \/ quit
=============================================================================
