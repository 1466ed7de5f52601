--------------------------- MODULE DataQueueFifo ---------------------------
(***************************************************************************)
(* The ring buffer implements the abstract queue of BlockFifo.  The        *)
(* refinement mapping reads the abstract queue out of the buffer with the  *)
(* walk of data_queue_query.                                               *)
(***************************************************************************)
EXTENDS DataQueue

Fifo == INSTANCE BlockFifo WITH
            Capacity <- Size,
            Sizes    <- {n + HeadSize : n \in Requests},
            queue    <- Contents

\* Every behaviour of the ring buffer, seen through the blocks it contains, is
\* one of a bounded FIFO: wraps, abandoned reservations and flushes are
\* invisible, sends append one block, unlocks and flushes take the oldest.
ImplementsFifo == Fifo!Spec
=============================================================================
