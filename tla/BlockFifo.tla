----------------------------- MODULE BlockFifo -----------------------------
(***************************************************************************)
(* What components/media_lib_sal/include/data_queue.h promises: "Data      *)
(* queue works like a queue, you can receive the exact size of data as you *)
(* send previously."  Blocks come out whole, once, in the order they went  *)
(* in, and together with their heads they fit the buffer.                  *)
(***************************************************************************)
EXTENDS Naturals, Sequences

CONSTANTS Capacity,   \* bytes of the buffer
          Sizes,      \* sizes of blocks, head included
          Payload     \* contents of blocks

VARIABLE queue

Block == [size : Sizes, tag : Payload]

Total(s) ==
    LET sum[i \in 0 .. Len(s)] == IF i = 0 THEN 0 ELSE sum[i - 1] + s[i].size
    IN  sum[Len(s)]

Init == queue = <<>>

Put(b) == /\ Total(queue) + b.size <= Capacity
          /\ queue' = Append(queue, b)

Take == /\ queue # <<>>
        /\ queue' = Tail(queue)

Next == Take \/ \E b \in Block : Put(b)

Spec == Init /\ [][Next]_queue
=============================================================================
