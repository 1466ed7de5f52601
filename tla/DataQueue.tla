----------------------------- MODULE DataQueue -----------------------------
(***************************************************************************)
(* The ring buffer of variable-sized blocks that decoder, renderer and     *)
(* application tasks share: components/media_lib_sal/port/data_queue.c.    *)
(*                                                                         *)
(* A block is a head (its size, written in the buffer itself) followed by  *)
(* the caller's data, and never wraps: when the tail of the buffer is too  *)
(* short the writer records where the data ends (fill_end) and starts      *)
(* again at offset 0.                                                      *)
(*                                                                         *)
(* Everything done between taking and releasing q->lock is one step.       *)
(* q->lock itself appears only for consume_all, whose loop over the blocks *)
(* is modelled iteration by iteration.  q->write_lock is held from         *)
(* get_buffer to send_buffer and is modelled by its owner.                 *)
(*                                                                         *)
(* Waiting follows the FreeRTOS event group below _WAIT_BITS: a task about *)
(* to wait ("enter") returns at once when its bit is set and otherwise     *)
(* blocks; setting a bit releases every task blocked on it; the bit is     *)
(* cleared afterwards, in a step of its own ("clear"), and only then is    *)
(* the lock taken again ("relock").                                        *)
(***************************************************************************)
EXTENDS Integers, Sequences, FiniteSets

CONSTANTS
    Size,       \* bytes of the buffer, in allocation units
    HeadSize,       \* DATA_Q_ALLOC_HEAD_SIZE
    Requests,   \* data sizes the callers ask for
    Payload,    \* contents a block can have
    Writers,    \* tasks calling get_buffer and send_buffer
    Readers,    \* tasks calling read_lock, then read_unlock or peek_unlock
    Peekers,    \* the readers that may end a read with peek_unlock
    Flushers,   \* tasks calling consume_all
    Closers,    \* tasks calling wakeup
    NoThread,
    MaxUser,    \* bound: no flush starts above this user count (see ReadUnlock)
    NoTag       \* what memory holds where no block was sent

Threads == Writers \cup Readers \cup Flushers \cup Closers

ASSUME SizeAssumption == /\ Size \in Nat \ {0}
                         /\ HeadSize \in Nat \ {0}
                         /\ MaxUser \in Nat
                         /\ Requests \subseteq Nat \ {0}

ASSUME ThreadAssumption ==
    /\ NoThread \notin Threads /\ NoTag \notin Payload
    /\ Peekers \subseteq Readers
    /\ Writers \cap (Readers \cup Flushers \cup Closers) = {}
    /\ Readers \cap (Flushers \cup Closers) = {}
    /\ Flushers \cap Closers = {}

VARIABLES
    rp, wp, fill_end, filled, user, quit,  \* fields of data_queue_t
    mem,         \* mem[i]: the block head at offset i of q->buffer
    event,       \* bits set in q->event
    lock,        \* the flusher inside consume_all, or NoThread
    write_lock,  \* the writer between get_buffer and send_buffer, or NoThread
    pc,          \* where each task is
    req,         \* size a writer asked for, head included
    hold,        \* block [pos, size, tag] a reader or writer was handed
    halted,      \* a "*(int*)0 = 0" of the code was executed
    live         \* auxiliary: offsets where an unconsumed block starts;
                 \* no guard reads it

ring  == <<rp, wp, fill_end>>
sync  == <<event, pc>>
vars  == <<rp, wp, fill_end, filled, user, quit, mem, event, lock,
           write_lock, pc, req, hold, halted, live>>

ARRIVE    == "ARRIVE"
CONSUME   == "CONSUME"
USER_FREE == "USER_FREE"

WaitBit(t) == IF t \in Writers THEN CONSUME
              ELSE IF t \in Readers THEN ARRIVE ELSE USER_FREE

PCs     == {"idle", "filling", "reading", "consuming", "done",
            "enter", "blocked", "clear", "relock"}
Waiting == {"enter", "blocked", "clear", "relock"}

\* A head that was never written, or was overwritten by the data of a block.
Garbage == [size |-> -1, tag |-> NoTag]
NoBlock == [pos |-> 0, size |-> 0, tag |-> NoTag]

Cells  == [size : -1 .. Size, tag : Payload \cup {NoTag}]
Blocks == [pos : Int, size : Int, tag : Payload \cup {NoTag}]

HeadAt(p) == IF p \in DOMAIN mem THEN mem[p] ELSE Garbage

TypeOK ==
    /\ rp \in 0 .. Size /\ wp \in 0 .. Size /\ fill_end \in 0 .. Size
    /\ filled \in 0 .. Size
    /\ user \in Int
    /\ quit \in BOOLEAN /\ halted \in BOOLEAN
    /\ mem \in [0 .. Size - 1 -> Cells]
    /\ event \subseteq {ARRIVE, CONSUME, USER_FREE}
    /\ lock \in Flushers \cup {NoThread}
    /\ write_lock \in Writers \cup {NoThread}
    /\ pc \in [Threads -> PCs]
    /\ req \in [Writers -> Nat]
    /\ hold \in [Writers \cup Readers -> Blocks]
    /\ live \subseteq 0 .. Size - 1

\* data_queue_init
Init ==
    /\ rp = 0 /\ wp = 0 /\ fill_end = 0 /\ filled = 0
    /\ user = 0 /\ quit = FALSE
    /\ mem = [i \in 0 .. Size - 1 |-> Garbage]
    /\ event = {}
    /\ lock = NoThread /\ write_lock = NoThread
    /\ pc = [t \in Threads |-> "idle"]
    /\ req = [w \in Writers |-> 0]
    /\ hold = [t \in Writers \cup Readers |-> NoBlock]
    /\ halted = FALSE
    /\ live = {}

-----------------------------------------------------------------------------
(* Setting bits, waiting for them, clearing them *)

\* Task t sets bits and continues at next; tasks blocked on a bit are released.
Signal(bits, t, next) ==
    /\ event' = event \cup bits
    /\ pc' = [x \in Threads |->
                IF x = t THEN next
                ELSE IF pc[x] = "blocked" /\ WaitBit(x) \in bits THEN "clear"
                ELSE pc[x]]

Goto(t, next) == pc' = [pc EXCEPT ![t] = next]

EnterWait(t) ==
    /\ pc[t] = "enter"
    /\ Goto(t, IF WaitBit(t) \in event THEN "clear" ELSE "blocked")
    /\ UNCHANGED <<ring, filled, user, quit, mem, event, lock, write_lock,
                   req, hold, halted, live>>

ClearBits(t) ==
    /\ pc[t] = "clear"
    /\ event' = event \ {WaitBit(t)}
    /\ Goto(t, "relock")
    /\ UNCHANGED <<ring, filled, user, quit, mem, lock, write_lock, req,
                   hold, halted, live>>

CanLock(t, at) == pc[t] = at /\ lock = NoThread

-----------------------------------------------------------------------------
(* The ring *)

HaveData == ~(wp = rp /\ fill_end = 0)
HaveDataFromLast == filled # 0

Available(r, w, f) ==
    IF w > r THEN Size - w
    ELSE IF w < r THEN r - w
    ELSE IF f # 0 THEN 0 ELSE Size - w

get_available_size == Available(rp, wp, fill_end)

\* Mutant: the head of the block is forgotten.
AvailableWithHead == IF HaveData THEN get_available_size ELSE Size

data_queue_get_available ==
    LET avail == IF HaveData THEN get_available_size ELSE Size
    IN  IF avail >= HeadSize THEN avail - HeadSize ELSE 0

\* Mutant: a ring that has wrapped already is rewound again.
RewoundTwice(need) ==
    IF get_available_size >= need
    THEN [rp |-> rp, wp |-> wp, fill_end |-> fill_end]
    ELSE IF wp = rp
         THEN [rp |-> 0, wp |-> 0, fill_end |-> 0]
         ELSE [rp |-> rp, wp |-> 0, fill_end |-> wp]

\* The ring once get_buffer has tried to make room for need bytes.
Rewound(need) ==
    IF get_available_size >= need \/ fill_end # 0
    THEN [rp |-> rp, wp |-> wp, fill_end |-> fill_end]
    ELSE IF wp = rp
         THEN [rp |-> 0, wp |-> 0, fill_end |-> 0]
         ELSE [rp |-> rp, wp |-> 0, fill_end |-> wp]

Fits(r, need) == Available(r.rp, r.wp, r.fill_end) >= need

\* Mutant: the wrap of the read position is missed when it hits fill_end.
ConsumePastEnd(n) ==
    LET next == rp + n
        wrap == fill_end # 0 /\ next > fill_end
    IN  /\ rp' = IF wrap THEN 0 ELSE next
        /\ fill_end' = IF wrap THEN 0 ELSE fill_end
        /\ filled' = filled - n
        /\ live' = live \ {rp}

\* Drop the block of size n at rp.
Consume(n) ==
    LET next == rp + n
        wrap == fill_end # 0 /\ next >= fill_end
    IN  /\ rp' = IF wrap THEN 0 ELSE next
        /\ fill_end' = IF wrap THEN 0 ELSE fill_end
        /\ filled' = filled - n
        /\ live' = live \ {rp}

Halt == halted' = TRUE /\ UNCHANGED <<ring, filled, user, quit, mem, sync, lock,
                                      write_lock, req, hold, live>>

-----------------------------------------------------------------------------
(* Writers *)

\* The body of get_buffer's loop, entered with u users and setting bits.  The
\* caller fills the buffer as soon as it has it: old heads in there are gone.
TryReserve(w, need, u, bits) ==
    /\ UNCHANGED <<filled, quit, lock, halted, live>>
    /\ req' = [req EXCEPT ![w] = need]
    /\ \/ /\ quit
          /\ user' = u /\ write_lock' = NoThread
          /\ Signal(bits, w, "idle")
          /\ UNCHANGED <<ring, mem, hold>>
       \/ /\ ~quit
          /\ LET r == Rewound(need)
             IN  /\ rp' = r.rp /\ wp' = r.wp /\ fill_end' = r.fill_end
                 /\ user' = u + 1 /\ write_lock' = w
                 /\ \/ /\ Fits(r, need)
                       /\ hold' = [hold EXCEPT ![w] =
                                     [pos |-> r.wp, size |-> need, tag |-> NoTag]]
                       /\ mem' = [i \in DOMAIN mem |->
                                    IF i > r.wp /\ i < r.wp + need
                                    THEN Garbage ELSE mem[i]]
                       /\ Signal(bits, w, "filling")
                    \/ /\ ~Fits(r, need)
                       /\ Signal(bits, w, "enter")
                       /\ UNCHANGED <<mem, hold>>

\* Mutant: write_lock is not taken.
GetBufferUnlocked(w, n) ==
    /\ CanLock(w, "idle")
    /\ n + HeadSize <= Size
    /\ TryReserve(w, n + HeadSize, user, {})

\* data_queue_get_buffer.  A request larger than the buffer returns NULL at once.
GetBuffer(w, n) ==
    /\ CanLock(w, "idle") /\ write_lock = NoThread
    /\ n + HeadSize <= Size
    /\ TryReserve(w, n + HeadSize, user, {})

\* The end of data_queue_wait_consume and the next turn of the loop.
RetryGetBuffer(w) ==
    /\ CanLock(w, "relock")
    /\ TryReserve(w, req[w], user - 1, {USER_FREE})

FinishWrite(w, bits) ==
    /\ user' = user - 1
    /\ write_lock' = NoThread
    /\ hold' = [hold EXCEPT ![w] = NoBlock]
    /\ Signal(bits, w, "idle")

\* data_queue_send_buffer(q, 0): the reservation is given back.
DropBuffer(w) ==
    /\ CanLock(w, "filling")
    /\ FinishWrite(w, {USER_FREE})
    /\ UNCHANGED <<ring, filled, quit, mem, lock, req, halted, live>>

\* data_queue_send_buffer(q, n) with tag d in the buffer.
SendBuffer(w, n, d) ==
    /\ CanLock(w, "filling")
    /\ get_available_size >= n + HeadSize
    /\ mem' = [mem EXCEPT ![wp] = [size |-> n + HeadSize, tag |-> d]]
    /\ wp' = wp + n + HeadSize
    /\ filled' = filled + n + HeadSize
    /\ live' = live \cup {wp}
    /\ FinishWrite(w, {ARRIVE, USER_FREE})
    /\ UNCHANGED <<rp, fill_end, quit, lock, req, halted>>

\* ... which fails when the caller sends more than there is room for.
SendTooLarge(w, n) ==
    /\ CanLock(w, "filling")
    /\ get_available_size < n + HeadSize
    /\ FinishWrite(w, {USER_FREE})
    /\ UNCHANGED <<ring, filled, quit, mem, lock, req, halted, live>>

-----------------------------------------------------------------------------
(* Readers *)

\* Where read_lock finds the oldest block: counted back from the write position.
ReadPos == IF filled <= wp THEN wp - filled ELSE wp + fill_end - filled

\* The body of read_lock's loop, entered with u users and setting bits.
TryRead(r, u, bits) ==
    /\ UNCHANGED <<ring, filled, quit, mem, lock, write_lock, req, live>>
    /\ \/ /\ quit
          /\ user' = u
          /\ Signal(bits, r, "idle")
          /\ UNCHANGED <<hold, halted>>
       \/ /\ ~quit /\ ~HaveDataFromLast
          /\ user' = u + 1
          /\ Signal(bits, r, "enter")
          /\ UNCHANGED <<hold, halted>>
       \/ /\ ~quit /\ HaveDataFromLast
          /\ LET b == HeadAt(ReadPos)
             IN  /\ halted' = (b.size \notin 0 .. Size)
                 /\ hold' = [hold EXCEPT ![r] =
                               [pos |-> ReadPos, size |-> b.size, tag |-> b.tag]]
          /\ user' = u + 1
          /\ Signal(bits, r, "reading")

\* data_queue_read_lock
ReadLock(r) == CanLock(r, "idle") /\ TryRead(r, user, {})

\* The end of data_queue_wait_data and the next turn of the loop.
RetryRead(r) == CanLock(r, "relock") /\ TryRead(r, user - 1, {USER_FREE})

\* Mutant: data_queue_data_consumed is forgotten.
ReadUnlockSilent(r) ==
    /\ CanLock(r, "reading") /\ HaveData
    /\ Consume(HeadAt(rp).size)
    /\ user' = user - 1
    /\ hold' = [hold EXCEPT ![r] = NoBlock]
    /\ Signal({USER_FREE}, r, "idle")
    /\ UNCHANGED <<wp, quit, mem, lock, write_lock, req, halted>>

\* data_queue_read_unlock.  When the queue was emptied meanwhile, user stays.
ReadUnlock(r) ==
    /\ CanLock(r, "reading")
    /\ \/ /\ ~HaveData
          /\ hold' = [hold EXCEPT ![r] = NoBlock]
          /\ Goto(r, "idle")
          /\ UNCHANGED <<ring, filled, user, event, live, halted>>
       \/ /\ HaveData
          /\ halted' = (HeadAt(rp).size \notin 0 .. Size)
          /\ Consume(HeadAt(rp).size)
          /\ user' = user - 1
          /\ hold' = [hold EXCEPT ![r] = NoBlock]
          /\ Signal({CONSUME, USER_FREE}, r, "idle")
          /\ UNCHANGED wp
    /\ UNCHANGED <<quit, mem, lock, write_lock, req>>

\* data_queue_peek_unlock: nobody is told that a user left.
PeekUnlock(r) ==
    /\ CanLock(r, "reading")
    /\ user' = user - 1
    /\ hold' = [hold EXCEPT ![r] = NoBlock]
    /\ Goto(r, "idle")
    /\ UNCHANGED <<ring, filled, quit, mem, event, lock, write_lock, req,
                   halted, live>>

-----------------------------------------------------------------------------
(* consume_all and wakeup *)

ConsumeAll(f) ==
    /\ CanLock(f, "idle") /\ user <= MaxUser
    /\ lock' = f
    /\ Goto(f, "consuming")
    /\ UNCHANGED <<ring, filled, user, quit, mem, event, write_lock, req, hold,
                   halted, live>>

\* One turn of the loop.  The sanity check on the block is size >= q->size.
ConsumeOne(f) ==
    /\ lock = f /\ HaveData /\ ~quit
    /\ LET n == HeadAt(rp).size
       IN  \/ /\ n < 0 \/ n >= Size
              /\ Halt
           \/ /\ n >= 0 /\ n < Size
              /\ Consume(n)
              /\ Signal({CONSUME}, f, "consuming")
              /\ UNCHANGED <<wp, user, quit, mem, lock, write_lock, req, hold,
                             halted>>

ConsumeAllDone(f) ==
    /\ lock = f
    /\ ~HaveData \/ quit
    /\ lock' = NoThread
    /\ Goto(f, "idle")
    /\ UNCHANGED <<ring, filled, user, quit, mem, event, write_lock, req, hold,
                   halted, live>>

\* data_queue_wakeup, up to its first look at user.
Wakeup(c) ==
    /\ CanLock(c, "idle")
    /\ quit' = TRUE
    /\ Signal({ARRIVE, CONSUME}, c, IF user = 0 THEN "done" ELSE "enter")
    /\ UNCHANGED <<ring, filled, user, mem, lock, write_lock, req, hold, halted,
                   live>>

\* The end of data_queue_wait_user and the next look at user.
RetryWakeup(c) ==
    /\ CanLock(c, "relock")
    /\ Goto(c, IF user = 0 THEN "done" ELSE "enter")
    /\ UNCHANGED <<ring, filled, user, quit, mem, event, lock, write_lock, req,
                   hold, halted, live>>

-----------------------------------------------------------------------------
WriterNext(w) ==
    \/ \E n \in Requests : GetBuffer(w, n)
    \/ RetryGetBuffer(w)
    \/ DropBuffer(w)
    \/ \E n \in Requests, d \in Payload : SendBuffer(w, n, d)
    \/ \E n \in Requests : SendTooLarge(w, n)

ReaderNext(r) ==
    \/ ReadLock(r)
    \/ RetryRead(r)
    \/ ReadUnlock(r)
    \/ r \in Peekers /\ PeekUnlock(r)

FlusherNext(f) == ConsumeAll(f) \/ ConsumeOne(f) \/ ConsumeAllDone(f)

CloserNext(c) == Wakeup(c) \/ RetryWakeup(c)

WaitNext(t) == EnterWait(t) \/ ClearBits(t)

Next ==
    /\ ~halted
    /\ \/ \E w \in Writers : WriterNext(w)
       \/ \E r \in Readers : ReaderNext(r)
       \/ \E f \in Flushers : FlusherNext(f)
       \/ \E c \in Closers : CloserNext(c)
       \/ \E t \in Threads : WaitNext(t)

Spec == Init /\ [][Next]_vars

-----------------------------------------------------------------------------
(* Fairness: a task that waits or holds a buffer is scheduled again, a       *)
(* reader keeps reading and, when it reads without end, consumes.            *)

Fairness ==
    /\ \A t \in Threads : WF_vars(~halted /\ WaitNext(t))
    /\ \A w \in Writers : WF_vars(~halted /\ (RetryGetBuffer(w) \/ DropBuffer(w)))
    /\ \A r \in Readers : /\ WF_vars(~halted /\ (ReadLock(r) \/ RetryRead(r)))
                          /\ SF_vars(~halted /\ ReadUnlock(r))
    /\ \A f \in Flushers : WF_vars(~halted /\ (ConsumeOne(f) \/ ConsumeAllDone(f)))
    /\ \A c \in Closers : WF_vars(~halted /\ RetryWakeup(c))

FairSpec == Spec /\ Fairness
-----------------------------------------------------------------------------
(* What the queue promises *)

\* The blocks of live cover lo .. hi - 1 without gap or overlap.
Tiles(lo, hi) ==
    LET in == {s \in live : lo <= s /\ s < hi}
    IN  /\ lo \in in \cup {hi}
        /\ \A s \in in : s + mem[s].size \in in \cup {hi}
        /\ \A s, t \in in : s < t => s + mem[s].size <= t

\* The pointers always describe one of the two pictures above
\* get_available_size, and the unconsumed blocks tile exactly the filled part:
\* no send, wrap, abandoned reservation, read or flush loses or splits a block.
RingLayout ==
    /\ \A s \in live : mem[s].size \in HeadSize + 1 .. Size
    /\ fill_end = 0 => /\ rp <= wp /\ filled = wp - rp
                       /\ \A s \in live : rp <= s /\ s < wp
                       /\ Tiles(rp, wp)
    /\ fill_end # 0 => /\ wp <= rp /\ rp < fill_end
                       /\ filled = fill_end - rp + wp
                       /\ \A s \in live : s < wp \/ (rp <= s /\ s < fill_end)
                       /\ Tiles(rp, fill_end) /\ Tiles(0, wp)

\* read_lock and read_unlock locate the front of the queue in different ways,
\* and read_lock and have_data decide emptiness in different ways: they agree.
OldestFound ==
    /\ HaveData <=> HaveDataFromLast
    /\ HaveData => ReadPos = rp /\ rp \in live

\* Until it is sent, a reservation stays where the caller was told and the room
\* stays large enough, whatever readers and flushers do meanwhile: a send of at
\* most the reserved size never fails and never moves the block.
ReservationHolds ==
    \A w \in Writers : pc[w] = "filling" =>
        /\ write_lock = w
        /\ hold[w] = [pos |-> wp, size |-> req[w], tag |-> NoTag]
        /\ get_available_size >= req[w]

\* When get_available answers n, a get_buffer of n goes through without waiting.
AvailableIsHonest ==
    \A n \in Requests :
        n <= data_queue_get_available => Fits(Rewound(n + HeadSize), n + HeadSize)

\* No "*(int*)0 = 0" is reached: the sanity checks on block sizes never fire.
NoAbort == ~halted

-----------------------------------------------------------------------------
(* The walk of data_queue_query *)

\* The blocks from rp on, oldest first: where the walk is, and whether fill_end is
\* still ahead of it.
Contents ==
    LET walk[at \in (0 .. Size) \X BOOLEAN] ==
            IF at = <<wp, FALSE>> THEN <<>>
            ELSE LET b    == HeadAt(at[1])
                     q    == at[1] + b.size
                     next == IF at[2] /\ q = fill_end THEN <<0, FALSE>> ELSE <<q, at[2]>>
                 IN  IF b.size <= 0 \/ q > Size THEN <<Garbage>> ELSE <<b>> \o walk[next]
    IN  IF HaveData THEN walk[<<rp, fill_end # 0>>] ELSE <<>>

-----------------------------------------------------------------------------
(* Liveness, until a consume_all aborts the program *)

\* A writer that waits for room gets it, or is told that the queue quits, as
\* long as readers read and consume: no wakeup is lost between the wait, the
\* clearing of the bit and the re-check under the lock.
WriterServed ==
    \A w \in Writers : pc[w] \in Waiting ~> pc[w] \in {"filling", "idle"} \/ halted
=============================================================================
