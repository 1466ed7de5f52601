---------------------------- MODULE Queue_proofs ----------------------------
(***************************************************************************)
(* Proofs about the two queues, for every size, every set of requests and  *)
(* messages and any tasks: first the ring buffer of data_queue.c, then the *)
(* slots of msg_q.c (whose senders, receivers and destroyers are finitely  *)
(* many), then the run of both.                                            *)
(***************************************************************************)
EXTENDS MCDataQueue, FiniteSetTheorems, SequenceTheorems, WellFoundedInduction, TLAPS

-----------------------------------------------------------------------------
(* The ring buffer: its inductive invariant *)

\* A writer that waits or fills a buffer is the owner of write_lock.
WriteLockInv ==
    \A w \in Writers :
        pc[w] \in Waiting \cup {"filling"} => write_lock = w /\ req[w] # 0

IInv == TypeOK /\ RingLayout /\ WriteLockInv /\ ReservationHolds

\* The part of TypeOK about the ring and its memory.
RingTypeOK ==
    /\ rp \in 0 .. Size /\ wp \in 0 .. Size /\ fill_end \in 0 .. Size
    /\ filled \in 0 .. Size
    /\ mem \in [0 .. Size - 1 -> Cells]
    /\ live \subseteq 0 .. Size - 1

-----------------------------------------------------------------------------
(* The operations on the ring *)

\* Whenever the queue holds data an unconsumed block starts at rp, its head is
\* sound, and read_lock computes that very offset.
LEMMA FrontIsLive ==
    ASSUME RingTypeOK, RingLayout, HaveData
    PROVE  /\ rp \in live /\ HeadAt(rp) = mem[rp]
           /\ mem[rp].size \in HeadSize + 1 .. Size
           /\ ReadPos = rp /\ HaveDataFromLast
  <1>1. rp \in live
    <2>1. CASE fill_end = 0
      BY <2>1, SizeAssumption, SMT DEF RingTypeOK, RingLayout, Tiles, HaveData
    <2>2. CASE fill_end # 0
      BY <2>2, SizeAssumption, SMT DEF RingTypeOK, RingLayout, Tiles, HaveData
    <2> QED BY <2>1, <2>2
  <1>2. ReadPos = rp /\ HaveDataFromLast
    BY SizeAssumption, SMT
       DEF RingTypeOK, RingLayout, HaveData, ReadPos, HaveDataFromLast
  <1> QED BY <1>1, <1>2, SizeAssumption, SMT DEF RingTypeOK, RingLayout, HeadAt

\* The two ways of asking whether there is data agree.
LEMMA EmptinessAgrees ==
    ASSUME RingTypeOK, RingLayout
    PROVE  HaveData <=> HaveDataFromLast
  BY SizeAssumption, SMT DEF RingTypeOK, RingLayout, HaveData, HaveDataFromLast

\* Taking the front block keeps the layout and never shrinks the room left.
LEMMA ConsumeKeepsLayout ==
    ASSUME RingTypeOK, RingLayout, HaveData,
           Consume(HeadAt(rp).size), wp' = wp, mem' = mem
    PROVE  RingTypeOK' /\ RingLayout' /\ get_available_size' >= get_available_size
  <1> DEFINE n == mem[rp].size
  <1>1. rp \in live /\ HeadAt(rp).size = n /\ n \in 1 .. Size
    BY FrontIsLive, SizeAssumption, SMT DEF RingTypeOK
  <1>2. /\ Size \in Nat /\ rp \in 0 .. Size /\ wp \in 0 .. Size
        /\ fill_end \in 0 .. Size /\ filled \in 0 .. Size /\ n \in Nat /\ n > 0
        /\ live \subseteq 0 .. Size - 1 /\ live' = live \ {rp}
        /\ filled' = filled - n
    BY <1>1, SizeAssumption, SMT DEF RingTypeOK, Consume
  <1>3. mem' \in [0 .. Size - 1 -> Cells] /\ live' \subseteq 0 .. Size - 1
        /\ \A s \in live' : mem'[s].size \in HeadSize + 1 .. Size
    BY <1>2, SMT DEF RingTypeOK, RingLayout
  <1>4. CASE fill_end = 0
    <2>1. rp' = rp + n /\ fill_end' = 0
      BY <1>1, <1>4 DEF Consume
    <2>2. rp < wp /\ filled = wp - rp /\ \A s \in live : rp <= s /\ s < wp
      BY <1>2, <1>4, SMT DEF RingLayout, HaveData
    <2>3. /\ rp + n \in live \cup {wp}
          /\ \A s \in live : s + mem[s].size \in live \cup {wp}
          /\ \A s, t \in live : s < t => s + mem[s].size <= t
      BY <1>1, <1>2, <1>4, <2>2, SMT DEF RingLayout, Tiles
    <2>4. \A s \in live : s # rp => rp + n <= s
      BY <1>1, <1>2, <2>2, <2>3, SMT
    <2>5. rp' <= wp /\ \A s \in live' : rp' <= s /\ s < wp
      <3>1. rp + n <= wp
        BY <1>2, <2>2, <2>3, SMT
      <3>2. ASSUME NEW s \in live' PROVE rp' <= s /\ s < wp
        <4>1. s \in live /\ s # rp
          BY <1>2
        <4> QED BY <2>1, <2>2, <2>4, <4>1
      <3> QED BY <2>1, <3>1, <3>2
    <2>6. Tiles(rp, wp)'
      <3>1. {s \in live' : rp' <= s /\ s < wp'} = live'
        BY <2>5
      <3>2. rp' \in live' \cup {wp}
        BY <1>2, <2>1, <2>3, SMT
      <3>3. \A s \in live' : s + mem[s].size \in live' \cup {wp}
        <4> TAKE s \in live'
        <4>1. s \in live /\ rp < s /\ mem[s].size \in Nat /\ s \in Nat
          BY <1>2, <1>3, <2>2, SizeAssumption, SMT
        <4>2. s + mem[s].size # rp
          BY <1>2, <4>1, SMT
        <4> QED BY <1>2, <2>3, <4>1, <4>2
      <3> QED BY <1>2, <2>3, <3>1, <3>2, <3>3, Zenon DEF Tiles
    <2>7. RingTypeOK'
      BY <1>2, <1>3, <2>1, <2>2, <2>5, SMT DEF RingTypeOK
    <2>8. RingLayout'
      BY <1>2, <1>3, <2>1, <2>2, <2>5, <2>6, SMT DEF RingLayout
    <2>9. get_available_size' >= get_available_size
      BY <1>2, <1>4, <2>1, <2>2, <2>5, SMT DEF get_available_size, Available
    <2> QED BY <2>7, <2>8, <2>9
  <1>5. CASE fill_end # 0
    <2> DEFINE H == {s \in live : rp <= s /\ s < fill_end}
               L == {s \in live : 0 <= s /\ s < wp}
    <2>1. /\ wp <= rp /\ rp < fill_end /\ filled = fill_end - rp + wp
          /\ \A s \in live : s < wp \/ (rp <= s /\ s < fill_end)
      BY <1>2, <1>5, SMT DEF RingLayout
    <2>2. /\ \A s \in H : s + mem[s].size \in H \cup {fill_end}
          /\ \A s, t \in H : s < t => s + mem[s].size <= t
      BY <1>5 DEF RingLayout, Tiles
    <2>3. Tiles(0, wp)
      BY <1>5 DEF RingLayout
    <2>4. rp \in H /\ rp \notin L
      BY <1>1, <1>2, <2>1, SMT
    <2>5. rp + n \in H \cup {fill_end} /\ rp + n <= fill_end
      <3>1. rp + n \in H \cup {fill_end}
        BY <2>2, <2>4
      <3> QED BY <1>2, <3>1, SMT
    <2>6. \A s \in H : s # rp => rp < s /\ rp + n <= s
      <3> TAKE s \in H
      <3>1. s # rp => rp < s
        BY <1>2, SMT
      <3> QED BY <2>2, <2>4, <3>1
    <2>7. {s \in live' : 0 <= s /\ s < wp'} = L
      BY <1>2, <2>4
    <2>8. Tiles(0, wp)'
      BY <2>3, <2>7 DEF Tiles
    <2>9. CASE rp + n < fill_end
      <3>1. rp' = rp + n /\ fill_end' = fill_end
        BY <1>1, <1>2, <2>9, SMT DEF Consume
      <3>2. {s \in live' : rp' <= s /\ s < fill_end'} = H \ {rp}
        <4>1. ASSUME NEW s \in live PROVE rp + n <= s => rp <= s /\ s # rp
          BY <1>2, SMT
        <4> QED BY <1>2, <2>6, <3>1, <4>1
      <3>3. \A s \in H : s + mem[s].size # rp
        <4> TAKE s \in H
        <4>1. s \in 0 .. Size - 1 /\ rp <= s /\ mem[s].size \in Nat /\ mem[s].size > 0
          BY <1>2, SizeAssumption, SMT DEF RingLayout
        <4> QED BY <1>2, <4>1, SMT
      <3>4. Tiles(rp, fill_end)'
        <4>1. rp' \in (H \ {rp}) \cup {fill_end'}
          BY <1>2, <2>5, <3>1, SMT
        <4>2. \A s \in H \ {rp} : s + mem[s].size \in (H \ {rp}) \cup {fill_end'}
          BY <2>2, <3>1, <3>3
        <4>3. \A s, t \in H \ {rp} : s < t => s + mem[s].size <= t
          BY <2>2
        <4> QED BY <3>2, <4>1, <4>2, <4>3, Zenon DEF Tiles
      <3>5. \A s \in live' : s < wp \/ (rp' <= s /\ s < fill_end)
        BY <1>2, <2>1, <2>6, <3>1
      <3>6. RingTypeOK'
        BY <1>2, <1>3, <2>1, <2>9, <3>1, SMT DEF RingTypeOK
      <3>7. RingLayout'
        BY <1>2, <1>3, <1>5, <2>1, <2>8, <2>9, <3>1, <3>4, <3>5, SMT DEF RingLayout
      <3>8. get_available_size' >= get_available_size
        BY <1>2, <1>5, <2>1, <3>1, SMT DEF get_available_size, Available
      <3> QED BY <3>6, <3>7, <3>8
    <2>10. CASE rp + n = fill_end
      <3>1. rp' = 0 /\ fill_end' = 0
        BY <1>1, <1>2, <1>5, <2>10, SMT DEF Consume
      <3>2. Tiles(rp, wp)'
        BY <2>8, <3>1 DEF Tiles
      <3>3. \A s \in live' : rp' <= s /\ s < wp
        <4> TAKE s \in live'
        <4>1. s \in live /\ s # rp /\ s \in 0 .. Size - 1
          BY <1>2
        <4>2. s \notin H
          <5>1. s \in H => rp + n <= s /\ s < fill_end
            BY <2>6, <4>1
          <5> QED BY <1>2, <2>10, <4>1, <5>1, SMT
        <4> QED BY <1>2, <2>1, <3>1, <4>1, <4>2, SMT
      <3>4. RingTypeOK'
        BY <1>2, <1>3, <2>1, <2>10, <3>1, SMT DEF RingTypeOK
      <3>5. RingLayout'
        BY <1>2, <1>3, <2>1, <2>10, <3>1, <3>2, <3>3, SMT DEF RingLayout
      <3>6. get_available_size' >= get_available_size
        BY <1>2, <1>5, <2>1, <3>1, SMT DEF get_available_size, Available
      <3> QED BY <3>4, <3>5, <3>6
    <2> QED BY <1>2, <2>5, <2>9, <2>10, SMT
  <1> QED BY <1>4, <1>5

\* Sending a block that fits extends the layout by that block.
LEMMA SendKeepsLayout ==
    ASSUME RingTypeOK, RingLayout, NEW n \in Nat \ {0}, NEW d \in Payload,
           get_available_size >= n + HeadSize,
           mem' = [mem EXCEPT ![wp] = [size |-> n + HeadSize, tag |-> d]],
           wp' = wp + n + HeadSize,
           filled' = filled + n + HeadSize,
           live' = live \cup {wp},
           rp' = rp, fill_end' = fill_end
    PROVE  RingTypeOK' /\ RingLayout'
  <1> DEFINE k == n + HeadSize
  <1>1. k \in HeadSize + 1 .. Size /\ wp + k <= Size /\ wp < Size
    BY SizeAssumption, SMT
       DEF RingTypeOK, RingLayout, Tiles, get_available_size, Available
  <1>2. mem' \in [0 .. Size - 1 -> Cells] /\ mem'[wp].size = k
        /\ \A s \in live : mem'[s] = mem[s] /\ s # wp
    <2>1. wp \notin live
      BY <1>1, SizeAssumption, SMT
         DEF RingTypeOK, RingLayout, get_available_size, Available
    <2>2. [size |-> k, tag |-> d] \in Cells
      BY <1>1, SizeAssumption, SMT DEF Cells
    <2>3. wp \in 0 .. Size - 1
      BY <1>1, SizeAssumption, SMT DEF RingTypeOK
    <2> QED BY <2>1, <2>2, <2>3 DEF RingTypeOK
  <1>3. /\ Size \in Nat /\ rp \in 0 .. Size /\ wp \in 0 .. Size /\ k \in Nat /\ k > 0
        /\ fill_end \in 0 .. Size /\ filled \in 0 .. Size
        /\ live \subseteq 0 .. Size - 1 /\ live' \subseteq 0 .. Size - 1
        /\ wp' = wp + k /\ wp + k <= Size /\ filled' = filled + k
        /\ rp' = rp /\ fill_end' = fill_end
        /\ \A s \in live : mem[s].size \in HeadSize + 1 .. Size
    BY <1>1, SizeAssumption, SMT DEF RingTypeOK, RingLayout
  <1>4. \A s \in live' : mem'[s].size \in HeadSize + 1 .. Size
    BY <1>1, <1>2, <1>3
  <1>5. ASSUME NEW lo \in Int, Tiles(lo, wp), lo <= wp,
               \A s \in live : s < wp \/ wp + k <= s
        PROVE  Tiles(lo, wp)'
    <2> DEFINE in == {s \in live : lo <= s /\ s < wp}
    <2>1. {s \in live' : lo <= s /\ s < wp'} = in \cup {wp}
      <3>1. \A s \in live : s < wp' <=> s < wp
        BY <1>3, <1>5, SMT
      <3>2. lo <= wp /\ wp < wp'
        BY <1>3, <1>5, SMT
      <3> QED BY <1>3, <3>1, <3>2
    <2>2. lo \in (in \cup {wp}) \cup {wp'}
      BY <1>5 DEF Tiles
    <2>3. \A s \in in \cup {wp} : s + mem'[s].size \in (in \cup {wp}) \cup {wp'}
      <3> TAKE s \in in \cup {wp}
      <3>1. CASE s = wp
        BY <1>2, <1>3, <3>1
      <3>2. CASE s \in in
        BY <1>2, <1>5, <3>2 DEF Tiles
      <3> QED BY <3>1, <3>2
    <2>4. \A s, t \in in \cup {wp} : s < t => s + mem'[s].size <= t
      <3> SUFFICES ASSUME NEW s \in in \cup {wp}, NEW t \in in \cup {wp}, s < t
                   PROVE  s + mem'[s].size <= t
        OBVIOUS
      <3>1. s \in in
        BY <1>3, SMT
      <3>2. CASE t \in in
        BY <1>2, <1>5, <3>1, <3>2 DEF Tiles
      <3>3. CASE t = wp
        <4>1. s + mem[s].size \in in \cup {wp}
          BY <1>5, <3>1 DEF Tiles
        <4>2. s + mem[s].size <= wp
          BY <1>3, <3>1, <4>1, SMT
        <4> QED BY <1>2, <3>1, <3>3, <4>2
      <3> QED BY <3>2, <3>3
    <2> QED BY <2>1, <2>2, <2>3, <2>4, Zenon DEF Tiles
  <1>6. CASE fill_end = 0
    <2>1. rp <= wp /\ filled = wp - rp /\ Tiles(rp, wp)
          /\ \A s \in live : rp <= s /\ s < wp
      BY <1>6 DEF RingLayout
    <2>2. Tiles(rp, wp)'
      <3>1. rp \in Int
        BY <1>3, SMT
      <3> QED BY <1>5, <2>1, <3>1, Zenon DEF Tiles
    <2>3. \A s \in live' : rp <= s /\ s < wp'
      BY <1>3, <2>1, SMT
    <2>4. RingTypeOK'
      BY <1>1, <1>2, <1>3, <2>1, SMT DEF RingTypeOK
    <2>5. RingLayout'
      BY <1>3, <1>4, <1>6, <2>1, <2>2, <2>3, SMT DEF RingLayout
    <2> QED BY <2>4, <2>5
  <1>7. CASE fill_end # 0
    <2> DEFINE H == {s \in live : rp <= s /\ s < fill_end}
    <2>1. /\ wp + k <= rp /\ rp < fill_end /\ filled = fill_end - rp + wp
          /\ \A s \in live : s < wp \/ (rp <= s /\ s < fill_end)
      BY <1>3, <1>7, SizeAssumption, SMT
         DEF RingLayout, get_available_size, Available
    <2>2. Tiles(0, wp)'
      <3>1. \A s \in live : s < wp \/ wp + k <= s
        BY <1>3, <2>1, SMT
      <3>2. Tiles(0, wp) /\ 0 <= wp
        BY <1>3, <1>7, SMT DEF RingLayout
      <3>3. 0 \in Int
        OBVIOUS
      <3> QED BY <1>5, <3>1, <3>2, <3>3, Zenon DEF Tiles
    <2>3. Tiles(rp, fill_end)'
      <3>1. {s \in live' : rp' <= s /\ s < fill_end'} = H
        <4>1. ~(rp <= wp)
          BY <1>3, <2>1, SMT
        <4> QED BY <4>1
      <3>2. Tiles(rp, fill_end)
        BY <1>7 DEF RingLayout
      <3> QED BY <1>2, <3>1, <3>2 DEF Tiles
    <2>4. \A s \in live' : s < wp' \/ (rp <= s /\ s < fill_end)
      BY <1>3, <2>1, SMT
    <2>5. RingTypeOK'
      BY <1>1, <1>2, <1>3, <2>1, SMT DEF RingTypeOK
    <2>6. RingLayout'
      BY <1>3, <1>4, <1>7, <2>1, <2>2, <2>3, <2>4, SMT DEF RingLayout
    <2> QED BY <2>5, <2>6
  <1> QED BY <1>6, <1>7

\* Making room for a reservation keeps the layout, whatever is written outside
\* the heads of unconsumed blocks.
LEMMA RewindKeepsLayout ==
    ASSUME RingTypeOK, RingLayout, NEW need \in Nat \ {0},
           rp' = Rewound(need).rp, wp' = Rewound(need).wp,
           fill_end' = Rewound(need).fill_end,
           filled' = filled, live' = live,
           mem' \in [0 .. Size - 1 -> Cells],
           \A s \in live : mem'[s] = mem[s]
    PROVE  RingTypeOK' /\ RingLayout'
  <1>2. CASE get_available_size >= need \/ fill_end # 0
    <2>1. rp' = rp /\ wp' = wp /\ fill_end' = fill_end
      BY <1>2 DEF Rewound
    <2>2. Tiles(rp, wp) => Tiles(rp, wp)'
      BY <2>1 DEF Tiles
    <2>3. Tiles(rp, fill_end) => Tiles(rp, fill_end)'
      BY <2>1 DEF Tiles
    <2>4. Tiles(0, wp) => Tiles(0, wp)'
      BY <2>1 DEF Tiles
    <2> QED BY <2>1, <2>2, <2>3, <2>4 DEF RingTypeOK, RingLayout
  <1>3. CASE ~(get_available_size >= need \/ fill_end # 0) /\ wp = rp
    <2>1. rp' = 0 /\ wp' = 0 /\ fill_end' = 0
      BY <1>3 DEF Rewound
    <2>2. live = {} /\ filled = 0
      BY <1>3, SMT DEF RingTypeOK, RingLayout
    <2>3. Tiles(rp, wp)'
      BY <2>1, <2>2 DEF Tiles
    <2> QED BY <2>1, <2>2, <2>3, SizeAssumption, SMT DEF RingTypeOK, RingLayout
  <1>4. CASE ~(get_available_size >= need \/ fill_end # 0) /\ wp # rp
    <2>1. rp' = rp /\ wp' = 0 /\ fill_end' = wp
      BY <1>4 DEF Rewound
    <2>2. rp < wp /\ filled = wp - rp /\ Tiles(rp, wp)
          /\ \A s \in live : rp <= s /\ s < wp
      BY <1>4, SMT DEF RingTypeOK, RingLayout
    <2>3. Tiles(rp, fill_end)'
      BY <2>1, <2>2 DEF Tiles
    <2>4. {s \in live' : 0 <= s /\ s < wp'} = {}
      <3>1. \A s \in live : ~(0 <= s /\ s < 0)
        BY SizeAssumption, SMT DEF RingTypeOK
      <3> QED BY <2>1, <3>1
    <2>5. Tiles(0, wp)'
      BY <2>1, <2>4 DEF Tiles
    <2>6. RingTypeOK'
      BY <2>1, SizeAssumption, SMT DEF RingTypeOK
    <2>7. \A s \in live' : mem'[s].size \in HeadSize + 1 .. Size
      BY DEF RingLayout
    <2>8. wp # 0 /\ 0 <= rp /\ filled' = fill_end' - rp' + wp'
      BY <2>1, <2>2, SMT DEF RingTypeOK
    <2> QED BY <2>1, <2>2, <2>3, <2>5, <2>6, <2>7, <2>8 DEF RingLayout
  <1> QED BY <1>2, <1>3, <1>4

\* The region handed to a writer holds no head of an unconsumed block.
LEMMA ReservedIsFree ==
    ASSUME RingTypeOK, RingLayout, NEW need \in Nat \ {0},
           Fits(Rewound(need), need), NEW s \in live
    PROVE  s < Rewound(need).wp \/ Rewound(need).wp + need <= s
  <1>1. CASE get_available_size >= need \/ fill_end # 0
    BY <1>1, SizeAssumption, SMT
       DEF RingTypeOK, RingLayout, Rewound, Fits, Available, get_available_size
  <1>2. CASE ~(get_available_size >= need \/ fill_end # 0)
    BY <1>2, SizeAssumption, SMT
       DEF RingTypeOK, RingLayout, Rewound, Fits, Available, get_available_size
  <1> QED BY <1>1, <1>2

-----------------------------------------------------------------------------
(* The tasks *)

\* Setting an event bit moves the tasks that wait for it to another point inside the
\* same wait, and the task that sets it to its next point.
LEMMA SignalKeeps ==
    ASSUME pc \in [Threads -> PCs], event \subseteq {ARRIVE, CONSUME, USER_FREE},
           NEW t \in Threads, NEW next \in PCs,
           NEW bits \in SUBSET {ARRIVE, CONSUME, USER_FREE},
           Signal(bits, t, next)
    PROVE  /\ pc' \in [Threads -> PCs] /\ pc'[t] = next
           /\ event' \subseteq {ARRIVE, CONSUME, USER_FREE}
           /\ \A x \in Threads \ {t} :
                 pc'[x] = pc[x] \/ (pc[x] \in Waiting /\ pc'[x] \in Waiting)
  BY DEF Signal, PCs, Waiting

\* Moving one task to another point keeps the types of the points.
LEMMA GotoKeeps ==
    ASSUME pc \in [Threads -> PCs], NEW t \in Threads, NEW next \in PCs,
           Goto(t, next)
    PROVE  /\ pc' \in [Threads -> PCs] /\ pc'[t] = next
           /\ \A x \in Threads \ {t} : pc'[x] = pc[x]
  BY DEF Goto

\* A step of anybody but the owner of write_lock leaves reservations alone.
LEMMA OthersKeepReservations ==
    ASSUME TypeOK, WriteLockInv, ReservationHolds,
           \A x \in Writers :
              pc'[x] = pc[x] \/ (pc[x] \in Waiting /\ pc'[x] \in Waiting),
           write_lock' = write_lock, req' = req, wp' = wp,
           \A x \in Writers : hold'[x] = hold[x],
           get_available_size' \in Int, get_available_size \in Int,
           get_available_size' >= get_available_size
    PROVE  WriteLockInv' /\ ReservationHolds'
  <1>1. WriteLockInv'
    BY DEF WriteLockInv, Waiting
  <1>2. ASSUME NEW w \in Writers, pc'[w] = "filling"
        PROVE  /\ write_lock' = w
               /\ hold'[w] = [pos |-> wp', size |-> req'[w], tag |-> NoTag]
               /\ get_available_size' >= req'[w]
    <2>1. pc[w] = "filling"
      BY <1>2 DEF Waiting
    <2>2. write_lock = w /\ get_available_size >= req[w]
          /\ hold[w] = [pos |-> wp, size |-> req[w], tag |-> NoTag]
      BY <2>1 DEF ReservationHolds
    <2>3. req[w] \in Nat
      BY DEF TypeOK
    <2> QED BY <2>2, <2>3, SMT
  <1> QED BY <1>1, <1>2 DEF ReservationHolds

\* A step of a writer that owns write_lock, or takes it while it is free, only
\* has to answer for that writer.
LEMMA WriterKeepsReservations ==
    ASSUME TypeOK, WriteLockInv, NEW w \in Writers,
           write_lock \in {w, NoThread},
           \A x \in Writers \ {w} :
              pc'[x] = pc[x] \/ (pc[x] \in Waiting /\ pc'[x] \in Waiting),
           pc'[w] \in Waiting \cup {"filling"} => write_lock' = w /\ req'[w] # 0,
           \A x \in Writers \ {w} : req'[x] = req[x],
           pc'[w] = "filling" =>
              /\ hold'[w] = [pos |-> wp', size |-> req'[w], tag |-> NoTag]
              /\ get_available_size' >= req'[w]
    PROVE  WriteLockInv' /\ ReservationHolds'
  <1>1. ASSUME NEW x \in Writers \ {w} PROVE pc'[x] \notin Waiting \cup {"filling"}
    <2>1. pc[x] \notin Waiting \cup {"filling"}
      BY ThreadAssumption DEF WriteLockInv, Threads
    <2> QED BY <2>1
  <1> QED BY <1>1 DEF WriteLockInv, ReservationHolds

\* The room get_available_size computes is a number.
LEMMA AvailableType ==
    ASSUME RingTypeOK PROVE get_available_size \in Int
  BY SizeAssumption, SMT DEF RingTypeOK, get_available_size, Available

-----------------------------------------------------------------------------
(* The inductive invariant *)

\* The part of TypeOK about the tasks.
TaskTypeOK ==
    /\ user \in Int /\ quit \in BOOLEAN /\ halted \in BOOLEAN
    /\ event \subseteq {ARRIVE, CONSUME, USER_FREE}
    /\ lock \in Flushers \cup {NoThread}
    /\ write_lock \in Writers \cup {NoThread}
    /\ pc \in [Threads -> PCs]
    /\ req \in [Writers -> Nat]
    /\ hold \in [Writers \cup Readers -> Blocks]

\* The type invariant in its two parts, the ring's and the tasks'.
LEMMA TypeOKSplit == TypeOK <=> RingTypeOK /\ TaskTypeOK
  BY DEF TypeOK, RingTypeOK, TaskTypeOK

\* The value that stands for no block in hand is of the type of blocks.
LEMMA NoBlockType == NoBlock \in Blocks
  BY DEF NoBlock, Blocks

\* Steps that leave the ring alone keep what is said about it.
LEMMA SameRing ==
    ASSUME RingTypeOK, RingLayout, UNCHANGED <<ring, filled, mem, live>>
    PROVE  /\ RingTypeOK' /\ RingLayout'
           /\ get_available_size' = get_available_size
           /\ wp' = wp
  BY DEF RingTypeOK, RingLayout, Tiles, ring, get_available_size, Available

\* get_buffer, first call and retries.
LEMMA TryReserveStep ==
    ASSUME IInv, NEW w \in Writers, write_lock \in {w, NoThread},
           NEW need \in Nat \ {0}, NEW u \in Int,
           NEW bits \in SUBSET {ARRIVE, CONSUME, USER_FREE},
           TryReserve(w, need, u, bits)
    PROVE  IInv'
  <1> USE DEF IInv
  <1>1. w \in Threads /\ w \in Writers \cup Readers
    BY DEF Threads
  <1>2. RingTypeOK /\ TaskTypeOK
    BY TypeOKSplit
  <1>3. req' = [req EXCEPT ![w] = need] /\ req' \in [Writers -> Nat] /\ req'[w] = need
        /\ req'[w] # 0 /\ UNCHANGED <<filled, quit, lock, halted, live>>
        /\ \A x \in Writers \ {w} : req'[x] = req[x]
    BY <1>2, SMT DEF TryReserve, TaskTypeOK
  <1>4. Writers \subseteq Threads
    BY DEF Threads
  <1>5. CASE quit
    <2>1. /\ user' = u /\ write_lock' = NoThread /\ Signal(bits, w, "idle")
          /\ UNCHANGED <<ring, mem, hold>>
      BY <1>5 DEF TryReserve
    <2>2. RingTypeOK' /\ RingLayout'
      BY <1>2, <1>3, <2>1, SameRing
    <2>3. /\ pc' \in [Threads -> PCs] /\ pc'[w] = "idle"
          /\ event' \subseteq {ARRIVE, CONSUME, USER_FREE}
          /\ \A x \in Threads \ {w} :
                pc'[x] = pc[x] \/ (pc[x] \in Waiting /\ pc'[x] \in Waiting)
      <3>1. "idle" \in PCs
        BY DEF PCs
      <3> QED BY <1>1, <1>2, <2>1, <3>1, SignalKeeps DEF TaskTypeOK
    <2>4. TaskTypeOK'
      BY <1>2, <1>3, <2>1, <2>3 DEF TaskTypeOK
    <2>5. WriteLockInv' /\ ReservationHolds'
      <3>1. pc'[w] \notin Waiting \cup {"filling"}
        BY <2>3 DEF Waiting
      <3> QED BY <1>3, <1>4, <2>3, <3>1, WriterKeepsReservations
    <2> QED BY <2>2, <2>4, <2>5, TypeOKSplit DEF TypeOK, RingTypeOK, TaskTypeOK
  <1>6. CASE ~quit
    <2> DEFINE r == Rewound(need)
    <2>1. /\ rp' = r.rp /\ wp' = r.wp /\ fill_end' = r.fill_end
          /\ user' = u + 1 /\ write_lock' = w
      BY <1>6 DEF TryReserve
    <2>2. CASE Fits(r, need)
      <3>1. /\ hold' = [hold EXCEPT ![w] = [pos |-> r.wp, size |-> need, tag |-> NoTag]]
            /\ mem' = [i \in DOMAIN mem |-> IF i > r.wp /\ i < r.wp + need
                                           THEN Garbage ELSE mem[i]]
            /\ Signal(bits, w, "filling")
        BY <1>6, <2>2 DEF TryReserve
      <3>2. mem' \in [0 .. Size - 1 -> Cells]
        <4>1. Garbage \in Cells
          BY SizeAssumption, SMT DEF Garbage, Cells
        <4> QED BY <1>2, <3>1, <4>1 DEF RingTypeOK
      <3>3. \A s \in live : mem'[s] = mem[s]
        <4> TAKE s \in live
        <4>1. s < r.wp \/ r.wp + need <= s
          BY <1>2, <2>2, ReservedIsFree
        <4>2. s \in Int /\ r.wp \in Int /\ s \in DOMAIN mem
          BY <1>2, SMT DEF RingTypeOK, Rewound
        <4>3. ~(s > r.wp /\ s < r.wp + need)
          <5> HIDE DEF r
          <5> QED BY <4>1, <4>2, SMT
        <4> QED BY <3>1, <4>2, <4>3
      <3>4. RingTypeOK' /\ RingLayout'
        BY <1>2, <1>3, <2>1, <3>2, <3>3, RewindKeepsLayout
      <3>5. /\ pc' \in [Threads -> PCs] /\ pc'[w] = "filling"
            /\ event' \subseteq {ARRIVE, CONSUME, USER_FREE}
            /\ \A x \in Threads \ {w} :
                  pc'[x] = pc[x] \/ (pc[x] \in Waiting /\ pc'[x] \in Waiting)
        <4>1. "filling" \in PCs
          BY DEF PCs
        <4> QED BY <1>1, <1>2, <3>1, <4>1, SignalKeeps DEF TaskTypeOK
      <3>6. hold' \in [Writers \cup Readers -> Blocks]
            /\ hold'[w] = [pos |-> r.wp, size |-> need, tag |-> NoTag]
        <4>1. r.wp \in Int
          BY <1>2, SMT DEF RingTypeOK, Rewound
        <4>2. [pos |-> r.wp, size |-> need, tag |-> NoTag] \in Blocks
          BY <4>1 DEF Blocks
        <4> QED BY <1>1, <1>2, <3>1, <4>2 DEF TaskTypeOK
      <3>7. TaskTypeOK'
        <4>1. user' \in Int /\ write_lock' \in Writers
          BY <2>1
        <4> QED BY <1>2, <1>3, <3>5, <3>6, <4>1, Zenon DEF TaskTypeOK
      <3>8. get_available_size' >= req'[w]
        BY <1>3, <2>1, <2>2, SMT DEF get_available_size, Fits
      <3>9. WriteLockInv' /\ ReservationHolds'
        BY <1>3, <1>4, <2>1, <3>5, <3>6, <3>8, WriterKeepsReservations
      <3> QED BY <3>4, <3>7, <3>9 DEF TypeOK, RingTypeOK, TaskTypeOK
    <2>3. CASE ~Fits(r, need)
      <3>1. Signal(bits, w, "enter") /\ mem' = mem /\ hold' = hold
        BY <1>6, <2>3 DEF TryReserve
      <3>2. RingTypeOK' /\ RingLayout'
        <4>1. mem' \in [0 .. Size - 1 -> Cells] /\ \A s \in live : mem'[s] = mem[s]
          BY <1>2, <3>1 DEF RingTypeOK
        <4> QED BY <1>2, <1>3, <2>1, <4>1, RewindKeepsLayout
      <3>3. /\ pc' \in [Threads -> PCs] /\ pc'[w] = "enter"
            /\ event' \subseteq {ARRIVE, CONSUME, USER_FREE}
            /\ \A x \in Threads \ {w} :
                  pc'[x] = pc[x] \/ (pc[x] \in Waiting /\ pc'[x] \in Waiting)
        <4>1. "enter" \in PCs
          BY DEF PCs
        <4> QED BY <1>1, <1>2, <3>1, <4>1, SignalKeeps DEF TaskTypeOK
      <3>4. TaskTypeOK'
        BY <1>2, <1>3, <2>1, <3>1, <3>3 DEF TaskTypeOK
      <3>5. WriteLockInv' /\ ReservationHolds'
        BY <1>3, <1>4, <2>1, <3>3, WriterKeepsReservations
      <3> QED BY <3>2, <3>4, <3>5 DEF TypeOK, RingTypeOK, TaskTypeOK
    <2> QED BY <2>2, <2>3
  <1> QED BY <1>5, <1>6

\* The steps that end a reservation.
LEMMA FinishWriteStep ==
    ASSUME IInv, NEW w \in Writers, pc[w] = "filling",
           NEW bits \in SUBSET {ARRIVE, CONSUME, USER_FREE},
           FinishWrite(w, bits), UNCHANGED <<quit, lock, req, halted>>
    PROVE  TaskTypeOK' /\ WriteLockInv' /\ ReservationHolds'
  <1> USE DEF IInv
  <1>1. w \in Threads /\ w \in Writers \cup Readers /\ Writers \subseteq Threads
    BY DEF Threads
  <1>2. TaskTypeOK
    BY TypeOKSplit
  <1>3. /\ user' = user - 1 /\ write_lock' = NoThread
        /\ hold' = [hold EXCEPT ![w] = NoBlock] /\ Signal(bits, w, "idle")
    BY DEF FinishWrite
  <1>4. /\ pc' \in [Threads -> PCs] /\ pc'[w] = "idle"
        /\ event' \subseteq {ARRIVE, CONSUME, USER_FREE}
        /\ \A x \in Threads \ {w} :
              pc'[x] = pc[x] \/ (pc[x] \in Waiting /\ pc'[x] \in Waiting)
    <2>1. "idle" \in PCs
      BY DEF PCs
    <2> QED BY <1>1, <1>2, <1>3, <2>1, SignalKeeps DEF TaskTypeOK
  <1>5. TaskTypeOK'
    <2>1. user' \in Int /\ write_lock' \in Writers \cup {NoThread}
      BY <1>2, <1>3 DEF TaskTypeOK
    <2>2. hold' \in [Writers \cup Readers -> Blocks]
      BY <1>1, <1>2, <1>3, NoBlockType DEF TaskTypeOK
    <2> QED BY <1>2, <1>4, <2>1, <2>2, Zenon DEF TaskTypeOK
  <1>6. write_lock = w
    BY DEF WriteLockInv
  <1>7. pc'[w] \notin Waiting \cup {"filling"}
    BY <1>4 DEF Waiting
  <1> QED BY <1>1, <1>4, <1>5, <1>6, <1>7, WriterKeepsReservations

\* The steps of readers, flushers and closers, and those inside a wait.
LEMMA OtherStep ==
    ASSUME IInv, RingTypeOK', RingLayout', TaskTypeOK', wp' = wp,
           get_available_size' >= get_available_size,
           UNCHANGED <<write_lock, req>>,
           \A x \in Writers : hold'[x] = hold[x],
           \A x \in Writers :
              pc'[x] = pc[x] \/ (pc[x] \in Waiting /\ pc'[x] \in Waiting)
    PROVE  IInv'
  <1>1. get_available_size \in Int
    BY TypeOKSplit, AvailableType DEF IInv
  <1>2. get_available_size' \in Int
    BY SizeAssumption, SMT DEF RingTypeOK, get_available_size, Available
  <1>3. WriteLockInv' /\ ReservationHolds'
    BY <1>1, <1>2, OthersKeepReservations DEF IInv
  <1> QED BY <1>3 DEF IInv, TypeOK, RingTypeOK, TaskTypeOK

\* Readers: read_lock, first call and retries.
LEMMA TryReadStep ==
    ASSUME IInv, NEW r \in Readers, NEW u \in Int,
           NEW bits \in SUBSET {ARRIVE, CONSUME, USER_FREE},
           TryRead(r, u, bits)
    PROVE  IInv'
  <1> USE DEF IInv
  <1>1. r \in Threads /\ r \in Writers \cup Readers /\ r \notin Writers
        /\ Writers \subseteq Threads
    BY ThreadAssumption DEF Threads
  <1>2. RingTypeOK /\ TaskTypeOK
    BY TypeOKSplit
  <1>3. UNCHANGED <<ring, filled, quit, mem, lock, write_lock, req, live>>
    BY DEF TryRead
  <1>4. RingTypeOK' /\ RingLayout' /\ get_available_size' >= get_available_size /\ wp' = wp
    BY <1>2, <1>3, SameRing, AvailableType, SMT
  <1>5. PICK next \in PCs : Signal(bits, r, next)
    BY DEF TryRead, PCs
  <1>6. /\ pc' \in [Threads -> PCs] /\ event' \subseteq {ARRIVE, CONSUME, USER_FREE}
        /\ \A x \in Threads \ {r} :
              pc'[x] = pc[x] \/ (pc[x] \in Waiting /\ pc'[x] \in Waiting)
    BY <1>1, <1>2, <1>5, SignalKeeps DEF TaskTypeOK
  <1>7. user' \in Int
    BY DEF TryRead
  <1>8. /\ hold' \in [Writers \cup Readers -> Blocks] /\ halted' \in BOOLEAN
        /\ \A x \in Writers : hold'[x] = hold[x]
    <2>1. CASE hold' = hold /\ halted' = halted
      BY <1>2, <2>1 DEF TaskTypeOK
    <2>2. CASE LET b == HeadAt(ReadPos)
               IN  /\ halted' = (b.size \notin 0 .. Size)
                   /\ hold' = [hold EXCEPT ![r] =
                                 [pos |-> ReadPos, size |-> b.size, tag |-> b.tag]]
      <3>1. ReadPos \in Int
        BY <1>2, SMT DEF RingTypeOK, ReadPos
      <3>2. HeadAt(ReadPos) \in Cells
        <4>1. Garbage \in Cells
          BY SizeAssumption, SMT DEF Garbage, Cells
        <4> QED BY <1>2, <4>1 DEF HeadAt, RingTypeOK
      <3>3. HeadAt(ReadPos).size \in Int /\ HeadAt(ReadPos).tag \in Payload \cup {NoTag}
        BY <3>2, SizeAssumption, SMT DEF Cells
      <3> QED BY <1>1, <1>2, <2>2, <3>1, <3>3 DEF TaskTypeOK, Blocks
    <2> QED BY <2>1, <2>2 DEF TryRead
  <1>9. TaskTypeOK'
    BY <1>2, <1>3, <1>6, <1>7, <1>8, Zenon DEF TaskTypeOK
  <1> QED BY <1>1, <1>3, <1>4, <1>6, <1>8, <1>9, OtherStep

\* read_unlock, with data and without.
LEMMA ReadUnlockStep ==
    ASSUME IInv, NEW r \in Readers, ReadUnlock(r)
    PROVE  IInv'
  <1> USE DEF IInv
  <1>1. r \in Threads /\ r \in Writers \cup Readers /\ r \notin Writers
        /\ Writers \subseteq Threads /\ "idle" \in PCs
    BY ThreadAssumption DEF Threads, PCs
  <1>2. RingTypeOK /\ TaskTypeOK
    BY TypeOKSplit
  <1>3. hold' = [hold EXCEPT ![r] = NoBlock] /\ UNCHANGED <<quit, mem, lock, write_lock, req>>
    BY DEF ReadUnlock
  <1>4. /\ hold' \in [Writers \cup Readers -> Blocks]
        /\ \A x \in Writers : hold'[x] = hold[x]
    BY <1>1, <1>2, <1>3, NoBlockType DEF TaskTypeOK
  <1>5. CASE ~HaveData
    <2>1. Goto(r, "idle") /\ UNCHANGED <<ring, filled, user, event, live, halted>>
      BY <1>5 DEF ReadUnlock
    <2>2. RingTypeOK' /\ RingLayout' /\ get_available_size' >= get_available_size /\ wp' = wp
      BY <1>2, <1>3, <2>1, SameRing, AvailableType, SMT
    <2>3. pc' \in [Threads -> PCs] /\ \A x \in Threads \ {r} : pc'[x] = pc[x]
      BY <1>1, <1>2, <2>1, GotoKeeps DEF TaskTypeOK
    <2>4. TaskTypeOK'
      BY <1>2, <1>3, <1>4, <2>1, <2>3, Zenon DEF TaskTypeOK
    <2> QED BY <1>1, <1>3, <1>4, <2>2, <2>3, <2>4, OtherStep
  <1>6. CASE HaveData
    <2>1. /\ halted' = (HeadAt(rp).size \notin 0 .. Size)
          /\ Consume(HeadAt(rp).size) /\ user' = user - 1 /\ wp' = wp
          /\ Signal({CONSUME, USER_FREE}, r, "idle")
      BY <1>6 DEF ReadUnlock
    <2>2. RingTypeOK' /\ RingLayout' /\ get_available_size' >= get_available_size
      BY <1>2, <1>3, <1>6, <2>1, ConsumeKeepsLayout
    <2>3. /\ pc' \in [Threads -> PCs] /\ event' \subseteq {ARRIVE, CONSUME, USER_FREE}
          /\ \A x \in Threads \ {r} :
                pc'[x] = pc[x] \/ (pc[x] \in Waiting /\ pc'[x] \in Waiting)
      BY <1>1, <1>2, <2>1, SignalKeeps DEF TaskTypeOK
    <2>4. user' \in Int /\ halted' \in BOOLEAN
      BY <1>2, <2>1 DEF TaskTypeOK
    <2>5. TaskTypeOK'
      BY <1>2, <1>3, <1>4, <2>3, <2>4, Zenon DEF TaskTypeOK
    <2> QED BY <1>1, <1>3, <1>4, <2>1, <2>2, <2>3, <2>5, OtherStep
  <1> QED BY <1>5, <1>6

\* consume_all, one block at a time.
LEMMA ConsumeOneStep ==
    ASSUME IInv, NEW f \in Flushers, ConsumeOne(f)
    PROVE  IInv'
  <1> USE DEF IInv
  <1>1. f \in Threads /\ f \notin Writers /\ Writers \subseteq Threads
        /\ "consuming" \in PCs
    BY ThreadAssumption DEF Threads, PCs
  <1>2. RingTypeOK /\ TaskTypeOK
    BY TypeOKSplit
  <1>3. CASE Halt
    <2>1. UNCHANGED <<ring, filled, user, quit, mem, event, pc, lock, write_lock,
                      req, hold, live>> /\ halted' \in BOOLEAN
      BY <1>3 DEF Halt, sync
    <2>2. RingTypeOK' /\ RingLayout' /\ get_available_size' >= get_available_size /\ wp' = wp
      BY <1>2, <2>1, SameRing, AvailableType, SMT
    <2>3. TaskTypeOK'
      BY <1>2, <2>1, Zenon DEF TaskTypeOK
    <2> QED BY <2>1, <2>2, <2>3, OtherStep
  <1>4. CASE ~Halt
    <2>1. /\ HaveData /\ Consume(HeadAt(rp).size) /\ Signal({CONSUME}, f, "consuming")
          /\ UNCHANGED <<wp, user, quit, mem, lock, write_lock, req, hold, halted>>
      BY <1>4 DEF ConsumeOne
    <2>2. RingTypeOK' /\ RingLayout' /\ get_available_size' >= get_available_size
      BY <1>2, <2>1, ConsumeKeepsLayout
    <2>3. /\ pc' \in [Threads -> PCs] /\ event' \subseteq {ARRIVE, CONSUME, USER_FREE}
          /\ \A x \in Threads \ {f} :
                pc'[x] = pc[x] \/ (pc[x] \in Waiting /\ pc'[x] \in Waiting)
      BY <1>1, <1>2, <2>1, SignalKeeps DEF TaskTypeOK
    <2>4. TaskTypeOK'
      BY <1>2, <2>1, <2>3, Zenon DEF TaskTypeOK
    <2> QED BY <1>1, <2>1, <2>2, <2>3, <2>4, OtherStep
  <1> QED BY <1>3, <1>4

\* Steps of a task that only move it along, or start and end consume_all.
LEMMA QuietStep ==
    ASSUME IInv, NEW t \in Threads, NEW next \in PCs, Goto(t, next),
           t \notin Writers \/ (pc[t] \in Waiting /\ next \in Waiting),
           user' \in Int, event' \subseteq {ARRIVE, CONSUME, USER_FREE},
           lock' \in Flushers \cup {NoThread},
           hold' \in [Writers \cup Readers -> Blocks],
           \A x \in Writers : hold'[x] = hold[x],
           UNCHANGED <<ring, filled, quit, mem, write_lock, req, halted, live>>
    PROVE  IInv'
  <1> USE DEF IInv
  <1>1. RingTypeOK /\ TaskTypeOK /\ Writers \subseteq Threads
    BY TypeOKSplit DEF Threads
  <1>2. RingTypeOK' /\ RingLayout' /\ get_available_size' >= get_available_size /\ wp' = wp
    BY <1>1, SameRing, AvailableType, SMT
  <1>3. pc' \in [Threads -> PCs] /\ pc'[t] = next
        /\ \A x \in Threads \ {t} : pc'[x] = pc[x]
    BY <1>1, GotoKeeps DEF TaskTypeOK
  <1>4. TaskTypeOK'
    BY <1>1, <1>3, Zenon DEF TaskTypeOK
  <1> QED BY <1>1, <1>2, <1>3, <1>4, OtherStep

\* data_queue_wakeup.
LEMMA WakeupStep ==
    ASSUME IInv, NEW c \in Closers, Wakeup(c)
    PROVE  IInv'
  <1> USE DEF IInv
  <1>1. c \in Threads /\ c \notin Writers /\ Writers \subseteq Threads
    BY ThreadAssumption DEF Threads
  <1>2. RingTypeOK /\ TaskTypeOK
    BY TypeOKSplit
  <1>3. PICK next \in PCs : Signal({ARRIVE, CONSUME}, c, next)
    BY DEF Wakeup, PCs
  <1>4. quit' \in BOOLEAN /\ UNCHANGED <<ring, filled, user, mem, lock, write_lock,
                                         req, hold, halted, live>>
    BY DEF Wakeup
  <1>5. RingTypeOK' /\ RingLayout' /\ get_available_size' >= get_available_size /\ wp' = wp
    BY <1>2, <1>4, SameRing, AvailableType, SMT
  <1>6. /\ pc' \in [Threads -> PCs] /\ event' \subseteq {ARRIVE, CONSUME, USER_FREE}
        /\ \A x \in Threads \ {c} :
              pc'[x] = pc[x] \/ (pc[x] \in Waiting /\ pc'[x] \in Waiting)
    BY <1>1, <1>2, <1>3, SignalKeeps DEF TaskTypeOK
  <1>7. TaskTypeOK'
    BY <1>2, <1>4, <1>6, Zenon DEF TaskTypeOK
  <1> QED BY <1>1, <1>4, <1>5, <1>6, <1>7, OtherStep

\* The invariant holds initially.
LEMMA InitIInv == Init => IInv
  <1> SUFFICES ASSUME Init PROVE IInv
    OBVIOUS
  <1>1. RingTypeOK
    <2>1. Garbage \in Cells
      BY SizeAssumption, SMT DEF Garbage, Cells
    <2>2. 0 \in 0 .. Size
      BY SizeAssumption, SMT
    <2> QED BY <2>1, <2>2 DEF Init, RingTypeOK
  <1>2. TaskTypeOK
    <2>1. user \in Int /\ 0 \in Nat
      BY DEF Init
    <2>2. pc \in [Threads -> PCs]
      BY DEF Init, PCs
    <2> QED BY <2>1, <2>2, NoBlockType, Zenon DEF Init, TaskTypeOK
  <1>3. RingLayout
    BY DEF Init, RingLayout, Tiles
  <1>4. WriteLockInv /\ ReservationHolds
    BY DEF Init, WriteLockInv, ReservationHolds, Waiting, Threads
  <1> QED BY <1>1, <1>2, <1>3, <1>4, TypeOKSplit DEF IInv

\* Every action of every task keeps it.
LEMMA NextIInv == IInv /\ [Next]_vars => IInv'
  <1> SUFFICES ASSUME IInv, [Next]_vars PROVE IInv'
    OBVIOUS
  <1> USE DEF IInv
  <1>0. RingTypeOK /\ TaskTypeOK
    BY TypeOKSplit
  <1>1. ASSUME NEW w \in Writers, NEW n \in Requests, GetBuffer(w, n) PROVE IInv'
    <2>1. n + HeadSize \in Nat \ {0} /\ {} \in SUBSET {ARRIVE, CONSUME, USER_FREE}
      BY SizeAssumption, SMT
    <2> QED BY <1>0, <1>1, <2>1, TryReserveStep DEF GetBuffer, TaskTypeOK
  <1>2. ASSUME NEW w \in Writers, RetryGetBuffer(w) PROVE IInv'
    <2>1. write_lock = w /\ req[w] \in Nat \ {0}
      BY <1>0, <1>2 DEF RetryGetBuffer, CanLock, WriteLockInv, Waiting, TaskTypeOK
    <2>2. user - 1 \in Int
      BY <1>0, SMT DEF TaskTypeOK
    <2> QED BY <1>2, <2>1, <2>2, TryReserveStep DEF RetryGetBuffer
  <1>3. ASSUME NEW w \in Writers, DropBuffer(w) PROVE IInv'
    <2>1. TaskTypeOK' /\ WriteLockInv' /\ ReservationHolds'
      BY <1>3, FinishWriteStep DEF DropBuffer, CanLock
    <2>2. RingTypeOK' /\ RingLayout'
      BY <1>0, <1>3, SameRing DEF DropBuffer
    <2> QED BY <2>1, <2>2 DEF TypeOK, RingTypeOK, TaskTypeOK
  <1>4. ASSUME NEW w \in Writers, NEW n \in Requests, NEW d \in Payload,
               SendBuffer(w, n, d)
        PROVE  IInv'
    <2>1. TaskTypeOK' /\ WriteLockInv' /\ ReservationHolds'
      BY <1>4, FinishWriteStep DEF SendBuffer, CanLock
    <2>2. n \in Nat \ {0}
      BY SizeAssumption
    <2>3. RingTypeOK' /\ RingLayout'
      BY <1>0, <1>4, <2>2, SendKeepsLayout DEF SendBuffer
    <2> QED BY <2>1, <2>3 DEF TypeOK, RingTypeOK, TaskTypeOK
  <1>5. ASSUME NEW w \in Writers, NEW n \in Requests, SendTooLarge(w, n) PROVE IInv'
    <2>1. TaskTypeOK' /\ WriteLockInv' /\ ReservationHolds'
      BY <1>5, FinishWriteStep DEF SendTooLarge, CanLock
    <2>2. RingTypeOK' /\ RingLayout'
      BY <1>0, <1>5, SameRing DEF SendTooLarge
    <2> QED BY <2>1, <2>2 DEF TypeOK, RingTypeOK, TaskTypeOK
  <1>6. ASSUME NEW r \in Readers, ReadLock(r) PROVE IInv'
    <2>1. user \in Int
      BY <1>0 DEF TaskTypeOK
    <2> QED BY <1>6, <2>1, TryReadStep DEF ReadLock
  <1>7. ASSUME NEW r \in Readers, RetryRead(r) PROVE IInv'
    <2>1. user - 1 \in Int
      BY <1>0, SMT DEF TaskTypeOK
    <2> QED BY <1>7, <2>1, TryReadStep DEF RetryRead
  <1>8. ASSUME NEW r \in Readers, PeekUnlock(r) PROVE IInv'
    <2>1. r \in Threads /\ r \notin Writers /\ r \in Writers \cup Readers
      BY ThreadAssumption DEF Threads
    <2>2. user' \in Int /\ Goto(r, "idle") /\ "idle" \in PCs
      BY <1>0, <1>8, SMT DEF PeekUnlock, TaskTypeOK, PCs
    <2>3. hold' = [hold EXCEPT ![r] = NoBlock]
          /\ UNCHANGED <<ring, filled, quit, mem, event, lock, write_lock, req, halted, live>>
      BY <1>8 DEF PeekUnlock
    <2>4. hold' \in [Writers \cup Readers -> Blocks] /\ \A x \in Writers : hold'[x] = hold[x]
      BY <1>0, <2>1, <2>3, NoBlockType DEF TaskTypeOK
    <2> QED BY <1>0, <2>1, <2>2, <2>3, <2>4, QuietStep DEF TaskTypeOK
  <1>9. ASSUME NEW f \in Flushers, ConsumeAll(f) \/ ConsumeAllDone(f) PROVE IInv'
    <2>1. f \in Threads /\ f \notin Writers /\ "idle" \in PCs /\ "consuming" \in PCs
      BY ThreadAssumption DEF Threads, PCs
    <2>2. Goto(f, "idle") \/ Goto(f, "consuming")
      BY <1>9 DEF ConsumeAll, ConsumeAllDone
    <2>3. lock' \in Flushers \cup {NoThread}
          /\ UNCHANGED <<ring, filled, user, quit, mem, event, write_lock, req, hold, halted, live>>
      BY <1>9 DEF ConsumeAll, ConsumeAllDone
    <2> QED BY <1>0, <2>1, <2>2, <2>3, QuietStep DEF TaskTypeOK
  <1>10. ASSUME NEW c \in Closers, RetryWakeup(c) PROVE IInv'
    <2>1. c \in Threads /\ c \notin Writers
      BY ThreadAssumption DEF Threads
    <2>2. PICK next \in PCs : Goto(c, next)
      BY <1>10 DEF RetryWakeup, PCs
    <2>3. UNCHANGED <<ring, filled, user, quit, mem, event, lock, write_lock, req,
                      hold, halted, live>>
      BY <1>10 DEF RetryWakeup
    <2> QED BY <1>0, <2>1, <2>2, <2>3, QuietStep DEF TaskTypeOK
  <1>11. ASSUME NEW t \in Threads, EnterWait(t) \/ ClearBits(t) PROVE IInv'
    <2>1. PICK next \in Waiting : Goto(t, next)
      BY <1>11 DEF EnterWait, ClearBits, Waiting
    <2>2. pc[t] \in Waiting /\ next \in PCs
      BY <1>11 DEF EnterWait, ClearBits, Waiting, PCs
    <2>3. event' \subseteq {ARRIVE, CONSUME, USER_FREE}
          /\ UNCHANGED <<ring, filled, user, quit, mem, lock, write_lock, req,
                         hold, halted, live>>
      BY <1>0, <1>11 DEF EnterWait, ClearBits, TaskTypeOK
    <2> QED BY <1>0, <2>1, <2>2, <2>3, QuietStep DEF TaskTypeOK
  <1>12. CASE Next
    <2>1. ASSUME NEW w \in Writers, WriterNext(w) PROVE IInv'
      BY <1>1, <1>2, <1>3, <1>4, <1>5, <2>1, Zenon DEF WriterNext
    <2>2. ASSUME NEW r \in Readers, ReaderNext(r) PROVE IInv'
      BY <1>6, <1>7, <1>8, <2>2, ReadUnlockStep, Zenon DEF ReaderNext
    <2>3. ASSUME NEW f \in Flushers, FlusherNext(f) PROVE IInv'
      BY <1>9, <2>3, ConsumeOneStep, Zenon DEF FlusherNext
    <2>4. ASSUME NEW c \in Closers, CloserNext(c) PROVE IInv'
      BY <1>10, <2>4, WakeupStep, Zenon DEF CloserNext
    <2>5. ASSUME NEW t \in Threads, WaitNext(t) PROVE IInv'
      BY <1>11, <2>5, Zenon DEF WaitNext
    <2> QED BY <1>12, <2>1, <2>2, <2>3, <2>4, <2>5, Zenon DEF Next
  <1>13. CASE UNCHANGED vars
    <2>1. UNCHANGED <<rp, wp, fill_end, filled, user, quit, mem, event, lock,
                      write_lock, pc, req, hold, halted, live>>
      BY <1>13 DEF vars
    <2>2. RingTypeOK' /\ RingLayout' /\ get_available_size' >= get_available_size /\ wp' = wp
      BY <1>0, <2>1, SameRing, AvailableType, SMT DEF ring
    <2>3. TaskTypeOK'
      BY <1>0, <2>1, Zenon DEF TaskTypeOK
    <2> QED BY <2>1, <2>2, <2>3, OtherStep
  <1> QED BY <1>12, <1>13

\* The inductive invariant of the ring buffer: its pointers, heads and
\* reservations, for every interleaving of writers, readers, flushers, closers.
THEOREM Invariance == Spec => []IInv
  <1> QED BY InitIInv, NextIInv, PTL DEF Spec

\* The fields of data_queue_t stay within the buffer.
THEOREM TypeCorrect == Spec => []TypeOK
  <1>1. IInv => TypeOK
    BY DEF IInv
  <1> QED BY <1>1, Invariance, PTL

\* No operation of data_queue.c loses, splits or overlaps a block.
THEOREM LayoutCorrect == Spec => []RingLayout
  <1>1. IInv => RingLayout
    BY DEF IInv
  <1> QED BY <1>1, Invariance, PTL

\* What get_buffer promised still holds when send_buffer is called.
THEOREM ReservationsHold == Spec => []ReservationHolds
  <1>1. IInv => ReservationHolds
    BY DEF IInv
  <1> QED BY <1>1, Invariance, PTL

\* read_lock, which counts back from the write position, and read_unlock,
\* which starts at the read position, work on the same block.
THEOREM OldestIsFound == Spec => []OldestFound
  <1>1. IInv => OldestFound
    BY TypeOKSplit, FrontIsLive, EmptinessAgrees DEF IInv, OldestFound
  <1> QED BY <1>1, Invariance, PTL

\* get_available never promises more than get_buffer can give at once.
THEOREM AvailableHonest == Spec => []AvailableIsHonest
  <1>1. IInv => AvailableIsHonest
    <2> SUFFICES ASSUME IInv, NEW n \in Requests, n <= data_queue_get_available
                 PROVE  Fits(Rewound(n + HeadSize), n + HeadSize)
      BY DEF AvailableIsHonest
    <2>1. RingTypeOK /\ RingLayout
      BY TypeOKSplit DEF IInv
    <2>2. n \in Nat \ {0} /\ HeadSize \in Nat \ {0} /\ Size \in Nat \ {0}
      BY SizeAssumption
    <2>3. CASE HaveData
      <3>1. get_available_size >= n + HeadSize
        BY <2>1, <2>2, <2>3, AvailableType, SMT DEF data_queue_get_available
      <3> QED BY <3>1 DEF Fits, Rewound, get_available_size
    <2>4. CASE ~HaveData
      <3>1. n + HeadSize <= Size
        BY <2>1, <2>2, <2>4, SMT DEF data_queue_get_available
      <3> QED BY <2>1, <2>2, <2>4, <3>1, SMT
              DEF RingTypeOK, HaveData, Fits, Rewound, get_available_size, Available
    <2> QED BY <2>3, <2>4
  <1> QED BY <1>1, Invariance, PTL

-----------------------------------------------------------------------------
(* Without consume_all *)

\* The sanity checks of read_lock and read_unlock never fire.
THEOREM NeverAborts == ASSUME Flushers = {} PROVE Spec => []NoAbort
  <1> DEFINE J == IInv /\ NoAbort
  <1>1. Init => J
    BY InitIInv DEF Init, NoAbort
  <1>2. J /\ [Next]_vars => J'
    <2> SUFFICES ASSUME J, [Next]_vars PROVE NoAbort'
      BY NextIInv
    <2>1. RingTypeOK /\ RingLayout
      BY TypeOKSplit DEF IInv
    <2>2. ASSUME HaveData PROVE HeadAt(rp).size \in 0 .. Size /\ ReadPos = rp
      BY <2>1, <2>2, FrontIsLive, SizeAssumption, SMT
    <2>3. ASSUME NEW r \in Readers, NEW u, NEW bits, TryRead(r, u, bits)
          PROVE  ~halted'
      <3>1. HaveDataFromLast => HaveData
        BY <2>1, EmptinessAgrees
      <3> QED BY <2>2, <2>3, <3>1 DEF TryRead, NoAbort
    <2>4. ASSUME NEW r \in Readers, ReaderNext(r) PROVE ~halted'
      BY <2>2, <2>3, <2>4
         DEF ReaderNext, ReadLock, RetryRead, ReadUnlock, PeekUnlock, NoAbort
    <2>5. ASSUME NEW w \in Writers, WriterNext(w) PROVE ~halted'
      BY <2>5 DEF WriterNext, GetBuffer, RetryGetBuffer, TryReserve, DropBuffer,
                  SendBuffer, SendTooLarge, NoAbort
    <2>6. ASSUME NEW t \in Threads, CloserNext(t) \/ WaitNext(t) PROVE ~halted'
      BY <2>6 DEF CloserNext, Wakeup, RetryWakeup, WaitNext, EnterWait, ClearBits,
                  NoAbort
    <2> QED BY <2>4, <2>5, <2>6 DEF Next, Threads, vars, NoAbort
  <1>3. J => NoAbort
    OBVIOUS
  <1> QED BY <1>1, <1>2, <1>3, PTL DEF Spec

-----------------------------------------------------------------------------
(* Nobody sleeps through what it waits for *)

\* What the loops around the waits look for.
WriterMayGo(w) == quit \/ Fits(Rewound(req[w]), req[w])
ReaderMayGo == quit \/ HaveDataFromLast

\* A writer that sleeps cannot go on; if it can before it sleeps, its bit is set.
WritersAwake ==
    \A w \in Writers : /\ pc[w] = "blocked" => ~WriterMayGo(w)
                       /\ pc[w] = "enter" => ~WriterMayGo(w) \/ CONSUME \in event

\* The same of a reader.
ReadersAwake ==
    \A r \in Readers : /\ pc[r] = "blocked" => ~ReaderMayGo
                       /\ pc[r] = "enter" => ~ReaderMayGo \/ ARRIVE \in event

\* A step of another task keeps it when it sets the bit, or changes nothing that is looked for.
LEMMA OthersWakeWriter ==
    ASSUME TaskTypeOK, WritersAwake, NEW w \in Writers, NEW t \in Threads, t # w,
           NEW bits, NEW next, Signal(bits, t, next), req'[w] = req[w],
           CONSUME \in bits \/ UNCHANGED <<ring, quit>>
    PROVE  /\ pc'[w] = "blocked" => ~WriterMayGo(w)'
           /\ pc'[w] = "enter" => ~WriterMayGo(w)' \/ CONSUME \in event'
  <1>1. w \in Threads /\ WaitBit(w) = CONSUME
    BY DEF Threads, WaitBit
  <1>2. /\ pc'[w] = IF pc[w] = "blocked" /\ CONSUME \in bits THEN "clear" ELSE pc[w]
        /\ event' = event \cup bits
    BY <1>1 DEF Signal
  <1>3. CASE CONSUME \in bits
    BY <1>2, <1>3
  <1>4. CASE UNCHANGED <<ring, quit>>
    <2>1. WriterMayGo(w)' <=> WriterMayGo(w)
      BY <1>4 DEF WriterMayGo, ring, Fits, Rewound, Available, get_available_size
    <2> QED BY <1>2, <2>1 DEF WritersAwake
  <1> QED BY <1>3, <1>4

\* So does one that neither moves the writer nor touches its bit.
LEMMA WriterUndisturbed ==
    ASSUME WritersAwake, NEW w \in Writers, pc'[w] = pc[w], UNCHANGED <<ring, quit>>,
           req'[w] = req[w], CONSUME \in event => CONSUME \in event'
    PROVE  /\ pc'[w] = "blocked" => ~WriterMayGo(w)'
           /\ pc'[w] = "enter" => ~WriterMayGo(w)' \/ CONSUME \in event'
  <1>1. WriterMayGo(w)' <=> WriterMayGo(w)
    BY DEF WriterMayGo, ring, Fits, Rewound, Available, get_available_size
  <1> QED BY <1>1 DEF WritersAwake

\* get_buffer waits only when there is no room, in the ring as it leaves it.
LEMMA ReserveWaits ==
    ASSUME IInv, NEW w \in Writers, NEW need \in Nat \ {0}, NEW u, NEW bits,
           TryReserve(w, need, u, bits)
    PROVE  pc'[w] # "blocked" /\ (pc'[w] = "enter" => ~WriterMayGo(w)')
  <1>1. w \in Threads /\ pc \in [Threads -> PCs] /\ req \in [Writers -> Nat] /\ quit \in BOOLEAN
    BY DEF IInv, TypeOK, Threads
  <1>2. req'[w] = need /\ quit' = quit
    BY <1>1 DEF TryReserve
  <1>3. CASE quit
    BY <1>1, <1>3 DEF TryReserve, Signal
  <1>4. CASE ~quit
    <2>1. PICK r : r = Rewound(need)
      OBVIOUS
    <2>2. rp' = r.rp /\ wp' = r.wp /\ fill_end' = r.fill_end
      BY <1>4, <2>1 DEF TryReserve
    <2>3. CASE Fits(r, need)
      BY <1>1, <1>4, <2>1, <2>3 DEF TryReserve, Signal
    <2>4. CASE ~Fits(r, need)
      <3>1. pc'[w] = "enter"
        BY <1>1, <1>4, <2>1, <2>4 DEF TryReserve, Signal
      <3>2. Rewound(need)' = r /\ get_available_size' < need
        <4>1. rp \in 0 .. Size /\ wp \in 0 .. Size /\ fill_end \in 0 .. Size
          BY DEF IInv, TypeOK
        <4>2. fill_end = 0 => rp <= wp
          BY DEF IInv, RingLayout
        <4>3. CASE get_available_size >= need
          BY <2>1, <2>4, <4>3 DEF Rewound, Fits, get_available_size
        <4>4. CASE ~(get_available_size >= need) /\ fill_end # 0
          BY <2>1, <2>2, <2>4, <4>1, <4>4, SizeAssumption DEF Rewound, Fits, get_available_size, Available
        <4>5. CASE ~(get_available_size >= need) /\ fill_end = 0 /\ wp = rp
          <5>1. r = [rp |-> 0, wp |-> 0, fill_end |-> 0]
            BY <2>1, <4>5 DEF Rewound
          <5>2. rp' = 0 /\ wp' = 0 /\ fill_end' = 0
            BY <2>2, <5>1
          <5>3. get_available_size' < need
            BY <2>4, <5>1, <5>2, SizeAssumption DEF Fits, get_available_size, Available
          <5>4. Rewound(need)' = [rp |-> 0, wp |-> 0, fill_end |-> 0]
            BY <5>2, <5>3, SizeAssumption DEF Rewound, get_available_size, Available
          <5> QED BY <5>1, <5>3, <5>4
        <4>6. CASE ~(get_available_size >= need) /\ fill_end = 0 /\ wp # rp
          <5>1. r = [rp |-> rp, wp |-> 0, fill_end |-> wp]
            BY <2>1, <4>6 DEF Rewound
          <5>2. wp # 0 /\ fill_end' # 0
            BY <2>2, <4>1, <4>2, <4>6, <5>1
          <5>3. get_available_size' = Available(r.rp, r.wp, r.fill_end)
            BY <2>2 DEF get_available_size
          <5>4. Available(r.rp, r.wp, r.fill_end) < need
            BY <2>4, <4>1, <5>1, SizeAssumption DEF Fits, Available
          <5>5. Rewound(need)' = [rp |-> rp', wp |-> wp', fill_end |-> fill_end']
            BY <5>2 DEF Rewound
          <5> QED BY <2>2, <5>1, <5>3, <5>4, <5>5
        <4> QED BY <4>3, <4>4, <4>5, <4>6
      <3>3. WriterMayGo(w)' <=> Fits(r, need)
        BY <1>2, <1>4, <3>2 DEF WriterMayGo, Fits, Available
      <3> QED BY <2>4, <3>1, <3>3
    <2> QED BY <2>3, <2>4
  <1> QED BY <1>3, <1>4

LEMMA NextWritersAwake == IInv /\ WritersAwake /\ [Next]_vars => WritersAwake'
  <1> SUFFICES ASSUME IInv, WritersAwake, [Next]_vars, NEW w \in Writers
               PROVE  /\ pc'[w] = "blocked" => ~WriterMayGo(w)'
                      /\ pc'[w] = "enter" => ~WriterMayGo(w)' \/ CONSUME \in event'
    BY DEF WritersAwake
  <1> DEFINE Awake == /\ pc'[w] = "blocked" => ~WriterMayGo(w)'
                      /\ pc'[w] = "enter" => ~WriterMayGo(w)' \/ CONSUME \in event'
  <1>0. /\ TaskTypeOK /\ w \in Threads /\ pc \in [Threads -> PCs] /\ req \in [Writers -> Nat]
        /\ WaitBit(w) = CONSUME
    BY TypeOKSplit DEF IInv, TaskTypeOK, Threads, WaitBit
  <1>1. pc[w] \in {"enter", "blocked", "clear", "relock", "filling"} => write_lock = w
    BY DEF IInv, WriteLockInv, Waiting
  <1>2. ASSUME NEW x \in Writers, x # w, write_lock \in {x, NoThread}, NEW bits, NEW next, Signal(bits, x, next)
        PROVE  Awake
    <2>1. pc[w] \notin {"enter", "blocked"}
      BY <1>1, <1>2, ThreadAssumption DEF Threads
    <2>2. pc'[w] = pc[w]
      BY <1>0, <1>2, <2>1 DEF Signal
    <2> QED BY <2>1, <2>2
  <1>3. ASSUME NEW x \in Writers, NEW need \in Nat \ {0}, NEW u, NEW bits,
               write_lock \in {x, NoThread}, TryReserve(x, need, u, bits)
        PROVE  Awake
    <2>1. CASE x = w
      BY <1>3, <2>1, ReserveWaits
    <2>2. CASE x # w
      <3>1. PICK next : Signal(bits, x, next)
        BY <1>3 DEF TryReserve
      <3> QED BY <1>2, <1>3, <2>2, <3>1
    <2> QED BY <2>1, <2>2
  <1>4. ASSUME NEW x \in Writers, NEW bits, CanLock(x, "filling"), FinishWrite(x, bits)
        PROVE  Awake
    <2>1. Signal(bits, x, "idle") /\ pc[x] = "filling"
      BY <1>4 DEF FinishWrite, CanLock
    <2>2. CASE x = w
      BY <1>0, <2>1, <2>2 DEF Signal
    <2>3. CASE x # w
      <3>1. write_lock = x
        BY <2>1 DEF IInv, WriteLockInv
      <3> QED BY <1>2, <2>1, <2>3, <3>1
    <2> QED BY <2>2, <2>3
  <1>5. ASSUME NEW t \in Threads, t # w, NEW bits, NEW next, Signal(bits, t, next), req' = req,
               CONSUME \in bits \/ UNCHANGED <<ring, quit>>
        PROVE  Awake
    BY <1>0, <1>5, OthersWakeWriter, Zenon
  <1>6. ASSUME NEW t \in Threads, t # w, NEW next, Goto(t, next), req' = req, UNCHANGED <<ring, quit>>,
               CONSUME \in event => CONSUME \in event'
        PROVE  Awake
    <2>1. pc'[w] = pc[w]
      BY <1>0, <1>6 DEF Goto
    <2> QED BY <1>6, <2>1, WriterUndisturbed, Zenon
  <1> HIDE DEF Awake
  <1>7. ASSUME NEW x \in Writers, WriterNext(x) PROVE Awake
    <2>1. ASSUME NEW n \in Requests, GetBuffer(x, n) PROVE Awake
      <3>1. n + HeadSize \in Nat \ {0}
        BY SizeAssumption
      <3> QED BY <1>3, <2>1, <3>1 DEF GetBuffer
    <2>2. CASE RetryGetBuffer(x)
      <3>1. write_lock = x /\ req[x] \in Nat \ {0}
        BY <1>0, <2>2 DEF IInv, WriteLockInv, Waiting, RetryGetBuffer, CanLock
      <3> QED BY <1>3, <2>2, <3>1 DEF RetryGetBuffer
    <2>3. CASE DropBuffer(x)
      BY <1>4, <2>3 DEF DropBuffer
    <2>4. ASSUME NEW n \in Requests, NEW d \in Payload, SendBuffer(x, n, d) PROVE Awake
      BY <1>4, <2>4 DEF SendBuffer
    <2>5. ASSUME NEW n \in Requests, SendTooLarge(x, n) PROVE Awake
      BY <1>4, <2>5 DEF SendTooLarge
    <2> QED BY <1>7, <2>1, <2>2, <2>3, <2>4, <2>5, Zenon DEF WriterNext
  <1>8. ASSUME NEW r \in Readers, ReaderNext(r) PROVE Awake
    <2>1. r \in Threads /\ r # w
      BY ThreadAssumption DEF Threads
    <2>2. ASSUME NEW u, NEW bits, TryRead(r, u, bits) PROVE Awake
      <3>1. PICK next : Signal(bits, r, next)
        BY <2>2 DEF TryRead
      <3>2. req' = req /\ UNCHANGED <<ring, quit>>
        BY <2>2 DEF TryRead
      <3> QED BY <1>5, <2>1, <3>1, <3>2
    <2>3. CASE ReadUnlock(r) /\ ~HaveData
      BY <1>6, <2>1, <2>3 DEF ReadUnlock
    <2>4. CASE ReadUnlock(r) /\ HaveData
      <3>1. Signal({CONSUME, USER_FREE}, r, "idle") /\ req' = req
        BY <2>4 DEF ReadUnlock
      <3> QED BY <1>5, <2>1, <3>1
    <2>5. CASE PeekUnlock(r)
      BY <1>6, <2>1, <2>5 DEF PeekUnlock
    <2> QED BY <1>8, <2>2, <2>3, <2>4, <2>5 DEF ReaderNext, ReadLock, RetryRead
  <1>9. ASSUME NEW f \in Flushers, FlusherNext(f) PROVE Awake
    <2>1. f \in Threads /\ f # w
      BY ThreadAssumption DEF Threads
    <2>2. CASE ConsumeAll(f) \/ ConsumeAllDone(f)
      BY <1>6, <2>1, <2>2 DEF ConsumeAll, ConsumeAllDone
    <2>3. CASE ConsumeOne(f)
      <3>1. \/ Signal({CONSUME}, f, "consuming") /\ req' = req
            \/ UNCHANGED <<ring, quit, pc, req, event>>
        BY <2>3 DEF ConsumeOne, Halt, sync
      <3> QED BY <1>5, <2>1, <3>1, WriterUndisturbed DEF Awake
    <2> QED BY <1>9, <2>2, <2>3 DEF FlusherNext
  <1>10. ASSUME NEW c \in Closers, CloserNext(c) PROVE Awake
    <2>1. c \in Threads /\ c # w
      BY ThreadAssumption DEF Threads
    <2>2. CASE Wakeup(c)
      <3>1. Signal({ARRIVE, CONSUME}, c, IF user = 0 THEN "done" ELSE "enter") /\ req' = req
        BY <2>2 DEF Wakeup
      <3> QED BY <1>5, <2>1, <3>1
    <2>3. CASE RetryWakeup(c)
      BY <1>6, <2>1, <2>3 DEF RetryWakeup
    <2> QED BY <1>10, <2>2, <2>3 DEF CloserNext
  <1>11. ASSUME NEW t \in Threads, WaitNext(t) PROVE Awake
    <2>1. UNCHANGED <<ring, quit>> /\ req' = req
      BY <1>11 DEF WaitNext, EnterWait, ClearBits
    <2>2. CASE t = w /\ EnterWait(t)
      <3>1. /\ pc[w] = "enter" /\ pc'[w] = IF CONSUME \in event THEN "clear" ELSE "blocked"
        BY <1>0, <2>2 DEF EnterWait, Goto
      <3>2. WriterMayGo(w)' <=> WriterMayGo(w)
        BY <2>1 DEF WriterMayGo, ring, Fits, Rewound, Available, get_available_size
      <3> QED BY <3>1, <3>2 DEF Awake, WritersAwake
    <2>3. CASE t = w /\ ClearBits(t)
      BY <1>0, <2>3 DEF ClearBits, Goto, Awake
    <2>4. CASE t # w /\ EnterWait(t)
      <3>1. event' = event /\ \E next : Goto(t, next)
        BY <2>4 DEF EnterWait
      <3> QED BY <1>6, <2>1, <2>4, <3>1
    <2>5. CASE t # w /\ ClearBits(t)
      <3>1. pc[t] = "clear" /\ event' = event \ {WaitBit(t)} /\ Goto(t, "relock")
        BY <2>5 DEF ClearBits
      <3>2. CASE t \in Writers
        <4>1. write_lock = t
          BY <3>1, <3>2 DEF IInv, WriteLockInv, Waiting
        <4>2. pc'[w] = pc[w] /\ pc[w] \notin {"enter", "blocked"}
          BY <1>0, <1>1, <2>5, <3>1, <4>1 DEF Goto
        <4> QED BY <4>2 DEF Awake
      <3>3. CASE t \notin Writers
        <4>1. WaitBit(t) # CONSUME
          BY <3>3 DEF WaitBit, ARRIVE, CONSUME, USER_FREE
        <4>2. CONSUME \in event => CONSUME \in event'
          BY <3>1, <4>1
        <4> QED BY <1>6, <2>1, <2>5, <3>1, <4>2
      <3> QED BY <3>2, <3>3
    <2> QED BY <1>11, <2>2, <2>3, <2>4, <2>5 DEF WaitNext
  <1>12. CASE UNCHANGED vars
    <2>1. pc' = pc /\ UNCHANGED <<ring, quit>> /\ req' = req /\ event' = event
      BY <1>12 DEF vars, ring
    <2> QED BY <2>1, WriterUndisturbed DEF Awake
  <1>13. ASSUME Next PROVE Awake
    BY <1>7, <1>8, <1>9, <1>10, <1>11, <1>13, Zenon DEF Next
  <1> QED BY <1>12, <1>13 DEF Awake

\* A writer in get_buffer does not sleep through the room it waits for, nor through quit:
\* what makes room, and what sets quit, sets CONSUME, which nobody but the one writer that
\* holds write_lock clears before it looks again.
THEOREM WriterSleepsForCause ==
    Spec => [](\A w \in Writers : pc[w] = "blocked" => ~WriterMayGo(w))
  <1>1. Init => WritersAwake
    BY DEF Init, WritersAwake, Threads
  <1>2. WritersAwake => \A w \in Writers : pc[w] = "blocked" => ~WriterMayGo(w)
    BY DEF WritersAwake
  <1>3. IInv /\ WritersAwake /\ [Next]_vars => WritersAwake'
    BY NextWritersAwake
  <1> QED BY <1>1, <1>2, <1>3, Invariance, PTL DEF Spec

-----------------------------------------------------------------------------
\* A step of another task keeps what is said of a reader.
LEMMA ReaderUndisturbed ==
    ASSUME ReadersAwake, NEW r \in Readers, pc'[r] = pc[r] \/ (pc[r] = "blocked" /\ pc'[r] = "clear"),
           ReaderMayGo' => ReaderMayGo \/ (ARRIVE \in event' /\ pc'[r] # "blocked"),
           ARRIVE \in event => ARRIVE \in event'
    PROVE  /\ pc'[r] = "blocked" => ~ReaderMayGo'
           /\ pc'[r] = "enter" => ~ReaderMayGo' \/ ARRIVE \in event'
  BY DEF ReadersAwake

LEMMA NextReadersAwake ==
    ASSUME \A r, x \in Readers : r = x, IInv, ReadersAwake, [Next]_vars
    PROVE  ReadersAwake'
  <1> SUFFICES ASSUME NEW r \in Readers
               PROVE  /\ pc'[r] = "blocked" => ~ReaderMayGo'
                      /\ pc'[r] = "enter" => ~ReaderMayGo' \/ ARRIVE \in event'
    BY DEF ReadersAwake
  <1> DEFINE Awake == /\ pc'[r] = "blocked" => ~ReaderMayGo'
                      /\ pc'[r] = "enter" => ~ReaderMayGo' \/ ARRIVE \in event'
  <1>0. /\ TaskTypeOK /\ RingTypeOK /\ RingLayout /\ r \in Threads /\ pc \in [Threads -> PCs]
        /\ r \notin Writers /\ WaitBit(r) = ARRIVE
    BY TypeOKSplit, ThreadAssumption DEF IInv, TaskTypeOK, Threads, WaitBit
  <1>1. ASSUME NEW t \in Threads, t # r, NEW bits, NEW next, Signal(bits, t, next),
               ReaderMayGo' => ReaderMayGo \/ ARRIVE \in bits
        PROVE  Awake
    <2>1. /\ pc'[r] = IF pc[r] = "blocked" /\ ARRIVE \in bits THEN "clear" ELSE pc[r]
          /\ event' = event \cup bits
      BY <1>0, <1>1 DEF Signal
    <2> QED BY <1>1, <2>1, ReaderUndisturbed
  <1>2. ASSUME NEW t \in Threads, t # r, NEW next, Goto(t, next), UNCHANGED <<filled, quit>>,
               ARRIVE \in event => ARRIVE \in event'
        PROVE  Awake
    <2>1. pc'[r] = pc[r] /\ (ReaderMayGo' <=> ReaderMayGo)
      BY <1>0, <1>2 DEF Goto, ReaderMayGo, HaveDataFromLast
    <2> QED BY <1>2, <2>1, ReaderUndisturbed
  <1>3. ASSUME NEW u, NEW bits, TryRead(r, u, bits) PROVE Awake
    <2>1. UNCHANGED <<filled, quit>>
      BY <1>3 DEF TryRead
    <2>2. pc'[r] # "blocked" /\ (pc'[r] = "enter" => ~quit /\ ~HaveDataFromLast)
      BY <1>0, <1>3 DEF TryRead, Signal
    <2> QED BY <2>1, <2>2 DEF ReaderMayGo, HaveDataFromLast
  <1>4. ASSUME pc'[r] = "idle" PROVE Awake
    BY <1>4
  <1> HIDE DEF Awake
  <1>5. ASSUME NEW w \in Writers, WriterNext(w) PROVE Awake
    <2>1. w \in Threads /\ w # r
      BY <1>0 DEF Threads
    <2>2. ASSUME NEW need, NEW u, NEW bits, TryReserve(w, need, u, bits) PROVE Awake
      <3>1. UNCHANGED <<filled, quit>> /\ \E next : Signal(bits, w, next)
        BY <2>2 DEF TryReserve
      <3>2. ReaderMayGo' <=> ReaderMayGo
        BY <3>1 DEF ReaderMayGo, HaveDataFromLast
      <3> QED BY <1>1, <2>1, <3>1, <3>2
    <2>3. ASSUME DropBuffer(w) \/ \E n \in Requests : SendTooLarge(w, n) PROVE Awake
      <3>1. UNCHANGED <<filled, quit>> /\ Signal({USER_FREE}, w, "idle")
        BY <2>3 DEF DropBuffer, SendTooLarge, FinishWrite
      <3>2. ReaderMayGo' <=> ReaderMayGo
        BY <3>1 DEF ReaderMayGo, HaveDataFromLast
      <3> QED BY <1>1, <2>1, <3>1, <3>2
    <2>4. ASSUME NEW n \in Requests, NEW d \in Payload, SendBuffer(w, n, d) PROVE Awake
      <3>1. Signal({ARRIVE, USER_FREE}, w, "idle")
        BY <2>4 DEF SendBuffer, FinishWrite
      <3> QED BY <1>1, <2>1, <3>1
    <2> QED BY <1>5, <2>2, <2>3, <2>4 DEF WriterNext, GetBuffer, RetryGetBuffer
  <1>6. ASSUME NEW x \in Readers, ReaderNext(x) PROVE Awake
    <2>1. x = r
      OBVIOUS
    <2>2. CASE ReadUnlock(r) \/ PeekUnlock(r)
      <3>1. pc'[r] = "idle"
        BY <1>0, <2>2 DEF ReadUnlock, PeekUnlock, Signal, Goto
      <3> QED BY <1>4, <3>1
    <2> QED BY <1>3, <1>6, <2>1, <2>2 DEF ReaderNext, ReadLock, RetryRead
  <1>7. ASSUME NEW f \in Flushers, FlusherNext(f) PROVE Awake
    <2>1. f \in Threads /\ f # r
      BY ThreadAssumption DEF Threads
    <2>2. CASE ConsumeAll(f) \/ ConsumeAllDone(f)
      <3>1. /\ UNCHANGED <<filled, quit>> /\ event' = event
            /\ (Goto(f, "idle") \/ Goto(f, "consuming"))
        BY <2>2 DEF ConsumeAll, ConsumeAllDone
      <3> QED BY <1>2, <2>1, <3>1
    <2>3. CASE ConsumeOne(f)
      <3>1. CASE Signal({CONSUME}, f, "consuming") /\ quit' = quit
        <4>1. ReaderMayGo
          BY <1>0, <2>3, EmptinessAgrees DEF ConsumeOne, ReaderMayGo
        <4> QED BY <1>1, <2>1, <3>1, <4>1
      <3>2. CASE UNCHANGED <<filled, quit, pc, event>>
        BY <3>2, ReaderUndisturbed DEF Awake, ReaderMayGo, HaveDataFromLast
      <3> QED BY <2>3, <3>1, <3>2 DEF ConsumeOne, Halt, sync
    <2> QED BY <1>7, <2>2, <2>3 DEF FlusherNext
  <1>8. ASSUME NEW c \in Closers, CloserNext(c) PROVE Awake
    <2>1. c \in Threads /\ c # r
      BY ThreadAssumption DEF Threads
    <2>2. CASE Wakeup(c)
      <3>1. Signal({ARRIVE, CONSUME}, c, IF user = 0 THEN "done" ELSE "enter")
        BY <2>2 DEF Wakeup
      <3> QED BY <1>1, <2>1, <3>1
    <2>3. CASE RetryWakeup(c)
      <3>1. /\ UNCHANGED <<filled, quit>> /\ event' = event /\ \E next : Goto(c, next)
        BY <2>3 DEF RetryWakeup
      <3> QED BY <1>2, <2>1, <3>1
    <2> QED BY <1>8, <2>2, <2>3 DEF CloserNext
  <1>9. ASSUME NEW t \in Threads, WaitNext(t) PROVE Awake
    <2>1. UNCHANGED <<filled, quit>>
      BY <1>9 DEF WaitNext, EnterWait, ClearBits
    <2>2. CASE t = r /\ EnterWait(t)
      <3>1. /\ pc[r] = "enter" /\ pc'[r] = IF ARRIVE \in event THEN "clear" ELSE "blocked"
        BY <1>0, <2>2 DEF EnterWait, Goto
      <3> QED BY <2>1, <3>1 DEF Awake, ReadersAwake, ReaderMayGo, HaveDataFromLast
    <2>3. CASE t = r /\ ClearBits(t)
      BY <1>0, <2>3 DEF ClearBits, Goto, Awake
    <2>4. CASE t # r /\ EnterWait(t)
      <3>1. event' = event /\ \E next : Goto(t, next)
        BY <2>4 DEF EnterWait
      <3> QED BY <1>2, <2>1, <2>4, <3>1
    <2>5. CASE t # r /\ ClearBits(t)
      <3>1. event' = event \ {WaitBit(t)} /\ Goto(t, "relock")
        BY <2>5 DEF ClearBits
      <3>2. WaitBit(t) # ARRIVE
        BY <2>5 DEF WaitBit, ARRIVE, CONSUME, USER_FREE
      <3>3. ARRIVE \in event => ARRIVE \in event'
        BY <3>1, <3>2
      <3> QED BY <1>2, <2>1, <2>5, <3>1, <3>3
    <2> QED BY <1>9, <2>2, <2>3, <2>4, <2>5 DEF WaitNext
  <1>10. ASSUME UNCHANGED vars PROVE Awake
    <2>1. pc' = pc /\ UNCHANGED <<filled, quit>> /\ event' = event
      BY <1>10 DEF vars
    <2> QED BY <2>1, ReaderUndisturbed DEF Awake, ReaderMayGo, HaveDataFromLast
  <1>11. ASSUME Next PROVE Awake
    BY <1>5, <1>6, <1>7, <1>8, <1>9, <1>11, Zenon DEF Next
  <1> QED BY <1>10, <1>11 DEF Awake

\* A queue's reader does not sleep while a block is there to read, nor through quit, as
\* long as it is the only one (each queue of av_render.c has the one thread that reads it):
\* of two readers one may clear the bit that was meant for the other.
THEOREM ReaderSleepsForCause ==
    ASSUME \A r, x \in Readers : r = x
    PROVE  Spec => [](\A r \in Readers : pc[r] = "blocked" => ~ReaderMayGo)
  <1>1. Init => ReadersAwake
    BY DEF Init, ReadersAwake, Threads
  <1>2. ReadersAwake => \A r \in Readers : pc[r] = "blocked" => ~ReaderMayGo
    BY DEF ReadersAwake
  <1>3. IInv /\ ReadersAwake /\ [Next]_vars => ReadersAwake'
    BY NextReadersAwake
  <1> QED BY <1>1, <1>2, <1>3, Invariance, PTL DEF Spec

-----------------------------------------------------------------------------
(* The walk of data_queue_query ends *)

\* Every set of natural numbers has a smallest element, and what holds of 0 and of the
\* successor of each number of which it holds, holds of all: the induction of the
\* proofs below, over sets, since no prover here instantiates an operator.
LEMMA NatMin ==
    ASSUME NEW T, T \subseteq Nat, T # {}
    PROVE  \E x \in T : \A y \in T : ~(y < x)
  <1>1. IsWellFoundedOn(OpToRel(<, Nat), Nat)
    BY NatLessThanWellFounded
  <1>2. PICK x \in T : \A y \in T : ~(<<y, x>> \in OpToRel(<, Nat))
    BY <1>1, WFMin
  <1>3. \A y \in T : ~(y < x)
    BY <1>2 DEF OpToRel
  <1> QED BY <1>3

LEMMA NatInd ==
    ASSUME NEW S, 0 \in S, \A n \in Nat : n \in S => n + 1 \in S
    PROVE  Nat \subseteq S
  <1>1. SUFFICES ASSUME Nat \ S # {} PROVE FALSE
    OBVIOUS
  <1>2. PICK x \in Nat \ S : \A y \in Nat \ S : ~(y < x)
    BY <1>1, NatMin
  <1>3. x # 0 /\ x - 1 \in Nat /\ x - 1 < x
    BY <1>2
  <1>4. x - 1 \in S
    BY <1>2, <1>3
  <1>5. x - 1 + 1 \in S
    BY <1>3, <1>4
  <1> QED BY <1>2, <1>5

\* A turn of the walk over the memory m of a ring with wp = e and fill_end = f, where h is
\* what the walk finds further on.
Points == (0 .. Size) \X BOOLEAN
HeadIn(m, p) == IF p \in DOMAIN m THEN m[p] ELSE Garbage
Turn(h, m, e, f, at) ==
    IF at = <<e, FALSE>> THEN <<>>
    ELSE LET b    == HeadIn(m, at[1])
             q    == at[1] + b.size
             next == IF at[2] /\ q = f THEN <<0, FALSE>> ELSE <<q, at[2]>>
         IN  IF b.size <= 0 \/ q > Size THEN <<Garbage>> ELSE <<b>> \o h[next]
Walk(m, e, f) == CHOOSE h : h = [at \in Points |-> Turn(h, m, e, f, at)]

\* Contents is this walk from rp on.
LEMMA ContentsWalk == Contents = IF HaveData THEN Walk(mem, wp, fill_end)[<<rp, fill_end # 0>>] ELSE <<>>
  BY DEF Contents, Walk, Turn, HeadAt, HeadIn, Points

\* How far the walk has to go at most.
Ahead(at) == IF at[2] THEN 2 * Size + 1 - at[1] ELSE Size - at[1]

\* It has a bound.
LEMMA AheadNat ==
    ASSUME NEW at \in Points PROVE Ahead(at) \in Nat /\ Ahead(at) <= 2 * Size + 1
  <1>1. at[1] \in 0 .. Size /\ at[2] \in BOOLEAN /\ Size \in Nat
    BY SizeAssumption DEF Points
  <1>2. CASE at[2]
    BY <1>1, <1>2 DEF Ahead
  <1>3. CASE ~at[2]
    BY <1>1, <1>3 DEF Ahead
  <1> QED BY <1>2, <1>3

\* A turn asks only for what is nearer to the end.
LEMMA TurnGoesOn ==
    ASSUME NEW m \in [0 .. Size - 1 -> Cells], NEW e, NEW f, NEW at \in Points, NEW h, NEW g,
           \A x \in Points : Ahead(x) < Ahead(at) => h[x] = g[x]
    PROVE  Turn(h, m, e, f, at) = Turn(g, m, e, f, at)
  <1> DEFINE b == HeadIn(m, at[1])
             q == at[1] + b.size
             next == IF at[2] /\ q = f THEN <<0, FALSE>> ELSE <<q, at[2]>>
  <1>1. at[1] \in 0 .. Size /\ at[2] \in BOOLEAN /\ Size \in Nat
    BY SizeAssumption DEF Points
  <1>2. b.size \in Int
    BY <1>1 DEF HeadIn, Cells, Garbage
  <1>3. CASE b.size <= 0 \/ q > Size
    BY <1>3 DEF Turn
  <1>4. CASE ~(b.size <= 0 \/ q > Size)
    <2>1. q \in 0 .. Size /\ at[1] < q
      BY <1>1, <1>2, <1>4
    <2>2. next \in Points /\ Ahead(next) < Ahead(at)
      <3>1. CASE at[2] /\ q = f
        <4>1. next = <<0, FALSE>> /\ Ahead(at) = 2 * Size + 1 - at[1]
          BY <3>1 DEF Ahead
        <4>0. 0 \in 0 .. Size /\ Size - 0 = Size
          BY <1>1
        <4>2. <<0, FALSE>> \in Points /\ Ahead(<<0, FALSE>>) = Size
          BY <4>0 DEF Points, Ahead
        <4>3. Size < 2 * Size + 1 - at[1]
          BY <1>1
        <4> QED BY <4>1, <4>2, <4>3
      <3>2. CASE q # f /\ at[2]
        <4>1. next = <<q, TRUE>> /\ Ahead(at) = 2 * Size + 1 - at[1]
          BY <1>1, <3>2 DEF Ahead
        <4>2. <<q, TRUE>> \in Points /\ Ahead(<<q, TRUE>>) = 2 * Size + 1 - q
          BY <2>1 DEF Points, Ahead
        <4>3. 2 * Size + 1 - q < 2 * Size + 1 - at[1]
          BY <1>1, <2>1
        <4> QED BY <4>1, <4>2, <4>3
      <3>3. CASE ~at[2]
        BY <1>1, <2>1, <3>3 DEF Points, Ahead
      <3> QED BY <3>1, <3>2, <3>3
    <2>3. h[next] = g[next]
      BY <2>2
    <2> QED BY <2>3 DEF Turn
  <1> QED BY <1>3, <1>4

\* So there is a function that is what each of its turns says ...
LEMMA WalkExists ==
    ASSUME NEW m \in [0 .. Size - 1 -> Cells], NEW e, NEW f
    PROVE  \E h : h = [at \in Points |-> Turn(h, m, e, f, at)]
  <1> DEFINE Upto(k, h) == \A x \in Points : Ahead(x) < k => h[x] = Turn(h, m, e, f, x)
             S == {k \in Nat : \E h : Upto(k, h)}
  <1>1. 0 \in S
    <2>1. Upto(0, m)
      BY AheadNat
    <2> QED BY <2>1
  <1>2. ASSUME NEW k \in Nat, k \in S PROVE k + 1 \in S
    <2>1. PICK h : Upto(k, h)
      BY <1>2
    <2> DEFINE g == [x \in Points |-> IF Ahead(x) < k THEN h[x] ELSE Turn(h, m, e, f, x)]
    <2>2. ASSUME NEW x \in Points, Ahead(x) < k + 1 PROVE g[x] = Turn(g, m, e, f, x)
      <3>1. \A y \in Points : Ahead(y) < Ahead(x) => g[y] = h[y]
        BY <2>2, AheadNat
      <3> HIDE DEF g
      <3>2. Turn(g, m, e, f, x) = Turn(h, m, e, f, x)
        BY <3>1, TurnGoesOn
      <3>3. g[x] = IF Ahead(x) < k THEN h[x] ELSE Turn(h, m, e, f, x)
        BY DEF g
      <3> QED BY <2>1, <3>2, <3>3
    <2>3. Upto(k + 1, g)
      BY <2>2
    <2> HIDE DEF Upto
    <2> QED BY <2>3
  <1>3. 2 * Size + 2 \in S
    <2>1. 2 * Size + 2 \in Nat
      BY SizeAssumption
    <2> HIDE DEF S
    <2> QED BY <1>1, <1>2, <2>1, NatInd
  <1>4. PICK h : Upto(2 * Size + 2, h)
    BY <1>3
  <1> DEFINE g == [x \in Points |-> h[x]]
  <1>5. ASSUME NEW x \in Points PROVE g[x] = Turn(g, m, e, f, x)
    <2>1. Ahead(x) < 2 * Size + 2
      BY AheadNat, SizeAssumption
    <2>2. h[x] = Turn(h, m, e, f, x)
      BY <1>4, <2>1
    <2>3. Turn(g, m, e, f, x) = Turn(h, m, e, f, x)
      <3>1. \A y \in Points : g[y] = h[y]
        OBVIOUS
      <3> HIDE DEF g
      <3> QED BY <3>1, TurnGoesOn
    <2> QED BY <2>2, <2>3
  <1>6. g = [x \in Points |-> Turn(g, m, e, f, x)]
    BY <1>5
  <1> QED BY <1>6

\* ... and Walk is one.
LEMMA WalkTurns ==
    ASSUME NEW m \in [0 .. Size - 1 -> Cells], NEW e, NEW f, NEW at \in Points
    PROVE  Walk(m, e, f)[at] = Turn(Walk(m, e, f), m, e, f, at)
  <1>1. Walk(m, e, f) = [x \in Points |-> Turn(Walk(m, e, f), m, e, f, x)]
    BY WalkExists DEF Walk
  <1> HIDE DEF Walk
  <1> QED BY <1>1

-----------------------------------------------------------------------------
(* The way from the oldest block to the end *)

\* Positions counted on from rp: what is behind fill_end is at the beginning of the buffer.
Off(v) == IF fill_end # 0 /\ v >= fill_end THEN v - fill_end ELSE v

\* The n unconsumed blocks, oldest first, start at vs[0] .. vs[n - 1], each where the one
\* before it ends, and end where the next one will be written.
Path(n, vs) ==
    /\ n \in Nat /\ vs \in [0 .. n -> Nat]
    /\ vs[0] = rp /\ vs[n] = rp + filled
    /\ \A i, j \in 0 .. n : i < j => vs[i] < vs[j]
    /\ \A i \in 1 .. n : Off(vs[i - 1]) \in live /\ vs[i] = vs[i - 1] + mem[Off(vs[i - 1])].size
    /\ \A i \in 1 .. n : fill_end # 0 /\ vs[i - 1] < fill_end => vs[i] <= fill_end

Listed(n, vs) == [i \in 1 .. n |-> mem[Off(vs[i - 1])]]

\* The end of the way is at wp.
LEMMA PathEnds ==
    ASSUME RingTypeOK, RingLayout, NEW n, NEW vs, Path(n, vs)
    PROVE  /\ n \in Nat /\ \A i \in 0 .. n : vs[i] \in Nat /\ vs[0] <= vs[i] /\ vs[i] <= vs[n]
           /\ fill_end = 0 => vs[n] = wp
           /\ fill_end # 0 => vs[n] = fill_end + wp
           /\ n = 0 <=> ~HaveData
  <1>1. /\ n \in Nat /\ \A i \in 0 .. n : vs[i] \in Nat
        /\ \A i, j \in 0 .. n : i < j => vs[i] < vs[j]
        /\ vs[0] = rp /\ vs[n] = rp + filled
    BY DEF Path
  <1>2. rp \in Nat /\ wp \in Nat /\ fill_end \in Nat /\ filled \in Nat
    BY SizeAssumption DEF RingTypeOK
  <1>3. \A i \in 0 .. n : vs[0] <= vs[i] /\ vs[i] <= vs[n]
    <2> TAKE i \in 0 .. n
    <2>1. 0 \in 0 .. n /\ n \in 0 .. n
      BY <1>1
    <2>2. i = 0 \/ 0 < i
      OBVIOUS
    <2>3. i = n \/ i < n
      BY <1>1
    <2> QED BY <1>1, <2>1, <2>2, <2>3
  <1>4. /\ fill_end = 0 => filled = wp - rp
        /\ fill_end # 0 => filled = fill_end - rp + wp /\ rp < fill_end
    BY DEF RingLayout
  <1>5. (fill_end = 0 => vs[n] = wp) /\ (fill_end # 0 => vs[n] = fill_end + wp)
    BY <1>1, <1>2, <1>4
  <1>6. n = 0 <=> filled = 0
    <2>1. n = 0 => filled = 0
      BY <1>1, <1>2
    <2>2. n # 0 => vs[0] < vs[n]
      BY <1>1
    <2> QED BY <1>1, <1>2, <2>1, <2>2
  <1>7. filled = 0 <=> ~HaveData
    BY <1>2, <1>4 DEF HaveData
  <1> QED BY <1>1, <1>3, <1>5, <1>6, <1>7

\* What the walk finds at the block i.
LEMMA WalkFollows ==
    ASSUME RingTypeOK, RingLayout, NEW n, NEW vs, Path(n, vs), NEW i \in 0 .. n - 1,
           NEW h, \A at \in Points : h[at] = Turn(h, mem, wp, fill_end, at)
    PROVE  LET point(k) == <<Off(vs[k]), fill_end # 0 /\ vs[k] < fill_end>>
           IN  h[point(i)] = <<mem[Off(vs[i])]>> \o h[point(i + 1)]
  <1> DEFINE w == fill_end # 0 /\ vs[i] < fill_end
             p == Off(vs[i])
             b == HeadIn(mem, p)
             q == p + b.size
  <1>1. /\ n \in Nat /\ vs[i] \in Nat /\ vs[i + 1] \in Nat /\ vs[i] < vs[i + 1] /\ vs[i + 1] <= vs[n]
        /\ p \in live /\ vs[i + 1] = vs[i] + mem[p].size
        /\ fill_end # 0 /\ vs[i] < fill_end => vs[i + 1] <= fill_end
    <2>0. n \in Nat
      BY PathEnds
    <2>1. i \in 0 .. n /\ i + 1 \in 0 .. n /\ i + 1 \in 1 .. n /\ (i + 1) - 1 = i /\ i < i + 1
      BY <2>0
    <2> QED BY <2>0, <2>1, PathEnds DEF Path
  <1>2. /\ fill_end = 0 => vs[n] = wp
        /\ fill_end # 0 => vs[n] = fill_end + wp
    BY PathEnds
  <1>3. rp \in 0 .. Size /\ wp \in 0 .. Size /\ fill_end \in 0 .. Size /\ Size \in Nat
    BY SizeAssumption DEF RingTypeOK
  <1>4. b = mem[p] /\ b.size \in Nat /\ b.size > 0 /\ p \in 0 .. Size /\ q = p + mem[p].size
    <2>1. p \in 0 .. Size - 1 /\ mem[p].size \in HeadSize + 1 .. Size
      BY <1>1 DEF RingTypeOK, RingLayout
    <2>2. p \in DOMAIN mem
      BY <2>1 DEF RingTypeOK
    <2> QED BY <1>3, <2>1, <2>2, SizeAssumption DEF HeadIn
  <1> HIDE DEF b
  <1>5. /\ w => p = vs[i] /\ q = vs[i + 1] /\ q <= fill_end
        /\ fill_end # 0 /\ ~w => p = vs[i] - fill_end /\ q = vs[i + 1] - fill_end /\ q <= wp /\ p < wp
        /\ fill_end = 0 => p = vs[i] /\ q = vs[i + 1] /\ q <= wp /\ p < wp /\ ~w
    BY <1>1, <1>2, <1>3, <1>4 DEF Off
  <1>6. q <= Size /\ q \in 0 .. Size
    BY <1>3, <1>4, <1>5
  <1>7. w \in BOOLEAN /\ <<p, w>> \in Points /\ <<p, w>> # <<wp, FALSE>>
    <2>1. w \in BOOLEAN
      OBVIOUS
    <2>2. ~w => p # wp
      BY <1>3, <1>4, <1>5
    <2> HIDE DEF w, p
    <2> QED BY <1>4, <2>1, <2>2 DEF Points
  <1>8. h[<<p, w>>] = <<b>> \o h[IF w /\ q = fill_end THEN <<0, FALSE>> ELSE <<q, w>>]
    <2>1. h[<<p, w>>] = Turn(h, mem, wp, fill_end, <<p, w>>)
      BY <1>7
    <2>2. b = HeadIn(mem, p)
      BY DEF b
    <2>3. ~(b.size <= 0 \/ q > Size)
      BY <1>3, <1>4, <1>6
    <2> HIDE DEF w, p
    <2>4. <<p, w>>[1] = p /\ <<p, w>>[2] = w
      OBVIOUS
    <2>5. Turn(h, mem, wp, fill_end, <<p, w>>) =
              <<b>> \o h[IF w /\ q = fill_end THEN <<0, FALSE>> ELSE <<q, w>>]
      BY <1>7, <2>2, <2>3, <2>4, Zenon DEF Turn
    <2> QED BY <2>1, <2>5
  <1>9. (IF w /\ q = fill_end THEN <<0, FALSE>> ELSE <<q, w>>)
            = <<Off(vs[i + 1]), fill_end # 0 /\ vs[i + 1] < fill_end>>
    <2>1. CASE w /\ q = fill_end
      <3>1. Off(vs[i + 1]) = 0 /\ (fill_end # 0 /\ vs[i + 1] < fill_end) = FALSE
        BY <1>1, <1>3, <1>5, <2>1 DEF Off
      <3> QED BY <2>1, <3>1
    <2>2. CASE w /\ q # fill_end
      <3>1. Off(vs[i + 1]) = q /\ (fill_end # 0 /\ vs[i + 1] < fill_end) = TRUE /\ w = TRUE
        BY <1>1, <1>3, <1>5, <2>2 DEF Off
      <3> QED BY <2>2, <3>1
    <2>3. CASE ~w
      <3>1. Off(vs[i + 1]) = q /\ (fill_end # 0 /\ vs[i + 1] < fill_end) = FALSE /\ w = FALSE
        BY <1>1, <1>3, <1>5, <2>3 DEF Off
      <3> QED BY <2>3, <3>1
    <2> QED BY <2>1, <2>2, <2>3
  <1> QED BY <1>4, <1>8, <1>9

\* What the walk reads are the blocks on the way.
LEMMA ContentsListed ==
    \A n, vs : RingTypeOK /\ RingLayout /\ Path(n, vs) => Contents = Listed(n, vs)
  <1> SUFFICES ASSUME NEW n, NEW vs, RingTypeOK, RingLayout, Path(n, vs)
               PROVE  Contents = Listed(n, vs)
    OBVIOUS
  <1> DEFINE h == Walk(mem, wp, fill_end)
             point(k) == <<Off(vs[k]), fill_end # 0 /\ vs[k] < fill_end>>
             rest(k) == [j \in 1 .. n - k |-> mem[Off(vs[k + j - 1])]]
             S == {k \in Nat : k <= n => h[point(n - k)] = rest(n - k)}
  <1>1. /\ n \in Nat /\ \A i \in 0 .. n : vs[i] \in Nat
        /\ fill_end = 0 => vs[n] = wp
        /\ fill_end # 0 => vs[n] = fill_end + wp
        /\ n = 0 <=> ~HaveData
    BY PathEnds
  <1>2. rp \in 0 .. Size /\ wp \in 0 .. Size /\ fill_end \in 0 .. Size /\ mem \in [0 .. Size - 1 -> Cells]
        /\ Size \in Nat
    BY SizeAssumption DEF RingTypeOK
  <1>3. \A at \in Points : h[at] = Turn(h, mem, wp, fill_end, at)
    BY <1>2, WalkTurns
  <1> HIDE DEF h
  <1>4. 0 \in S
    <2>1. point(n) = <<wp, FALSE>>
      <3>1. Off(vs[n]) = wp /\ (fill_end # 0 /\ vs[n] < fill_end) = FALSE
        BY <1>1, <1>2 DEF Off
      <3> QED BY <3>1
    <2>2. <<wp, FALSE>> \in Points
      BY <1>2 DEF Points
    <2>3. h[<<wp, FALSE>>] = <<>>
      BY <1>3, <2>2 DEF Turn
    <2>4. rest(n) = <<>>
      BY <1>1
    <2>5. n - 0 = n
      BY <1>1
    <2> HIDE DEF point, rest
    <2> QED BY <2>1, <2>3, <2>4, <2>5
  <1>5. ASSUME NEW k \in Nat, k \in S PROVE k + 1 \in S
    <2> SUFFICES ASSUME k + 1 <= n PROVE h[point(n - (k + 1))] = rest(n - (k + 1))
      OBVIOUS
    <2> DEFINE i == n - (k + 1)
    <2>1. i \in 0 .. n - 1 /\ n - k = i + 1 /\ k <= n /\ n - i = k + 1 /\ n - (i + 1) = k
      BY <1>1
    <2>2. h[point(i + 1)] = rest(i + 1)
      BY <1>5, <2>1
    <2>3. h[point(i)] = <<mem[Off(vs[i])]>> \o h[point(i + 1)]
      BY <1>3, <2>1, WalkFollows
    <2> HIDE DEF i, point
    <2>4. <<mem[Off(vs[i])]>> \o rest(i + 1) = rest(i)
      <3>1. \A j \in 1 .. k : (i + 1) + j - 1 = i + (j + 1) - 1
        BY <2>1
      <3>2. i + 1 - 1 = i
        BY <2>1
      <3> QED BY <2>1, <3>1, <3>2
    <2> QED BY <2>2, <2>3, <2>4 DEF i
  <1>6. n \in S
    <2> HIDE DEF S
    <2> QED BY <1>1, <1>4, <1>5, NatInd
  <1>7. h[point(0)] = rest(0)
    <2>1. n <= n /\ n - n = 0
      BY <1>1
    <2> HIDE DEF point, rest
    <2> QED BY <1>6, <2>1
  <1>8. rest(0) = Listed(n, vs)
    <2>1. \A j \in 1 .. n : 0 + j - 1 = j - 1
      OBVIOUS
    <2>2. n - 0 = n
      BY <1>1
    <2> QED BY <2>1, <2>2 DEF Listed
  <1>9. CASE HaveData
    <2>1. vs[0] = rp
      BY DEF Path
    <2>2. fill_end # 0 => rp < fill_end
      BY DEF RingLayout
    <2>3. Off(rp) = rp /\ (fill_end # 0 /\ rp < fill_end) = (fill_end # 0)
      BY <1>2, <2>2 DEF Off
    <2>4. point(0) = <<rp, fill_end # 0>>
      BY <2>1, <2>3
    <2> HIDE DEF point, rest
    <2> QED BY <1>7, <1>8, <1>9, <2>4, ContentsWalk DEF h
  <1>10. CASE ~HaveData
    <2>1. Listed(n, vs) = <<>>
      BY <1>1, <1>10 DEF Listed
    <2> QED BY <1>10, <2>1, ContentsWalk
  <1> QED BY <1>9, <1>10

\* Taking the oldest block shortens the way by its first step.
LEMMA PathConsumes ==
    ASSUME RingTypeOK, RingLayout, HaveData, NEW n, NEW vs, Path(n, vs),
           Consume(HeadAt(rp).size), wp' = wp, mem' = mem
    PROVE  n # 0 /\ \E us : Path(n - 1, us)' /\ Listed(n - 1, us)' = Tail(Listed(n, vs))
  <1> DEFINE shift == IF fill_end # 0 /\ vs[1] >= fill_end THEN fill_end ELSE 0
  <1>0a. PICK us : us = [i \in 0 .. n - 1 |-> vs[i + 1] - shift]
    OBVIOUS
  <1>1. /\ n \in Nat \ {0} /\ \A i \in 0 .. n : vs[i] \in Nat /\ vs[0] <= vs[i] /\ vs[i] <= vs[n]
        /\ fill_end = 0 => vs[n] = wp
        /\ fill_end # 0 => vs[n] = fill_end + wp
    BY PathEnds
  <1>2. /\ vs[0] = rp /\ vs[n] = rp + filled
        /\ \A i, j \in 0 .. n : i < j => vs[i] < vs[j]
        /\ \A i \in 1 .. n : Off(vs[i - 1]) \in live /\ vs[i] = vs[i - 1] + mem[Off(vs[i - 1])].size
        /\ \A i \in 1 .. n : fill_end # 0 /\ vs[i - 1] < fill_end => vs[i] <= fill_end
    BY DEF Path
  <1>3. rp \in Nat /\ wp \in Nat /\ fill_end \in Nat /\ filled \in Nat
    BY SizeAssumption DEF RingTypeOK
  <1>4. fill_end # 0 => wp <= rp /\ rp < fill_end
    BY DEF RingLayout
  <1>5. /\ HeadAt(rp).size \in Nat /\ vs[1] = rp + HeadAt(rp).size
    <2>1. HeadAt(rp) = mem[rp] /\ mem[rp].size \in HeadSize + 1 .. Size
      BY FrontIsLive
    <2>2. Off(vs[0]) = rp
      BY <1>2, <1>3, <1>4 DEF Off
    <2>3. 1 \in 1 .. n /\ 1 - 1 = 0
      BY <1>1
    <2> QED BY <1>2, <2>1, <2>2, <2>3, SizeAssumption
  <1>0. 1 \in 1 .. n /\ 1 - 1 = 0 /\ 1 \in 0 .. n /\ vs[1] \in Nat
    BY <1>1
  <1>6. /\ rp' = vs[1] - shift /\ filled' = filled - (vs[1] - rp) /\ live' = live \ {rp}
        /\ fill_end' = IF shift = 0 THEN fill_end ELSE 0
        /\ shift \in Nat /\ shift \in {0, fill_end}
    <2>1. HeadAt(rp).size = vs[1] - rp /\ rp + HeadAt(rp).size = vs[1]
      BY <1>0, <1>3, <1>5
    <2>2. shift \in Nat /\ shift \in {0, fill_end}
      BY <1>3
    <2>3. live' = live \ {rp} /\ filled' = filled - (vs[1] - rp)
      BY <2>1 DEF Consume
    <2>4. fill_end # 0 => vs[1] <= fill_end
      BY <1>0, <1>2, <1>4
    <2>5. CASE fill_end # 0 /\ vs[1] >= fill_end
      <3>1. shift = fill_end /\ rp' = 0 /\ fill_end' = 0
        BY <2>1, <2>5 DEF Consume
      <3>2. vs[1] = fill_end
        BY <1>0, <1>3, <2>4, <2>5
      <3> QED BY <1>0, <1>3, <2>2, <2>3, <2>5, <3>1, <3>2
    <2>6. CASE ~(fill_end # 0 /\ vs[1] >= fill_end)
      <3>1. shift = 0 /\ rp' = vs[1] /\ fill_end' = fill_end
        BY <2>1, <2>6 DEF Consume
      <3> QED BY <1>0, <2>2, <2>3, <3>1
    <2> QED BY <2>5, <2>6
  <1>7. \A i \in 0 .. n - 1 : i + 1 \in 1 .. n /\ i + 1 \in 0 .. n /\ vs[i + 1] >= vs[1] /\ vs[i + 1] > rp
    <2> TAKE i \in 0 .. n - 1
    <2>1. i + 1 \in 1 .. n /\ i + 1 \in 0 .. n /\ 0 \in 0 .. n /\ 1 \in 0 .. n /\ (i + 1 = 1 \/ 1 < i + 1) /\ 0 < i + 1
      BY <1>1
    <2> QED BY <1>1, <1>2, <2>1
  <1>8. shift # 0 => shift = fill_end /\ vs[1] = fill_end
    <2>1. 1 \in 1 .. n /\ 1 - 1 = 0
      BY <1>1
    <2>2. fill_end # 0 => vs[1] <= fill_end
      BY <1>2, <1>4, <2>1
    <2> QED BY <1>1, <1>3, <2>1, <2>2
  <1> HIDE DEF shift
  <1>9. /\ us \in [0 .. n - 1 -> Nat] /\ \A i \in 0 .. n - 1 : us[i] = vs[i + 1] - shift
        /\ us[0] = rp' /\ us[n - 1] = rp' + filled'
    <2>1. \A i \in 0 .. n - 1 : vs[i + 1] - shift \in Nat
      BY <1>1, <1>3, <1>6, <1>7, <1>8
    <2>2. 0 \in 0 .. n - 1 /\ 0 + 1 = 1 /\ n - 1 \in 0 .. n - 1 /\ (n - 1) + 1 = n
      BY <1>1
    <2>3. us[0] = vs[1] - shift /\ us[n - 1] = vs[n] - shift
      BY <1>0a, <2>2
    <2>4. vs[1] \in Nat /\ vs[n] \in Nat
      BY <1>1, <1>7, <2>2
    <2>5. us[0] = rp'
      BY <1>6, <2>3
    <2>6. shift \in Nat /\ vs[1] - shift = rp' /\ filled' = filled - (vs[1] - rp)
      BY <1>6
    <2>7. us[n - 1] = rp' + filled'
      BY <1>2, <1>3, <2>3, <2>4, <2>6
    <2>8. us \in [0 .. n - 1 -> Nat] /\ \A i \in 0 .. n - 1 : us[i] = vs[i + 1] - shift
      BY <1>0a, <2>1
    <2> QED BY <2>5, <2>7, <2>8
  <1>10. \A i \in 0 .. n - 2 : Off(us[i])' = Off(vs[i + 1]) /\ Off(vs[i + 1]) \in live'
    <2> TAKE i \in 0 .. n - 2
    <2>1. i \in 0 .. n - 1 /\ i + 1 \in 0 .. n /\ i + 2 \in 1 .. n /\ (i + 2) - 1 = i + 1 /\ i + 1 < n /\ n \in 0 .. n
      BY <1>1
    <2>2. us[i] = vs[i + 1] - shift /\ vs[i + 1] >= vs[1] /\ vs[i + 1] > rp /\ vs[i + 1] < vs[n]
      BY <1>2, <1>7, <1>9, <2>1
    <2>3. Off(vs[i + 1]) \in live
      BY <1>2, <2>1
    <2>4. Off(vs[i + 1]) # rp
      BY <1>1, <1>3, <1>4, <2>1, <2>2 DEF Off
    <2>5. Off(us[i])' = Off(vs[i + 1])
      <3>0. vs[i + 1] \in Nat
        BY <1>1, <2>1
      <3>1. CASE shift = 0
        <4>1. us[i] = vs[i + 1] - 0 /\ fill_end' = fill_end
          BY <1>6, <2>2, <3>1
        <4>2. us[i] = vs[i + 1]
          BY <3>0, <4>1
        <4> QED BY <4>1, <4>2 DEF Off
      <3>2. CASE shift # 0
        <4>1. us[i] = vs[i + 1] - fill_end /\ fill_end' = 0 /\ fill_end # 0 /\ vs[i + 1] >= fill_end
          BY <1>0, <1>3, <1>6, <1>8, <2>2, <3>2
        <4>2. Off(vs[i + 1]) = us[i]
          BY <4>1 DEF Off
        <4>3. Off(us[i])' = us[i]
          BY <4>1 DEF Off
        <4> QED BY <4>2, <4>3
      <3> QED BY <3>1, <3>2
    <2> QED BY <1>6, <2>3, <2>4, <2>5
  <1>11. Path(n - 1, us)'
    <2>1. \A i, j \in 0 .. n - 1 : i < j => us[i] < us[j]
      <3> SUFFICES ASSUME NEW i \in 0 .. n - 1, NEW j \in 0 .. n - 1, i < j PROVE us[i] < us[j]
        OBVIOUS
      <3>1. vs[i + 1] < vs[j + 1] /\ vs[i + 1] \in Nat /\ vs[j + 1] \in Nat
        BY <1>1, <1>2, <1>7
      <3> QED BY <1>6, <1>9, <3>1
    <2>2. ASSUME NEW i \in 1 .. n - 1
          PROVE  /\ Off(us[i - 1])' \in live' /\ us[i] = us[i - 1] + mem'[Off(us[i - 1])'].size
                 /\ fill_end' # 0 /\ us[i - 1] < fill_end' => us[i] <= fill_end'
      <3>1. i \in 0 .. n - 1 /\ i - 1 \in 0 .. n - 2 /\ i - 1 \in 0 .. n - 1 /\ i + 1 \in 1 .. n /\ (i + 1) - 1 = i /\ (i - 1) + 1 = i
            /\ i \in 0 .. n /\ i + 1 \in 0 .. n
        BY <1>1
      <3>2. Off(us[i - 1])' = Off(vs[i]) /\ Off(vs[i]) \in live' /\ Off(vs[i]) \in live
        BY <1>6, <1>10, <3>1
      <3>3. us[i] = vs[i + 1] - shift /\ us[i - 1] = vs[i] - shift /\ vs[i + 1] = vs[i] + mem[Off(vs[i])].size
        BY <1>2, <1>9, <3>1
      <3>4. mem[Off(vs[i])].size \in Nat /\ vs[i] \in Nat /\ vs[i + 1] \in Nat
        BY <1>1, <3>1, <3>2, SizeAssumption DEF RingLayout
      <3>5. us[i] = us[i - 1] + mem[Off(vs[i])].size
        BY <1>6, <3>3, <3>4
      <3>6. fill_end # 0 /\ vs[i] < fill_end => vs[i + 1] <= fill_end
        BY <1>2, <3>1
      <3>7. fill_end' # 0 /\ us[i - 1] < fill_end' => us[i] <= fill_end'
        <4> SUFFICES ASSUME fill_end' # 0, us[i - 1] < fill_end' PROVE us[i] <= fill_end'
          OBVIOUS
        <4>1. shift = 0 /\ fill_end' = fill_end
          BY <1>6
        <4>2. us[i] = vs[i + 1] /\ us[i - 1] = vs[i]
          BY <3>3, <3>4, <4>1
        <4> QED BY <3>6, <4>1, <4>2
      <3> QED BY <3>2, <3>5, <3>7
    <2>3. n - 1 \in Nat
      BY <1>1
    <2>4. /\ \A i \in 1 .. n - 1 : Off(us[i - 1])' \in live' /\ us[i] = us[i - 1] + mem'[Off(us[i - 1])'].size
          /\ \A i \in 1 .. n - 1 : fill_end' # 0 /\ us[i - 1] < fill_end' => us[i] <= fill_end'
      BY <2>2
    <2> QED BY <1>9, <2>1, <2>3, <2>4 DEF Path
  <1>12. Listed(n - 1, us)' = Tail(Listed(n, vs))
    <2>1. Listed(n - 1, us)' = [i \in 1 .. n - 1 |-> mem[Off(us[i - 1])']]
      BY DEF Listed
    <2>2. \A i \in 1 .. n - 1 : Off(us[i - 1])' = Off(vs[(i + 1) - 1])
      <3> TAKE i \in 1 .. n - 1
      <3>1. i - 1 \in 0 .. n - 2 /\ (i - 1) + 1 = (i + 1) - 1
        BY <1>1
      <3> QED BY <1>10, <3>1
    <2>3. Tail(Listed(n, vs)) = [i \in 1 .. n - 1 |-> mem[Off(vs[(i + 1) - 1])]]
      BY <1>1 DEF Listed
    <2> QED BY <2>1, <2>2, <2>3
  <1> QED BY <1>1, <1>11, <1>12

\* The head that send_buffer writes lies outside the unconsumed blocks.
LEMMA WriteOutside ==
    ASSUME RingTypeOK, RingLayout, NEW k \in Nat \ {0}, get_available_size >= k
    PROVE  wp \notin live /\ wp \in 0 .. Size - 1
  <1>1. /\ fill_end = 0 => rp <= wp
        /\ fill_end # 0 => wp <= rp /\ rp < fill_end
        /\ Size \in Nat /\ rp \in 0 .. Size /\ wp \in 0 .. Size /\ fill_end \in 0 .. Size
        /\ \A s \in live : s \in Nat
    BY SizeAssumption DEF RingTypeOK, RingLayout
  <1>2. wp < Size /\ (fill_end # 0 => wp + k <= rp /\ wp < rp)
    BY <1>1 DEF get_available_size, Available
  <1>3. ASSUME wp \in live PROVE FALSE
    BY <1>1, <1>2, <1>3 DEF RingLayout
  <1> QED BY <1>1, <1>2, <1>3

\* Sending a block makes the way one step longer.
LEMMA PathSends ==
    ASSUME RingTypeOK, RingLayout, NEW n, NEW vs, Path(n, vs),
           NEW b, NEW k \in Nat \ {0}, b.size = k, get_available_size >= k,
           mem' = [mem EXCEPT ![wp] = b],
           wp' = wp + k, filled' = filled + k, live' = live \cup {wp},
           rp' = rp, fill_end' = fill_end
    PROVE  \E us : Path(n + 1, us)' /\ Listed(n + 1, us)' = Append(Listed(n, vs), b)
  <1>1. PICK us : us = [i \in 0 .. n + 1 |-> IF i <= n THEN vs[i] ELSE vs[n] + k]
    OBVIOUS
  <1>2. /\ n \in Nat /\ \A i \in 0 .. n : vs[i] \in Nat /\ vs[i] <= vs[n]
        /\ fill_end = 0 => vs[n] = wp
        /\ fill_end # 0 => vs[n] = fill_end + wp
    BY PathEnds
  <1>3. /\ vs[0] = rp /\ vs[n] = rp + filled
        /\ \A i, j \in 0 .. n : i < j => vs[i] < vs[j]
        /\ \A i \in 1 .. n : Off(vs[i - 1]) \in live /\ vs[i] = vs[i - 1] + mem[Off(vs[i - 1])].size
        /\ \A i \in 1 .. n : fill_end # 0 /\ vs[i - 1] < fill_end => vs[i] <= fill_end
    BY DEF Path
  <1>4. /\ rp \in Nat /\ wp \in Nat /\ fill_end \in Nat /\ filled \in Nat
        /\ wp \notin live /\ wp \in DOMAIN mem
    <2>1. wp \notin live /\ wp \in 0 .. Size - 1
      BY WriteOutside
    <2> QED BY <2>1, SizeAssumption DEF RingTypeOK
  <1>5. n \in 0 .. n /\ vs[n] \in Nat /\ n + 1 \in Nat
    BY <1>2
  <1>6. /\ \A i \in 0 .. n : us[i] = vs[i] /\ us[i] \in Nat
        /\ us[n + 1] = vs[n] + k /\ us \in [0 .. n + 1 -> Nat]
    <2>1. \A i \in 0 .. n : us[i] = vs[i] /\ us[i] \in Nat
      BY <1>1, <1>2
    <2>2. n + 1 \in 0 .. n + 1 /\ ~(n + 1 <= n)
      BY <1>2
    <2>3. us[n + 1] = vs[n] + k
      BY <1>1, <2>2
    <2>4. \A i \in 0 .. n + 1 : i <= n => i \in 0 .. n
      BY <1>2
    <2>5. \A i \in 0 .. n + 1 : (IF i <= n THEN vs[i] ELSE vs[n] + k) \in Nat
      BY <1>2, <1>5, <2>4
    <2>6. us \in [0 .. n + 1 -> Nat]
      BY <1>1, <2>5
    <2> QED BY <2>1, <2>3, <2>6
  <1>7. Off(vs[n]) = wp
    BY <1>2, <1>4 DEF Off
  <1>8. \A i \in 0 .. n : Off(us[i])' = Off(vs[i])
    BY <1>6 DEF Off
  <1>9. /\ \A s \in live : mem'[s] = mem[s]
        /\ mem'[wp] = b
    BY <1>4
  <1>10. Path(n + 1, us)'
    <2>1. us[0] = rp' /\ us[n + 1] = rp' + filled'
      BY <1>2, <1>3, <1>4, <1>6
    <2>2. \A i, j \in 0 .. n + 1 : i < j => us[i] < us[j]
      <3> SUFFICES ASSUME NEW i \in 0 .. n + 1, NEW j \in 0 .. n + 1, i < j PROVE us[i] < us[j]
        OBVIOUS
      <3>1. i \in 0 .. n /\ (j \in 0 .. n \/ j = n + 1)
        BY <1>2
      <3>2. CASE j \in 0 .. n
        BY <1>3, <1>6, <3>1, <3>2
      <3>3. CASE j = n + 1
        BY <1>2, <1>5, <1>6, <3>1, <3>3
      <3> QED BY <3>1, <3>2, <3>3
    <2>3. ASSUME NEW i \in 1 .. n + 1
          PROVE  /\ Off(us[i - 1])' \in live' /\ us[i] = us[i - 1] + mem'[Off(us[i - 1])'].size
                 /\ fill_end' # 0 /\ us[i - 1] < fill_end' => us[i] <= fill_end'
      <3>1. i - 1 \in 0 .. n /\ ((i \in 1 .. n /\ i \in 0 .. n) \/ (i = n + 1 /\ i - 1 = n))
        BY <1>2
      <3>2. CASE i \in 1 .. n /\ i \in 0 .. n
        BY <1>3, <1>6, <1>8, <1>9, <3>1, <3>2
      <3>3. CASE i = n + 1 /\ i - 1 = n
        <4>1. Off(us[i - 1])' = wp /\ wp \in live'
          BY <1>7, <1>8, <1>5, <3>3
        <4>2. us[i] = us[i - 1] + k /\ us[i - 1] = vs[n]
          BY <1>5, <1>6, <3>3
        <4>3. ~(fill_end' # 0 /\ us[i - 1] < fill_end')
          BY <1>2, <1>4, <4>2
        <4> QED BY <1>9, <4>1, <4>2, <4>3
      <3> QED BY <3>1, <3>2, <3>3
    <2>4. /\ \A i \in 1 .. n + 1 : Off(us[i - 1])' \in live' /\ us[i] = us[i - 1] + mem'[Off(us[i - 1])'].size
          /\ \A i \in 1 .. n + 1 : fill_end' # 0 /\ us[i - 1] < fill_end' => us[i] <= fill_end'
      BY <2>3
    <2> QED BY <1>5, <1>6, <2>1, <2>2, <2>4 DEF Path
  <1>11. Listed(n + 1, us)' = Append(Listed(n, vs), b)
    <2>1. Listed(n + 1, us)' = [i \in 1 .. n + 1 |-> mem'[Off(us[i - 1])']]
      BY DEF Listed
    <2>2. Append(Listed(n, vs), b)
              = [i \in 1 .. n + 1 |-> IF i \in 1 .. n THEN mem[Off(vs[i - 1])] ELSE b]
      BY <1>2 DEF Listed
    <2>3. ASSUME NEW i \in 1 .. n + 1
          PROVE  mem'[Off(us[i - 1])'] = IF i \in 1 .. n THEN mem[Off(vs[i - 1])] ELSE b
      <3>1. i - 1 \in 0 .. n /\ (i \in 1 .. n \/ (i \notin 1 .. n /\ i - 1 = n))
        BY <1>2
      <3>2. CASE i \in 1 .. n
        BY <1>3, <1>8, <1>9, <3>1, <3>2
      <3>3. CASE i \notin 1 .. n /\ i - 1 = n
        BY <1>7, <1>8, <1>9, <3>1, <3>3
      <3> QED BY <3>1, <3>2, <3>3
    <2>4. [i \in 1 .. n + 1 |-> mem'[Off(us[i - 1])']] =
              [i \in 1 .. n + 1 |-> IF i \in 1 .. n THEN mem[Off(vs[i - 1])] ELSE b]
      BY <2>3
    <2> QED BY <2>1, <2>2, <2>4, Zenon
  <1> QED BY <1>10, <1>11

\* Making room leaves the way as it is, or begins it anew when there are no blocks.
LEMMA PathRewinds ==
    ASSUME RingTypeOK, RingLayout, NEW n, NEW vs, Path(n, vs), NEW need \in Nat \ {0},
           rp' = Rewound(need).rp, wp' = Rewound(need).wp,
           fill_end' = Rewound(need).fill_end,
           filled' = filled, live' = live,
           \A s \in live : mem'[s] = mem[s]
    PROVE  \E us : Path(n, us)' /\ Listed(n, us)' = Listed(n, vs)
  <1>1. /\ n \in Nat /\ \A i \in 0 .. n : vs[i] \in Nat /\ vs[i] <= vs[n]
        /\ fill_end = 0 => vs[n] = wp
        /\ n = 0 <=> ~HaveData
    BY PathEnds
  <1>2. /\ vs \in [0 .. n -> Nat] /\ vs[0] = rp /\ vs[n] = rp + filled
        /\ \A i, j \in 0 .. n : i < j => vs[i] < vs[j]
        /\ \A i \in 1 .. n : Off(vs[i - 1]) \in live /\ vs[i] = vs[i - 1] + mem[Off(vs[i - 1])].size
        /\ \A i \in 1 .. n : fill_end # 0 /\ vs[i - 1] < fill_end => vs[i] <= fill_end
    BY DEF Path
  <1>3. rp \in Nat /\ wp \in Nat /\ fill_end \in Nat /\ filled \in Nat
    BY SizeAssumption DEF RingTypeOK
  <1>4. CASE rp' = rp /\ \A i \in 1 .. n : Off(vs[i - 1])' = Off(vs[i - 1])
                      /\ (fill_end' # 0 /\ vs[i - 1] < fill_end' => vs[i] <= fill_end')
    <2>1. Path(n, vs)'
      <3>1. \A i \in 1 .. n : Off(vs[i - 1])' \in live' /\ vs[i] = vs[i - 1] + mem'[Off(vs[i - 1])'].size
        BY <1>2, <1>4
      <3> QED BY <1>1, <1>2, <1>4, <3>1 DEF Path
    <2>2. Listed(n, vs)' = Listed(n, vs)
      <3>1. Listed(n, vs)' = [i \in 1 .. n |-> mem'[Off(vs[i - 1])']]
        BY DEF Listed
      <3>2. \A i \in 1 .. n : mem'[Off(vs[i - 1])'] = mem[Off(vs[i - 1])]
        BY <1>2, <1>4
      <3> QED BY <3>1, <3>2 DEF Listed
    <2> QED BY <2>1, <2>2
  <1>5. CASE get_available_size >= need \/ fill_end # 0
    <2>1. rp' = rp /\ fill_end' = fill_end
      BY <1>5 DEF Rewound
    <2> QED BY <1>2, <1>4, <2>1 DEF Off
  <1>6. CASE ~(get_available_size >= need \/ fill_end # 0) /\ wp = rp
    <2>1. rp' = 0 /\ fill_end' = 0
      BY <1>6 DEF Rewound
    <2>2. n = 0 /\ filled = 0
      BY <1>1, <1>2, <1>3, <1>6 DEF HaveData
    <2>3. PICK us : us = [i \in 0 .. 0 |-> 0]
      OBVIOUS
    <2>4. us \in [0 .. 0 -> Nat] /\ us[0] = 0
      BY <2>3
    <2>5. Path(0, us)'
      BY <2>1, <2>2, <2>4 DEF Path
    <2>6. Listed(0, us)' = <<>> /\ Listed(0, vs) = <<>>
      BY DEF Listed
    <2> QED BY <2>2, <2>5, <2>6
  <1>7. CASE ~(get_available_size >= need \/ fill_end # 0) /\ wp # rp
    <2>1. rp' = rp /\ fill_end' = wp /\ fill_end = 0
      BY <1>7 DEF Rewound
    <2>2. ASSUME NEW i \in 1 .. n
          PROVE  /\ Off(vs[i - 1])' = Off(vs[i - 1])
                 /\ fill_end' # 0 /\ vs[i - 1] < fill_end' => vs[i] <= fill_end'
      <3>1. i - 1 \in 0 .. n /\ i \in 0 .. n /\ n \in 0 .. n /\ i - 1 < n
        BY <1>1
      <3>2. vs[i - 1] \in Nat /\ vs[i] \in Nat /\ vs[i] <= wp /\ vs[i - 1] < wp
        BY <1>1, <1>2, <2>1, <3>1
      <3> QED BY <1>3, <2>1, <3>2 DEF Off
    <2> QED BY <1>4, <2>1, <2>2
  <1> QED BY <1>5, <1>6, <1>7

\* Nothing changes when the ring does not.
LEMMA PathStays ==
    ASSUME NEW n, NEW vs, Path(n, vs), UNCHANGED <<ring, filled, mem, live>>
    PROVE  Path(n, vs)' /\ Listed(n, vs)' = Listed(n, vs)
  <1>1. rp' = rp /\ fill_end' = fill_end /\ filled' = filled /\ mem' = mem /\ live' = live
    BY DEF ring
  <1> QED BY <1>1 DEF Path, Listed, Off

-----------------------------------------------------------------------------
(* The ring buffer implements the abstract queue *)

\* A function g is the running total of the sizes of s.
Sums(g, s) == /\ g \in [0 .. Len(s) -> Nat] /\ g[0] = 0
              /\ \A i \in 1 .. Len(s) : g[i] = g[i - 1] + s[i].size

\* The total of BlockFifo is where such a function ends.
LEMMA TotalSums ==
    ASSUME NEW s, Len(s) \in Nat, \A i \in 1 .. Len(s) : s[i].size \in Nat, NEW g, Sums(g, s)
    PROVE  Fifo!Total(s) = g[Len(s)]
  <1> DEFINE F(h) == [i \in 0 .. Len(s) |-> IF i = 0 THEN 0 ELSE h[i - 1] + s[i].size]
             sum == CHOOSE h : h = F(h)
             S == {n \in Nat : n <= Len(s) => sum[n] = g[n]}
  <1>1. Fifo!Total(s) = sum[Len(s)]
    BY DEF Fifo!Total
  <1>2. sum = F(sum)
    <2>1. g = F(g)
      BY DEF Sums
    <2> HIDE DEF F
    <2> QED BY <2>1
  <1> HIDE DEF sum
  <1>3. \A i \in 0 .. Len(s) : sum[i] = IF i = 0 THEN 0 ELSE sum[i - 1] + s[i].size
    BY <1>2
  <1>4. 0 \in S
    BY <1>3 DEF Sums
  <1>5. ASSUME NEW n \in Nat, n \in S PROVE n + 1 \in S
    BY <1>3, <1>5 DEF Sums
  <1>6. Len(s) \in S
    <2> HIDE DEF S
    <2> QED BY <1>4, <1>5, NatInd
  <1> QED BY <1>1, <1>6

\* The blocks on the way take what filled counts.
LEMMA PathTotal ==
    ASSUME RingTypeOK, RingLayout, NEW n, NEW vs, Path(n, vs)
    PROVE  Fifo!Total(Listed(n, vs)) = filled
  <1>1. PICK s : s = Listed(n, vs)
    OBVIOUS
  <1>2. PICK g : g = [i \in 0 .. n |-> vs[i] - rp]
    OBVIOUS
  <1>3. /\ n \in Nat /\ \A i \in 0 .. n : vs[i] \in Nat /\ vs[0] <= vs[i]
        /\ vs[0] = rp /\ vs[n] = rp + filled /\ rp \in Nat /\ filled \in Nat
    BY PathEnds, SizeAssumption DEF Path, RingTypeOK
  <1>4. Len(s) = n /\ \A i \in 1 .. n : s[i] = mem[Off(vs[i - 1])]
    BY <1>1, <1>3 DEF Listed
  <1>5. \A i \in 1 .. n : s[i].size \in Nat /\ vs[i] = vs[i - 1] + s[i].size
    <2> TAKE i \in 1 .. n
    <2>1. Off(vs[i - 1]) \in live /\ vs[i] = vs[i - 1] + mem[Off(vs[i - 1])].size
      BY DEF Path
    <2>2. mem[Off(vs[i - 1])].size \in Nat
      BY <2>1, SizeAssumption DEF RingLayout
    <2> QED BY <1>4, <2>1, <2>2
  <1>6. Sums(g, s)
    <2>1. g \in [0 .. n -> Nat] /\ g[0] = 0
      BY <1>2, <1>3
    <2>2. ASSUME NEW i \in 1 .. n PROVE g[i] = g[i - 1] + s[i].size
      <3>1. i \in 0 .. n /\ i - 1 \in 0 .. n
        BY <1>3
      <3>2. g[i] = vs[i] - rp /\ g[i - 1] = vs[i - 1] - rp
        BY <1>2, <3>1
      <3>3. vs[i] \in Nat /\ vs[i - 1] \in Nat
        BY <1>3, <3>1
      <3> QED BY <1>3, <1>5, <3>2, <3>3
    <2> QED BY <1>4, <2>1, <2>2 DEF Sums
  <1>7. g[n] = filled
    <2>1. n \in 0 .. n
      BY <1>3
    <2> QED BY <1>2, <1>3, <2>1
  <1>8. Fifo!Total(s) = g[n]
    BY <1>3, <1>4, <1>5, <1>6, TotalSums
  <1> QED BY <1>1, <1>7, <1>8

\* get_buffer leaves the heads of the unconsumed blocks alone.
LEMMA ReserveKeepsHeads ==
    ASSUME RingTypeOK, RingLayout, NEW w, NEW need \in Nat \ {0}, NEW u, NEW bits,
           ~quit, TryReserve(w, need, u, bits)
    PROVE  /\ rp' = Rewound(need).rp /\ wp' = Rewound(need).wp
           /\ fill_end' = Rewound(need).fill_end
           /\ filled' = filled /\ live' = live
           /\ \A s \in live : mem'[s] = mem[s]
  <1> DEFINE r == Rewound(need)
  <1>1. rp' = r.rp /\ wp' = r.wp /\ fill_end' = r.fill_end /\ filled' = filled /\ live' = live
    BY DEF TryReserve
  <1>2. CASE Fits(r, need)
    <2>1. mem' = [i \in DOMAIN mem |-> IF i > r.wp /\ i < r.wp + need THEN Garbage ELSE mem[i]]
      BY <1>2 DEF TryReserve
    <2>2. \A s \in live : mem'[s] = mem[s]
      <3> TAKE s \in live
      <3>1. s < r.wp \/ r.wp + need <= s
        BY <1>2, ReservedIsFree
      <3>2. s \in Int /\ r.wp \in Int /\ s \in DOMAIN mem
        BY SMT DEF RingTypeOK, Rewound
      <3>3. ~(s > r.wp /\ s < r.wp + need)
        <4> HIDE DEF r
        <4> QED BY <3>1, <3>2
      <3> QED BY <2>1, <3>2, <3>3
    <2> QED BY <1>1, <2>2
  <1>3. CASE ~Fits(r, need)
    BY <1>1, <1>3 DEF TryReserve
  <1> QED BY <1>2, <1>3

\* What a step can do to the n blocks on the way.
Goes(n, vs) ==
    \E m, us :
        /\ Path(m, us)'
        /\ \/ Listed(m, us)' = Listed(n, vs)
           \/ n # 0 /\ Listed(m, us)' = Tail(Listed(n, vs))
           \/ \E b \in Fifo!Block : /\ filled + b.size <= Size
                                    /\ Listed(m, us)' = Append(Listed(n, vs), b)

\* Every step of every task does one of these.
LEMMA WayGoesOn ==
    ASSUME IInv, IInv', NEW n, NEW vs, Path(n, vs), [Next]_vars
    PROVE  Goes(n, vs)
  <1>1. RingTypeOK /\ RingLayout /\ TaskTypeOK /\ RingTypeOK'
    BY TypeOKSplit DEF IInv, TypeOK, RingTypeOK
  <1>2. CASE UNCHANGED <<ring, filled, mem, live>>
    BY <1>2, PathStays DEF Goes
  <1>3. ASSUME NEW w, NEW need \in Nat \ {0}, NEW u, NEW bits, TryReserve(w, need, u, bits)
        PROVE  Goes(n, vs)
    <2>1. CASE quit
      BY <1>2, <1>3, <2>1 DEF TryReserve
    <2>2. CASE ~quit
      <3>1. /\ rp' = Rewound(need).rp /\ wp' = Rewound(need).wp
            /\ fill_end' = Rewound(need).fill_end /\ filled' = filled /\ live' = live
            /\ \A s \in live : mem'[s] = mem[s]
        BY <1>1, <1>3, <2>2, ReserveKeepsHeads
      <3>2. PICK us : Path(n, us)' /\ Listed(n, us)' = Listed(n, vs)
        BY <1>1, <3>1, PathRewinds
      <3> QED BY <3>2 DEF Goes
    <2> QED BY <2>1, <2>2
  <1>4. ASSUME HaveData, Consume(HeadAt(rp).size), wp' = wp, mem' = mem
        PROVE  Goes(n, vs)
    <2>1. n # 0 /\ \E us : Path(n - 1, us)' /\ Listed(n - 1, us)' = Tail(Listed(n, vs))
      BY <1>1, <1>4, PathConsumes
    <2> QED BY <2>1 DEF Goes
  <1>5. ASSUME NEW w \in Writers, NEW k \in Requests, NEW d \in Payload, SendBuffer(w, k, d)
        PROVE  Goes(n, vs)
    <2>1. PICK b : b = [size |-> k + HeadSize, tag |-> d]
      OBVIOUS
    <2>2. PICK size : size = k + HeadSize
      OBVIOUS
    <2>3. b \in Fifo!Block /\ b.size = size
      BY <2>1, <2>2 DEF Fifo!Block
    <2>4. size \in Nat \ {0} /\ wp \in Nat /\ filled \in Nat /\ k \in Nat /\ HeadSize \in Nat
      BY <1>1, <2>2, SizeAssumption DEF RingTypeOK
    <2>5. /\ get_available_size >= size /\ mem' = [mem EXCEPT ![wp] = b]
          /\ wp' = wp + k + HeadSize /\ filled' = filled + k + HeadSize
          /\ live' = live \cup {wp} /\ rp' = rp /\ fill_end' = fill_end
      BY <1>5, <2>1, <2>2 DEF SendBuffer
    <2>6. wp' = wp + size /\ filled' = filled + size
      BY <2>2, <2>4, <2>5
    <2>7. \E us : Path(n + 1, us)' /\ Listed(n + 1, us)' = Append(Listed(n, vs), b)
      BY <1>1, <2>3, <2>4, <2>5, <2>6, PathSends
    <2>8. filled + b.size <= Size
      BY <1>1, <2>3, <2>6, SizeAssumption DEF RingTypeOK
    <2> QED BY <2>3, <2>7, <2>8 DEF Goes
  <1>6. ASSUME NEW w \in Writers, WriterNext(w) PROVE Goes(n, vs)
    <2>1. ASSUME NEW k \in Requests, GetBuffer(w, k) PROVE Goes(n, vs)
      <3>1. k + HeadSize \in Nat \ {0}
        BY SizeAssumption
      <3> QED BY <1>3, <2>1, <3>1 DEF GetBuffer
    <2>2. ASSUME RetryGetBuffer(w) PROVE Goes(n, vs)
      <3>1. req[w] \in Nat \ {0}
        BY <1>1, <2>2 DEF RetryGetBuffer, CanLock, IInv, WriteLockInv, Waiting, TaskTypeOK
      <3> QED BY <1>3, <2>2, <3>1 DEF RetryGetBuffer
    <2>3. ASSUME DropBuffer(w) \/ \E k \in Requests : SendTooLarge(w, k) PROVE Goes(n, vs)
      BY <1>2, <2>3 DEF DropBuffer, SendTooLarge
    <2> QED BY <1>5, <1>6, <2>1, <2>2, <2>3 DEF WriterNext
  <1>7. ASSUME NEW r \in Readers, ReaderNext(r) PROVE Goes(n, vs)
    <2>1. ASSUME ReadUnlock(r), HaveData PROVE Goes(n, vs)
      BY <1>4, <2>1 DEF ReadUnlock
    <2>2. CASE ~(ReadUnlock(r) /\ HaveData)
      <3>1. UNCHANGED <<ring, filled, mem, live>>
        BY <1>7, <2>2 DEF ReaderNext, ReadLock, RetryRead, TryRead, ReadUnlock, PeekUnlock
      <3> QED BY <1>2, <3>1
    <2> QED BY <2>1, <2>2
  <1>8. ASSUME NEW f \in Flushers, FlusherNext(f) PROVE Goes(n, vs)
    <2>1. CASE UNCHANGED <<ring, filled, mem, live>>
      BY <1>2, <2>1
    <2>2. CASE HaveData /\ Consume(HeadAt(rp).size) /\ wp' = wp /\ mem' = mem
      BY <1>4, <2>2
    <2> QED BY <1>8, <2>1, <2>2 DEF FlusherNext, ConsumeAll, ConsumeOne, ConsumeAllDone, Halt
  <1>9. ASSUME NEW t, CloserNext(t) \/ WaitNext(t) PROVE Goes(n, vs)
    BY <1>2, <1>9 DEF CloserNext, Wakeup, RetryWakeup, WaitNext, EnterWait, ClearBits
  <1>10. UNCHANGED vars => Goes(n, vs)
    BY <1>2 DEF vars, ring
  <1> QED BY <1>6, <1>7, <1>8, <1>9, <1>10 DEF Next

\* The unconsumed blocks lie in a row from rp to wp.
WayInv == \E n, vs : Path(n, vs)

\* There is a way at first, of no blocks ...
LEMMA InitWay == Init => WayInv /\ Fifo!Init
  <1> SUFFICES ASSUME Init PROVE WayInv /\ Fifo!Init
    OBVIOUS
  <1>1. PICK vs : vs = [i \in 0 .. 0 |-> 0]
    OBVIOUS
  <1>2. Path(0, vs)
    <2>1. vs \in [0 .. 0 -> Nat] /\ vs[0] = 0
      BY <1>1
    <2> QED BY <2>1 DEF Init, Path
  <1>3. Contents = <<>>
    <2>1. ~HaveData
      BY DEF Init, HaveData
    <2> QED BY <2>1 DEF Contents
  <1> QED BY <1>2, <1>3 DEF WayInv, Fifo!Init

\* What the walk reads after a step are the blocks on the way of then.
LEMMA NextContentsListed ==
    (\A n, vs : RingTypeOK /\ RingLayout /\ Path(n, vs) => Contents = Listed(n, vs))'
  BY ContentsListed, PTL

\* ... every step keeps one, and is a step of the abstract queue.
LEMMA NextWay == IInv /\ IInv' /\ WayInv /\ [Next]_vars => WayInv' /\ [Fifo!Next]_Contents
  <1> SUFFICES ASSUME IInv, IInv', NEW n, NEW vs, Path(n, vs), [Next]_vars
               PROVE  WayInv' /\ (Fifo!Next \/ Contents' = Contents)
    BY DEF WayInv
  <1>1. RingTypeOK /\ RingLayout /\ RingTypeOK' /\ RingLayout'
    BY TypeOKSplit DEF IInv, TypeOK, RingTypeOK
  <1>2. PICK m, us :
            /\ Path(m, us)'
            /\ \/ Listed(m, us)' = Listed(n, vs)
               \/ n # 0 /\ Listed(m, us)' = Tail(Listed(n, vs))
               \/ \E b \in Fifo!Block : /\ filled + b.size <= Size
                                        /\ Listed(m, us)' = Append(Listed(n, vs), b)
    BY WayGoesOn DEF Goes
  <1>3. Contents = Listed(n, vs) /\ Fifo!Total(Contents) = filled
    BY <1>1, ContentsListed, PathTotal
  <1>4. Contents' = Listed(m, us)'
    BY <1>1, <1>2, NextContentsListed
  <1>5. n # 0 => Contents # <<>>
    <2>1. n \in Nat /\ Len(Listed(n, vs)) = n
      BY DEF Path, Listed
    <2> QED BY <1>3, <2>1
  <1>6. ASSUME n # 0, Listed(m, us)' = Tail(Listed(n, vs)) PROVE Fifo!Next
    BY <1>3, <1>4, <1>5, <1>6 DEF Fifo!Next, Fifo!Take
  <1>7. ASSUME NEW b \in Fifo!Block, filled + b.size <= Size,
               Listed(m, us)' = Append(Listed(n, vs), b)
        PROVE  Fifo!Next
    <2>1. Fifo!Put(b)
      BY <1>3, <1>4, <1>7 DEF Fifo!Put
    <2> QED BY <2>1 DEF Fifo!Next
  <1>8. WayInv'
    BY <1>2 DEF WayInv
  <1> QED BY <1>2, <1>3, <1>4, <1>6, <1>7, <1>8

\* The ring buffer is a queue of whole blocks within its size, taken once each in the
\* order of the sends: wraps, abandoned reservations, rewinds and flushes are invisible.
THEOREM RingImplementsFifo == Spec => ImplementsFifo
  <1> QED BY Invariance, InitWay, NextWay, PTL DEF Spec, ImplementsFifo, Fifo!Spec

-----------------------------------------------------------------------------
(* The message queue: its inductive invariant *)

\* The tasks in pthread_cond_wait, woken or not: user counts them.
InWait(p) == {t \in Msgs!Threads : p[t] \in {"wait", "woken"}}

UserInv == msgUser = Cardinality(InWait(msgPc))

\* Where a task can be depends on what it calls.
PlaceInv == /\ \A x \in Destroyers : msgPc[x] \in {"idle", "spin", "done"}
            /\ \A t \in Senders \cup Receivers : msgPc[t] \in {"idle", "wait", "woken", "signal"}

\* What waits to be sent, and what is queued, are messages.
DataInv == /\ \A s \in Senders : msgPc[s] \in {"wait", "woken"} => arg[s] \in Messages
           /\ \A i \in 1 .. msgFilled : data[(cur + i - 1) % Number] \in Messages

MsgIInv == Msgs!TypeOK /\ UserInv /\ PlaceInv /\ DataInv /\ Msgs!MsgQueueNoWaiterFreed

-----------------------------------------------------------------------------
(* Counting the waiting tasks *)

LEMMA WaitCount ==
    ASSUME Msgs!QueueAssumption, NEW p, NEW t \in Msgs!Threads
    PROVE  /\ Cardinality(InWait(p)) \in Nat
           /\ Cardinality(InWait(p)) = 0 <=> InWait(p) = {}
           /\ Cardinality(InWait(p) \ {t}) \in Nat
           /\ t \in InWait(p) => Cardinality(InWait(p) \ {t}) = Cardinality(InWait(p)) - 1
           /\ Cardinality((InWait(p) \ {t}) \cup {t}) = Cardinality(InWait(p) \ {t}) + 1
  <1>a. IsFiniteSet(Msgs!Threads)
    BY DEF Msgs!QueueAssumption, Msgs!IsFiniteSet, IsFiniteSet
  <1>1. IsFiniteSet(InWait(p))
    BY <1>a, FS_Subset DEF InWait
  <1>2. IsFiniteSet(InWait(p) \ {t})
    BY <1>1, FS_RemoveElement
  <1>3. Cardinality(InWait(p)) \in Nat /\ Cardinality(InWait(p) \ {t}) \in Nat
    BY <1>1, <1>2, FS_CardinalityType
  <1>4. Cardinality(InWait(p)) = 0 <=> InWait(p) = {}
    BY <1>1, FS_EmptySet
  <1>5. t \in InWait(p) => Cardinality(InWait(p) \ {t}) = Cardinality(InWait(p)) - 1
    BY <1>1, FS_RemoveElement
  <1>6. Cardinality((InWait(p) \ {t}) \cup {t}) = Cardinality(InWait(p) \ {t}) + 1
    BY <1>2, FS_AddElement
  <1> QED BY <1>3, <1>4, <1>5, <1>6

\* Going to wait adds a task, anything else takes it away.
LEMMA GotoWaits ==
    ASSUME msgPc \in [Msgs!Threads -> Msgs!PCs], NEW t \in Msgs!Threads, NEW next, Msgs!Goto(t, next)
    PROVE  /\ next = "wait" => InWait(msgPc') = (InWait(msgPc) \ {t}) \cup {t}
           /\ next \notin {"wait", "woken"} => InWait(msgPc') = InWait(msgPc) \ {t}
  BY DEF Msgs!Goto, InWait

\* pthread_cond_signal wakes a task but takes none out of pthread_cond_wait.
LEMMA SignalWaits ==
    ASSUME msgPc \in [Msgs!Threads -> Msgs!PCs], NEW t \in Msgs!Threads, msgPc[t] \notin {"wait", "woken"},
           NEW next, next \in {"idle", "spin"}, Msgs!CondSignal(t, next)
    PROVE  /\ InWait(msgPc') = InWait(msgPc)
           /\ msgPc' \in [Msgs!Threads -> Msgs!PCs] /\ msgPc'[t] = next
           /\ \A x \in Msgs!Threads \ {t} : msgPc'[x] # msgPc[x] => msgPc[x] = "wait" /\ msgPc'[x] = "woken"
  BY DEF Msgs!CondSignal, Msgs!Goto, InWait, Msgs!PCs

-----------------------------------------------------------------------------
(* The ring of slots *)

LEMMA Wraps ==
    ASSUME Msgs!QueueAssumption, cur \in 0 .. Number - 1, NEW i \in 0 .. Number - 1
    PROVE  /\ (cur + i) % Number = IF cur + i < Number THEN cur + i ELSE cur + i - Number
           /\ (cur + i) % Number \in 0 .. Number - 1
           /\ (((cur + 1) % Number) + i) % Number =
                  IF i = Number - 1 THEN cur
                  ELSE IF cur + 1 + i < Number THEN cur + 1 + i ELSE cur + 1 + i - Number
  <1> USE DEF Msgs!QueueAssumption
  <1>1. (cur + i) % Number = IF cur + i < Number THEN cur + i ELSE cur + i - Number
    OBVIOUS
  <1>2. CASE cur + 1 = Number
    <2>1. (cur + 1) % Number = 0
      BY <1>2
    <2>2. i % Number = i
      OBVIOUS
    <2> QED BY <1>1, <1>2, <2>1, <2>2
  <1>3. CASE cur + 1 < Number
    <2>1. (cur + 1) % Number = cur + 1
      BY <1>3
    <2>2. (cur + 1 + i) % Number =
              IF cur + 1 + i < Number THEN cur + 1 + i ELSE cur + 1 + i - Number
      BY <1>3
    <2> QED BY <1>1, <1>3, <2>1, <2>2
  <1> QED BY <1>2, <1>3

\* A send fills the slot after the queued ones and touches none of them.
LEMMA SendSlots ==
    ASSUME Msgs!QueueAssumption, Msgs!TypeOK, msgFilled < Number, NEW m,
           data' = [data EXCEPT ![(cur + msgFilled) % Number] = m],
           msgFilled' = msgFilled + 1, cur' = cur
    PROVE  \A i \in 1 .. msgFilled' : data'[(cur' + i - 1) % Number] =
               IF i = msgFilled' THEN m ELSE data[(cur + i - 1) % Number]
  <1> SUFFICES ASSUME NEW i \in 1 .. msgFilled + 1
               PROVE  data'[(cur + i - 1) % Number] =
                          IF i = msgFilled + 1 THEN m ELSE data[(cur + i - 1) % Number]
    BY DEF Msgs!TypeOK
  <1>1. i - 1 \in 0 .. Number - 1 /\ msgFilled \in 0 .. Number - 1 /\ cur + i - 1 = cur + (i - 1)
    BY DEF Msgs!TypeOK, Msgs!QueueAssumption
  <1>2. (cur + msgFilled) % Number \in 0 .. Number - 1 /\ (cur + i - 1) % Number \in 0 .. Number - 1
    BY <1>1, Wraps DEF Msgs!TypeOK
  <1>3. ASSUME i # msgFilled + 1
        PROVE  (cur + i - 1) % Number # (cur + msgFilled) % Number
    <2>1. /\ (cur + (i - 1)) % Number =
                 IF cur + (i - 1) < Number THEN cur + (i - 1) ELSE cur + (i - 1) - Number
          /\ (cur + msgFilled) % Number =
                 IF cur + msgFilled < Number THEN cur + msgFilled ELSE cur + msgFilled - Number
      BY <1>1, Wraps DEF Msgs!TypeOK
    <2>2. i - 1 < msgFilled
      BY <1>3 DEF Msgs!TypeOK
    <2> QED BY <1>1, <2>1, <2>2, SMTT(30) DEF Msgs!TypeOK, Msgs!QueueAssumption
  <1>4. i = msgFilled + 1 => cur + i - 1 = cur + msgFilled
    BY DEF Msgs!TypeOK
  <1> QED BY <1>1, <1>2, <1>3, <1>4 DEF Msgs!TypeOK

\* A receive shifts the queue by one.
LEMMA RecvSlots ==
    ASSUME Msgs!QueueAssumption, Msgs!TypeOK, msgFilled # 0,
           data' = data, msgFilled' = msgFilled - 1, cur' = (cur + 1) % Number
    PROVE  /\ cur' \in 0 .. Number - 1
           /\ \A i \in 1 .. msgFilled' :
                 data'[(cur' + i - 1) % Number] = data[(cur + (i + 1) - 1) % Number]
  <1>0. 1 \in 0 .. Number - 1 \/ Number = 1
    BY DEF Msgs!QueueAssumption
  <1>1. cur' \in 0 .. Number - 1
    BY <1>0, Wraps DEF Msgs!TypeOK, Msgs!QueueAssumption
  <1>2. ASSUME NEW i \in 1 .. msgFilled - 1
        PROVE  (((cur + 1) % Number) + i - 1) % Number = (cur + (i + 1) - 1) % Number
    <2>1. i - 1 \in 0 .. Number - 1 /\ i \in 0 .. Number - 1 /\ i - 1 # Number - 1
      BY DEF Msgs!TypeOK, Msgs!QueueAssumption
    <2>2. /\ (((cur + 1) % Number) + (i - 1)) % Number =
                 IF cur + 1 + (i - 1) < Number THEN cur + 1 + (i - 1)
                 ELSE cur + 1 + (i - 1) - Number
          /\ (cur + i) % Number = IF cur + i < Number THEN cur + i ELSE cur + i - Number
      BY <2>1, Wraps DEF Msgs!TypeOK
    <2>3. /\ ((cur + 1) % Number) + i - 1 = ((cur + 1) % Number) + (i - 1)
          /\ cur + (i + 1) - 1 = cur + i
      BY <1>1 DEF Msgs!TypeOK, Msgs!QueueAssumption
    <2> QED BY <2>1, <2>2, <2>3 DEF Msgs!TypeOK, Msgs!QueueAssumption
  <1> QED BY <1>1, <1>2 DEF Msgs!TypeOK

-----------------------------------------------------------------------------
(* The steps *)

\* The critical section of a send, entered by a task that no longer counts as waiting.
LEMMA TrySendStep ==
    ASSUME Msgs!QueueAssumption, MsgIInv, NEW s \in Senders, NEW m \in Messages, NEW u,
           u = Cardinality(InWait(msgPc) \ {s}), ~freed, Msgs!TrySend(s, m, u)
    PROVE  MsgIInv'
  <1> USE DEF MsgIInv
  <1>1. s \in Msgs!Threads /\ u \in Nat
    BY WaitCount DEF Msgs!Threads
  <1>2. CASE ~msgQuit /\ msgFilled >= Number
    <2>1. msgUser' = u + 1 /\ arg' = [arg EXCEPT ![s] = m] /\ Msgs!Goto(s, "wait")
          /\ UNCHANGED <<cur, msgFilled, msgQuit, data, freed>>
      BY <1>2 DEF Msgs!TrySend, Msgs!TypeOK, Msgs!QueueAssumption
    <2>2. Msgs!TypeOK'
      BY <1>1, <2>1 DEF Msgs!TypeOK, Msgs!Goto, Msgs!PCs
    <2>3. UserInv'
      BY <1>1, <2>1, GotoWaits, WaitCount DEF UserInv, Msgs!TypeOK
    <2>4. PlaceInv'
      BY <1>1, <2>1 DEF PlaceInv, Msgs!Goto, Msgs!TypeOK, Msgs!QueueAssumption, Msgs!Threads
    <2>5. DataInv'
      BY <1>1, <2>1 DEF DataInv, Msgs!Goto, Msgs!TypeOK, Msgs!Threads
    <2>6. Msgs!MsgQueueNoWaiterFreed'
      BY <2>1 DEF Msgs!MsgQueueNoWaiterFreed
    <2> QED BY <2>2, <2>3, <2>4, <2>5, <2>6
  <1>3. CASE msgQuit \/ msgFilled < Number
    <2>1. /\ msgUser' = u /\ arg' = [arg EXCEPT ![s] = NoMsg]
          /\ UNCHANGED <<cur, msgQuit, freed>>
          /\ \E n \in {"signal", "idle"} : Msgs!Goto(s, n)
      BY <1>3 DEF Msgs!TrySend, Msgs!TypeOK, Msgs!QueueAssumption
    <2>2. \/ /\ data' = [data EXCEPT ![(cur + msgFilled) % Number] = m] /\ msgFilled' = msgFilled + 1
             /\ msgFilled < Number
          \/ UNCHANGED <<data, msgFilled>>
      BY <1>3 DEF Msgs!TrySend, Msgs!TypeOK, Msgs!QueueAssumption
    <2>3. Msgs!TypeOK'
      <3>1. msgPc' \in [Msgs!Threads -> Msgs!PCs] /\ msgUser' \in Nat
            /\ arg' \in [Senders -> Messages \cup {NoMsg}]
        BY <1>1, <2>1 DEF Msgs!TypeOK, Msgs!Goto, Msgs!PCs
      <3>2. data' \in [0 .. Number - 1 -> Messages \cup {NoMsg}] /\ msgFilled' \in 0 .. Number
        BY <2>2 DEF Msgs!TypeOK, Msgs!QueueAssumption
      <3> QED BY <2>1, <3>1, <3>2 DEF Msgs!TypeOK
    <2>4. UserInv'
      BY <1>1, <2>1, GotoWaits DEF UserInv, Msgs!TypeOK
    <2>5. PlaceInv'
      BY <1>1, <2>1 DEF PlaceInv, Msgs!Goto, Msgs!TypeOK, Msgs!QueueAssumption, Msgs!Threads
    <2>6. DataInv'
      <3>1. \A x \in Senders : msgPc'[x] \in {"wait", "woken"} => arg'[x] \in Messages
        BY <1>1, <2>1 DEF DataInv, Msgs!Goto, Msgs!TypeOK, Msgs!Threads
      <3>2. \A i \in 1 .. msgFilled' : data'[(cur' + i - 1) % Number] \in Messages
        <4>1. CASE UNCHANGED <<data, msgFilled>>
          BY <2>1, <4>1 DEF DataInv
        <4>2. CASE /\ data' = [data EXCEPT ![(cur + msgFilled) % Number] = m]
                   /\ msgFilled' = msgFilled + 1 /\ msgFilled < Number
          <5>1. \A i \in 1 .. msgFilled' : data'[(cur' + i - 1) % Number] =
                    IF i = msgFilled' THEN m ELSE data[(cur + i - 1) % Number]
            BY <2>1, <4>2, SendSlots
          <5>2. \A i \in 1 .. msgFilled' : i # msgFilled' => i \in 1 .. msgFilled
            BY <4>2 DEF Msgs!TypeOK
          <5> QED BY <5>1, <5>2 DEF DataInv
        <4> QED BY <2>2, <4>1, <4>2
      <3> QED BY <3>1, <3>2 DEF DataInv
    <2>7. Msgs!MsgQueueNoWaiterFreed'
      BY <2>1 DEF Msgs!MsgQueueNoWaiterFreed
    <2> QED BY <2>3, <2>4, <2>5, <2>6, <2>7
  <1> QED BY <1>2, <1>3 DEF Msgs!TrySend

\* The critical section of a receive, likewise.
LEMMA TryRecvStep ==
    ASSUME Msgs!QueueAssumption, MsgIInv, NEW r \in Receivers, NEW noWait \in BOOLEAN, NEW u,
           u = Cardinality(InWait(msgPc) \ {r}), ~freed, Msgs!TryRecv(r, u, noWait)
    PROVE  MsgIInv'
  <1> USE DEF MsgIInv
  <1>1. r \in Msgs!Threads /\ r \notin Senders /\ u \in Nat
    BY WaitCount DEF Msgs!Threads, Msgs!QueueAssumption
  <1>2. /\ arg' = arg /\ data' = data /\ UNCHANGED <<msgQuit, freed>>
        /\ \/ /\ msgUser' = u + 1 /\ Msgs!Goto(r, "wait") /\ UNCHANGED <<cur, msgFilled>>
           \/ /\ msgUser' = u /\ (Msgs!Goto(r, "idle") \/ Msgs!Goto(r, "signal"))
              /\ \/ UNCHANGED <<cur, msgFilled>>
                 \/ /\ msgFilled # 0 /\ msgFilled' = msgFilled - 1 /\ cur' = (cur + 1) % Number
    BY DEF Msgs!TryRecv
  <1>3. Msgs!TypeOK'
    <2>1. msgPc' \in [Msgs!Threads -> Msgs!PCs] /\ msgUser' \in Nat
      BY <1>1, <1>2 DEF Msgs!TypeOK, Msgs!Goto, Msgs!PCs
    <2>2. cur' \in 0 .. Number - 1 /\ msgFilled' \in 0 .. Number
      BY <1>2, RecvSlots DEF Msgs!TypeOK, Msgs!QueueAssumption
    <2> QED BY <1>2, <2>1, <2>2 DEF Msgs!TypeOK
  <1>4. UserInv'
    <2>1. CASE msgUser' = u + 1 /\ Msgs!Goto(r, "wait")
      BY <1>1, <2>1, GotoWaits, WaitCount DEF UserInv, Msgs!TypeOK
    <2>2. CASE msgUser' = u /\ (Msgs!Goto(r, "idle") \/ Msgs!Goto(r, "signal"))
      <3>1. InWait(msgPc') = InWait(msgPc) \ {r}
        BY <1>1, <2>2, GotoWaits DEF Msgs!TypeOK
      <3> QED BY <2>2, <3>1 DEF UserInv
    <2> QED BY <1>2, <2>1, <2>2
  <1>5. PlaceInv'
    BY <1>1, <1>2 DEF PlaceInv, Msgs!Goto, Msgs!TypeOK, Msgs!QueueAssumption, Msgs!Threads
  <1>6. DataInv'
    <2>1. \A x \in Senders : msgPc'[x] \in {"wait", "woken"} => arg'[x] \in Messages
      BY <1>1, <1>2 DEF DataInv, Msgs!Goto, Msgs!TypeOK, Msgs!Threads
    <2>2. \A i \in 1 .. msgFilled' : data'[(cur' + i - 1) % Number] \in Messages
      <3>1. CASE UNCHANGED <<cur, msgFilled>>
        BY <1>2, <3>1 DEF DataInv
      <3>2. CASE msgFilled # 0 /\ msgFilled' = msgFilled - 1 /\ cur' = (cur + 1) % Number
        <4>1. \A i \in 1 .. msgFilled' : i + 1 \in 1 .. msgFilled
          BY <3>2 DEF Msgs!TypeOK
        <4> QED BY <1>2, <3>2, <4>1, RecvSlots DEF DataInv
      <3> QED BY <1>2, <3>1, <3>2
    <2> QED BY <2>1, <2>2 DEF DataInv
  <1>7. Msgs!MsgQueueNoWaiterFreed'
    BY <1>2 DEF Msgs!MsgQueueNoWaiterFreed
  <1> QED BY <1>3, <1>4, <1>5, <1>6, <1>7

\* A signal wakes at most one task.
LEMMA SignalStep ==
    ASSUME Msgs!QueueAssumption, MsgIInv, NEW t \in Msgs!Threads, msgPc[t] \notin {"wait", "woken"},
           \/ t \in Senders \cup Receivers /\ Msgs!CondSignal(t, "idle") /\ msgQuit' = msgQuit
           \/ t \in Destroyers /\ Msgs!CondSignal(t, "spin") /\ msgQuit' = TRUE,
           UNCHANGED <<cur, msgFilled, msgUser, data, arg, freed>>
    PROVE  MsgIInv'
  <1> USE DEF MsgIInv
  <1>1. PICK next \in {"idle", "spin"} :
            /\ Msgs!CondSignal(t, next)
            /\ t \in Senders \cup Receivers => next = "idle"
    BY DEF Msgs!QueueAssumption
  <1>2. next \in {"idle", "spin"}
    OBVIOUS
  <1>3. /\ InWait(msgPc') = InWait(msgPc) /\ msgPc' \in [Msgs!Threads -> Msgs!PCs] /\ msgPc'[t] = next
        /\ \A x \in Msgs!Threads \ {t} : msgPc'[x] # msgPc[x] => msgPc[x] = "wait" /\ msgPc'[x] = "woken"
    <2>1. msgPc \in [Msgs!Threads -> Msgs!PCs]
      BY DEF Msgs!TypeOK
    <2>2. InWait(msgPc') = InWait(msgPc) /\ msgPc' \in [Msgs!Threads -> Msgs!PCs] /\ msgPc'[t] = next
      BY <1>1, <1>2, <2>1, SignalWaits
    <2>3. \A x \in Msgs!Threads \ {t} : msgPc'[x] # msgPc[x] => msgPc[x] = "wait" /\ msgPc'[x] = "woken"
      BY <1>1, <1>2, <2>1, SignalWaits
    <2> QED BY <2>2, <2>3
  <1>4. Msgs!TypeOK'
    BY <1>3 DEF Msgs!TypeOK
  <1>5. UserInv'
    BY <1>3 DEF UserInv
  <1>6. PlaceInv'
    <2>1. \A x \in Destroyers : msgPc'[x] \in {"idle", "spin", "done"}
      BY <1>1, <1>3 DEF PlaceInv, Msgs!Threads
    <2>2. \A x \in Senders \cup Receivers : msgPc'[x] \in {"idle", "wait", "woken", "signal"}
      BY <1>1, <1>3 DEF PlaceInv, Msgs!Threads
    <2> QED BY <2>1, <2>2 DEF PlaceInv
  <1>7. DataInv'
    BY <1>1, <1>3 DEF DataInv, Msgs!Threads
  <1>8. Msgs!MsgQueueNoWaiterFreed'
    BY <1>3 DEF Msgs!MsgQueueNoWaiterFreed, InWait
  <1> QED BY <1>4, <1>5, <1>6, <1>7, <1>8

\* The queue is freed when nobody waits.
LEMMA DestroyEndStep ==
    ASSUME Msgs!QueueAssumption, MsgIInv, NEW x \in Destroyers, Msgs!DestroyEnd(x)
    PROVE  MsgIInv'
  <1> USE DEF MsgIInv
  <1>1. x \in Msgs!Threads /\ msgPc[x] = "spin" /\ msgUser = 0 /\ Msgs!Goto(x, "done")
        /\ UNCHANGED <<cur, msgFilled, msgQuit, msgUser, data, arg>>
    BY DEF Msgs!DestroyEnd, Msgs!Threads
  <1>2. InWait(msgPc) = {}
    BY <1>1, WaitCount DEF UserInv
  <1>3. InWait(msgPc') = {}
    BY <1>1, <1>2, GotoWaits DEF Msgs!TypeOK
  <1>4. Msgs!TypeOK'
    BY <1>1 DEF Msgs!TypeOK, Msgs!Goto, Msgs!PCs, Msgs!DestroyEnd
  <1>5. UserInv'
    BY <1>1, <1>2, <1>3 DEF UserInv
  <1>6. PlaceInv'
    BY <1>1 DEF PlaceInv, Msgs!Goto, Msgs!TypeOK, Msgs!QueueAssumption
  <1>7. DataInv'
    BY <1>1 DEF DataInv, Msgs!Goto, Msgs!TypeOK
  <1>8. Msgs!MsgQueueNoWaiterFreed'
    BY <1>3 DEF Msgs!MsgQueueNoWaiterFreed, InWait
  <1> QED BY <1>4, <1>5, <1>6, <1>7, <1>8

LEMMA MsgInitIInv == Msgs!QueueAssumption /\ Msgs!Init => MsgIInv
  <1> SUFFICES ASSUME Msgs!QueueAssumption, Msgs!Init PROVE MsgIInv
    OBVIOUS
  <1>1. Msgs!TypeOK
    <2>1. data \in [0 .. Number - 1 -> Messages \cup {NoMsg}] /\ msgPc \in [Msgs!Threads -> Msgs!PCs]
          /\ arg \in [Senders -> Messages \cup {NoMsg}]
      BY DEF Msgs!Init, Msgs!PCs
    <2>2. 0 \in 0 .. Number - 1 /\ 0 \in 0 .. Number
      BY DEF Msgs!QueueAssumption
    <2> QED BY <2>1, <2>2 DEF Msgs!Init, Msgs!TypeOK
  <1>2. UserInv
    <2>1. InWait(msgPc) = {}
      BY DEF Msgs!Init, InWait
    <2> QED BY <2>1, FS_EmptySet DEF Msgs!Init, UserInv
  <1>3. PlaceInv /\ Msgs!MsgQueueNoWaiterFreed
    BY DEF Msgs!Init, PlaceInv, Msgs!MsgQueueNoWaiterFreed, Msgs!Threads
  <1>4. DataInv
    BY DEF Msgs!Init, DataInv, Msgs!Threads
  <1> QED BY <1>1, <1>2, <1>3, <1>4 DEF MsgIInv

LEMMA MsgNextIInv == Msgs!QueueAssumption /\ MsgIInv /\ [Msgs!Next]_(Msgs!vars) => MsgIInv'
  <1> SUFFICES ASSUME Msgs!QueueAssumption, MsgIInv, [Msgs!Next]_(Msgs!vars) PROVE MsgIInv'
    OBVIOUS
  <1> USE DEF Msgs!Threads
  <1>1. ASSUME NEW s \in Senders, NEW m \in Messages, Msgs!Send(s, m) PROVE MsgIInv'
    <2>1. InWait(msgPc) \ {s} = InWait(msgPc)
      BY <1>1 DEF Msgs!Send, InWait
    <2> QED BY <1>1, <2>1, TrySendStep DEF Msgs!Send, MsgIInv, UserInv
  <1>2. ASSUME NEW s \in Senders, Msgs!ResumeSend(s) PROVE MsgIInv'
    <2>1. s \in InWait(msgPc) /\ ~freed /\ arg[s] \in Messages
      BY <1>2 DEF Msgs!ResumeSend, InWait, MsgIInv, Msgs!MsgQueueNoWaiterFreed, DataInv
    <2>2. msgUser - 1 = Cardinality(InWait(msgPc) \ {s})
      BY <2>1, WaitCount DEF MsgIInv, UserInv
    <2> QED BY <1>2, <2>1, <2>2, TrySendStep DEF Msgs!ResumeSend
  <1>3. ASSUME NEW r \in Receivers, Msgs!Recv(r) PROVE MsgIInv'
    <2>1. InWait(msgPc) \ {r} = InWait(msgPc)
      BY <1>3 DEF Msgs!Recv, InWait
    <2> QED BY <1>3, <2>1, TryRecvStep DEF Msgs!Recv, MsgIInv, UserInv
  <1>4. ASSUME NEW r \in Receivers, Msgs!ResumeRecv(r) PROVE MsgIInv'
    <2>1. r \in InWait(msgPc) /\ ~freed
      BY <1>4 DEF Msgs!ResumeRecv, InWait, MsgIInv, Msgs!MsgQueueNoWaiterFreed
    <2>2. msgUser - 1 = Cardinality(InWait(msgPc) \ {r})
      BY <2>1, WaitCount DEF MsgIInv, UserInv
    <2> QED BY <1>4, <2>1, <2>2, TryRecvStep DEF Msgs!ResumeRecv
  <1>5. ASSUME NEW t \in Senders \cup Receivers, Msgs!NotifyOne(t) PROVE MsgIInv'
    BY <1>5, SignalStep DEF Msgs!NotifyOne
  <1>6. ASSUME NEW x \in Destroyers, Msgs!DestroyBegin(x) PROVE MsgIInv'
    BY <1>6, SignalStep DEF Msgs!DestroyBegin
  <1>7. ASSUME NEW x \in Destroyers, Msgs!DestroyEnd(x) PROVE MsgIInv'
    BY <1>7, DestroyEndStep
  <1>8. CASE UNCHANGED Msgs!vars
    BY <1>8 DEF Msgs!vars, MsgIInv, Msgs!TypeOK, UserInv, PlaceInv, DataInv,
       Msgs!MsgQueueNoWaiterFreed
  <1> QED BY <1>1, <1>2, <1>3, <1>4, <1>5, <1>6, <1>7, <1>8 DEF Msgs!Next

\* The inductive invariant holds in every state of msg_q.c.
THEOREM MsgInvariance == ASSUME Msgs!QueueAssumption PROVE Msgs!Spec => []MsgIInv
  BY MsgInitIInv, MsgNextIInv, PTL DEF Msgs!Spec

\* Every variable keeps its type; the queue never holds more than msg_number messages.
THEOREM MsgTypeCorrect == ASSUME Msgs!QueueAssumption PROVE Msgs!Spec => []Msgs!TypeOK
  <1>1. MsgIInv => Msgs!TypeOK
    BY DEF MsgIInv
  <1> QED BY <1>1, MsgInvariance, PTL

\* msg_q_destroy frees the queue only when no task is left in pthread_cond_wait on it,
\* because user counts exactly the tasks that are, woken or not.  It says nothing of
\* a task that has released the mutex and is still to signal: user does not count it.
THEOREM MsgQueueFreedUnderNoWaiter ==
    ASSUME Msgs!QueueAssumption
    PROVE  Msgs!Spec => []MsgQueueNoWaiterFreed
  <1>1. MsgIInv => MsgQueueNoWaiterFreed
    BY DEF MsgIInv, MsgQueueNoWaiterFreed
  <1> QED BY <1>1, MsgInvariance, PTL

-----------------------------------------------------------------------------
(* The size of the abstract queue *)

\* Blocks of size 1 add up to their number.
LEMMA OnesTotal ==
    ASSUME NEW s, Len(s) \in Nat, \A i \in 1 .. Len(s) : s[i].size = 1
    PROVE  Msgs!Fifo!Total(s) = Len(s)
  <1>1. PICK g : g = [i \in 0 .. Len(s) |-> i]
    OBVIOUS
  <1>2. Sums(g, s)
    BY <1>1 DEF Sums
  <1>3. Fifo!Total(s) = Len(s)
    BY <1>1, <1>2, TotalSums
  <1>4. Msgs!Fifo!Total(s) = Fifo!Total(s)
    BY DEF Msgs!Fifo!Total, Fifo!Total
  <1> QED BY <1>3, <1>4

-----------------------------------------------------------------------------
(* The message queue implements the abstract one *)

Unit(m) == [size |-> 1, tag |-> m]
AbsQueue == [i \in 1 .. msgFilled |-> [size |-> 1, tag |-> Msgs!Queued[i]]]

LEMMA UnitsAreSeq ==
    ASSUME NEW n \in Nat, NEW m, \A i \in 1 .. n : m[i] \in Messages,
           NEW q, q = [i \in 1 .. n |-> [size |-> 1, tag |-> m[i]]]
    PROVE  /\ q \in Seq(Msgs!Fifo!Block) /\ Len(q) = n
           /\ \A i \in 1 .. n : q[i] = Unit(m[i])
  <1>1. q \in [1 .. n -> Msgs!Fifo!Block]
    BY DEF Msgs!Fifo!Block
  <1> QED BY <1>1, IsASeq DEF Unit

LEMMA AbsIsSeq ==
    ASSUME Msgs!QueueAssumption, MsgIInv
    PROVE  /\ AbsQueue \in Seq(Msgs!Fifo!Block) /\ Len(AbsQueue) = msgFilled
           /\ \A i \in 1 .. msgFilled : AbsQueue[i] = Unit(data[(cur + i - 1) % Number])
           /\ Msgs!Fifo!Total(AbsQueue) = msgFilled
  <1>1. msgFilled \in Nat
    BY DEF MsgIInv, Msgs!TypeOK
  <1>2. \A i \in 1 .. msgFilled : Msgs!Queued[i] = data[(cur + i - 1) % Number]
    BY DEF Msgs!Queued
  <1>3. \A i \in 1 .. msgFilled : Msgs!Queued[i] \in Messages
    BY <1>2 DEF MsgIInv, DataInv
  <1>4. /\ AbsQueue \in Seq(Msgs!Fifo!Block) /\ Len(AbsQueue) = msgFilled
        /\ \A i \in 1 .. msgFilled : AbsQueue[i] = Unit(Msgs!Queued[i])
    BY <1>1, <1>3, UnitsAreSeq DEF AbsQueue
  <1>5. \A i \in 1 .. Len(AbsQueue) : AbsQueue[i].size = 1
    BY <1>4 DEF Unit
  <1>6. Msgs!Fifo!Total(AbsQueue) = msgFilled
    BY <1>1, <1>4, <1>5, OnesTotal
  <1> QED BY <1>2, <1>4, <1>6

\* The same of the queue after a step, without its total.
LEMMA AbsIsSeqNext ==
    ASSUME Msgs!QueueAssumption, MsgIInv'
    PROVE  /\ AbsQueue' \in Seq(Msgs!Fifo!Block) /\ Len(AbsQueue') = msgFilled'
           /\ \A i \in 1 .. msgFilled' : AbsQueue'[i] = Unit(data'[(cur' + i - 1) % Number])
  <1>1. msgFilled' \in Nat
    BY DEF MsgIInv, Msgs!TypeOK
  <1>2. \A i \in 1 .. msgFilled' : Msgs!Queued'[i] = data'[(cur' + i - 1) % Number]
    BY DEF Msgs!Queued
  <1>3. \A i \in 1 .. msgFilled' : Msgs!Queued'[i] \in Messages
    BY <1>2 DEF MsgIInv, DataInv
  <1>4. /\ AbsQueue' \in Seq(Msgs!Fifo!Block) /\ Len(AbsQueue') = msgFilled'
        /\ \A i \in 1 .. msgFilled' : AbsQueue'[i] = Unit(Msgs!Queued'[i])
    BY <1>1, <1>3, UnitsAreSeq DEF AbsQueue
  <1> QED BY <1>2, <1>4

\* A send appends its message, if the queue does not quit.
LEMMA SendRefines ==
    ASSUME Msgs!QueueAssumption, MsgIInv, MsgIInv', NEW s \in Senders, NEW m \in Messages, NEW u,
           Msgs!TrySend(s, m, u)
    PROVE  Msgs!Fifo!Next \/ UNCHANGED AbsQueue
  <1>1. CASE UNCHANGED <<cur, msgFilled, data>>
    BY <1>1 DEF AbsQueue, Msgs!Queued
  <1>2. CASE /\ data' = [data EXCEPT ![(cur + msgFilled) % Number] = m] /\ msgFilled' = msgFilled + 1
             /\ msgFilled < Number /\ cur' = cur
    <2>1. \A i \in 1 .. msgFilled' : data'[(cur' + i - 1) % Number] =
              IF i = msgFilled' THEN m ELSE data[(cur + i - 1) % Number]
      BY <1>2, SendSlots DEF MsgIInv
    <2>2. Unit(m) \in Msgs!Fifo!Block
      BY DEF Unit, Msgs!Fifo!Block
    <2>3. /\ Append(AbsQueue, Unit(m)) \in Seq(Msgs!Fifo!Block)
          /\ Len(Append(AbsQueue, Unit(m))) = msgFilled + 1
          /\ \A i \in 1 .. msgFilled : Append(AbsQueue, Unit(m))[i] = AbsQueue[i]
          /\ Append(AbsQueue, Unit(m))[msgFilled + 1] = Unit(m)
      BY <2>2, AbsIsSeq, AppendProperties
    <2>4. /\ AbsQueue' \in Seq(Msgs!Fifo!Block) /\ Len(AbsQueue') = msgFilled + 1
          /\ \A i \in 1 .. msgFilled + 1 : AbsQueue'[i] = Unit(data'[(cur' + i - 1) % Number])
      BY <1>2, AbsIsSeqNext
    <2>5. \A i \in 1 .. msgFilled + 1 : AbsQueue'[i] = Append(AbsQueue, Unit(m))[i]
      BY <1>2, <2>1, <2>3, <2>4, AbsIsSeq DEF MsgIInv, Msgs!TypeOK
    <2>6. AbsQueue' = Append(AbsQueue, Unit(m))
      BY <2>3, <2>4, <2>5, SeqEqual
    <2>7. Msgs!Fifo!Total(AbsQueue) + Unit(m).size <= Number
      BY <1>2, AbsIsSeq DEF Unit, MsgIInv, Msgs!TypeOK, Msgs!QueueAssumption
    <2>8. Msgs!Fifo!Put(Unit(m))
      BY <2>6, <2>7 DEF Msgs!Fifo!Put, AbsQueue, Unit
    <2> QED BY <2>2, <2>8 DEF Msgs!Fifo!Next
  <1> QED BY <1>1, <1>2 DEF Msgs!TrySend

\* A receive takes the oldest message, if there is one and the queue does not quit.
LEMMA RecvRefines ==
    ASSUME Msgs!QueueAssumption, MsgIInv, MsgIInv', NEW r \in Receivers, NEW u, NEW noWait,
           Msgs!TryRecv(r, u, noWait)
    PROVE  Msgs!Fifo!Next \/ UNCHANGED AbsQueue
  <1>1. CASE UNCHANGED <<cur, msgFilled, data>>
    BY <1>1 DEF AbsQueue, Msgs!Queued
  <1>2. CASE msgFilled # 0 /\ msgFilled' = msgFilled - 1 /\ cur' = (cur + 1) % Number /\ data' = data
    <2>1. \A i \in 1 .. msgFilled' :
              data'[(cur' + i - 1) % Number] = data[(cur + (i + 1) - 1) % Number]
      BY <1>2, RecvSlots DEF MsgIInv
    <2>2. AbsQueue # <<>> /\ msgFilled \in Nat
      BY <1>2, AbsIsSeq DEF MsgIInv, Msgs!TypeOK
    <2>3. /\ Tail(AbsQueue) \in Seq(Msgs!Fifo!Block) /\ Len(Tail(AbsQueue)) = msgFilled - 1
          /\ \A i \in 1 .. msgFilled - 1 : Tail(AbsQueue)[i] = AbsQueue[i + 1]
      BY <2>2, AbsIsSeq, HeadTailProperties
    <2>4. /\ AbsQueue' \in Seq(Msgs!Fifo!Block) /\ Len(AbsQueue') = msgFilled - 1
          /\ \A i \in 1 .. msgFilled - 1 : AbsQueue'[i] = Unit(data'[(cur' + i - 1) % Number])
      BY <1>2, AbsIsSeqNext
    <2>5. \A i \in 1 .. msgFilled - 1 : AbsQueue'[i] = Tail(AbsQueue)[i]
      <3>1. TAKE i \in 1 .. msgFilled - 1
      <3>2. i \in 1 .. msgFilled' /\ i + 1 \in 1 .. msgFilled
        BY <1>2, <2>2, <3>1
      <3>3. AbsQueue[i + 1] = Unit(data[(cur + (i + 1) - 1) % Number])
        BY <3>2, AbsIsSeq
      <3>4. AbsQueue'[i] = Unit(data'[(cur' + i - 1) % Number])
        BY <2>4, <3>1
      <3> QED BY <2>1, <2>3, <3>1, <3>2, <3>3, <3>4
    <2>6. AbsQueue' = Tail(AbsQueue)
      <3>1. Len(AbsQueue') = Len(Tail(AbsQueue))
        BY <2>3, <2>4
      <3>2. \A i \in 1 .. Len(AbsQueue') : AbsQueue'[i] = Tail(AbsQueue)[i]
        BY <2>4, <2>5
      <3> QED BY <2>3, <2>4, <3>1, <3>2, SeqEqual
    <2> QED BY <2>2, <2>6 DEF Msgs!Fifo!Next, Msgs!Fifo!Take, AbsQueue
  <1> QED BY <1>1, <1>2 DEF Msgs!TryRecv

\* The message queue is a queue of msg_number whole messages, received once each in the
\* order of the sends, whoever waits, polls or destroys it.
THEOREM ImplementsFifoQueue ==
    ASSUME Msgs!QueueAssumption
    PROVE  Msgs!Spec => Msgs!ImplementsFifo
  <1>1. Msgs!Init => Msgs!Fifo!Init
    BY DEF Msgs!Init, Msgs!Fifo!Init
  <1>2. MsgIInv /\ MsgIInv' /\ [Msgs!Next]_(Msgs!vars) => [Msgs!Fifo!Next]_AbsQueue
    <2> SUFFICES ASSUME MsgIInv, MsgIInv', [Msgs!Next]_(Msgs!vars) PROVE Msgs!Fifo!Next \/ UNCHANGED AbsQueue
      OBVIOUS
    <2>1. ASSUME NEW s \in Senders, NEW m \in Messages, Msgs!Send(s, m)
          PROVE  Msgs!Fifo!Next \/ UNCHANGED AbsQueue
      BY <2>1, SendRefines DEF Msgs!Send
    <2>2. ASSUME NEW s \in Senders, Msgs!ResumeSend(s) PROVE Msgs!Fifo!Next \/ UNCHANGED AbsQueue
      <3>1. arg[s] \in Messages
        BY <2>2 DEF Msgs!ResumeSend, MsgIInv, DataInv
      <3> QED BY <2>2, <3>1, SendRefines DEF Msgs!ResumeSend
    <2>3. ASSUME NEW r \in Receivers, Msgs!Recv(r) \/ Msgs!ResumeRecv(r)
          PROVE  Msgs!Fifo!Next \/ UNCHANGED AbsQueue
      BY <2>3, RecvRefines DEF Msgs!Recv, Msgs!ResumeRecv
    <2>4. CASE UNCHANGED <<cur, msgFilled, data>>
      BY <2>4 DEF AbsQueue, Msgs!Queued
    <2> QED BY <2>1, <2>2, <2>3, <2>4 DEF Msgs!Next, Msgs!NotifyOne, Msgs!DestroyBegin,
               Msgs!DestroyEnd, Msgs!vars
  <1> QED BY <1>1, <1>2, MsgInvariance, PTL DEF Msgs!Spec, Msgs!ImplementsFifo,
             Msgs!Fifo!Spec, AbsQueue

-----------------------------------------------------------------------------
(* The condition wakes whom it should *)

\* The senders that sleep, and those that have sent and not yet signalled.
Sleepers(p) == {s \in Senders : p[s] = "wait"}
Notifying(p) == {s \in Senders : p[s] = "signal"}

\* Each sender that sleeps goes with a message whose receipt will wake it.
RoomInv == \A r \in Receivers : Cardinality(Sleepers(msgPc)) <= msgFilled + IF msgPc[r] = "signal" THEN 1 ELSE 0

\* While the receiver sleeps no sender does, and each message goes with a signal to come.
AwakeInv ==
    \A r \in Receivers : msgPc[r] = "wait" /\ ~msgQuit =>
        Sleepers(msgPc) = {} /\ msgFilled <= Cardinality(Notifying(msgPc))

\* One receiver, and no more senders than slots.
FewSenders == /\ \A r, x \in Receivers : r = x
              /\ Cardinality(Senders) <= Number

LEMMA SenderCounts ==
    ASSUME Msgs!QueueAssumption, NEW p, NEW S, S = Sleepers(p) \/ S = Notifying(p)
    PROVE  /\ IsFiniteSet(S) /\ Cardinality(S) \in Nat /\ Cardinality(S) <= Cardinality(Senders)
           /\ Cardinality(Senders) \in Nat
           /\ Cardinality(S) = Cardinality(Senders) => S = Senders
           /\ Cardinality(S) = 0 <=> S = {}
           /\ \A s \in S : Cardinality(S \ {s}) = Cardinality(S) - 1
           /\ \A s \in Senders \ S : Cardinality(S \cup {s}) = Cardinality(S) + 1
           /\ \A T \in SUBSET S : Cardinality(T) \in Nat /\ Cardinality(T) <= Cardinality(S)
  <1>1. IsFiniteSet(Senders)
    <2>1. IsFiniteSet(Msgs!Threads)
      BY DEF Msgs!QueueAssumption, Msgs!IsFiniteSet, IsFiniteSet
    <2> QED BY <2>1, FS_Subset DEF Msgs!Threads
  <1>2. S \in SUBSET Senders
    BY DEF Sleepers, Notifying
  <1>3. /\ IsFiniteSet(S) /\ Cardinality(S) <= Cardinality(Senders)
        /\ Cardinality(S) = Cardinality(Senders) => S = Senders
    BY <1>1, <1>2, FS_Subset
  <1>4. Cardinality(S) \in Nat /\ Cardinality(Senders) \in Nat
    BY <1>1, <1>3, FS_CardinalityType
  <1>5. Cardinality(S) = 0 <=> S = {}
    BY <1>3, FS_EmptySet
  <1>6. \A s \in S : Cardinality(S \ {s}) = Cardinality(S) - 1
    BY <1>3, FS_RemoveElement
  <1>7. \A s \in Senders \ S : Cardinality(S \cup {s}) = Cardinality(S) + 1
    BY <1>3, FS_AddElement
  <1>8. \A T \in SUBSET S : Cardinality(T) \in Nat /\ Cardinality(T) <= Cardinality(S)
    BY <1>3, FS_Subset, FS_CardinalityType
  <1> QED BY <1>3, <1>4, <1>5, <1>6, <1>7, <1>8

\* The critical section of a send: the sender that goes to sleep found the queue full.
LEMMA SendAwake ==
    ASSUME Msgs!QueueAssumption, FewSenders, MsgIInv, RoomInv, AwakeInv,
           NEW s \in Senders, NEW m, NEW u, msgPc[s] \in {"idle", "woken"}, Msgs!TrySend(s, m, u)
    PROVE  RoomInv' /\ AwakeInv'
  <1>1. /\ msgFilled \in Nat /\ msgFilled <= Number /\ Number \in Nat /\ s \in Msgs!Threads
        /\ msgPc \in [Msgs!Threads -> Msgs!PCs] /\ msgQuit \in BOOLEAN
        /\ Senders \subseteq Msgs!Threads /\ Receivers \subseteq Msgs!Threads /\ s \notin Receivers
    BY DEF MsgIInv, Msgs!TypeOK, Msgs!Threads, Msgs!QueueAssumption
  <1>2. PICK next \in {"wait", "signal", "idle"} :
           /\ Msgs!Goto(s, next) /\ msgQuit' = msgQuit
           /\ next = "wait" => ~msgQuit /\ msgFilled >= Number /\ msgFilled' = msgFilled
           /\ next = "signal" => ~msgQuit /\ msgFilled' = msgFilled + 1
           /\ next = "idle" => msgQuit /\ msgFilled' = msgFilled
    BY DEF Msgs!TrySend
  <1>3. /\ \A r \in Receivers : msgPc'[r] = msgPc[r]
        /\ s \notin Sleepers(msgPc) /\ s \notin Notifying(msgPc)
        /\ Sleepers(msgPc') = IF next = "wait" THEN Sleepers(msgPc) \cup {s} ELSE Sleepers(msgPc)
        /\ Notifying(msgPc') = IF next = "signal" THEN Notifying(msgPc) \cup {s} ELSE Notifying(msgPc)
    BY <1>1, <1>2 DEF Msgs!Goto, Sleepers, Notifying
  <1>4. /\ Cardinality(Sleepers(msgPc)) \in Nat /\ Cardinality(Notifying(msgPc)) \in Nat
        /\ Cardinality(Sleepers(msgPc')) \in Nat /\ Cardinality(Sleepers(msgPc')) <= Cardinality(Senders)
        /\ Cardinality(Notifying(msgPc)) <= Cardinality(Senders) /\ Cardinality(Senders) \in Nat
    BY SenderCounts
  <1>5. RoomInv'
    <2> SUFFICES ASSUME NEW r \in Receivers
                 PROVE  Cardinality(Sleepers(msgPc')) <= msgFilled' + IF msgPc'[r] = "signal" THEN 1 ELSE 0
      BY DEF RoomInv
    <2>1. CASE next = "wait"
      BY <1>1, <1>2, <1>4, <2>1 DEF FewSenders
    <2>2. CASE next # "wait"
      <3>1. Cardinality(Sleepers(msgPc)) <= msgFilled + IF msgPc[r] = "signal" THEN 1 ELSE 0
        BY DEF RoomInv
      <3>2. Sleepers(msgPc') = Sleepers(msgPc) /\ msgPc'[r] = msgPc[r]
        BY <1>3, <2>2
      <3>3. msgFilled' = msgFilled \/ msgFilled' = msgFilled + 1
        BY <1>2
      <3> QED BY <1>1, <1>4, <3>1, <3>2, <3>3
    <2> QED BY <2>1, <2>2
  <1>6. AwakeInv'
    <2> SUFFICES ASSUME NEW r \in Receivers, msgPc'[r] = "wait", ~msgQuit'
                 PROVE  Sleepers(msgPc') = {} /\ msgFilled' <= Cardinality(Notifying(msgPc'))
      BY DEF AwakeInv
    <2>1. Sleepers(msgPc) = {} /\ msgFilled <= Cardinality(Notifying(msgPc))
      BY <1>2, <1>3 DEF AwakeInv
    <2>2. CASE next = "wait"
      <3>1. Cardinality(Notifying(msgPc)) = Cardinality(Senders)
        BY <1>1, <1>2, <1>4, <2>1, <2>2 DEF FewSenders
      <3>2. Notifying(msgPc) = Senders
        BY <3>1, SenderCounts
      <3> QED BY <1>3, <3>2
    <2>3. CASE next = "signal"
      <3>1. Cardinality(Notifying(msgPc')) = Cardinality(Notifying(msgPc)) + 1
        BY <1>3, <2>3, SenderCounts
      <3> QED BY <1>1, <1>2, <1>3, <1>4, <2>1, <2>3, <3>1
    <2>4. CASE next = "idle"
      BY <1>2, <2>4
    <2> QED BY <2>2, <2>3, <2>4
  <1> QED BY <1>5, <1>6

\* The critical section of a receive: the receiver that goes to sleep found the queue empty.
LEMMA RecvAwake ==
    ASSUME Msgs!QueueAssumption, FewSenders, MsgIInv, RoomInv, AwakeInv,
           NEW r \in Receivers, msgPc[r] \in {"idle", "woken"},
           NEW next \in {"wait", "signal", "idle"}, Msgs!Goto(r, next), msgQuit' = msgQuit,
           next = "wait" => msgFilled = 0 /\ msgFilled' = 0,
           next = "signal" => msgFilled # 0 /\ msgFilled' = msgFilled - 1,
           next = "idle" => msgFilled' = msgFilled
    PROVE  RoomInv' /\ AwakeInv'
  <1>1. /\ msgFilled \in Nat /\ r \in Msgs!Threads /\ msgPc \in [Msgs!Threads -> Msgs!PCs]
        /\ Senders \subseteq Msgs!Threads /\ r \notin Senders
    BY DEF MsgIInv, Msgs!TypeOK, Msgs!Threads, Msgs!QueueAssumption
  <1>2. msgPc'[r] = next /\ Sleepers(msgPc') = Sleepers(msgPc) /\ Notifying(msgPc') = Notifying(msgPc)
    BY <1>1 DEF Msgs!Goto, Sleepers, Notifying
  <1>3. Cardinality(Sleepers(msgPc)) <= msgFilled /\ Cardinality(Sleepers(msgPc)) \in Nat
        /\ Cardinality(Notifying(msgPc)) \in Nat
    <2>1. Cardinality(Sleepers(msgPc)) \in Nat /\ Cardinality(Notifying(msgPc)) \in Nat
      BY SenderCounts
    <2>2. Cardinality(Sleepers(msgPc)) <= msgFilled + IF msgPc[r] = "signal" THEN 1 ELSE 0
      BY DEF RoomInv
    <2> QED BY <1>1, <2>1, <2>2
  <1>4. \A x \in Receivers : x = r
    BY DEF FewSenders
  <1>5. RoomInv'
    <2>1. Cardinality(Sleepers(msgPc')) <= msgFilled' + IF msgPc'[r] = "signal" THEN 1 ELSE 0
      BY <1>1, <1>2, <1>3
    <2> QED BY <1>4, <2>1 DEF RoomInv
  <1>6. AwakeInv'
    <2>1. next = "wait" => Cardinality(Sleepers(msgPc)) = 0
      BY <1>1, <1>3
    <2>2. next = "wait" => Sleepers(msgPc') = {} /\ msgFilled' <= Cardinality(Notifying(msgPc'))
      BY <1>2, <1>3, <2>1, SenderCounts
    <2> QED BY <1>2, <1>4, <2>2 DEF AwakeInv
  <1> QED BY <1>5, <1>6

\* A signal of a sender wakes the receiver if that sleeps; one of the receiver wakes a sender.
LEMMA SignalAwake ==
    ASSUME Msgs!QueueAssumption, FewSenders, MsgIInv, RoomInv, AwakeInv, NEW t \in Msgs!Threads,
           NEW next \in {"idle", "spin"}, Msgs!CondSignal(t, next), msgFilled' = msgFilled,
           \/ t \in Senders \cup Receivers /\ msgPc[t] = "signal" /\ msgQuit' = msgQuit
           \/ t \in Destroyers /\ msgPc[t] = "idle" /\ msgQuit' = TRUE
    PROVE  RoomInv' /\ AwakeInv'
  <1>1. /\ msgFilled \in Nat /\ msgPc \in [Msgs!Threads -> Msgs!PCs] /\ msgQuit \in BOOLEAN
        /\ Senders \subseteq Msgs!Threads /\ Receivers \subseteq Msgs!Threads
        /\ Senders \cap Receivers = {}
        /\ \A x \in Msgs!Threads : msgPc[x] = "wait" => x \in Senders \cup Receivers
    BY DEF MsgIInv, PlaceInv, Msgs!TypeOK, Msgs!Threads, Msgs!QueueAssumption
  <1>2. /\ Cardinality(Sleepers(msgPc)) \in Nat /\ Cardinality(Sleepers(msgPc')) \in Nat
    BY SenderCounts
  <1>3. \/ /\ \A x \in Msgs!Threads : msgPc[x] # "wait"
           /\ msgPc' = [msgPc EXCEPT ![t] = next]
        \/ \E x \in Msgs!Threads : msgPc[x] = "wait" /\ msgPc' = [msgPc EXCEPT ![t] = next, ![x] = "woken"]
    BY DEF Msgs!CondSignal, Msgs!Goto
  <1>4. /\ \A x \in Msgs!Threads : msgPc'[x] = "wait" => msgPc[x] = "wait"
        /\ msgPc'[t] # "signal" /\ msgPc[t] # "wait"
    BY <1>1, <1>3
  <1>5. Sleepers(msgPc') \in SUBSET Sleepers(msgPc)
    BY <1>1, <1>4 DEF Sleepers
  <1>6. Cardinality(Sleepers(msgPc')) <= Cardinality(Sleepers(msgPc))
    BY <1>5, SenderCounts
  <1>7. RoomInv'
    <2> SUFFICES ASSUME NEW r \in Receivers
                 PROVE  Cardinality(Sleepers(msgPc')) <= msgFilled' + IF msgPc'[r] = "signal" THEN 1 ELSE 0
      BY DEF RoomInv
    <2>1. Cardinality(Sleepers(msgPc)) <= msgFilled + IF msgPc[r] = "signal" THEN 1 ELSE 0
      BY DEF RoomInv
    <2>2. CASE t # r
      <3>1. msgPc[r] = "signal" => msgPc'[r] = "signal"
        BY <1>1, <1>3, <2>2
      <3> QED BY <1>1, <1>2, <1>6, <2>1, <3>1
    <2>3. CASE t = r
      <3>1. CASE \A x \in Msgs!Threads : msgPc[x] # "wait"
        <4>1. Sleepers(msgPc) = {}
          BY <1>1, <3>1 DEF Sleepers
        <4>2. Cardinality(Sleepers(msgPc)) = 0
          BY <4>1, SenderCounts
        <4> QED BY <1>1, <1>2, <1>6, <4>2
      <3>2. CASE \E x \in Msgs!Threads : msgPc[x] = "wait" /\ msgPc' = [msgPc EXCEPT ![t] = next, ![x] = "woken"]
        <4>1. PICK x \in Msgs!Threads : msgPc[x] = "wait" /\ msgPc' = [msgPc EXCEPT ![t] = next, ![x] = "woken"]
          BY <3>2
        <4>2. x \in Senders
          BY <1>1, <1>4, <2>3, <4>1 DEF FewSenders
        <4>3. x \in Sleepers(msgPc) /\ Sleepers(msgPc') = Sleepers(msgPc) \ {x}
          BY <1>1, <4>1, <4>2 DEF Sleepers
        <4>4. Cardinality(Sleepers(msgPc')) = Cardinality(Sleepers(msgPc)) - 1
          BY <4>3, SenderCounts
        <4> QED BY <1>1, <1>2, <2>1, <4>4
      <3> QED BY <1>3, <3>1, <3>2
    <2> QED BY <2>2, <2>3
  <1>8. AwakeInv'
    <2> SUFFICES ASSUME NEW r \in Receivers, msgPc'[r] = "wait", ~msgQuit' PROVE FALSE
      BY DEF AwakeInv
    <2>1. msgPc[r] = "wait" /\ ~msgQuit /\ t \in Senders
      BY <1>1, <1>4 DEF FewSenders
    <2>2. Sleepers(msgPc) = {}
      BY <2>1 DEF AwakeInv
    <2>3. PICK x \in Msgs!Threads : msgPc[x] = "wait" /\ msgPc' = [msgPc EXCEPT ![t] = next, ![x] = "woken"]
      BY <1>1, <1>3, <2>1
    <2>4. x = r
      BY <1>1, <2>2, <2>3 DEF Sleepers, FewSenders
    <2> QED BY <1>1, <2>3, <2>4
  <1> QED BY <1>7, <1>8

LEMMA NextAwake ==
    Msgs!QueueAssumption /\ FewSenders /\ MsgIInv /\ RoomInv /\ AwakeInv /\ [Msgs!Next]_(Msgs!vars)
        => RoomInv' /\ AwakeInv'
  <1> SUFFICES ASSUME Msgs!QueueAssumption, FewSenders, MsgIInv, RoomInv, AwakeInv, [Msgs!Next]_(Msgs!vars)
               PROVE  RoomInv' /\ AwakeInv'
    OBVIOUS
  <1>1. ASSUME NEW s \in Senders, NEW m \in Messages, Msgs!Send(s, m) PROVE RoomInv' /\ AwakeInv'
    BY <1>1, SendAwake DEF Msgs!Send
  <1>2. ASSUME NEW s \in Senders, Msgs!ResumeSend(s) PROVE RoomInv' /\ AwakeInv'
    BY <1>2, SendAwake DEF Msgs!ResumeSend
  <1>3. ASSUME NEW r \in Receivers, Msgs!Recv(r) PROVE RoomInv' /\ AwakeInv'
    <2>1. PICK next \in {"wait", "signal", "idle"} :
             /\ Msgs!Goto(r, next) /\ msgQuit' = msgQuit
             /\ next = "wait" => msgFilled = 0 /\ msgFilled' = 0
             /\ next = "signal" => msgFilled # 0 /\ msgFilled' = msgFilled - 1
             /\ next = "idle" => msgFilled' = msgFilled
      BY <1>3 DEF Msgs!Recv, Msgs!TryRecv
    <2>2. msgPc[r] \in {"idle", "woken"}
      BY <1>3 DEF Msgs!Recv
    <2> QED BY <2>1, <2>2, RecvAwake
  <1>4. ASSUME NEW r \in Receivers, Msgs!ResumeRecv(r) PROVE RoomInv' /\ AwakeInv'
    <2>1. PICK next \in {"wait", "signal", "idle"} :
             /\ Msgs!Goto(r, next) /\ msgQuit' = msgQuit
             /\ next = "wait" => msgFilled = 0 /\ msgFilled' = 0
             /\ next = "signal" => msgFilled # 0 /\ msgFilled' = msgFilled - 1
             /\ next = "idle" => msgFilled' = msgFilled
      BY <1>4 DEF Msgs!ResumeRecv, Msgs!TryRecv
    <2>2. msgPc[r] \in {"idle", "woken"}
      BY <1>4 DEF Msgs!ResumeRecv
    <2> QED BY <2>1, <2>2, RecvAwake
  <1>5. ASSUME NEW t \in Senders \cup Receivers, Msgs!NotifyOne(t) PROVE RoomInv' /\ AwakeInv'
    BY <1>5, SignalAwake DEF Msgs!NotifyOne, Msgs!Threads
  <1>6. ASSUME NEW x \in Destroyers, Msgs!DestroyBegin(x) PROVE RoomInv' /\ AwakeInv'
    BY <1>6, SignalAwake DEF Msgs!DestroyBegin, Msgs!Threads
  <1>7. ASSUME NEW x \in Destroyers, Msgs!DestroyEnd(x) PROVE RoomInv' /\ AwakeInv'
    <2>1. UNCHANGED <<msgFilled, msgQuit>> /\ \A t \in Senders \cup Receivers : msgPc'[t] = msgPc[t]
      BY <1>7 DEF Msgs!DestroyEnd, Msgs!Goto, MsgIInv, Msgs!TypeOK, Msgs!QueueAssumption, Msgs!Threads
    <2>2. Sleepers(msgPc') = Sleepers(msgPc) /\ Notifying(msgPc') = Notifying(msgPc)
      BY <2>1 DEF Sleepers, Notifying
    <2> QED BY <2>1, <2>2 DEF RoomInv, AwakeInv
  <1>8. CASE UNCHANGED Msgs!vars
    BY <1>8 DEF Msgs!vars, RoomInv, AwakeInv
  <1> QED BY <1>1, <1>2, <1>3, <1>4, <1>5, <1>6, <1>7, <1>8 DEF Msgs!Next

\* While receiver r sleeps over a message nobody else sleeps, and a sender is about to signal;
\* while a sender sleeps r is awake, with a message to take or a signal to give.
WakeUpDue(r) ==
    /\ msgPc[r] = "wait" /\ msgFilled # 0 => /\ \A t \in Msgs!Threads : msgPc[t] = "wait" => t = r
                                             /\ \E s \in Senders : msgPc[s] = "signal"
    /\ (\E s \in Senders : msgPc[s] = "wait") => /\ msgPc[r] # "wait"
                                                 /\ msgFilled # 0 \/ msgPc[r] = "signal"

\* The condition that senders and receiver share loses no wake-up, as long as there is one
\* receiver and there are no more senders than slots (in av_render.c calls send one at a
\* time, to four slots).  With one sender more, a signal meant for the receiver may wake a
\* sender, and all of them sleep over a full queue.
THEOREM MsgQueueWakesUp ==
    ASSUME Msgs!QueueAssumption, FewSenders
    PROVE  Msgs!Spec => [](~msgQuit => \A r \in Receivers : WakeUpDue(r))
  <1>1. Msgs!Init => RoomInv /\ AwakeInv
    <2> SUFFICES ASSUME Msgs!Init PROVE RoomInv /\ AwakeInv
      OBVIOUS
    <2>1. Sleepers(msgPc) = {} /\ \A r \in Receivers : msgPc[r] = "idle"
      BY DEF Msgs!Init, Sleepers, Msgs!Threads
    <2>2. Cardinality(Sleepers(msgPc)) = 0 /\ msgFilled = 0
      BY <2>1, SenderCounts DEF Msgs!Init
    <2> QED BY <2>1, <2>2 DEF RoomInv, AwakeInv
  <1>2. MsgIInv /\ RoomInv /\ AwakeInv => (~msgQuit => \A r \in Receivers : WakeUpDue(r))
    <2> SUFFICES ASSUME MsgIInv, RoomInv, AwakeInv, ~msgQuit, NEW r \in Receivers PROVE WakeUpDue(r)
      OBVIOUS
    <2>1. msgFilled \in Nat /\ Cardinality(Sleepers(msgPc)) \in Nat /\ Cardinality(Notifying(msgPc)) \in Nat
      <3>1. msgFilled \in 0 .. Number /\ Number \in Nat
        BY DEF MsgIInv, Msgs!TypeOK, Msgs!QueueAssumption
      <3>2. Cardinality(Sleepers(msgPc)) \in Nat /\ Cardinality(Notifying(msgPc)) \in Nat
        BY SenderCounts
      <3> QED BY <3>1, <3>2
    <2>2. ASSUME msgPc[r] = "wait", msgFilled # 0
          PROVE  /\ \A t \in Msgs!Threads : msgPc[t] = "wait" => t = r
                 /\ \E s \in Senders : msgPc[s] = "signal"
      <3>1. Sleepers(msgPc) = {} /\ msgFilled <= Cardinality(Notifying(msgPc))
        BY <2>2 DEF AwakeInv
      <3>2. Notifying(msgPc) # {}
        BY <2>1, <2>2, <3>1, SenderCounts
      <3>3. \A t \in Msgs!Threads : msgPc[t] = "wait" => t \in Receivers
        BY <3>1 DEF Sleepers, MsgIInv, PlaceInv, Msgs!Threads
      <3> QED BY <3>2, <3>3 DEF Notifying, FewSenders
    <2>3. ASSUME NEW s \in Senders, msgPc[s] = "wait"
          PROVE  msgPc[r] # "wait" /\ (msgFilled # 0 \/ msgPc[r] = "signal")
      <3>1. Sleepers(msgPc) # {}
        BY <2>3 DEF Sleepers
      <3>2. Cardinality(Sleepers(msgPc)) # 0
        BY <3>1, SenderCounts
      <3>3. Cardinality(Sleepers(msgPc)) <= msgFilled + IF msgPc[r] = "signal" THEN 1 ELSE 0
        BY DEF RoomInv
      <3>4. msgFilled # 0 \/ msgPc[r] = "signal"
        BY <2>1, <3>2, <3>3
      <3> QED BY <3>1, <3>4 DEF AwakeInv
    <2> QED BY <2>2, <2>3 DEF WakeUpDue
  <1> QED BY <1>1, <1>2, NextAwake, MsgInvariance, PTL DEF Msgs!Spec

-----------------------------------------------------------------------------
(* The run *)

\* A behaviour of the run is one of each queue.
LEMMA PartsOfTheRun == MCSpec => Spec /\ Msgs!Spec
  <1>1. MCInit => Init /\ Msgs!Init
    BY DEF MCInit
  <1>2. [MCNext]_<<on, vars, msgVars>> => [Next]_vars
    BY DEF MCNext
  <1>3. [MCNext]_<<on, vars, msgVars>> => [Msgs!Next]_(Msgs!vars)
    BY DEF MCNext, msgVars, Msgs!vars
  <1> QED BY <1>1, <1>2, <1>3, PTL DEF MCSpec, Spec, Msgs!Spec

\* Both queues of the run are queues of whole blocks in order, whatever their sizes,
\* their callers and what is sent.
THEOREM QueuesImplementFifo ==
    ASSUME Msgs!QueueAssumption
    PROVE  MCSpec => BothImplementFifo
  <1>1. MCSpec => ImplementsFifo
    BY PartsOfTheRun, RingImplementsFifo, PTL
  <1>2. MCSpec => Msgs!ImplementsFifo
    BY PartsOfTheRun, ImplementsFifoQueue, PTL
  <1> QED BY <1>1, <1>2 DEF BothImplementFifo

\* The run's invariants hold of both queues for every value of the bounds.
THEOREM QueuesRunCorrect ==
    ASSUME Msgs!QueueAssumption
    PROVE  MCSpec => [](RingLayout /\ ReservationHolds /\ AvailableIsHonest /\ MsgQueueNoWaiterFreed)
  <1> QED BY PartsOfTheRun, LayoutCorrect, ReservationsHold, AvailableHonest, MsgQueueFreedUnderNoWaiter, PTL
             DEF MsgQueueNoWaiterFreed
=============================================================================
