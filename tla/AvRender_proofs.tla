--------------------------- MODULE AvRender_proofs ---------------------------
(***************************************************************************)
(* What is proved of the audio player of av_render.c: the types of its     *)
(* variables, that a reset frees only what no thread uses, and that a      *)
(* flush leaves nothing of what it was to remove.                          *)
(*                                                                         *)
(* Both need the same account of the messages and of the bits that answer  *)
(* them: a CLOSE or a FLUSH is the last message of a queue, it is on its   *)
(* way, being carried out or answered exactly while the call waits for its *)
(* bit, and no bit is set that no call waits for.                          *)
(***************************************************************************)
EXTENDS AvRemade, SequenceTheorems, TLAPS

-----------------------------------------------------------------------------
(* The invariant *)

\* m is the last message of s; the messages before the last are answered by nobody.
EndsWith(s, m) == s # <<>> /\ s[Len(s)] = m
Quiet(s)  == \A i \in 1 .. Len(s) - 1 : s[i] \in {"PAUSE", "RESUME"}

\* Nothing of s was in the pipeline when the latest flush began.
Fresh(s)  == \A i \in 1 .. Len(s) : ~s[i].old

\* The thread t has not carried out a CLOSE, a FLUSH that was sent to it.
Closing(t)  == EndsWith(msgs[t], "CLOSE")
Flushing(t) == pc[t] = "flush" \/ EndsWith(msgs[t], "FLUSH")

\* The thread t and its queue hold nothing that the flush is to remove.
Clean(t) == Fresh(q[t]) /\ (pc[t] = "work" => ~held[t].old)

\* The threads that a pause, a flush and a round of a reset have still to reach.
Downstream == {<<adec, a_render>>, <<a_render>>, <<>>}

AvType ==
    /\ TypeOK
    /\ msgs \in [Thr -> Seq(Msgs)] /\ q \in [Thr -> Seq(Blocks)]

\* Where a call is.  No bit is set that the call does not wait for.
Calling ==
    /\ op = "idle" => waits = {} /\ at = "check"
    /\ op \notin {"idle", "reset"} => recvd = {}
    /\ op = "add" => togo \in {<<adec>>, <<>>} /\ waits \subseteq {Closed(adec)} /\ msg = "CLOSE"
    /\ op = "pause" => togo \in Downstream /\ waits = {} /\ msg = "PAUSE"
    /\ op = "resume" => togo \in {<<a_render, adec>>, <<adec>>, <<>>} /\ waits = {} /\ msg = "RESUME"
    /\ op = "flush" => togo \in Downstream /\ msg = "FLUSH"
    /\ op = "reset" => /\ togo \in Downstream /\ waits \subseteq {Closed(adec), Closed(a_render)}
                       /\ msg = "CLOSE" /\ "reset" \in Calls /\ feed = "none"
    /\ at \in {"wait", "aborted"} => op = "flush"
    /\ at = "send" => togo # <<>> /\ thread[Head(togo)]
    /\ Closed(a_render) \in waits => togo = <<>> \/ (togo = <<a_render>> /\ at \in {"query", "dummy"})
    /\ Closed(adec) \in waits => togo \in {<<>>, <<a_render>>} \/ at \in {"query", "dummy"}
    /\ at \in {"query", "dummy"} => /\ togo # <<>> /\ res[Head(togo)]
                                   /\ (Head(togo) = a_render /\ op # "reset" => thread[a_render])
                                   /\ (op \in {"add", "reset"} => Closed(Head(togo)) \in waits)
    /\ bits \subseteq waits

\* The decoder thread lives from one add to the next or to a reset.  Where no stream is
\* added over a stream, the render thread is one the decoder of this stream has made.
Threads ==
    /\ res[adec] = res[a_render]
    /\ \A t \in Thr : /\ thread[t] <=> pc[t] # "none"
                      /\ thread[t] \/ dying[t] > 0 \/ q[t] # <<>> => res[t]
                      /\ ~thread[t] => msgs[t] = <<>>
    /\ feed # "none" \/ opened => res[adec]
    /\ "again" \notin Calls => /\ thread[a_render] => opened
                               /\ op = "add" => ~res[adec]
    /\ res[adec] /\ op \notin {"add", "reset"} => thread[adec]
    /\ ~thread[a_render] /\ op # "reset" => q[a_render] = <<>>

\* A CLOSE is on its way, carried out or answered exactly while its bit is waited for.
Closes ==
    /\ \A t \in Thr :
         /\ Quiet(msgs[t])
         /\ IF Closed(t) \in waits
            THEN \/ thread[t] /\ Closing(t) /\ dying[t] = 0 /\ Closed(t) \notin bits
                 \/ ~thread[t] /\ dying[t] = 1 /\ Closed(t) \notin bits
                 \/ ~thread[t] /\ dying[t] = 0 /\ Closed(t) \in bits
            ELSE ~Closing(t) /\ dying[t] = 0
    /\ op = "add" /\ togo = <<>> /\ thread[adec] => Closed(adec) \in waits

\* After the first round of a reset the decoder has gone, and can make no render
\* thread any more: the second round ends the one it may have made meanwhile.
Resets ==
    op = "reset" =>
      /\ recvd \subseteq {Closed(adec), Closed(a_render)}
      /\ \A t \in Thr : Closed(t) \in recvd => ~thread[t] /\ Closed(t) \notin waits
      /\ Closed(a_render) \in recvd \cup waits => res[adec] /\ ("again" \notin Calls => opened)
      /\ res[adec] => thread[adec] \/ Closed(adec) \in recvd \cup waits
      /\ togo # <<adec, a_render>> /\ thread[adec] => Closed(adec) \in waits
      /\ round \in {0, 1} /\ (round = 0 => recvd = {})
      /\ round = 1 => Closed(adec) \in recvd
      /\ round = 1 /\ togo = <<>> /\ thread[a_render] => Closed(a_render) \in waits

\* A FLUSH likewise.  Once the decoder has been flushed it makes no old frames.
Flushes ==
    /\ \A t \in Thr : pc[t] = "flush" => ~EndsWith(msgs[t], "FLUSH")
    /\ \A t \in Thr : IF Flushed(t) \in waits
                      THEN op = "flush" /\ (Flushing(t) <=> Flushed(t) \notin bits)
                      ELSE ~Flushing(t)
    /\ op # "flush" => Clean(adec) /\ Clean(a_render)
    /\ op = "flush" =>
         /\ at \in {"check", "send", "aborted"} => waits = {}
         /\ at \in {"query", "dummy"} => waits = {Flushed(Head(togo))}
         /\ at = "wait" => /\ togo # <<adec, a_render>>
                           /\ togo = <<>> => waits = {Flushed(a_render)}
                           /\ togo # <<>> => waits = {Flushed(adec)}
         /\ \/ togo # <<adec, a_render>> /\ Flushed(adec) \notin waits
            \/ Flushed(adec) \in bits
            => Clean(adec)
         /\ Flushed(a_render) \in bits => Clean(a_render)

AvInv == AvType /\ Calling /\ Threads /\ Closes /\ Resets /\ Flushes

-----------------------------------------------------------------------------
(* Messages, blocks and bits *)

LEMMA MsgTaken ==
    ASSUME NEW s \in Seq(Msgs), s # <<>>, Quiet(s)
    PROVE  /\ Tail(s) \in Seq(Msgs) /\ Len(Tail(s)) = Len(s) - 1 /\ Quiet(Tail(s)) /\ Head(s) \in Msgs
           /\ Head(s) \in {"CLOSE", "FLUSH"} => Tail(s) = <<>> /\ EndsWith(s, Head(s))
           /\ \A m \in {"CLOSE", "FLUSH"} : Head(s) # m => (EndsWith(Tail(s), m) <=> EndsWith(s, m))
           /\ \A m : ~EndsWith(<<>>, m)
  <1>1. /\ Tail(s) \in Seq(Msgs) /\ Len(Tail(s)) = Len(s) - 1 /\ Len(s) \in Nat \ {0} /\ Head(s) \in Msgs
        /\ Head(s) = s[1] /\ \A i \in 1 .. Len(s) - 1 : Tail(s)[i] = s[i + 1]
    OBVIOUS
  <1>2. Quiet(Tail(s))
    BY <1>1 DEF Quiet
  <1>3. Head(s) \in {"CLOSE", "FLUSH"} => Len(s) = 1
    BY <1>1 DEF Quiet
  <1>0. \A v \in Seq(Msgs) : Len(v) = 0 => v = <<>>
    OBVIOUS
  <1>4. Len(s) = 1 => Tail(s) = <<>> /\ s[Len(s)] = Head(s)
    <2>1. Len(s) = 1 => Len(Tail(s)) = 0
      BY <1>1
    <2> QED BY <1>0, <1>1, <2>1
  <1>5. Len(s) # 1 => Tail(s) # <<>> /\ Tail(s)[Len(Tail(s))] = s[Len(s)]
    <2> SUFFICES ASSUME Len(s) # 1 PROVE Tail(s) # <<>> /\ Tail(s)[Len(Tail(s))] = s[Len(s)]
      OBVIOUS
    <2>0. \A n \in Nat \ {0} : n # 1 => n - 1 \in 1 .. n - 1 /\ (n - 1) + 1 = n
      OBVIOUS
    <2>1. Len(s) - 1 \in 1 .. Len(s) - 1 /\ (Len(s) - 1) + 1 = Len(s)
      BY <1>1, <2>0
    <2>2. Tail(s)[Len(s) - 1] = s[(Len(s) - 1) + 1]
      BY <1>1, <2>1
    <2>3. Len(Tail(s)) # 0 /\ Len(<<>>) = 0
      BY <1>1
    <2> QED BY <1>1, <2>1, <2>2, <2>3
  <1> QED BY <1>1, <1>2, <1>3, <1>4, <1>5 DEF EndsWith

LEMMA MsgSent ==
    ASSUME NEW s \in Seq(Msgs), NEW m \in Msgs, Quiet(s), ~EndsWith(s, "CLOSE"), ~EndsWith(s, "FLUSH")
    PROVE  /\ Append(s, m) \in Seq(Msgs) /\ Len(Append(s, m)) = Len(s) + 1 /\ Quiet(Append(s, m))
           /\ EndsWith(Append(s, m), "CLOSE") <=> m = "CLOSE"
           /\ EndsWith(Append(s, m), "FLUSH") <=> m = "FLUSH"
  <1>1. /\ Append(s, m) \in Seq(Msgs) /\ Len(Append(s, m)) = Len(s) + 1 /\ Len(s) \in Nat
        /\ \A i \in 1 .. Len(s) : Append(s, m)[i] = s[i] /\ s[i] \in Msgs
        /\ Append(s, m)[Len(s) + 1] = m
    OBVIOUS
  <1>2. ASSUME NEW i \in 1 .. Len(s) PROVE s[i] \in {"PAUSE", "RESUME"}
    <2>1. CASE i = Len(s)
      <3>1. s # <<>>
        BY <1>1, <2>1
      <3> QED BY <1>1, <2>1, <3>1 DEF EndsWith, Msgs
    <2>2. CASE i \in 1 .. Len(s) - 1
      BY <2>2 DEF Quiet
    <2> QED BY <1>1, <2>1, <2>2
  <1> QED BY <1>1, <1>2 DEF Quiet, EndsWith

LEMMA NoMsg == Quiet(<<>>) /\ \A m : ~EndsWith(<<>>, m)
  BY DEF Quiet, EndsWith

LEMMA BlockTaken ==
    ASSUME NEW s \in Seq(Blocks), s # <<>>
    PROVE  /\ Tail(s) \in Seq(Blocks) /\ Len(Tail(s)) <= Len(s) /\ Head(s) \in Blocks
           /\ Fresh(s) => Fresh(Tail(s)) /\ ~Head(s).old
  <1>1. /\ Tail(s) \in Seq(Blocks) /\ Len(Tail(s)) = Len(s) - 1 /\ Len(s) \in Nat \ {0} /\ Head(s) \in Blocks
        /\ Head(s) = s[1] /\ \A i \in 1 .. Len(s) - 1 : Tail(s)[i] = s[i + 1]
    OBVIOUS
  <1> QED BY <1>1 DEF Fresh

LEMMA BlockPut ==
    ASSUME NEW s \in Seq(Blocks), NEW b \in Blocks
    PROVE  /\ Append(s, b) \in Seq(Blocks) /\ Len(Append(s, b)) = Len(s) + 1
           /\ Append(s, b) # <<>>
           /\ Fresh(s) /\ ~b.old => Fresh(Append(s, b))
  <1>1. /\ Append(s, b) \in Seq(Blocks) /\ Len(Append(s, b)) = Len(s) + 1 /\ Len(s) \in Nat
        /\ \A i \in 1 .. Len(s) : Append(s, b)[i] = s[i]
        /\ Append(s, b)[Len(s) + 1] = b
    OBVIOUS
  <1>2. Append(s, b) # <<>>
    BY <1>1
  <1> QED BY <1>1, <1>2 DEF Fresh

\* What a flush makes of a queue.
LEMMA Aged ==
    ASSUME NEW s \in Seq(Blocks)
    PROVE  LET w == [i \in 1 .. Len(s) |-> [s[i] EXCEPT !.old = TRUE]]
           IN  w \in Seq(Blocks) /\ Len(w) = Len(s) /\ (w = <<>> <=> s = <<>>)
  <1> DEFINE w == [i \in 1 .. Len(s) |-> [s[i] EXCEPT !.old = TRUE]]
  <1>1. Len(s) \in Nat /\ \A i \in 1 .. Len(s) : s[i] \in Blocks
    OBVIOUS
  <1>2. \A b \in Blocks : [b EXCEPT !.old = TRUE] \in Blocks
    BY DEF Blocks
  <1>3. w \in [1 .. Len(s) -> Blocks]
    BY <1>1, <1>2
  <1>4. w \in Seq(Blocks) /\ DOMAIN w = 1 .. Len(s)
    BY <1>1, <1>3
  <1>5. Len(w) = Len(s)
    BY <1>1, <1>4
  <1>6. \A v \in Seq(Blocks) : v = <<>> <=> Len(v) = 0
    OBVIOUS
  <1> QED BY <1>4, <1>5, <1>6

LEMMA NoBlock == <<>> \in Seq(Blocks) /\ Len(<<>>) = 0 /\ Fresh(<<>>)
  BY DEF Fresh

LEMMA SlotFacts ==
    /\ MsgSlots \in Nat \ {0} /\ DecSlots \in Nat \ {0} /\ RenSlots \in Nat \ {0} /\ MaxDying \in Nat
    /\ \A t \in Thr : Slots(t) \in Nat \ {0}
    /\ Slots(adec) = DecSlots /\ Slots(a_render) = RenSlots
  BY SlotAssumption DEF Slots, adec, a_render

LEMMA BitFacts ==
    /\ \A s, t \in Thr : Closed(s) # Flushed(t)
    /\ Closed(adec) # Closed(a_render) /\ Flushed(adec) # Flushed(a_render)
    /\ \A t \in Thr : Closed(t) \in Bits /\ Flushed(t) \in Bits
  BY DEF Closed, Flushed, Bits, Thr, adec, a_render

LEMMA ThrFacts == adec \in Thr /\ a_render \in Thr /\ adec # a_render /\ \A t \in Thr : t = adec \/ t = a_render
  BY DEF Thr, adec, a_render

LEMMA TogoFacts ==
    /\ Head(<<adec, a_render>>) = adec /\ Tail(<<adec, a_render>>) = <<a_render>>
    /\ Head(<<a_render, adec>>) = a_render /\ Tail(<<a_render, adec>>) = <<adec>>
    /\ Head(<<adec>>) = adec /\ Tail(<<adec>>) = <<>>
    /\ Head(<<a_render>>) = a_render /\ Tail(<<a_render>>) = <<>>
    /\ <<adec, a_render>> # <<a_render>> /\ <<adec, a_render>> # <<>> /\ <<a_render>> # <<>> /\ <<adec>> # <<>>
    /\ <<a_render, adec>> # <<>>
    /\ <<adec, a_render>> \in Seq(Thr) /\ <<a_render, adec>> \in Seq(Thr)
    /\ <<adec>> \in Seq(Thr) /\ <<a_render>> \in Seq(Thr) /\ <<>> \in Seq(Thr)
  BY DEF Thr, adec, a_render

-----------------------------------------------------------------------------
(* The steps: every one of them preserves the invariant *)

LEMMA Waiting ==
    ASSUME AvInv
    PROVE  /\ \A t \in Thr : Closed(t) \in waits => op \in {"add", "reset"}
           /\ \A t \in Thr : Flushed(t) \in waits => op = "flush"
           /\ Closed(a_render) \in waits => op = "reset"
  <1>1. \A t \in Thr : Flushed(t) \in waits => op = "flush"
    BY DEF AvInv, Flushes
  <1>2. op \in {"idle", "pause", "resume"} => waits = {}
    BY DEF AvInv, Calling
  <1>3. op = "flush" /\ togo # <<>> => Head(togo) \in Thr
    BY TogoFacts, ThrFacts DEF AvInv, Calling, Downstream
  <1>4. ASSUME op = "flush", NEW t \in Thr PROVE Closed(t) \notin waits
    <2>1. CASE at \in {"query", "dummy"}
      BY <1>3, <1>4, <2>1, BitFacts DEF AvInv, Flushes, Calling
    <2>2. CASE at \in {"check", "send", "aborted", "wait"}
      BY <1>4, <2>2, BitFacts, ThrFacts DEF AvInv, Flushes
    <2> QED BY <2>1, <2>2 DEF AvInv, AvType, TypeOK
  <1>5. Closed(a_render) \in waits => op # "add"
    BY BitFacts DEF AvInv, Calling
  <1> QED BY <1>1, <1>2, <1>4, <1>5, ThrFacts DEF AvInv, AvType, TypeOK

LEMMA Reaching ==
    ASSUME AvInv, op # "idle", togo # <<>>
    PROVE  /\ Head(togo) \in Thr
           /\ \/ togo = <<adec, a_render>> /\ Head(togo) = adec /\ Tail(togo) = <<a_render>>
              \/ togo = <<a_render, adec>> /\ Head(togo) = a_render /\ Tail(togo) = <<adec>> /\ op = "resume"
              \/ togo = <<adec>> /\ Head(togo) = adec /\ Tail(togo) = <<>> /\ op \in {"add", "resume"}
              \/ togo = <<a_render>> /\ Head(togo) = a_render /\ Tail(togo) = <<>>
           /\ op \in {"pause", "flush", "reset"} => togo \in {<<adec, a_render>>, <<a_render>>}
  <1>1. /\ op = "add" => togo = <<adec>>
        /\ op \in {"pause", "flush", "reset"} => togo \in {<<adec, a_render>>, <<a_render>>}
        /\ op = "resume" => togo \in {<<a_render, adec>>, <<adec>>}
    BY DEF AvInv, Calling, Downstream
  <1>2. op \in {"add", "pause", "resume", "flush", "reset"}
    BY DEF AvInv, AvType, TypeOK
  <1> QED BY <1>1, <1>2, TogoFacts, ThrFacts

LEMMA QueueSet ==
    ASSUME AvType, NEW t \in Thr, NEW b \in Seq(Blocks), Len(b) <= Slots(t), q' = [q EXCEPT ![t] = b]
    PROVE  /\ q' \in [Thr -> Seq(Blocks)] /\ \A s \in Thr : q'[s] \in Seq(Blocks) /\ Len(q'[s]) <= Slots(s)
           /\ q'[t] = b /\ \A s \in Thr : s # t => q'[s] = q[s]
  <1>1. \A s \in Thr : q[s] \in Seq(Blocks) /\ Len(q[s]) <= Slots(s)
    BY DEF AvType, TypeOK
  <1>2. q' \in [Thr -> Seq(Blocks)] /\ q'[t] = b /\ \A s \in Thr : s # t => q'[s] = q[s]
    BY DEF AvType
  <1> QED BY <1>1, <1>2

\* What all steps that only move the call on have in common: the thread's states and
\* messages stay, and no queue of a thread that is not there gets a block.
LEMMA SentOn ==
    ASSUME AvInv, op # "idle", at \in {"query", "dummy"}, Sent,
           UNCHANGED <<thrVars, msgs, bits, op, msg, waits, recvd, round, feed>>,
           q' \in [Thr -> Seq(Blocks)],
           \A s \in Thr : /\ q'[s] \in Seq(Blocks) /\ Len(q'[s]) <= Slots(s)
                          /\ Fresh(q[s]) => Fresh(q'[s])
                          /\ s # Head(togo) => q'[s] = q[s]
    PROVE  AvInv'
  <1> USE DEF AvInv, thrVars, apiVars, vars
  <1> DEFINE t == Head(togo)
  <1>a. togo # <<>>
    BY DEF Calling
  <1>b. /\ t \in Thr
        /\ \/ togo = <<adec, a_render>> /\ t = adec /\ Tail(togo) = <<a_render>>
           \/ togo = <<a_render, adec>> /\ t = a_render /\ Tail(togo) = <<adec>> /\ op = "resume"
           \/ togo = <<adec>> /\ t = adec /\ Tail(togo) = <<>> /\ op \in {"add", "resume"}
           \/ togo = <<a_render>> /\ t = a_render /\ Tail(togo) = <<>>
        /\ op \in {"pause", "flush", "reset"} => togo \in {<<adec, a_render>>, <<a_render>>}
    BY <1>a, Reaching
  <1>c. togo' = Tail(togo) /\ at' = (IF op = "flush" THEN "wait" ELSE "check")
    BY DEF Sent
  <1>d. /\ res[t] /\ (t = a_render => thread[a_render] \/ op = "reset")
        /\ op = "flush" => waits = {Flushed(t)}
        /\ op \in {"add", "reset"} => Closed(t) \in waits
    BY <1>a DEF Calling, Flushes
  <1>e. \A s \in Thr : s # t => q'[s] = q[s]
    OBVIOUS
  <1> HIDE DEF t
  <1>g. (\A s \in Thr : Flushing(s)' <=> Flushing(s)) /\ \A s \in Thr : Clean(s) => Clean(s)'
    BY DEF Flushing, Clean
  <1>1. AvType'
    BY <1>b, <1>c, TogoFacts DEF AvType, TypeOK
  <1>2. Calling'
    BY <1>b, <1>c, <1>d, <1>e, BitFacts, ThrFacts, TogoFacts, NoMsg, NoBlock DEF Calling, Downstream
  <1>3. Threads'
    BY <1>b, <1>c, <1>d, <1>e, BitFacts, ThrFacts, TogoFacts, NoMsg, NoBlock DEF Threads, Calling
  <1>4. Closes'
    BY <1>b, <1>c, <1>d, <1>e, BitFacts, ThrFacts, TogoFacts, NoMsg, NoBlock DEF Closes, Closing, Calling, Threads, Resets
  <1>5. Resets'
    BY <1>b, <1>c, <1>d, <1>e, BitFacts, ThrFacts, TogoFacts, NoMsg, NoBlock DEF Resets, Calling, Threads, Closes
  <1>6. Flushes'
    BY <1>b, <1>c, <1>d, <1>g, BitFacts, ThrFacts, TogoFacts, NoMsg, NoBlock DEF Flushes, Calling, Threads
  <1> QED BY <1>1, <1>2, <1>3, <1>4, <1>5, <1>6

LEMMA RecvMsgInv ==
    ASSUME AvInv, NEW t \in Thr, RecvMsg(t)
    PROVE  AvInv'
  <1> USE DEF AvInv, thrVars, apiVars, vars
  <1>a. msgs[t] \in Seq(Msgs) /\ msgs[t] # <<>> /\ Quiet(msgs[t])
    BY DEF AvType, Closes, RecvMsg
  <1>b. /\ Tail(msgs[t]) \in Seq(Msgs) /\ Len(Tail(msgs[t])) = Len(msgs[t]) - 1 /\ Quiet(Tail(msgs[t])) /\ Head(msgs[t]) \in Msgs
        /\ Head(msgs[t]) \in {"CLOSE", "FLUSH"} => Tail(msgs[t]) = <<>> /\ EndsWith(msgs[t], Head(msgs[t]))
        /\ Head(msgs[t]) # "CLOSE" => (EndsWith(Tail(msgs[t]), "CLOSE") <=> EndsWith(msgs[t], "CLOSE"))
        /\ Head(msgs[t]) # "FLUSH" => (EndsWith(Tail(msgs[t]), "FLUSH") <=> EndsWith(msgs[t], "FLUSH"))
        /\ Len(msgs[t]) \in Nat
    <2>1. Len(msgs[t]) \in Nat /\ "CLOSE" \in {"CLOSE", "FLUSH"} /\ "FLUSH" \in {"CLOSE", "FLUSH"}
      BY <1>a
    <2> QED BY <1>a, <2>1, MsgTaken, Zenon
  <1>c. CASE Head(msgs[t]) = "CLOSE"
    <2>a. Closed(t) \in waits /\ op \in {"add", "reset"} /\ thread[t] /\ dying[t] = 0 /\ Closed(t) \notin bits
      BY <1>a, <1>b, <1>c, Waiting DEF RecvMsg, Threads, Closes, Closing
    <2>b. /\ msgs'[t] = <<>> /\ \A s \in Thr : s # t => msgs'[s] = msgs[s]
          /\ ~thread'[t] /\ pc'[t] = "none" /\ dying'[t] = 1
          /\ \A s \in Thr : s # t => thread'[s] = thread[s] /\ pc'[s] = pc[s] /\ dying'[s] = dying[s]
          /\ UNCHANGED <<paused, res, held, left, opened, q, bits, apiVars, feed>>
      BY <1>a, <1>b, <1>c, <2>a DEF RecvMsg, Exit, AvType, TypeOK
    <2>f. \A s \in Thr : Flushing(s)' => Flushing(s)
      BY <2>b, NoMsg DEF Flushing
    <2>g. \A s \in Thr : Clean(s) => Clean(s)'
      BY <2>b DEF Clean
    <2>h. \A s \in Thr : Flushed(s) \notin waits
      BY <2>a, Waiting
    <2>i. dying' = [dying EXCEPT ![t] = 1] /\ thread' = [thread EXCEPT ![t] = FALSE] /\ pc' = [pc EXCEPT ![t] = "none"]
      BY <1>c, <2>a DEF RecvMsg, Exit
    <2>k. 1 \in 0 .. MaxDying
      BY <1>c, <2>a, SlotFacts DEF RecvMsg, Exit
    <2>j. msgs' \in [Thr -> Seq(Msgs)] /\ \A s \in Thr : Len(msgs'[s]) <= MsgSlots
      BY <1>a, <1>b, <2>b, SlotFacts DEF RecvMsg, AvType, TypeOK
    <2>1. AvType'
      BY <2>b, <2>i, <2>j, <2>k DEF AvType, TypeOK
    <2>2. Calling'
      BY <2>a, <2>b, Reaching, BitFacts, ThrFacts, TogoFacts, NoMsg, NoBlock DEF Calling, Downstream
    <2>3. Threads'
      BY <2>a, <2>b, BitFacts, ThrFacts, TogoFacts, NoMsg, NoBlock DEF Threads, Calling
    <2>4. Closes'
      BY <2>a, <2>b, BitFacts, ThrFacts, TogoFacts, NoMsg, NoBlock DEF Closes, Closing, Calling, Threads, Resets
    <2>5. Resets'
      BY <2>a, <2>b, BitFacts, ThrFacts, TogoFacts, NoMsg, NoBlock DEF Resets, Calling, Threads, Closes
    <2>6. Flushes'
      BY <2>a, <2>b, <2>f, <2>g, <2>h, BitFacts, ThrFacts, TogoFacts, NoMsg, NoBlock DEF Flushes, Calling, Threads
    <2> QED BY <2>1, <2>2, <2>3, <2>4, <2>5, <2>6
  <1>d. CASE Head(msgs[t]) # "CLOSE"
    <2>a. /\ msgs'[t] = Tail(msgs[t]) /\ \A s \in Thr : s # t => msgs'[s] = msgs[s]
          /\ IF Head(msgs[t]) = "FLUSH" THEN pc'[t] = "flush" ELSE pc'[t] \in {"recv", "read"}
          /\ pc[t] = "recv" /\ \A s \in Thr : s # t => pc'[s] = pc[s]
          /\ UNCHANGED <<res, thread, dying, held, left, opened, q, bits, apiVars, feed>>
      BY <1>a, <1>b, <1>d DEF RecvMsg, AvType, TypeOK, Msgs
    <2>b. thread[t] /\ (Closing(t)' <=> Closing(t))
      BY <1>b, <1>d, <2>a DEF Threads, Closing
    <2>f. \A s \in Thr : Flushing(s)' <=> Flushing(s)
      BY <1>b, <1>d, <2>a, NoMsg DEF Flushing
    <2>g. \A s \in Thr : Clean(s) => Clean(s)'
      BY <2>a DEF Clean
    <2>h. pc'[t] = "flush" => ~EndsWith(msgs'[t], "FLUSH")
      BY <1>b, <1>d, <2>a, NoMsg
    <2>i. pc' \in [Thr -> {"none", "recv", "flush", "read", "work"}] /\ paused' \in [Thr -> BOOLEAN]
      BY <1>d DEF RecvMsg, AvType, TypeOK, Msgs
    <2>j. msgs' \in [Thr -> Seq(Msgs)] /\ \A s \in Thr : Len(msgs'[s]) <= MsgSlots
      BY <1>a, <1>b, <2>a, SlotFacts DEF RecvMsg, AvType, TypeOK
    <2>k. \A s \in Thr : s # t => (Closing(s)' <=> Closing(s))
      BY <2>a DEF Closing
    <2>1. AvType'
      BY <2>a, <2>i, <2>j DEF AvType, TypeOK
    <2>2. Calling'
      BY <2>a, <2>b, BitFacts, ThrFacts, TogoFacts, NoMsg, NoBlock DEF Calling, Downstream
    <2>3. Threads'
      BY <1>a, <1>b, <2>a, <2>b, BitFacts, ThrFacts, TogoFacts, NoMsg, NoBlock DEF Threads, Calling
    <2>4. Closes'
      BY <1>a, <1>b, <2>a, <2>b, <2>k DEF Closes, Calling, Threads
    <2>5. Resets'
      BY <1>a, <1>b, <2>a, <2>b, BitFacts, ThrFacts, TogoFacts, NoMsg, NoBlock DEF Resets, Calling, Threads, Closes
    <2>6. Flushes'
      BY <2>a, <2>b, <2>f, <2>g, <2>h, BitFacts, ThrFacts, TogoFacts, NoMsg, NoBlock DEF Flushes, Calling, Threads
    <2> QED BY <2>1, <2>2, <2>3, <2>4, <2>5, <2>6
  <1> QED BY <1>c, <1>d

LEMMA RecvNoneInv ==
    ASSUME AvInv, NEW t \in Thr, RecvNone(t)
    PROVE  AvInv'
  <1> USE DEF AvInv, thrVars, apiVars, vars
  <1>a. /\ pc[t] = "recv" /\ pc'[t] = "read" /\ pc' \in [Thr -> {"none", "recv", "flush", "read", "work"}]
        /\ \A s \in Thr : s # t => pc'[s] = pc[s]
        /\ UNCHANGED <<res, thread, dying, paused, held, left, opened, msgs, q, bits, apiVars, feed>>
    BY DEF RecvNone, AvType, TypeOK
  <1>b. (\A s \in Thr : Flushing(s)' <=> Flushing(s)) /\ \A s \in Thr : Clean(s)' <=> Clean(s)
    BY <1>a DEF Flushing, Clean
  <1>1. AvType'
    BY <1>a DEF AvType, TypeOK
  <1>2. Calling'
    BY <1>a, BitFacts, ThrFacts, TogoFacts, NoMsg, NoBlock DEF Calling, Downstream
  <1>3. Threads'
    BY <1>a, BitFacts, ThrFacts, TogoFacts, NoMsg, NoBlock DEF Threads, Calling
  <1>4. Closes'
    BY <1>a, BitFacts, ThrFacts, TogoFacts, NoMsg, NoBlock DEF Closes, Closing, Calling, Threads, Resets
  <1>5. Resets'
    BY <1>a, BitFacts, ThrFacts, TogoFacts, NoMsg, NoBlock DEF Resets, Calling, Threads, Closes
  <1>6. Flushes'
    BY <1>a, <1>b, BitFacts, ThrFacts, TogoFacts, NoMsg, NoBlock DEF Flushes, Calling, Threads
  <1> QED BY <1>1, <1>2, <1>3, <1>4, <1>5, <1>6

LEMMA HandleFlushInv ==
    ASSUME AvInv, NEW t \in Thr, HandleFlush(t)
    PROVE  AvInv'
  <1> USE DEF AvInv, thrVars, apiVars, vars
  <1>a. /\ pc[t] = "flush" /\ pc'[t] \in {"recv", "read"} /\ \A s \in Thr : s # t => pc'[s] = pc[s]
        /\ q'[t] = <<>> /\ \A s \in Thr : s # t => q'[s] = q[s]
        /\ bits' = bits \cup {Flushed(t)}
        /\ UNCHANGED <<res, thread, dying, paused, held, left, opened, msgs, apiVars, feed>>
    BY DEF HandleFlush, AvType, TypeOK
  <1>b. Flushed(t) \in waits /\ op = "flush" /\ Flushed(t) \notin bits
    BY <1>a DEF Flushes, Flushing
  <1>c. ~EndsWith(msgs[t], "FLUSH")
    BY <1>a DEF Flushes
  <1>f. ~Flushing(t)' /\ \A s \in Thr : s # t => (Flushing(s)' <=> Flushing(s))
    BY <1>a, <1>c DEF Flushing
  <1>g. Clean(t)' /\ \A s \in Thr : Clean(s) => Clean(s)'
    BY <1>a, NoBlock DEF Clean
  <1>1. AvType'
    BY SlotAssumption, BitFacts, ThrFacts, TogoFacts, NoMsg, NoBlock DEF HandleFlush, AvType, TypeOK, Msgs, Slots
  <1>2. Calling'
    BY <1>a, <1>b, BitFacts, ThrFacts, TogoFacts, NoMsg, NoBlock DEF Calling, Downstream
  <1>3. Threads'
    BY <1>a, <1>b, BitFacts, ThrFacts, TogoFacts, NoMsg, NoBlock DEF Threads, Calling
  <1>4. Closes'
    BY <1>a, <1>b, BitFacts, ThrFacts, TogoFacts, NoMsg, NoBlock DEF Closes, Closing, Calling, Threads, Resets
  <1>5. Resets'
    BY <1>a, <1>b, BitFacts, ThrFacts, TogoFacts, NoMsg, NoBlock DEF Resets, Calling, Threads, Closes
  <1>6. Flushes'
    BY <1>a, <1>b, <1>f, <1>g, BitFacts, ThrFacts, TogoFacts, NoMsg, NoBlock DEF Flushes, Calling, Threads
  <1> QED BY <1>1, <1>2, <1>3, <1>4, <1>5, <1>6

LEMMA ReadBlockInv ==
    ASSUME AvInv, NEW t \in Thr, ReadBlock(t)
    PROVE  AvInv'
  <1> USE DEF AvInv, thrVars, apiVars, vars
  <1>a. /\ pc[t] = "read" /\ pc'[t] = "work" /\ pc' \in [Thr -> {"none", "recv", "flush", "read", "work"}]
        /\ q[t] # <<>> /\ held'[t] = Head(q[t])
        /\ \A s \in Thr : s # t => pc'[s] = pc[s] /\ held'[s] = held[s]
        /\ UNCHANGED <<res, thread, dying, paused, opened, msgs, q, bits, apiVars, feed>>
    BY DEF ReadBlock, AvType, TypeOK
  <1>d. Head(q[t]) \in Blocks /\ (Fresh(q[t]) => ~Head(q[t]).old)
    BY <1>a, BlockTaken DEF AvType
  <1>b. (\A s \in Thr : Flushing(s)' <=> Flushing(s)) /\ \A s \in Thr : Clean(s) => Clean(s)'
    BY <1>a, <1>d DEF Flushing, Clean
  <1>c. held' \in [Thr -> Blocks] /\ left' \in Nat
    BY <1>a, <1>d, SlotAssumption DEF ReadBlock, AvType, TypeOK
  <1>1. AvType'
    BY <1>a, <1>c DEF AvType, TypeOK
  <1>2. Calling'
    BY <1>a, BitFacts, ThrFacts, TogoFacts, NoMsg, NoBlock DEF Calling, Downstream
  <1>3. Threads'
    BY <1>a, BitFacts, ThrFacts, TogoFacts, NoMsg, NoBlock DEF Threads, Calling
  <1>4. Closes'
    BY <1>a, BitFacts, ThrFacts, TogoFacts, NoMsg, NoBlock DEF Closes, Closing, Calling, Threads, Resets
  <1>5. Resets'
    BY <1>a, BitFacts, ThrFacts, TogoFacts, NoMsg, NoBlock DEF Resets, Calling, Threads, Closes
  <1>6. Flushes'
    BY <1>a, <1>b, BitFacts, ThrFacts, TogoFacts, NoMsg, NoBlock DEF Flushes, Calling, Threads
  <1> QED BY <1>1, <1>2, <1>3, <1>4, <1>5, <1>6

LEMMA DoneBlockInv ==
    ASSUME AvInv, NEW t \in Thr, DoneBlock(t)
    PROVE  AvInv'
  <1> USE DEF AvInv, thrVars, apiVars, vars
  <1>a. q[t] \in Seq(Blocks) /\ Len(q[t]) \in Nat /\ Len(q[t]) <= Slots(t) /\ Slots(t) \in Nat
    BY SlotFacts DEF AvType, TypeOK
  <1> DEFINE b == IF q[t] = <<>> THEN q[t] ELSE Tail(q[t])
  <1>b. /\ b \in Seq(Blocks) /\ Len(b) <= Slots(t)
        /\ (Fresh(q[t]) => Fresh(b)) /\ (q[t] = <<>> => b = <<>>)
    <2>1. CASE q[t] = <<>>
      BY <1>a, <2>1
    <2>2. CASE q[t] # <<>>
      <3>1. Tail(q[t]) \in Seq(Blocks) /\ Len(Tail(q[t])) <= Len(q[t]) /\ (Fresh(q[t]) => Fresh(Tail(q[t])))
        BY <1>a, <2>2, BlockTaken
      <3>2. Len(Tail(q[t])) \in Nat
        BY <3>1
      <3> QED BY <1>a, <2>2, <3>1, <3>2
    <2> QED BY <2>1, <2>2
  <1>c. q' = [q EXCEPT ![t] = b]
    BY DEF DoneBlock, Unlock, AvType
  <1> HIDE DEF b
  <1>d. /\ q' \in [Thr -> Seq(Blocks)] /\ \A s \in Thr : q'[s] \in Seq(Blocks) /\ Len(q'[s]) <= Slots(s)
        /\ q'[t] = b /\ \A s \in Thr : s # t => q'[s] = q[s]
    BY <1>b, <1>c, QueueSet
  <1>e. /\ pc[t] = "work" /\ pc'[t] = "recv" /\ \A s \in Thr : s # t => pc'[s] = pc[s]
        /\ UNCHANGED <<res, thread, dying, held, left, opened, msgs, bits, apiVars, feed>>
    BY DEF DoneBlock, AvType, TypeOK
  <1>f. \A s \in Thr : Flushing(s)' <=> Flushing(s)
    BY <1>e DEF Flushing
  <1>g. \A s \in Thr : Clean(s) => Clean(s)'
    BY <1>b, <1>d, <1>e DEF Clean
  <1>h. pc' \in [Thr -> {"none", "recv", "flush", "read", "work"}] /\ paused' \in [Thr -> BOOLEAN]
    BY DEF DoneBlock, AvType, TypeOK
  <1>1. AvType'
    BY <1>d, <1>e, <1>h DEF AvType, TypeOK
  <1>2. Calling'
    BY <1>b, <1>d, <1>e, BitFacts, ThrFacts, TogoFacts, NoMsg, NoBlock DEF Calling, Downstream
  <1>3. Threads'
    BY <1>b, <1>d, <1>e, BitFacts, ThrFacts, TogoFacts, NoMsg, NoBlock DEF Threads, Calling
  <1>4. Closes'
    BY <1>b, <1>d, <1>e, BitFacts, ThrFacts, TogoFacts, NoMsg, NoBlock DEF Closes, Closing, Calling, Threads, Resets
  <1>5. Resets'
    BY <1>b, <1>d, <1>e, BitFacts, ThrFacts, TogoFacts, NoMsg, NoBlock DEF Resets, Calling, Threads, Closes
  <1>6. Flushes'
    BY <1>e, <1>f, <1>g, BitFacts, ThrFacts, TogoFacts, NoMsg, NoBlock DEF Flushes, Calling, Threads
  <1> QED BY <1>1, <1>2, <1>3, <1>4, <1>5, <1>6

LEMMA DieInv ==
    ASSUME AvInv, NEW t \in Thr, Die(t)
    PROVE  AvInv'
  <1> USE DEF AvInv, thrVars, apiVars, vars
  <1>a. /\ dying[t] > 0 /\ dying'[t] = dying[t] - 1 /\ \A s \in Thr : s # t => dying'[s] = dying[s]
        /\ q'[t] = <<>> /\ \A s \in Thr : s # t => q'[s] = q[s]
        /\ bits' = bits \cup {Closed(t)}
        /\ UNCHANGED <<res, thread, pc, paused, held, left, opened, msgs, apiVars, feed>>
    BY DEF Die, AvType, TypeOK
  <1>b. Closed(t) \in waits /\ ~thread[t] /\ dying[t] = 1 /\ Closed(t) \notin bits /\ op \in {"add", "reset"}
    BY <1>a, Waiting DEF Closes
  <1>f. \A s \in Thr : Flushing(s)' <=> Flushing(s)
    BY <1>a DEF Flushing
  <1>g. \A s \in Thr : Clean(s) => Clean(s)'
    BY <1>a, NoBlock DEF Clean
  <1>c. dying[t] \in 0 .. MaxDying /\ dying[t] - 1 \in 0 .. MaxDying /\ dying' = [dying EXCEPT ![t] = dying[t] - 1]
    BY <1>a, SlotAssumption DEF Die, AvType, TypeOK
  <1>d. bits' \subseteq Bits /\ dying' \in [Thr -> 0 .. MaxDying] /\ q' \in [Thr -> Seq(Blocks)]
    BY <1>a, <1>c, BitFacts, NoBlock DEF Die, AvType, TypeOK
  <1>e. \A s \in Thr : q'[s] \in Seq(Blocks) /\ Len(q'[s]) <= Slots(s)
    <2>1. q'[t] \in Seq(Blocks) /\ Len(q'[t]) <= Slots(t)
      BY <1>a, NoBlock, SlotFacts
    <2>2. \A s \in Thr : q[s] \in Seq(Blocks) /\ Len(q[s]) <= Slots(s)
      BY DEF AvType, TypeOK
    <2> QED BY <1>a, <2>1, <2>2
  <1>1. AvType'
    BY <1>a, <1>d, <1>e DEF AvType, TypeOK
  <1>2. Calling'
    BY <1>a, <1>b, BitFacts, ThrFacts, TogoFacts, NoMsg, NoBlock DEF Calling, Downstream
  <1>3. Threads'
    BY <1>a, <1>b, BitFacts, ThrFacts, TogoFacts, NoMsg, NoBlock DEF Threads, Calling
  <1>4. Closes'
    BY <1>a, <1>b, BitFacts, ThrFacts, TogoFacts, NoMsg, NoBlock DEF Closes, Closing, Calling, Threads, Resets
  <1>5. Resets'
    BY <1>a, <1>b, BitFacts, ThrFacts, TogoFacts, NoMsg, NoBlock DEF Resets, Calling, Threads, Closes
  <1>6. Flushes'
    BY <1>a, <1>b, <1>f, <1>g, BitFacts, ThrFacts, TogoFacts, NoMsg, NoBlock DEF Flushes, Calling, Threads
  <1> QED BY <1>1, <1>2, <1>3, <1>4, <1>5, <1>6

LEMMA OpenRenderInv ==
    ASSUME AvInv, OpenRender,
           thread[a_render] \/ op # "reset" \/ Closed(a_render) \notin recvd \cup waits
    PROVE  AvInv'
  <1> USE DEF AvInv, thrVars, apiVars, vars
  <1>a. /\ opened' /\ ~opened /\ pc[adec] = "work" /\ thread[adec]
        /\ thread'[adec] /\ pc'[adec] = pc[adec] /\ thread'[a_render]
        /\ thread[a_render] => pc'[a_render] = pc[a_render]
        /\ ~thread[a_render] => pc[a_render] = "none" /\ pc'[a_render] = "recv"
        /\ UNCHANGED <<res, dying, paused, held, left, msgs, q, bits, apiVars, feed>>
    BY ThrFacts DEF OpenRender, Threads, AvType, TypeOK
  <1>b. ~thread[a_render] => Closed(a_render) \notin waits /\ (op = "reset" => Closed(a_render) \notin recvd)
    BY Waiting
  <1>c. op = "reset" => Closed(adec) \notin recvd /\ round # 1
    BY <1>a, ThrFacts DEF Resets
  <1>f. \A s \in Thr : Flushing(s)' <=> Flushing(s)
    BY <1>a, ThrFacts DEF Flushing, Threads
  <1>g. \A s \in Thr : Clean(s) => Clean(s)'
    BY <1>a, ThrFacts DEF Clean
  <1>1. AvType'
    BY SlotAssumption, BitFacts, ThrFacts, TogoFacts, NoMsg, NoBlock DEF OpenRender, AvType, TypeOK, Msgs, Slots
  <1>2. Calling'
    BY <1>a, <1>b, <1>c, Reaching, BitFacts, ThrFacts, TogoFacts, NoMsg, NoBlock DEF Calling, Downstream
  <1>3. Threads'
    BY <1>a, <1>b, <1>c, BitFacts, ThrFacts, TogoFacts, NoMsg, NoBlock DEF Threads, Calling
  <1>4. Closes'
    BY <1>a, <1>b, <1>c, BitFacts, ThrFacts, TogoFacts, NoMsg, NoBlock DEF Closes, Closing, Calling, Threads, Resets
  <1>5. Resets'
    BY <1>a, <1>b, <1>c, BitFacts, ThrFacts, TogoFacts, NoMsg, NoBlock DEF Resets, Calling, Threads, Closes
  <1>6. Flushes'
    BY <1>a, <1>f, <1>g, BitFacts, ThrFacts, TogoFacts, NoMsg, NoBlock DEF Flushes, Calling, Threads
  <1> QED BY <1>1, <1>2, <1>3, <1>4, <1>5, <1>6

LEMMA OutputFrameInv ==
    ASSUME AvInv, OutputFrame
    PROVE  AvInv'
  <1> USE DEF AvInv, thrVars, apiVars, vars
  <1> DEFINE b == [kind |-> "data", old |-> held[adec].old]
  <1>a. held[adec] \in Blocks /\ q[a_render] \in Seq(Blocks) /\ Len(q[a_render]) \in Nat
    BY ThrFacts DEF AvType, TypeOK
  <1>b. b \in Blocks /\ b.old = held[adec].old
    BY <1>a DEF Blocks
  <1>c. \/ thread[a_render] /\ Len(q[a_render]) < RenSlots /\ q' = [q EXCEPT ![a_render] = Append(q[a_render], b)]
        \/ UNCHANGED q
    BY DEF OutputFrame, AvType
  <1> HIDE DEF b
  <1>d. /\ Append(q[a_render], b) \in Seq(Blocks) /\ Len(Append(q[a_render], b)) = Len(q[a_render]) + 1
        /\ Fresh(q[a_render]) /\ ~b.old => Fresh(Append(q[a_render], b))
    BY <1>a, <1>b, BlockPut
  <1>e. /\ pc[adec] = "work" /\ opened /\ left \in Nat /\ left > 0 /\ left' = left - 1
        /\ UNCHANGED <<res, thread, pc, dying, paused, held, opened, msgs, bits, apiVars, feed>>
    BY DEF OutputFrame, AvType, TypeOK
  <1>h. /\ q' \in [Thr -> Seq(Blocks)] /\ \A s \in Thr : q'[s] \in Seq(Blocks) /\ Len(q'[s]) <= Slots(s)
        /\ q'[adec] = q[adec] /\ (q'[a_render] # q[a_render] => thread[a_render])
        /\ Fresh(q[a_render]) /\ ~held[adec].old => Fresh(q'[a_render])
    <2>1. CASE UNCHANGED q
      BY <2>1 DEF AvType, TypeOK
    <2>2. CASE thread[a_render] /\ Len(q[a_render]) < RenSlots /\ q' = [q EXCEPT ![a_render] = Append(q[a_render], b)]
      <3>1. Len(Append(q[a_render], b)) <= Slots(a_render)
        BY <1>a, <1>d, <2>2, SlotFacts
      <3> QED BY <1>b, <1>d, <2>2, <3>1, QueueSet, ThrFacts
    <2> QED BY <1>c, <2>1, <2>2
  <1>f. \A s \in Thr : Flushing(s)' <=> Flushing(s)
    BY <1>e DEF Flushing
  <1>g. (Clean(adec) => Clean(adec)') /\ (Clean(adec) /\ Clean(a_render) => Clean(a_render)')
    BY <1>e, <1>h, ThrFacts DEF Clean
  <1>i. Flushed(a_render) \in bits => Flushed(a_render) \in waits /\ Flushed(adec) \notin waits /\ togo # <<adec, a_render>>
    <2> SUFFICES ASSUME Flushed(a_render) \in bits
                 PROVE  Flushed(a_render) \in waits /\ Flushed(adec) \notin waits /\ togo # <<adec, a_render>>
      OBVIOUS
    <2>1. Flushed(a_render) \in waits /\ op = "flush"
      BY ThrFacts DEF Calling, Flushes
    <2>2. CASE at \in {"query", "dummy"}
      BY <2>1, <2>2, Reaching, BitFacts, ThrFacts DEF Flushes, Calling
    <2>3. CASE at \in {"check", "send", "aborted", "wait"}
      BY <2>1, <2>3, BitFacts, ThrFacts DEF Flushes
    <2> QED BY <2>2, <2>3 DEF AvType, TypeOK
  <1>1. AvType'
    BY <1>e, <1>h DEF AvType, TypeOK
  <1>2. Calling'
    BY <1>e, <1>h, BitFacts, ThrFacts, TogoFacts, NoMsg, NoBlock DEF Calling, Downstream
  <1>3. Threads'
    BY <1>e, <1>h, BitFacts, ThrFacts, TogoFacts, NoMsg, NoBlock DEF Threads, Calling
  <1>4. Closes'
    BY <1>e, <1>h, BitFacts, ThrFacts, TogoFacts, NoMsg, NoBlock DEF Closes, Closing, Calling, Threads, Resets
  <1>5. Resets'
    BY <1>e, <1>h, BitFacts, ThrFacts, TogoFacts, NoMsg, NoBlock DEF Resets, Calling, Threads, Closes
  <1>6. Flushes'
    BY <1>e, <1>f, <1>g, <1>i, BitFacts, ThrFacts, TogoFacts, NoMsg, NoBlock DEF Flushes, Calling, Threads
  <1> QED BY <1>1, <1>2, <1>3, <1>4, <1>5, <1>6

LEMMA AddStreamInv ==
    ASSUME AvInv, AddStream
    PROVE  AvInv'
  <1> USE DEF AvInv, thrVars, apiVars, vars
  <1>a. /\ op = "idle" /\ op' = "add" /\ at' = "check" /\ togo' = <<adec>> /\ msg' = "CLOSE"
        /\ waits' = {} /\ recvd' = {} /\ round' = 0
        /\ ("add" \in Calls /\ ~res[adec]) \/ "again" \in Calls
        /\ UNCHANGED <<res, thread, pc, dying, paused, left, opened, msgs, bits, feed, q, held>>
    BY DEF AddStream, Start
  <1>b. (\A s \in Thr : Flushing(s)' <=> Flushing(s)) /\ \A s \in Thr : Clean(s)' <=> Clean(s)
    BY <1>a DEF Flushing, Clean
  <1>1. AvType'
    BY <1>a, TogoFacts DEF AvType, TypeOK, Msgs
  <1>2. Calling'
    BY <1>a, BitFacts, ThrFacts, TogoFacts, NoMsg, NoBlock DEF Calling, Downstream
  <1>3. Threads'
    BY <1>a, BitFacts, ThrFacts, TogoFacts, NoMsg, NoBlock DEF Threads, Calling
  <1>4. Closes'
    BY <1>a, BitFacts, ThrFacts, TogoFacts, NoMsg, NoBlock DEF Closes, Closing, Calling, Threads, Resets
  <1>5. Resets'
    BY <1>a, BitFacts, ThrFacts, TogoFacts, NoMsg, NoBlock DEF Resets, Calling, Threads, Closes
  <1>6. Flushes'
    BY <1>a, <1>b, BitFacts, ThrFacts, TogoFacts, NoMsg, NoBlock DEF Flushes, Calling, Threads
  <1> QED BY <1>1, <1>2, <1>3, <1>4, <1>5, <1>6

LEMMA PauseInv ==
    ASSUME AvInv, Pause \/ Resume
    PROVE  AvInv'
  <1> USE DEF AvInv, thrVars, apiVars, vars
  <1>a. /\ \/ op' = "pause" /\ togo' = <<adec, a_render>> /\ msg' = "PAUSE"
           \/ op' = "resume" /\ togo' = <<a_render, adec>> /\ msg' = "RESUME"
        /\ op = "idle" /\ at' = "check" /\ waits' = {} /\ recvd' = {} /\ round' = 0
        /\ UNCHANGED <<res, thread, pc, dying, paused, left, opened, msgs, bits, feed, q, held>>
    BY DEF Pause, Resume, Start
  <1>b. (\A s \in Thr : Flushing(s)' <=> Flushing(s)) /\ \A s \in Thr : Clean(s)' <=> Clean(s)
    BY <1>a DEF Flushing, Clean
  <1>c. /\ op' \in {"idle", "add", "pause", "resume", "flush", "reset"} /\ togo' \in Seq(Thr) /\ msg' \in Msgs
        /\ waits' \subseteq Bits /\ recvd' \subseteq Bits /\ round' \in 0 .. 2
    <2>1. togo' \in Seq(Thr)
      BY <1>a, TogoFacts
    <2>2. op' \in {"idle", "add", "pause", "resume", "flush", "reset"} /\ msg' \in Msgs
      BY <1>a DEF Msgs
    <2> QED BY <1>a, <2>1, <2>2
  <1>1. AvType'
    BY <1>a, <1>c DEF AvType, TypeOK
  <1>2. Calling'
    BY <1>a, BitFacts, ThrFacts, TogoFacts, NoMsg, NoBlock DEF Calling, Downstream
  <1>3. Threads'
    BY <1>a, BitFacts, ThrFacts, TogoFacts, NoMsg, NoBlock DEF Threads, Calling
  <1>4. Closes'
    BY <1>a, BitFacts, ThrFacts, TogoFacts, NoMsg, NoBlock DEF Closes, Closing, Calling, Threads, Resets
  <1>5. Resets'
    BY <1>a, BitFacts, ThrFacts, TogoFacts, NoMsg, NoBlock DEF Resets, Calling, Threads, Closes
  <1>6. Flushes'
    BY <1>a, <1>b, BitFacts, ThrFacts, TogoFacts, NoMsg, NoBlock DEF Flushes, Calling, Threads
  <1> QED BY <1>1, <1>2, <1>3, <1>4, <1>5, <1>6

LEMMA ResetInv ==
    ASSUME AvInv, Reset
    PROVE  AvInv'
  <1> USE DEF AvInv, thrVars, apiVars, vars
  <1>a. /\ op = "idle" /\ op' = "reset" /\ at' = "check" /\ togo' = <<adec, a_render>> /\ msg' = "CLOSE"
        /\ waits' = {} /\ recvd' = {} /\ round' = 0
        /\ "reset" \in Calls /\ feed = "none"
        /\ UNCHANGED <<res, thread, pc, dying, paused, left, opened, msgs, bits, feed, q, held>>
    BY DEF Reset, Start
  <1>b. (\A s \in Thr : Flushing(s)' <=> Flushing(s)) /\ \A s \in Thr : Clean(s)' <=> Clean(s)
    BY <1>a DEF Flushing, Clean
  <1>1. AvType'
    BY <1>a, TogoFacts DEF AvType, TypeOK, Msgs
  <1>2. Calling'
    BY <1>a, BitFacts, ThrFacts, TogoFacts, NoMsg, NoBlock DEF Calling, Downstream
  <1>3. Threads'
    BY <1>a, BitFacts, ThrFacts, TogoFacts, NoMsg, NoBlock DEF Threads, Calling
  <1>4. Closes'
    BY <1>a, BitFacts, ThrFacts, TogoFacts, NoMsg, NoBlock DEF Closes, Closing, Calling, Threads, Resets
  <1>5. Resets'
    BY <1>a, BitFacts, ThrFacts, TogoFacts, NoMsg, NoBlock DEF Resets, Calling, Threads, Closes
  <1>6. Flushes'
    BY <1>a, <1>b, BitFacts, ThrFacts, TogoFacts, NoMsg, NoBlock DEF Flushes, Calling, Threads
  <1> QED BY <1>1, <1>2, <1>3, <1>4, <1>5, <1>6

LEMMA FlushInv ==
    ASSUME AvInv, Flush
    PROVE  AvInv'
  <1> USE DEF AvInv, thrVars, apiVars, vars
  <1>a. /\ op = "idle" /\ op' = "flush" /\ at' = "check" /\ togo' = <<adec, a_render>> /\ msg' = "FLUSH"
        /\ waits' = {} /\ recvd' = {} /\ round' = 0
        /\ UNCHANGED <<res, thread, pc, dying, paused, left, opened, msgs, bits, feed>>
    BY DEF Flush, Start
  <1>b. /\ q' \in [Thr -> Seq(Blocks)]
        /\ \A s \in Thr : /\ q'[s] \in Seq(Blocks) /\ Len(q'[s]) <= Slots(s)
                          /\ q'[s] = <<>> <=> q[s] = <<>>
    <2>1. \A s \in Thr : q[s] \in Seq(Blocks) /\ Len(q[s]) <= Slots(s)
      BY DEF AvType, TypeOK
    <2>2. q' = [s \in Thr |-> [i \in 1 .. Len(q[s]) |-> [q[s][i] EXCEPT !.old = TRUE]]]
      BY DEF Flush
    <2> DEFINE w(s) == [i \in 1 .. Len(q[s]) |-> [q[s][i] EXCEPT !.old = TRUE]]
    <2>3. \A s \in Thr : w(s) \in Seq(Blocks) /\ Len(w(s)) = Len(q[s]) /\ (w(s) = <<>> <=> q[s] = <<>>)
      BY <2>1, Aged
    <2>4. q' = [s \in Thr |-> w(s)]
      BY <2>2
    <2> HIDE DEF w
    <2> QED BY <2>1, <2>3, <2>4
  <1>c. held' \in [Thr -> Blocks]
    BY DEF Flush, AvType, TypeOK, Blocks
  <1>f. \A s \in Thr : Flushing(s)' <=> Flushing(s)
    BY <1>a DEF Flushing
  <1>1. AvType'
    BY <1>a, <1>b, <1>c, TogoFacts DEF AvType, TypeOK, Msgs
  <1>2. Calling'
    BY <1>a, <1>b, BitFacts, ThrFacts, TogoFacts, NoMsg, NoBlock DEF Calling, Downstream
  <1>3. Threads'
    BY <1>a, <1>b, BitFacts, ThrFacts, TogoFacts, NoMsg, NoBlock DEF Threads, Calling
  <1>4. Closes'
    BY <1>a, <1>b, BitFacts, ThrFacts, TogoFacts, NoMsg, NoBlock DEF Closes, Closing, Calling, Threads, Resets
  <1>5. Resets'
    BY <1>a, <1>b, BitFacts, ThrFacts, TogoFacts, NoMsg, NoBlock DEF Resets, Calling, Threads, Closes
  <1>6. Flushes'
    BY <1>a, <1>f, BitFacts, ThrFacts, TogoFacts, NoMsg, NoBlock DEF Flushes, Calling, Threads
  <1> QED BY <1>1, <1>2, <1>3, <1>4, <1>5, <1>6

LEMMA CheckInv ==
    ASSUME AvInv, Check
    PROVE  AvInv'
  <1> USE DEF AvInv, thrVars, apiVars, vars
  <1> DEFINE t == Head(togo)
  <1>a. op # "idle" /\ at = "check" /\ togo # <<>>
        /\ UNCHANGED <<thrVars, msgs, bits, op, msg, waits, recvd, round, feed>>
    BY DEF Check
  <1>b. /\ t \in Thr
        /\ \/ togo = <<adec, a_render>> /\ t = adec /\ Tail(togo) = <<a_render>>
           \/ togo = <<a_render, adec>> /\ t = a_render /\ Tail(togo) = <<adec>> /\ op = "resume"
           \/ togo = <<adec>> /\ t = adec /\ Tail(togo) = <<>> /\ op \in {"add", "resume"}
           \/ togo = <<a_render>> /\ t = a_render /\ Tail(togo) = <<>>
        /\ op \in {"pause", "flush", "reset"} => togo \in {<<adec, a_render>>, <<a_render>>}
    BY <1>a, Reaching
  <1>c. op = "flush" => waits = {} /\ recvd = {}
    BY <1>a DEF Calling, Flushes
  <1>f. \A s \in Thr : Flushing(s)' <=> Flushing(s)
    BY <1>a DEF Flushing
  <1>d. CASE thread[t] /\ at' = "send" /\ UNCHANGED togo
    <2>a. /\ q' \in [Thr -> Seq(Blocks)] /\ \A s \in Thr : q'[s] \in Seq(Blocks) /\ Len(q'[s]) <= Slots(s)
          /\ \A s \in Thr : q'[s] = q[s] \/ q'[s] = <<>>
      <3>1. CASE q' = q
        BY <3>1 DEF AvType, TypeOK
      <3>2. CASE q' = [q EXCEPT ![a_render] = <<>>]
        <4>1. Len(<<>>) <= Slots(a_render) /\ <<>> \in Seq(Blocks)
          BY NoBlock, SlotFacts, ThrFacts
        <4> QED BY <3>2, <4>1, QueueSet, ThrFacts
      <3> QED BY <1>d, <3>1, <3>2 DEF Check
    <2>b. \A s \in Thr : Clean(s) => Clean(s)'
      BY <1>a, <2>a, NoBlock DEF Clean
    <2>1. AvType'
      BY <1>a, <1>d, <2>a DEF AvType, TypeOK
    <2>2. Calling'
      BY <1>a, <1>b, <1>d, <2>a, BitFacts, ThrFacts, TogoFacts, NoMsg, NoBlock DEF Calling, Downstream
    <2>3. Threads'
      BY <1>a, <1>b, <1>d, <2>a, BitFacts, ThrFacts, TogoFacts, NoMsg, NoBlock DEF Threads, Calling
    <2>4. Closes'
      BY <1>a, <1>b, <1>d, <2>a, BitFacts, ThrFacts, TogoFacts, NoMsg, NoBlock DEF Closes, Closing, Calling, Threads, Resets
    <2>5. Resets'
      BY <1>a, <1>b, <1>d, <2>a, BitFacts, ThrFacts, TogoFacts, NoMsg, NoBlock DEF Resets, Calling, Threads, Closes
    <2>6. Flushes'
      BY <1>a, <1>b, <1>c, <1>d, <1>f, <2>b, BitFacts, ThrFacts, TogoFacts, NoMsg, NoBlock DEF Flushes, Calling, Threads
    <2> QED BY <2>1, <2>2, <2>3, <2>4, <2>5, <2>6
  <1>e. CASE (~thread[t] \/ Closed(t) \in recvd) /\ togo' = Tail(togo) /\ UNCHANGED <<at, q>>
    <2>a. ~thread[t]
      BY <1>a, <1>b, <1>e DEF Resets, Calling
    <2>b. \A s \in Thr : Clean(s) => Clean(s)'
      BY <1>a, <1>e DEF Clean
    <2>c. op = "flush" /\ t = adec => Clean(adec)
      BY <2>a, NoBlock, ThrFacts DEF Clean, Threads
    <2>1. AvType'
      BY <1>a, <1>b, <1>e, TogoFacts DEF AvType, TypeOK
    <2>2. Calling'
      BY <1>a, <1>b, <1>e, <2>a, BitFacts, ThrFacts, TogoFacts, NoMsg, NoBlock DEF Calling, Downstream
    <2>3. Threads'
      BY <1>a, <1>b, <1>e, <2>a, BitFacts, ThrFacts, TogoFacts, NoMsg, NoBlock DEF Threads, Calling
    <2>4. Closes'
      BY <1>a, <1>b, <1>e, <2>a, BitFacts, ThrFacts, TogoFacts, NoMsg, NoBlock DEF Closes, Closing, Calling, Threads, Resets
    <2>5. Resets'
      BY <1>a, <1>b, <1>e, <2>a, BitFacts, ThrFacts, TogoFacts, NoMsg, NoBlock DEF Resets, Calling, Threads, Closes
    <2>6. Flushes'
      BY <1>a, <1>b, <1>c, <1>e, <1>f, <2>a, <2>b, <2>c, BitFacts, ThrFacts, TogoFacts, NoMsg, NoBlock DEF Flushes, Calling, Threads
    <2> QED BY <2>1, <2>2, <2>3, <2>4, <2>5, <2>6
  <1> QED BY <1>d, <1>e DEF Check

LEMMA SendMsgInv ==
    ASSUME AvInv, SendMsg
    PROVE  AvInv'
  <1> USE DEF AvInv, thrVars, apiVars, vars
  <1>l. op # "idle" /\ at = "send" /\ togo # <<>>
    BY DEF SendMsg, Calling
  <1>m. PICK t \in Thr : t = Head(togo)
    BY <1>l, Reaching
  <1>a. op # "idle" /\ at = "send" /\ togo # <<>> /\ thread[t] /\ res[t]
    BY <1>l, <1>m DEF Calling, Threads
  <1>b. /\ t \in Thr
        /\ \/ togo = <<adec, a_render>> /\ t = adec
           \/ togo = <<a_render, adec>> /\ t = a_render /\ op = "resume"
           \/ togo = <<adec>> /\ t = adec /\ op \in {"add", "resume"}
           \/ togo = <<a_render>> /\ t = a_render
        /\ op \in {"pause", "flush", "reset"} => togo \in {<<adec, a_render>>, <<a_render>>}
    BY <1>a, <1>m, Reaching
  <1>c. /\ Closed(t) \notin waits /\ Flushed(t) \notin waits
        /\ op = "flush" => waits = {}
        /\ op \in {"pause", "resume"} => waits = {} /\ msg \in {"PAUSE", "RESUME"}
        /\ op \in {"add", "reset"} => msg = "CLOSE"
        /\ op = "flush" => msg = "FLUSH"
        /\ op \in {"add", "pause", "resume", "flush", "reset"}
    BY <1>a, <1>b, <1>m, Waiting, TogoFacts DEF Calling, Flushes, AvType, TypeOK
  <1>d. /\ msgs[t] \in Seq(Msgs) /\ msg \in Msgs /\ Quiet(msgs[t]) /\ Len(msgs[t]) \in Nat
        /\ ~EndsWith(msgs[t], "CLOSE") /\ ~EndsWith(msgs[t], "FLUSH") /\ pc[t] # "flush" /\ dying[t] = 0
    BY <1>b, <1>c DEF AvType, TypeOK, Closes, Closing, Flushes, Flushing
  <1>e. /\ Append(msgs[t], msg) \in Seq(Msgs) /\ Len(Append(msgs[t], msg)) = Len(msgs[t]) + 1
        /\ Quiet(Append(msgs[t], msg))
        /\ EndsWith(Append(msgs[t], msg), "CLOSE") <=> msg = "CLOSE"
        /\ EndsWith(Append(msgs[t], msg), "FLUSH") <=> msg = "FLUSH"
    BY <1>d, MsgSent
  <1>f. /\ Len(msgs[t]) < MsgSlots /\ msgs' = [msgs EXCEPT ![t] = Append(msgs[t], msg)]
        /\ at' = "query"
        /\ UNCHANGED <<thrVars, q, bits, op, togo, msg, recvd, round, feed>>
    BY <1>m DEF SendMsg, AvType
  <1>g. /\ op = "flush" => waits' = {Flushed(t)}
        /\ op \in {"add", "reset"} => waits' = waits \cup {Closed(t)}
        /\ op \in {"pause", "resume"} => waits' = {}
    BY <1>m, Zenon DEF SendMsg
  <1>h. /\ msgs' \in [Thr -> Seq(Msgs)] /\ \A s \in Thr : Len(msgs'[s]) <= MsgSlots
        /\ Quiet(msgs'[t])
        /\ EndsWith(msgs'[t], "CLOSE") <=> msg = "CLOSE"
        /\ EndsWith(msgs'[t], "FLUSH") <=> msg = "FLUSH"
        /\ \A s \in Thr : s # t => msgs'[s] = msgs[s]
    <2>1. /\ msgs'[t] = Append(msgs[t], msg) /\ (\A s \in Thr : s # t => msgs'[s] = msgs[s])
          /\ msgs' \in [Thr -> Seq(Msgs)]
      BY <1>b, <1>e, <1>f DEF AvType
    <2>2. Len(Append(msgs[t], msg)) <= MsgSlots
      BY <1>d, <1>e, <1>f, SlotFacts
    <2>3. \A s \in Thr : Len(msgs[s]) <= MsgSlots
      BY DEF AvType, TypeOK
    <2> QED BY <1>b, <1>e, <2>1, <2>2, <2>3
  <1>i. /\ Flushing(t)' <=> msg = "FLUSH"
        /\ Closing(t)' <=> msg = "CLOSE"
        /\ \A s \in Thr : s # t => (Flushing(s)' <=> Flushing(s)) /\ (Closing(s)' <=> Closing(s))
        /\ \A s \in Thr : Clean(s)' <=> Clean(s)
    <2>1. Flushing(t)' <=> msg = "FLUSH"
      BY <1>d, <1>f, <1>h DEF Flushing
    <2>2. Closing(t)' <=> msg = "CLOSE"
      BY <1>h DEF Closing
    <2>3. \A s \in Thr : s # t => (Flushing(s)' <=> Flushing(s)) /\ (Closing(s)' <=> Closing(s))
      BY <1>f, <1>h DEF Flushing, Closing
    <2>4. \A s \in Thr : Clean(s)' <=> Clean(s)
      BY <1>f DEF Clean
    <2> QED BY <2>1, <2>2, <2>3, <2>4
  <1>j. Closed(t) \notin bits /\ Flushed(t) \notin bits /\ bits \subseteq waits'
    BY <1>c, <1>g DEF Calling
  <1>k. /\ waits' \subseteq Bits
        /\ \A s \in Thr : s # t => (Closed(s) \in waits' <=> Closed(s) \in waits)
        /\ Closed(t) \in waits' <=> op \in {"add", "reset"}
    BY <1>b, <1>c, <1>g, BitFacts, ThrFacts, Waiting DEF AvType, TypeOK
  <1>1. AvType'
    BY <1>f, <1>h, <1>k DEF AvType, TypeOK
  <1>2. Calling'
    BY <1>m, <1>a, <1>b, <1>c, <1>d, <1>f, <1>g, <1>h, <1>j, <1>k, BitFacts, ThrFacts, TogoFacts, NoMsg, NoBlock DEF Calling, Downstream
  <1>3. Threads'
    BY <1>m, <1>a, <1>b, <1>c, <1>d, <1>f, <1>g, <1>h, <1>j, <1>k, BitFacts, ThrFacts, TogoFacts, NoMsg, NoBlock DEF Threads, Calling
  <1>4. Closes'
    BY <1>m, <1>a, <1>b, <1>c, <1>d, <1>f, <1>g, <1>h, <1>i, <1>j, <1>k, ThrFacts, TogoFacts DEF Closes, Calling
  <1>5. Resets'
    BY <1>m, <1>a, <1>b, <1>c, <1>d, <1>f, <1>g, <1>h, <1>j, <1>k, BitFacts, ThrFacts, TogoFacts, NoMsg, NoBlock DEF Resets, Calling, Threads, Closes
  <1>6. Flushes'
    BY <1>m, <1>a, <1>b, <1>c, <1>d, <1>f, <1>g, <1>i, <1>h, <1>j, BitFacts, ThrFacts, TogoFacts, NoMsg, NoBlock DEF Flushes, Calling, Threads
  <1> QED BY <1>1, <1>2, <1>3, <1>4, <1>5, <1>6

LEMMA QueryInv ==
    ASSUME AvInv, Query
    PROVE  AvInv'
  <1> USE DEF AvInv, thrVars, apiVars, vars
  <1>a. op # "idle" /\ at = "query" /\ togo # <<>>
        /\ UNCHANGED <<thrVars, msgs, q, bits, op, msg, waits, recvd, round, feed>>
    BY DEF Query, Calling
  <1>b. CASE Sent
    <2>1. q' \in [Thr -> Seq(Blocks)] /\ \A s \in Thr : q'[s] \in Seq(Blocks) /\ Len(q'[s]) <= Slots(s)
      BY <1>a DEF AvType, TypeOK
    <2> QED BY <1>a, <1>b, <2>1, SentOn
  <1>c. CASE at' = "dummy" /\ UNCHANGED togo
    <2>a. (\A s \in Thr : Flushing(s)' <=> Flushing(s)) /\ \A s \in Thr : Clean(s) => Clean(s)'
      BY <1>a DEF Flushing, Clean
    <2>1. AvType'
      BY <1>a, <1>c DEF AvType, TypeOK
    <2>2. Calling'
      BY <1>a, <1>c, BitFacts, ThrFacts, TogoFacts, NoMsg, NoBlock DEF Calling, Downstream
    <2>3. Threads'
      BY <1>a, <1>c, BitFacts, ThrFacts, TogoFacts, NoMsg, NoBlock DEF Threads, Calling
    <2>4. Closes'
      BY <1>a, <1>c, BitFacts, ThrFacts, TogoFacts, NoMsg, NoBlock DEF Closes, Closing, Calling, Threads, Resets
    <2>5. Resets'
      BY <1>a, <1>c, BitFacts, ThrFacts, TogoFacts, NoMsg, NoBlock DEF Resets, Calling, Threads, Closes
    <2>6. Flushes'
      BY <1>a, <1>c, <2>a, BitFacts, ThrFacts, TogoFacts, NoMsg, NoBlock DEF Flushes, Calling, Threads
    <2> QED BY <2>1, <2>2, <2>3, <2>4, <2>5, <2>6
  <1> QED BY <1>b, <1>c DEF Query

LEMMA DummyInv ==
    ASSUME AvInv, Dummy
    PROVE  AvInv'
  <1> USE DEF AvInv, thrVars, apiVars, vars
  <1> DEFINE t == Head(togo)
  <1>a. op # "idle" /\ at = "dummy" /\ togo # <<>>
    BY DEF Dummy, Calling
  <1>b. t \in Thr
    BY <1>a, Reaching
  <1>c. /\ Len(q[t]) < Slots(t) /\ q' = [q EXCEPT ![t] = Append(q[t], Zero)] /\ Sent
        /\ UNCHANGED <<thrVars, msgs, bits, op, msg, waits, recvd, round, feed>>
    BY DEF Dummy, AvType
  <1>d. q[t] \in Seq(Blocks) /\ Len(q[t]) \in Nat /\ Slots(t) \in Nat
    BY <1>b, SlotFacts DEF AvType
  <1>e. Zero \in Blocks /\ ~Zero.old
    BY DEF Zero, Blocks
  <1>f. /\ Append(q[t], Zero) \in Seq(Blocks) /\ Len(Append(q[t], Zero)) = Len(q[t]) + 1
        /\ Fresh(q[t]) => Fresh(Append(q[t], Zero))
    BY <1>d, <1>e, BlockPut
  <1>g. Len(Append(q[t], Zero)) <= Slots(t)
    BY <1>c, <1>d, <1>f
  <1>h. /\ q' \in [Thr -> Seq(Blocks)] /\ \A s \in Thr : q'[s] \in Seq(Blocks) /\ Len(q'[s]) <= Slots(s)
        /\ q'[t] = Append(q[t], Zero) /\ \A s \in Thr : s # t => q'[s] = q[s]
    BY <1>b, <1>c, <1>f, <1>g, QueueSet
  <1>i. \A s \in Thr : Fresh(q[s]) => Fresh(q'[s])
    BY <1>f, <1>h
  <1> QED BY <1>a, <1>c, <1>h, <1>i, SentOn

LEMMA FinishPauseInv ==
    ASSUME AvInv, FinishPause
    PROVE  AvInv'
  <1> USE DEF AvInv, thrVars, apiVars, vars
  <1>a. /\ op \in {"pause", "resume"} /\ op' = "idle" /\ at' = "check"
        /\ UNCHANGED <<thrVars, msgs, q, bits, togo, msg, waits, recvd, round, feed>>
    BY DEF FinishPause
  <1>b. (\A s \in Thr : Flushing(s)' <=> Flushing(s)) /\ \A s \in Thr : Clean(s)' <=> Clean(s)
    BY <1>a DEF Flushing, Clean
  <1>1. AvType'
    BY <1>a DEF AvType, TypeOK
  <1>2. Calling'
    BY <1>a, BitFacts, ThrFacts, TogoFacts, NoMsg, NoBlock DEF Calling, Downstream
  <1>3. Threads'
    BY <1>a, BitFacts, ThrFacts, TogoFacts, NoMsg, NoBlock DEF Threads, Calling
  <1>4. Closes'
    BY <1>a, BitFacts, ThrFacts, TogoFacts, NoMsg, NoBlock DEF Closes, Closing, Calling, Threads, Resets
  <1>5. Resets'
    BY <1>a, BitFacts, ThrFacts, TogoFacts, NoMsg, NoBlock DEF Resets, Calling, Threads, Closes
  <1>6. Flushes'
    BY <1>a, <1>b, BitFacts, ThrFacts, TogoFacts, NoMsg, NoBlock DEF Flushes, Calling, Threads
  <1> QED BY <1>1, <1>2, <1>3, <1>4, <1>5, <1>6

LEMMA FlushedDecoderInv ==
    ASSUME AvInv, FlushedDecoder
    PROVE  AvInv'
  <1> USE DEF AvInv, thrVars, apiVars, vars
  <1>a. /\ op = "flush" /\ at = "wait" /\ togo # <<>> /\ waits \subseteq bits
        /\ bits' = bits \ waits /\ waits' = {} /\ at' = "check"
        /\ UNCHANGED <<thrVars, msgs, q, op, togo, msg, recvd, round, feed>>
    BY DEF FlushedDecoder
  <1>b. (\A s \in Thr : Flushing(s)' <=> Flushing(s)) /\ \A s \in Thr : Clean(s)' <=> Clean(s)
    BY <1>a DEF Flushing, Clean
  <1>1. AvType'
    BY <1>a DEF AvType, TypeOK
  <1>2. Calling'
    BY <1>a, BitFacts, ThrFacts, TogoFacts, NoMsg, NoBlock DEF Calling, Downstream
  <1>3. Threads'
    BY <1>a, BitFacts, ThrFacts, TogoFacts, NoMsg, NoBlock DEF Threads, Calling
  <1>4. Closes'
    BY <1>a, BitFacts, ThrFacts, TogoFacts, NoMsg, NoBlock DEF Closes, Closing, Calling, Threads, Resets
  <1>5. Resets'
    BY <1>a, BitFacts, ThrFacts, TogoFacts, NoMsg, NoBlock DEF Resets, Calling, Threads, Closes
  <1>6. Flushes'
    BY <1>a, <1>b, BitFacts, ThrFacts, TogoFacts, NoMsg, NoBlock DEF Flushes, Calling, Threads
  <1> QED BY <1>1, <1>2, <1>3, <1>4, <1>5, <1>6

LEMMA FinishFlushInv ==
    ASSUME AvInv, FinishFlush
    PROVE  AvInv'
  <1> USE DEF AvInv, thrVars, apiVars, vars
  <1>a. /\ op = "flush" /\ at \in {"check", "wait"} /\ togo = <<>> /\ waits \subseteq bits /\ waits # {}
        /\ bits' = bits \ waits /\ waits' = {} /\ at' = "check" /\ op' = "idle"
        /\ UNCHANGED <<thrVars, msgs, q, togo, msg, recvd, round, feed>>
    BY DEF FinishFlush, WaitDone, AllSent
  <1>b. (\A s \in Thr : Flushing(s)' <=> Flushing(s)) /\ \A s \in Thr : Clean(s)' <=> Clean(s)
    BY <1>a DEF Flushing, Clean
  <1>1. AvType'
    BY <1>a DEF AvType, TypeOK
  <1>2. Calling'
    BY <1>a, BitFacts, ThrFacts, TogoFacts, NoMsg, NoBlock DEF Calling, Downstream
  <1>3. Threads'
    BY <1>a, BitFacts, ThrFacts, TogoFacts, NoMsg, NoBlock DEF Threads, Calling
  <1>4. Closes'
    BY <1>a, BitFacts, ThrFacts, TogoFacts, NoMsg, NoBlock DEF Closes, Closing, Calling, Threads, Resets
  <1>5. Resets'
    BY <1>a, BitFacts, ThrFacts, TogoFacts, NoMsg, NoBlock DEF Resets, Calling, Threads, Closes
  <1>6. Flushes'
    BY <1>a, <1>b, BitFacts, ThrFacts, TogoFacts, NoMsg, NoBlock DEF Flushes, Calling, Threads
  <1> QED BY <1>1, <1>2, <1>3, <1>4, <1>5, <1>6

LEMMA FlushNoBitsInv ==
    ASSUME AvInv, FlushNoBits
    PROVE  AvInv'
  <1> USE DEF AvInv, thrVars, apiVars, vars
  <1>a. /\ op = "flush" /\ at = "check" /\ togo = <<>> /\ waits = {} /\ at' = "aborted"
        /\ UNCHANGED <<thrVars, msgs, q, bits, op, togo, msg, waits, recvd, round, feed>>
    BY DEF FlushNoBits
  <1>b. (\A s \in Thr : Flushing(s)' <=> Flushing(s)) /\ \A s \in Thr : Clean(s)' <=> Clean(s)
    BY <1>a DEF Flushing, Clean
  <1>1. AvType'
    BY <1>a DEF AvType, TypeOK
  <1>2. Calling'
    BY <1>a, BitFacts, ThrFacts, TogoFacts, NoMsg, NoBlock DEF Calling, Downstream
  <1>3. Threads'
    BY <1>a, BitFacts, ThrFacts, TogoFacts, NoMsg, NoBlock DEF Threads, Calling
  <1>4. Closes'
    BY <1>a, BitFacts, ThrFacts, TogoFacts, NoMsg, NoBlock DEF Closes, Closing, Calling, Threads, Resets
  <1>5. Resets'
    BY <1>a, BitFacts, ThrFacts, TogoFacts, NoMsg, NoBlock DEF Resets, Calling, Threads, Closes
  <1>6. Flushes'
    BY <1>a, <1>b, BitFacts, ThrFacts, TogoFacts, NoMsg, NoBlock DEF Flushes, Calling, Threads
  <1> QED BY <1>1, <1>2, <1>3, <1>4, <1>5, <1>6

LEMMA FinishAddInv ==
    ASSUME AvInv, FinishAdd
    PROVE  AvInv'
  <1> USE DEF AvInv, thrVars, apiVars, vars
  <1>a. /\ op = "add" /\ at = "check" /\ togo = <<>> /\ waits \subseteq bits
        /\ bits' = bits \ waits /\ waits' = {} /\ op' = "idle" /\ opened' = FALSE
        /\ UNCHANGED <<dying, paused, held, left, msgs, q, at, togo, msg, recvd, round, feed>>
    BY DEF FinishAdd, WaitDone, AllSent, Calling
  <1>b. /\ thread'[adec] /\ pc'[adec] = "recv" /\ res'[adec] /\ res'[a_render]
        /\ thread'[a_render] = thread[a_render] /\ pc'[a_render] = pc[a_render]
        /\ thread' \in [Thr -> BOOLEAN] /\ res' \in [Thr -> BOOLEAN]
        /\ pc' \in [Thr -> {"none", "recv", "flush", "read", "work"}]
    BY ThrFacts DEF FinishAdd, AvType, TypeOK
  <1>c. ~thread[adec] /\ msgs[adec] = <<>> /\ dying[adec] = 0 /\ pc[adec] = "none"
    BY <1>a, ThrFacts DEF Closes, Threads
  <1>d. \A s \in Thr : (Flushing(s)' <=> Flushing(s)) /\ (Closing(s)' <=> Closing(s)) /\ (Clean(s)' <=> Clean(s))
    BY <1>a, <1>b, <1>c, ThrFacts DEF Flushing, Closing, Clean
  <1>1. AvType'
    BY <1>a, <1>b DEF AvType, TypeOK
  <1>2. Calling'
    BY <1>a, <1>b, <1>c, BitFacts, ThrFacts, TogoFacts, NoMsg, NoBlock DEF Calling, Downstream
  <1>3. Threads'
    BY <1>a, <1>b, <1>c, BitFacts, ThrFacts, TogoFacts, NoMsg, NoBlock DEF Threads, Calling
  <1>4. Closes'
    BY <1>a, <1>b, <1>c, <1>d, BitFacts, ThrFacts, TogoFacts, NoMsg, NoBlock DEF Closes, Calling, Closing
  <1>5. Resets'
    BY <1>a, <1>b, <1>c, BitFacts, ThrFacts, TogoFacts, NoMsg, NoBlock DEF Resets, Calling, Threads, Closes
  <1>6. Flushes'
    BY <1>a, <1>b, <1>d, BitFacts, ThrFacts, TogoFacts, NoMsg, NoBlock DEF Flushes, Calling, Threads
  <1> QED BY <1>1, <1>2, <1>3, <1>4, <1>5, <1>6

LEMMA NextRoundInv ==
    ASSUME AvInv, NextRound
    PROVE  AvInv'
  <1> USE DEF AvInv, thrVars, apiVars, vars
  <1>a. /\ op = "reset" /\ togo = <<>> /\ waits \subseteq bits /\ waits # {} /\ round < 1
        /\ bits' = bits \ waits /\ waits' = {} /\ recvd' = recvd \cup waits /\ round' = round + 1
        /\ togo' = <<adec, a_render>> /\ at' = "check"
        /\ UNCHANGED <<thrVars, msgs, q, op, msg, feed>>
    BY DEF NextRound, WaitDone, AllSent, Calling
  <1>b. \A s \in Thr : Closed(s) \in waits => ~thread[s] /\ dying[s] = 0 /\ msgs[s] = <<>>
    BY <1>a DEF Closes, Threads
  <1>c. round = 0 /\ round' = 1 /\ recvd = {} /\ recvd' = waits /\ bits' = {}
    BY <1>a DEF Resets, Calling
  <1>d. Closed(adec) \in waits
    <2>1. CASE Closed(a_render) \in waits
      BY <1>a, <1>c, <2>1, TogoFacts DEF Resets, Threads
    <2>2. CASE Closed(a_render) \notin waits
      BY <1>a, <2>2 DEF Calling
    <2> QED BY <2>1, <2>2
  <1>e. \A s \in Thr : Closed(s) \notin waits => ~Closing(s) /\ dying[s] = 0
    BY DEF Closes
  <1>f. \A s \in Thr : ~Closing(s)' /\ dying'[s] = 0 /\ Quiet(msgs'[s])
    BY <1>a, <1>b, <1>e, NoMsg DEF Closing, Closes
  <1>g. (\A s \in Thr : Flushing(s)' <=> Flushing(s)) /\ \A s \in Thr : Clean(s)' <=> Clean(s)
    BY <1>a DEF Flushing, Clean
  <1>1. AvType'
    BY <1>a, <1>c, TogoFacts DEF AvType, TypeOK
  <1>2. Calling'
    BY <1>a, <1>b, <1>c, <1>d, BitFacts, ThrFacts, TogoFacts, NoMsg, NoBlock DEF Calling, Downstream
  <1>3. Threads'
    BY <1>a, <1>b, <1>c, <1>d, BitFacts, ThrFacts, TogoFacts, NoMsg, NoBlock DEF Threads, Calling
  <1>4. Closes'
    BY <1>a, <1>f DEF Closes
  <1>5. Resets'
    BY <1>a, <1>b, <1>c, <1>d, BitFacts, ThrFacts, TogoFacts, NoMsg, NoBlock DEF Resets, Calling, Threads, Closes
  <1>6. Flushes'
    BY <1>a, <1>c, <1>g, BitFacts, ThrFacts, TogoFacts, NoMsg, NoBlock DEF Flushes, Calling, Threads
  <1> QED BY <1>1, <1>2, <1>3, <1>4, <1>5, <1>6

LEMMA FinishResetInv ==
    ASSUME AvInv, FinishReset
    PROVE  AvInv'
  <1> USE DEF AvInv, thrVars, apiVars, vars
  <1>a. /\ op = "reset" /\ togo = <<>> /\ waits \subseteq bits /\ (waits = {} \/ round = 1)
        /\ bits' = bits \ waits /\ waits' = {} /\ op' = "idle" /\ at' = "check" /\ opened' = FALSE
        /\ UNCHANGED <<pc, dying, held, left, togo, msg, recvd, round, feed>>
    BY DEF FinishReset, WaitDone, AllSent, Calling
  <1>b. \A s \in Thr : Closed(s) \in waits => ~thread[s] /\ dying[s] = 0 /\ msgs[s] = <<>>
    BY <1>a DEF Closes, Threads
  <1>c. bits' = {} /\ feed = "none"
    BY <1>a DEF Calling
  <1>d. ~thread[adec]
    BY <1>a, <1>b, TogoFacts, ThrFacts DEF Resets
  <1>e. ~thread[a_render]
    <2> SUFFICES ASSUME thread[a_render] PROVE FALSE
      OBVIOUS
    <2>1. Closed(a_render) \notin waits
      BY <1>b, ThrFacts
    <2>2. Closed(adec) \in recvd \cup waits
      BY <1>a, <1>d, ThrFacts DEF Threads, Resets, Calling
    <2> QED BY <1>a, <2>1, <2>2 DEF Resets
  <1>f. \A s \in Thr : /\ ~thread[s] /\ pc[s] = "none" /\ dying[s] = 0
                       /\ ~thread'[s] /\ pc'[s] = "none" /\ dying'[s] = 0
                       /\ res'[s] = FALSE /\ msgs'[s] = <<>> /\ q'[s] = <<>>
    BY <1>b, <1>d, <1>e, ThrFacts DEF FinishReset, Threads, Closes
  <1>g. /\ thread' \in [Thr -> BOOLEAN] /\ res' \in [Thr -> BOOLEAN] /\ paused' \in [Thr -> BOOLEAN]
        /\ msgs' \in [Thr -> Seq(Msgs)] /\ q' \in [Thr -> Seq(Blocks)]
        /\ \A s \in Thr : /\ msgs'[s] \in Seq(Msgs) /\ Len(msgs'[s]) <= MsgSlots
                          /\ q'[s] \in Seq(Blocks) /\ Len(q'[s]) <= Slots(s)
    BY SlotFacts, NoBlock DEF FinishReset
  <1>i. Threads'
    <2>1. (\A s \in Thr : /\ thread[s] <=> pc[s] # "none"
                          /\ thread[s] \/ dying[s] > 0 \/ q[s] # <<>> => res[s]
                          /\ ~thread[s] => msgs[s] = <<>>)'
      BY <1>f
    <2>2. (res[adec] = res[a_render] /\ (feed # "none" \/ opened => res[adec]))'
      BY <1>a, <1>c, <1>f, ThrFacts
    <2>3. ("again" \notin Calls => /\ thread[a_render] => opened
                                   /\ op = "add" => ~res[adec])'
      BY <1>a, <1>f, ThrFacts
    <2>4. ((res[adec] /\ op \notin {"add", "reset"} => thread[adec]) /\ (~thread[a_render] /\ op # "reset" => q[a_render] = <<>>))'
      BY <1>f, ThrFacts
    <2> QED BY <2>1, <2>2, <2>3, <2>4 DEF Threads
  <1>h. \A s \in Thr : ~Flushing(s)' /\ ~Closing(s)' /\ Clean(s)'
    BY <1>f, NoMsg, NoBlock DEF Flushing, Closing, Clean
  <1>1. AvType'
    BY <1>a, <1>c, <1>g DEF AvType, TypeOK
  <1>2. Calling'
    BY <1>a, <1>c, <1>f, BitFacts, ThrFacts, TogoFacts, NoMsg, NoBlock DEF Calling, Downstream
  <1>3. Threads'
    BY <1>i DEF Threads
  <1>4. Closes'
    BY <1>a, <1>f, <1>h, NoMsg DEF Closes
  <1>5. Resets'
    BY <1>a, <1>c, <1>f, BitFacts, ThrFacts, TogoFacts, NoMsg, NoBlock DEF Resets, Calling, Threads, Closes
  <1>6. Flushes'
    BY <1>a, <1>f, <1>h, BitFacts, ThrFacts, TogoFacts, NoMsg, NoBlock DEF Flushes, Calling, Threads
  <1> QED BY <1>1, <1>2, <1>3, <1>4, <1>5, <1>6

LEMMA PutDataInv ==
    ASSUME AvInv, PutData
    PROVE  AvInv'
  <1> USE DEF AvInv, thrVars, apiVars, vars
  <1> DEFINE b == [kind |-> feed, old |-> FALSE]
  <1>a. b \in Blocks /\ ~b.old
    BY SlotAssumption DEF Blocks, PutData, AvType, TypeOK
  <1>b. /\ feed # "none" /\ Len(q[adec]) < DecSlots /\ q' = [q EXCEPT ![adec] = Append(q[adec], b)] /\ feed' = "none"
        /\ UNCHANGED <<thrVars, msgs, bits, apiVars>>
    BY DEF PutData, AvType
  <1> HIDE DEF b
  <1>c. q[adec] \in Seq(Blocks) /\ Len(q[adec]) \in Nat
    BY ThrFacts DEF AvType
  <1>d. /\ Append(q[adec], b) \in Seq(Blocks) /\ Len(Append(q[adec], b)) = Len(q[adec]) + 1
        /\ Fresh(q[adec]) => Fresh(Append(q[adec], b))
    BY <1>a, <1>c, BlockPut
  <1>e. Len(Append(q[adec], b)) <= Slots(adec)
    BY <1>b, <1>c, <1>d, SlotFacts
  <1>h. /\ q' \in [Thr -> Seq(Blocks)] /\ \A s \in Thr : q'[s] \in Seq(Blocks) /\ Len(q'[s]) <= Slots(s)
        /\ q'[a_render] = q[a_render] /\ (Fresh(q[adec]) => Fresh(q'[adec]))
    BY <1>b, <1>d, <1>e, QueueSet, ThrFacts
  <1>f. \A s \in Thr : Flushing(s)' <=> Flushing(s)
    BY <1>b DEF Flushing
  <1>g. \A s \in Thr : Clean(s) => Clean(s)'
    BY <1>b, <1>h, ThrFacts DEF Clean
  <1>1. AvType'
    BY <1>b, <1>h DEF AvType, TypeOK
  <1>2. Calling'
    BY <1>b, <1>h, BitFacts, ThrFacts, TogoFacts, NoMsg, NoBlock DEF Calling, Downstream
  <1>3. Threads'
    BY <1>b, <1>h, BitFacts, ThrFacts, TogoFacts, NoMsg, NoBlock DEF Threads, Calling
  <1>4. Closes'
    BY <1>b, <1>h, BitFacts, ThrFacts, TogoFacts, NoMsg, NoBlock DEF Closes, Closing, Calling, Threads, Resets
  <1>5. Resets'
    BY <1>b, <1>h, BitFacts, ThrFacts, TogoFacts, NoMsg, NoBlock DEF Resets, Calling, Threads, Closes
  <1>6. Flushes'
    BY <1>b, <1>f, <1>g, BitFacts, ThrFacts, TogoFacts, NoMsg, NoBlock DEF Flushes, Calling, Threads
  <1> QED BY <1>1, <1>2, <1>3, <1>4, <1>5, <1>6

LEMMA AddDataInv ==
    ASSUME AvInv, NEW kind \in Kinds, AddData(kind)
    PROVE  AvInv'
  <1> USE DEF AvInv, thrVars, apiVars, vars
  <1>a. /\ feed = "none" /\ op = "idle" /\ thread[adec] /\ feed' = kind
        /\ UNCHANGED <<thrVars, msgs, q, bits, apiVars>>
    BY DEF AddData
  <1>b. (\A s \in Thr : Flushing(s)' <=> Flushing(s)) /\ \A s \in Thr : Clean(s)' <=> Clean(s)
    BY <1>a DEF Flushing, Clean
  <1>1. AvType'
    BY <1>a DEF AvType, TypeOK
  <1>2. Calling'
    BY <1>a, BitFacts, ThrFacts, TogoFacts, NoMsg, NoBlock DEF Calling, Downstream
  <1>3. Threads'
    BY <1>a, BitFacts, ThrFacts, TogoFacts, NoMsg, NoBlock DEF Threads, Calling
  <1>4. Closes'
    BY <1>a, BitFacts, ThrFacts, TogoFacts, NoMsg, NoBlock DEF Closes, Closing, Calling, Threads, Resets
  <1>5. Resets'
    BY <1>a, BitFacts, ThrFacts, TogoFacts, NoMsg, NoBlock DEF Resets, Calling, Threads, Closes
  <1>6. Flushes'
    BY <1>a, <1>b, BitFacts, ThrFacts, TogoFacts, NoMsg, NoBlock DEF Flushes, Calling, Threads
  <1> QED BY <1>1, <1>2, <1>3, <1>4, <1>5, <1>6

\* Every step but one: a render thread made again in a reset that awaits its end.
LEMMA AvNextInv ==
    ASSUME AvInv, [Next]_vars, ~Remake
    PROVE  AvInv'
  <1>1. CASE ApiStart
    BY <1>1, AddStreamInv, PauseInv, FlushInv, ResetInv DEF ApiStart
  <1>2. CASE ApiStep
    BY <1>2, CheckInv, SendMsgInv, QueryInv, DummyInv, FinishPauseInv, FlushedDecoderInv, FinishFlushInv,
       FlushNoBitsInv, FinishAddInv, NextRoundInv, FinishResetInv DEF ApiStep
  <1>3. CASE PutData
    BY <1>3, PutDataInv
  <1>4. ASSUME NEW k \in Kinds, AddData(k) PROVE AvInv'
    BY <1>4, AddDataInv
  <1>5. ASSUME NEW t \in Thr, ThreadStep(t) PROVE AvInv'
    <2>1. OpenRender => thread[a_render] \/ op # "reset" \/ Closed(a_render) \notin recvd \cup waits
      BY ThrFacts DEF OpenRender, Remake, AvInv, AvType, TypeOK
    <2> QED BY <1>5, <2>1, RecvMsgInv, RecvNoneInv, HandleFlushInv, ReadBlockInv, DoneBlockInv, DieInv,
               OpenRenderInv, OutputFrameInv DEF ThreadStep
  <1>6. CASE UNCHANGED vars
    <2> USE <1>6 DEF vars, thrVars, apiVars, AvInv
    <2>1. \A t \in Thr : (Flushing(t)' <=> Flushing(t)) /\ (Closing(t)' <=> Closing(t)) /\ (Clean(t)' <=> Clean(t))
      BY DEF Flushing, Closing, Clean
    <2>2. AvType' /\ Calling'
      BY DEF AvType, TypeOK, Calling
    <2>3. Threads' /\ Resets'
      BY DEF Threads, Resets
    <2>4. Closes' /\ Flushes'
      BY <2>1, ThrFacts DEF Closes, Flushes
    <2> QED BY <2>2, <2>3, <2>4
  <1> QED BY <1>1, <1>2, <1>3, <1>4, <1>5, <1>6 DEF Next

LEMMA AvInitInv == Init => AvInv
  <1> SUFFICES ASSUME Init PROVE AvInv
    OBVIOUS
  <1>1. \A t \in Thr : ~Flushing(t) /\ ~Closing(t) /\ Clean(t)
    BY NoMsg, NoBlock DEF Init, Flushing, Closing, Clean
  <1>2. AvType
    <2>1. <<>> \in Seq(Msgs) /\ "PAUSE" \in Msgs /\ Len(<<>>) = 0 /\ 0 <= MsgSlots /\ \A t \in Thr : 0 <= Slots(t)
      BY SlotFacts DEF Msgs
    <2>2. /\ msgs \in [Thr -> Seq(Msgs)] /\ q \in [Thr -> Seq(Blocks)]
          /\ \A t \in Thr : /\ msgs[t] \in Seq(Msgs) /\ Len(msgs[t]) <= MsgSlots
                            /\ q[t] \in Seq(Blocks) /\ Len(q[t]) <= Slots(t)
      BY <2>1, NoBlock DEF Init
    <2>3. held \in [Thr -> Blocks] /\ dying \in [Thr -> 0 .. MaxDying]
      BY SlotFacts DEF Init, Zero, Blocks
    <2>4. /\ res \in [Thr -> BOOLEAN] /\ thread \in [Thr -> BOOLEAN] /\ paused \in [Thr -> BOOLEAN]
          /\ pc \in [Thr -> {"none", "recv", "flush", "read", "work"}]
      BY DEF Init
    <2>5. togo \in Seq(Thr) /\ msg \in Msgs /\ round \in 0 .. 2
      BY <2>1, TogoFacts DEF Init
    <2> QED BY <2>2, <2>3, <2>4, <2>5 DEF Init, AvType, TypeOK
  <1>3. Calling /\ Threads /\ Resets
    BY ThrFacts, TogoFacts DEF Init, Calling, Threads, Resets
  <1>4. Closes /\ Flushes
    BY <1>1, ThrFacts, NoMsg DEF Init, Closes, Flushes
  <1> QED BY <1>2, <1>3, <1>4 DEF AvInv

-----------------------------------------------------------------------------
(* The types alone: they survive whatever a reset has freed in use *)

TypeInv == AvType /\ (at \in {"send", "query", "dummy"} => togo # <<>>)

LEMMA TypeThreadStep ==
    ASSUME TypeInv, NEW t \in Thr, ThreadStep(t)
    PROVE  TypeInv'
  <1> USE DEF TypeInv, AvType, TypeOK, thrVars, apiVars
  <1>0. /\ msgs[t] \in Seq(Msgs) /\ Len(msgs[t]) <= MsgSlots
        /\ q[t] \in Seq(Blocks) /\ Len(q[t]) <= Slots(t)
    OBVIOUS
  <1>1. ASSUME RecvMsg(t) PROVE TypeInv'
    <2>1. msgs[t] # <<>> /\ msgs' = [msgs EXCEPT ![t] = Tail(msgs[t])]
          /\ UNCHANGED <<res, held, left, opened, q, bits, apiVars, feed>>
      BY <1>1 DEF RecvMsg
    <2>2. Tail(msgs[t]) \in Seq(Msgs) /\ Len(Tail(msgs[t])) <= MsgSlots
      BY <1>0, <2>1, SlotFacts
    <2>3. /\ thread' \in [Thr -> BOOLEAN] /\ dying' \in [Thr -> 0 .. MaxDying]
          /\ pc' \in [Thr -> {"none", "recv", "flush", "read", "work"}] /\ paused' \in [Thr -> BOOLEAN]
      <3>1. dying[t] \in 0 .. MaxDying /\ (dying[t] < MaxDying => dying[t] + 1 \in 0 .. MaxDying)
        BY SlotFacts
      <3>2. dying' = dying \/ (dying[t] < MaxDying /\ dying' = [dying EXCEPT ![t] = dying[t] + 1])
        BY <1>1 DEF RecvMsg, Exit
      <3>3. dying' \in [Thr -> 0 .. MaxDying]
        BY <3>1, <3>2
      <3>4. thread' \in [Thr -> BOOLEAN] /\ paused' \in [Thr -> BOOLEAN]
        BY <1>1 DEF RecvMsg, Exit
      <3>5. pc' \in [Thr -> {"none", "recv", "flush", "read", "work"}]
        BY <1>1 DEF RecvMsg, Exit
      <3> QED BY <3>3, <3>4, <3>5
    <2>4. msgs' \in [Thr -> Seq(Msgs)] /\ \A s \in Thr : msgs'[s] \in Seq(Msgs) /\ Len(msgs'[s]) <= MsgSlots
      BY <2>1, <2>2
    <2> QED BY <2>1, <2>3, <2>4
  <1>2. ASSUME RecvNone(t) PROVE TypeInv'
    BY <1>2 DEF RecvNone
  <1>3. ASSUME HandleFlush(t) PROVE TypeInv'
    <2>1. /\ q' \in [Thr -> Seq(Blocks)]
          /\ \A s \in Thr : q'[s] \in Seq(Blocks) /\ Len(q'[s]) <= Slots(s)
      BY <1>3, NoBlock, QueueSet, SlotFacts DEF HandleFlush
    <2>2. Flushed(t) \in Bits
      BY BitFacts
    <2> QED BY <1>3, <2>1, <2>2 DEF HandleFlush
  <1>4. ASSUME ReadBlock(t) PROVE TypeInv'
    <2>1. Head(q[t]) \in Blocks
      BY <1>0, <1>4, BlockTaken DEF ReadBlock
    <2>2. held' \in [Thr -> Blocks] /\ left' \in Nat
      BY <1>4, <2>1, SlotAssumption DEF ReadBlock
    <2> QED BY <1>4, <2>2 DEF ReadBlock
  <1>5. ASSUME DoneBlock(t) PROVE TypeInv'
    <2> DEFINE b == IF q[t] = <<>> THEN q[t] ELSE Tail(q[t])
    <2>1. b \in Seq(Blocks) /\ Len(b) <= Slots(t)
      BY <1>0, BlockTaken, SlotFacts
    <2>2. q' = [q EXCEPT ![t] = b]
      BY <1>5 DEF DoneBlock, Unlock
    <2>3. /\ q' \in [Thr -> Seq(Blocks)]
          /\ \A s \in Thr : q'[s] \in Seq(Blocks) /\ Len(q'[s]) <= Slots(s)
      BY <2>1, <2>2, QueueSet
    <2>4. paused' \in [Thr -> BOOLEAN]
      BY <1>5 DEF DoneBlock
    <2> QED BY <1>5, <2>3, <2>4 DEF DoneBlock
  <1>6. ASSUME Die(t) PROVE TypeInv'
    <2>1. /\ q' \in [Thr -> Seq(Blocks)]
          /\ \A s \in Thr : q'[s] \in Seq(Blocks) /\ Len(q'[s]) <= Slots(s)
      <3>1. <<>> \in Seq(Blocks) /\ Len(<<>>) <= Slots(t) /\ q' = [q EXCEPT ![t] = <<>>]
        BY <1>6, NoBlock, SlotFacts DEF Die
      <3> QED BY <3>1, QueueSet
    <2>2. Closed(t) \in Bits /\ dying' \in [Thr -> 0 .. MaxDying]
      <3>1. dying[t] > 0 /\ dying[t] \in 0 .. MaxDying /\ dying' = [dying EXCEPT ![t] = dying[t] - 1]
        BY <1>6 DEF Die
      <3>2. dying[t] - 1 \in 0 .. MaxDying
        BY <3>1, SlotFacts
      <3> QED BY <3>1, <3>2, BitFacts
    <2> QED BY <1>6, <2>1, <2>2 DEF Die
  <1>7. ASSUME OpenRender PROVE TypeInv'
    BY <1>7, ThrFacts DEF OpenRender
  <1>8. ASSUME OutputFrame PROVE TypeInv'
    <2> DEFINE b == [kind |-> "data", old |-> held[adec].old]
    <2>1. b \in Blocks /\ q[a_render] \in Seq(Blocks) /\ Len(q[a_render]) \in Nat
      BY ThrFacts DEF Blocks
    <2>2. Append(q[a_render], b) \in Seq(Blocks) /\ Len(Append(q[a_render], b)) = Len(q[a_render]) + 1
      BY <2>1, BlockPut
    <2>3. /\ q' \in [Thr -> Seq(Blocks)]
          /\ \A s \in Thr : q'[s] \in Seq(Blocks) /\ Len(q'[s]) <= Slots(s)
      <3>1. CASE UNCHANGED q
        BY <3>1
      <3>2. CASE Len(q[a_render]) < RenSlots /\ q' = [q EXCEPT ![a_render] = Append(q[a_render], b)]
        <4>1. Len(Append(q[a_render], b)) <= Slots(a_render)
          BY <2>1, <2>2, <3>2, SlotFacts
        <4> HIDE DEF b
        <4> QED BY <2>2, <3>2, <4>1, QueueSet, ThrFacts
      <3> QED BY <1>8, <3>1, <3>2 DEF OutputFrame
    <2>4. left' \in Nat
      BY <1>8 DEF OutputFrame
    <2> QED BY <1>8, <2>3, <2>4 DEF OutputFrame
  <1> QED BY <1>1, <1>2, <1>3, <1>4, <1>5, <1>6, <1>7, <1>8 DEF ThreadStep

LEMMA TypeApiStart ==
    ASSUME TypeInv, ApiStart
    PROVE  TypeInv'
  <1> USE DEF TypeInv, AvType, TypeOK
  <1>1. /\ op' \in {"add", "pause", "resume", "flush", "reset"} /\ at' = "check" /\ msg' \in Msgs
        /\ togo' \in {<<adec>>, <<adec, a_render>>, <<a_render, adec>>}
        /\ waits' = {} /\ recvd' = {} /\ round' = 0
        /\ UNCHANGED <<res, thread, pc, dying, paused, left, opened, msgs, bits, feed>>
    BY DEF ApiStart, AddStream, Pause, Resume, Flush, Reset, Start, Msgs
  <1>2. UNCHANGED <<q, held>> \/ Flush
    BY DEF ApiStart, AddStream, Pause, Resume, Reset
  <1>3. ASSUME Flush PROVE /\ q' \in [Thr -> Seq(Blocks)] /\ held' \in [Thr -> Blocks]
                           /\ \A t \in Thr : q'[t] \in Seq(Blocks) /\ Len(q'[t]) <= Slots(t)
    <2>1. \A t \in Thr : LET w == [i \in 1 .. Len(q[t]) |-> [q[t][i] EXCEPT !.old = TRUE]]
                         IN  w \in Seq(Blocks) /\ Len(w) = Len(q[t])
      BY Aged
    <2>2. /\ q' = [t \in Thr |-> [i \in 1 .. Len(q[t]) |-> [q[t][i] EXCEPT !.old = TRUE]]]
          /\ held' = [t \in Thr |-> [held[t] EXCEPT !.old = (pc[t] = "work")]]
      BY <1>3 DEF Flush
    <2>3. \A t \in Thr : [held[t] EXCEPT !.old = (pc[t] = "work")] \in Blocks
      BY DEF Blocks
    <2> QED BY <2>1, <2>2, <2>3
  <1>4. /\ q' \in [Thr -> Seq(Blocks)] /\ held' \in [Thr -> Blocks]
        /\ \A t \in Thr : q'[t] \in Seq(Blocks) /\ Len(q'[t]) <= Slots(t)
    BY <1>2, <1>3
  <1>5. togo' \in Seq(Thr) /\ round' \in 0 .. 2
    <2>1. round' = 0 /\ 0 \in 0 .. 2
      BY <1>1
    <2>2. togo' \in Seq(Thr)
      BY <1>1, TogoFacts, Zenon
    <2> QED BY <2>1, <2>2
  <1> QED BY <1>1, <1>4, <1>5

LEMMA TypeApiStep ==
    ASSUME TypeInv, ApiStep
    PROVE  TypeInv'
  <1> USE DEF TypeInv, AvType, TypeOK, thrVars, apiVars
  <1>0. togo # <<>> => /\ Head(togo) \in Thr /\ Tail(togo) \in Seq(Thr)
                       /\ q[Head(togo)] \in Seq(Blocks) /\ msgs[Head(togo)] \in Seq(Msgs)
    OBVIOUS
  <1>1. ASSUME Check PROVE TypeInv'
    <2>1. UNCHANGED q \/ q' = [q EXCEPT ![a_render] = <<>>]
      BY <1>1 DEF Check
    <2>2. /\ q' \in [Thr -> Seq(Blocks)]
          /\ \A s \in Thr : q'[s] \in Seq(Blocks) /\ Len(q'[s]) <= Slots(s)
      <3>1. <<>> \in Seq(Blocks) /\ Len(<<>>) <= Slots(a_render)
        BY NoBlock, SlotFacts, ThrFacts
      <3>2. CASE UNCHANGED q
        BY <3>2
      <3>3. CASE q' = [q EXCEPT ![a_render] = <<>>]
        BY <3>1, <3>3, QueueSet, ThrFacts
      <3> QED BY <2>1, <3>2, <3>3
    <2> QED BY <1>0, <1>1, <2>2 DEF Check
  <1>2. ASSUME SendMsg PROVE TypeInv'
    <2> DEFINE t == Head(togo)
    <2>1. t \in Thr /\ Len(msgs[t]) < MsgSlots /\ msgs' = [msgs EXCEPT ![t] = Append(msgs[t], msg)]
          /\ at' = "query" /\ togo # <<>>
          /\ UNCHANGED <<thrVars, q, bits, op, togo, msg, recvd, round, feed>>
      BY <1>0, <1>2 DEF SendMsg
    <2>2. Append(msgs[t], msg) \in Seq(Msgs) /\ Len(Append(msgs[t], msg)) <= MsgSlots
      <3>1. msgs[t] \in Seq(Msgs) /\ msg \in Msgs /\ Len(msgs[t]) \in Nat
        BY <2>1
      <3>2. Append(msgs[t], msg) \in Seq(Msgs) /\ Len(Append(msgs[t], msg)) = Len(msgs[t]) + 1
        BY <3>1
      <3> QED BY <2>1, <3>1, <3>2, SlotFacts
    <2>3. /\ msgs' \in [Thr -> Seq(Msgs)]
          /\ \A s \in Thr : msgs'[s] \in Seq(Msgs) /\ Len(msgs'[s]) <= MsgSlots
      BY <2>1, <2>2
    <2>4. Flushed(t) \in Bits /\ Closed(t) \in Bits
      BY <2>1, BitFacts
    <2>5. waits' \subseteq Bits
      BY <1>2, <2>4 DEF SendMsg
    <2> QED BY <2>1, <2>3, <2>5
  <1>3. ASSUME Query PROVE TypeInv'
    BY <1>0, <1>3 DEF Query, Sent
  <1>4. ASSUME Dummy PROVE TypeInv'
    <2> DEFINE t == Head(togo)
    <2>1. t \in Thr /\ Len(q[t]) < Slots(t) /\ q' = [q EXCEPT ![t] = Append(q[t], Zero)] /\ Zero \in Blocks
          /\ Sent /\ UNCHANGED <<thrVars, msgs, bits, op, msg, waits, recvd, round, feed>>
      BY <1>0, <1>4 DEF Dummy, Zero, Blocks
    <2>2. Append(q[t], Zero) \in Seq(Blocks) /\ Len(Append(q[t], Zero)) <= Slots(t)
      BY <2>1, BlockPut, SlotFacts
    <2>3. /\ q' \in [Thr -> Seq(Blocks)]
          /\ \A s \in Thr : q'[s] \in Seq(Blocks) /\ Len(q'[s]) <= Slots(s)
      BY <2>1, <2>2, QueueSet
    <2> QED BY <1>0, <1>4, <2>1, <2>3 DEF Dummy, Sent
  <1>5. ASSUME FinishPause \/ FlushedDecoder \/ FinishFlush \/ FlushNoBits PROVE TypeInv'
    BY <1>5 DEF FinishPause, FlushedDecoder, FinishFlush, FlushNoBits
  <1>6. ASSUME FinishAdd PROVE TypeInv'
    BY <1>6, ThrFacts DEF FinishAdd
  <1>7. ASSUME NextRound PROVE TypeInv'
    <2>1. round' \in 0 .. 2
      BY <1>7 DEF NextRound
    <2> QED BY <1>7, <2>1, TogoFacts DEF NextRound
  <1>8. ASSUME FinishReset PROVE TypeInv'
    <2>1. /\ msgs' \in [Thr -> Seq(Msgs)] /\ q' \in [Thr -> Seq(Blocks)]
          /\ \A s \in Thr : /\ msgs'[s] \in Seq(Msgs) /\ Len(msgs'[s]) <= MsgSlots
                            /\ q'[s] \in Seq(Blocks) /\ Len(q'[s]) <= Slots(s)
      BY <1>8, SlotFacts, NoBlock DEF FinishReset
    <2> QED BY <1>8, <2>1 DEF FinishReset
  <1> QED BY <1>1, <1>2, <1>3, <1>4, <1>5, <1>6, <1>7, <1>8 DEF ApiStep

LEMMA TypeNext ==
    ASSUME TypeInv, [Next]_vars
    PROVE  TypeInv'
  <1>1. ASSUME NEW k \in Kinds, AddData(k) PROVE TypeInv'
    BY <1>1 DEF AddData, TypeInv, AvType, TypeOK, thrVars, apiVars
  <1>2. ASSUME PutData PROVE TypeInv'
    <2> USE DEF TypeInv, AvType, TypeOK, thrVars, apiVars
    <2> DEFINE b == [kind |-> feed, old |-> FALSE]
    <2>1. b \in Blocks /\ q[adec] \in Seq(Blocks) /\ Len(q[adec]) \in Nat
      BY <1>2, SlotAssumption, ThrFacts DEF Blocks, PutData
    <2>2. /\ Append(q[adec], b) \in Seq(Blocks)
          /\ Len(q[adec]) < DecSlots => Len(Append(q[adec], b)) <= Slots(adec)
      BY <2>1, BlockPut, SlotFacts
    <2>3. Len(q[adec]) < DecSlots /\ q' = [q EXCEPT ![adec] = Append(q[adec], b)]
      BY <1>2 DEF PutData
    <2> HIDE DEF b
    <2>4. /\ q' \in [Thr -> Seq(Blocks)]
          /\ \A s \in Thr : q'[s] \in Seq(Blocks) /\ Len(q'[s]) <= Slots(s)
      BY <2>2, <2>3, QueueSet, ThrFacts
    <2> QED BY <1>2, <2>4 DEF PutData
  <1>3. ASSUME UNCHANGED vars PROVE TypeInv'
    BY <1>3 DEF vars, TypeInv, AvType, TypeOK, thrVars, apiVars
  <1> QED BY <1>1, <1>2, <1>3, TypeApiStart, TypeApiStep, TypeThreadStep DEF Next

-----------------------------------------------------------------------------
(* The theorems *)

\* Whatever the application calls, the queues of the threads
\* (av_render_create_thread_res) never hold more than they were made for, and no
\* count of the player leaves its range.
THEOREM TypeCorrect == Spec => []TypeOK
  <1>1. Init => TypeInv
    BY AvInitInv DEF TypeInv, AvInv, Init
  <1>2. TypeInv /\ [Next]_vars => TypeInv'
    BY TypeNext
  <1>3. TypeInv => TypeOK
    BY DEF TypeInv, AvType
  <1> QED BY <1>1, <1>2, <1>3, PTL DEF Spec

\* Until a reset has seen its render thread made again, messages and bits agree.
LEMMA AvInvUnlessRemade == RemadeSpec => [](~remade => AvInv)
  <1>1. RemadeInit => (~remade => AvInv)
    BY AvInitInv DEF RemadeInit
  <1>2. (~remade => AvInv) /\ [Next /\ Record]_<<vars, remade>> => (~remade => AvInv)'
    <2> SUFFICES ASSUME ~remade => AvInv, [Next /\ Record]_<<vars, remade>>, ~remade' PROVE AvInv'
      OBVIOUS
    <2>1. CASE Next /\ Record
      <3>1. ~remade /\ ~Remake
        BY <2>1, Zenon DEF Record
      <3> QED BY <2>1, <3>1, AvNextInv
    <2>2. CASE UNCHANGED <<vars, remade>>
      <3>1. UNCHANGED vars /\ ~remade /\ UNCHANGED thread
        BY <2>2 DEF vars, thrVars
      <3> QED BY <3>1, AvNextInv DEF Remake
    <2> QED BY <2>1, <2>2
  <1> QED BY <1>1, <1>2, PTL DEF RemadeSpec

\* av_render_reset frees the resources of a thread only when no thread uses them,
\* whenever the decoder makes the render thread and however late the threads end:
\* only a render thread made again behind the reset's back can be left.
THEOREM ResetFreesUnused == RemadeSpec => []FreedUnlessRemade
  <1>1. (~remade => AvInv) => FreedUnlessRemade
    BY DEF AvInv, Threads, FreedUnused, FreedUnlessRemade
  <1> QED BY <1>1, AvInvUnlessRemade, PTL

\* When av_render_flush returns, nothing that was in the pipeline as it began is
\* left to a running thread: neither in a queue nor in the block it works on.
THEOREM FlushLeavesNothing == RemadeSpec => []FlushUnlessRemade
  <1>1. (~remade => AvInv) => FlushUnlessRemade
    BY ThrFacts DEF AvInv, Flushes, Clean, Fresh, FlushComplete, FlushUnlessRemade
  <1> QED BY <1>1, AvInvUnlessRemade, PTL

\* An application that adds no stream over a stream never meets that render thread:
\* av_render_reset then frees nothing in use, whatever else is called.
THEOREM FirstStreamsFreeUnused ==
    ASSUME "again" \notin Calls
    PROVE  RemadeSpec => [](~remade /\ FreedUnused)
  <1>1. RemadeInit => ~remade /\ AvInv
    BY AvInitInv DEF RemadeInit
  <1>2. ~remade /\ AvInv /\ [Next /\ Record]_<<vars, remade>> => ~remade' /\ AvInv'
    <2> SUFFICES ASSUME ~remade, AvInv, [Next /\ Record]_<<vars, remade>> PROVE ~remade' /\ AvInv'
      OBVIOUS
    <2>1. ASSUME Next, Remake PROVE FALSE
      <3>1. OpenRender
        <4>1. ASSUME NEW t \in Thr, ThreadStep(t) PROVE OpenRender
          BY <2>1, <4>1, ThrFacts DEF ThreadStep, Remake, RecvMsg, Exit, RecvNone, HandleFlush, ReadBlock,
             DoneBlock, Die, OutputFrame, AvInv, AvType, TypeOK
        <4>2. ASSUME ApiStart \/ PutData \/ \E k \in Kinds : AddData(k) PROVE thread' = thread
          BY <4>2 DEF ApiStart, AddStream, Pause, Resume, Flush, Reset, Start, PutData, AddData, thrVars
        <4>3. ASSUME ApiStep PROVE ~thread'[a_render] \/ thread'[a_render] = thread[a_render]
          BY <4>3, ThrFacts DEF ApiStep, Check, SendMsg, Query, Dummy, FinishPause, FlushedDecoder,
             FinishFlush, FlushNoBits, FinishAdd, NextRound, FinishReset, thrVars, AvInv, AvType, TypeOK
        <4> QED BY <2>1, <4>1, <4>2, <4>3 DEF Next, Remake
      <3>2. op = "reset" /\ Closed(a_render) \in recvd \cup waits /\ ~opened
        BY <2>1, <3>1 DEF Remake, OpenRender
      <3> QED BY <3>2 DEF AvInv, Resets
    <2>2. CASE Next /\ Record
      BY <2>1, <2>2, AvNextInv DEF Record
    <2>3. CASE UNCHANGED <<vars, remade>>
      <3>1. UNCHANGED vars /\ UNCHANGED remade /\ UNCHANGED thread
        BY <2>3 DEF vars, thrVars
      <3> QED BY <3>1, AvNextInv DEF Remake
    <2> QED BY <2>2, <2>3
  <1>3. AvInv => FreedUnused
    BY DEF AvInv, Threads, FreedUnused
  <1> QED BY <1>1, <1>2, <1>3, PTL DEF RemadeSpec
=============================================================================
