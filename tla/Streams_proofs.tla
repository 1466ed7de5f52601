--------------------------- MODULE Streams_proofs ---------------------------
(***************************************************************************)
(* What is proved of the two clients of esp-ml307 that parse a stream, for *)
(* messages and bodies of any length: the WebSocket and the HTTP client.   *)
(* Both invariants say where in the stream the parser is: what its buffer  *)
(* holds and what comes is the rest of it, and what it handed on is what   *)
(* stands before.                                                          *)
(***************************************************************************)
EXTENDS MCModem, Integers, Sequences, FiniteSets, FiniteSetTheorems, SequenceTheorems,
        WellFoundedInduction, TLAPS

-----------------------------------------------------------------------------
(* The WebSocket client: web_socket.cc *)

\* The least member of a set of numbers, and what follows from it: induction, with the
\* set of the numbers for which a formula holds in place of the formula.
LEMMA LeastNat ==
    ASSUME NEW T, T \subseteq Nat, T # {}
    PROVE  \E x \in T : \A y \in T : ~(y < x)
  <1>1. IsWellFoundedOn(OpToRel(<, Nat), Nat)
    BY NatLessThanWellFounded
  <1>2. PICK x \in T : \A y \in T : ~(<<y, x>> \in OpToRel(<, Nat))
    BY <1>1, WFMin
  <1>3. \A y \in T : ~(y < x)
    BY <1>2 DEF OpToRel
  <1> QED BY <1>3

LEMMA AllNat ==
    ASSUME NEW S, 0 \in S, \A n \in Nat : n \in S => n + 1 \in S
    PROVE  Nat \subseteq S
  <1>1. SUFFICES ASSUME Nat \ S # {} PROVE FALSE
    OBVIOUS
  <1>2. PICK x \in Nat \ S : \A y \in Nat \ S : ~(y < x)
    BY <1>1, LeastNat
  <1>3. x # 0 /\ x - 1 \in Nat /\ x - 1 < x
    BY <1>2
  <1>4. x - 1 \in S
    BY <1>2, <1>3
  <1>5. x - 1 + 1 \in S
    BY <1>3, <1>4
  <1> QED BY <1>2, <1>5

WsFlags == {TRUE, FALSE}
WsItems == [is : {"101", "refused", "head", "byte"}, op : {"", "text", "continue", "ping", "close"},
            fin : WsFlags, len : Nat, v : Nat]
WsParsers == [buf : Seq(WsItems), frag : WsFlags, msg : Seq(Nat), done : WsFlags,
              bits : SUBSET {"SUCCESS", "FAILED"}, up : WsFlags, data : Seq(Seq(Nat)),
              told : Seq({"connected", "disconnected"})]

\* The frame whose head is item i of s takes an application that has got n messages, and
\* is in the middle of the next one if f, to m and e.
Carries(s, i, n, f, m, e) ==
    /\ s[i].is = "head"
    /\ \/ s[i].op \in {"ping", "close"} /\ s[i].len = 0 /\ m = n /\ e = f
       \/ /\ s[i].op = "text" /\ s[i].fin = TRUE /\ f = FALSE
          /\ s[i].len = 2 /\ s[i + 1].v = n + 1 /\ s[i + 2].v = n + 1 /\ m = n + 1 /\ e = FALSE
       \/ /\ s[i].op = "text" /\ s[i].fin = FALSE /\ f = FALSE
          /\ s[i].len = 1 /\ s[i + 1].v = n + 1 /\ m = n /\ e = TRUE
       \/ /\ s[i].op = "continue" /\ s[i].fin = FALSE /\ f = TRUE
          /\ s[i].len = 0 /\ m = n /\ e = TRUE
       \/ /\ s[i].op = "continue" /\ s[i].fin = TRUE /\ f = TRUE
          /\ s[i].len = 1 /\ s[i + 1].v = n + 1 /\ m = n + 1 /\ e = FALSE

\* s is frames end to end, the positions ends before, between and behind them; at each of
\* them d messages are complete, and the next has begun if g.
FramesOf(s, ends, d, g) ==
    /\ ends \subseteq 1 .. Len(s) + 1 /\ 1 \in ends /\ Len(s) + 1 \in ends
    /\ d \in [Nat -> Nat] /\ g \in [Nat -> WsFlags]
    /\ \A i \in ends : i # Len(s) + 1 =>
          /\ i + 1 + s[i].len \in ends
          /\ Carries(s, i, d[i], g[i], d[i + 1 + s[i].len], g[i + 1 + s[i].len])
    /\ \A i \in 1 .. Len(s) : s[i].is \in {"head", "byte"}

Stream(s, n, f, m, e) ==
    \E ends, d, g : /\ FramesOf(s, ends, d, g) /\ d[1] = n /\ g[1] = f
                    /\ d[Len(s) + 1] = m /\ g[Len(s) + 1] = e

LEMMA WsItemFields ==
    ASSUME NEW x \in WsItems
    PROVE  /\ x.is \in {"101", "refused", "head", "byte"} /\ x.len \in Nat /\ x.v \in Nat
           /\ x.op \in {"", "text", "continue", "ping", "close"} /\ x.fin \in WsFlags
  BY DEF WsItems

LEMMA CutItems ==
    ASSUME NEW S, NEW s \in Seq(S), NEW l \in 0 .. Len(s)
    PROVE  /\ Ws!Cut(s, l) \in Seq(S) /\ Len(Ws!Cut(s, l)) = Len(s) - l
           /\ \A i \in 1 .. Len(s) - l : Ws!Cut(s, l)[i] = s[i + l]
  <1>1. l \in Nat /\ Len(s) \in Nat /\ l <= Len(s) /\ \A i \in l + 1 .. Len(s) : s[i] \in S
    OBVIOUS
  <1>2. /\ Ws!Cut(s, l) \in Seq(S)
        /\ Len(Ws!Cut(s, l)) = IF l + 1 <= Len(s) THEN Len(s) - (l + 1) + 1 ELSE 0
        /\ \A i \in 1 .. Len(s) - (l + 1) + 1 : Ws!Cut(s, l)[i] = s[(l + 1) + i - 1]
    BY <1>1, SubSeqProperties DEF Ws!Cut
  <1>3. \A i \in 1 .. Len(s) - l : i \in 1 .. Len(s) - (l + 1) + 1 /\ (l + 1) + i - 1 = i + l
    BY <1>1
  <1> QED BY <1>1, <1>2, <1>3

LEMMA CutJoined ==
    ASSUME NEW S, NEW s \in Seq(S), NEW t \in Seq(S), NEW l \in 0 .. Len(s)
    PROVE  Ws!Cut(s \o t, l) = Ws!Cut(s, l) \o t
  <1> DEFINE u == s \o t
  <1>1. /\ u \in Seq(S) /\ Len(u) = Len(s) + Len(t)
        /\ \A i \in 1 .. Len(s) + Len(t) : u[i] = IF i <= Len(s) THEN s[i] ELSE t[i - Len(s)]
    BY ConcatProperties
  <1>2. Len(s) \in Nat /\ Len(t) \in Nat /\ l \in Nat /\ l <= Len(s) /\ l \in 0 .. Len(u)
    BY <1>1
  <1> HIDE DEF u
  <1>3. /\ Ws!Cut(u, l) \in Seq(S) /\ Len(Ws!Cut(u, l)) = Len(u) - l
        /\ \A i \in 1 .. Len(u) - l : Ws!Cut(u, l)[i] = u[i + l]
    BY <1>1, <1>2, CutItems
  <1>4. /\ Ws!Cut(s, l) \in Seq(S) /\ Len(Ws!Cut(s, l)) = Len(s) - l
        /\ \A i \in 1 .. Len(s) - l : Ws!Cut(s, l)[i] = s[i + l]
    BY CutItems
  <1> DEFINE w == Ws!Cut(s, l)
  <1>5. /\ w \o t \in Seq(S) /\ Len(w \o t) = Len(w) + Len(t)
        /\ \A i \in 1 .. Len(w) + Len(t) : (w \o t)[i] = IF i <= Len(w) THEN w[i] ELSE t[i - Len(w)]
    BY <1>4, ConcatProperties
  <1> HIDE DEF w
  <1>6. w \in Seq(S) /\ Len(w) = Len(s) - l /\ \A i \in 1 .. Len(s) - l : w[i] = s[i + l]
    BY <1>4 DEF w
  <1>6a. PICK a \in Nat, b \in Nat, c \in Nat : Len(s) = a /\ Len(t) = b /\ Len(w) = c /\ a = c + l
    BY <1>2, <1>6
  <1>6b. \A i \in 1 .. c + b :
            /\ i <= c => i \in 1 .. c /\ i + l \in 1 .. (c + l) + b /\ i + l <= c + l
            /\ ~(i <= c) => i + l \in 1 .. (c + l) + b /\ ~(i + l <= c + l) /\ (i + l) - (c + l) = i - c
    BY <1>2
  <1>6c. Len(u) - l = c + b /\ Len(u) = (c + l) + b /\ a - l = c
    BY <1>1, <1>2, <1>6a
  <1>7. ASSUME NEW i \in 1 .. Len(u) - l PROVE Ws!Cut(u, l)[i] = (w \o t)[i]
    <2>0. i \in 1 .. c + b
      BY <1>6c
    <2>1. Ws!Cut(u, l)[i] = u[i + l]
      BY <1>3
    <2>2. (w \o t)[i] = IF i <= c THEN w[i] ELSE t[i - c]
      BY <1>5, <1>6a, <2>0 DEF w
    <2>3. CASE i <= c
      <3>1. u[i + l] = s[i + l]
        BY <1>1, <1>6a, <1>6b, <2>0, <2>3
      <3>2. w[i] = s[i + l]
        BY <1>6, <1>6a, <1>6b, <1>6c, <2>0, <2>3
      <3> QED BY <2>1, <2>2, <2>3, <3>1, <3>2
    <2>4. CASE ~(i <= c)
      <3>1. u[i + l] = t[i - c]
        BY <1>1, <1>6a, <1>6b, <2>0, <2>4
      <3> QED BY <2>1, <2>2, <2>4, <3>1
    <2> QED BY <2>3, <2>4
  <1>8. Len(Ws!Cut(u, l)) = Len(w \o t)
    <2>1. Len(w \o t) = c + b
      BY <1>4, <1>5, <1>6a DEF w
    <2>2. Len(Ws!Cut(u, l)) = Len(u) - l
      BY <1>3
    <2> QED BY <1>6c, <2>1, <2>2
  <1>9. Ws!Cut(u, l) = w \o t
    BY <1>3, <1>5, <1>7, <1>8, SeqEqual
  <1> QED BY <1>9 DEF u, w

\* A frame means the same wherever it stands.
LEMMA CarriesSame ==
    ASSUME NEW s, NEW t, NEW i \in Nat, NEW k \in Nat, s[i] = t[k], s[i].len \in Nat,
           \A j \in 1 .. s[i].len : s[i + j] = t[k + j],
           NEW n, NEW f, NEW m, NEW e, Carries(s, i, n, f, m, e)
    PROVE  Carries(t, k, n, f, m, e)
  <1>1. s[i].len \in 1 .. 2 => s[i + 1] = t[k + 1]
    <2>1. s[i].len \in 1 .. 2 => 1 \in 1 .. s[i].len
      OBVIOUS
    <2> QED BY <2>1
  <1>2. s[i].len = 2 => s[i + 2] = t[k + 2]
    OBVIOUS
  <1> QED BY <1>1, <1>2 DEF Carries

\* What is taken off at the front is a whole frame, and frames are left.
LEMMA FrameTaken ==
    ASSUME NEW s \in Seq(WsItems), s # <<>>, NEW n, NEW f, NEW m, NEW e, Stream(s, n, f, m, e)
    PROVE  /\ n \in Nat /\ f \in WsFlags
           /\ 1 + s[1].len \in 1 .. Len(s)
           /\ \E k \in Nat, c \in WsFlags : /\ Carries(s, 1, n, f, k, c)
                                           /\ Stream(Ws!Cut(s, 1 + s[1].len), k, c, m, e)
  <1>1. PICK ends, d, g : /\ FramesOf(s, ends, d, g) /\ d[1] = n /\ g[1] = f
                          /\ d[Len(s) + 1] = m /\ g[Len(s) + 1] = e
    BY DEF Stream
  <1>2. Len(s) \in Nat \ {0} /\ 1 \in 1 .. Len(s) /\ s[1] \in WsItems
    BY EmptySeq
  <1>3. s[1].len \in Nat
    BY <1>2, WsItemFields
  <1>2a. PICK size \in Nat \ {0} : size = Len(s)
    BY <1>2
  <1>3a. PICK l \in Nat : l = 1 + s[1].len
    BY <1>3
  <1>4a. 1 # size + 1 /\ l + 1 \in Nat /\ 1 + l = l + 1
    OBVIOUS
  <1>4b. \A k \in Nat : 1 + 1 + k = (1 + k) + 1
    OBVIOUS
  <1>4. 1 \in ends /\ 1 # Len(s) + 1 /\ 1 + 1 + s[1].len = l + 1
    BY <1>1, <1>3, <1>2a, <1>3a, <1>4a, <1>4b DEF FramesOf
  <1>5. /\ l + 1 \in ends /\ Carries(s, 1, d[1], g[1], d[l + 1], g[l + 1])
        /\ l + 1 \in 1 .. size + 1 /\ d \in [Nat -> Nat] /\ g \in [Nat -> WsFlags]
    BY <1>1, <1>2a, <1>4 DEF FramesOf
  <1>6a. l >= 1
    BY <1>3, <1>3a
  <1>6b. l \in 1 .. size /\ l \in 0 .. size
    BY <1>5, <1>6a
  <1>6. l \in 1 .. Len(s) /\ l \in 0 .. Len(s)
    BY <1>6b, <1>2a
  <1>7. PICK ends2 : ends2 = {i \in 1 .. size - l + 1 : i + l \in ends}
    OBVIOUS
  <1>8. PICK d2 : d2 = [i \in Nat |-> d[i + l]]
    OBVIOUS
  <1>9. PICK g2 : g2 = [i \in Nat |-> g[i + l]]
    OBVIOUS
  <1>10. PICK t : t = Ws!Cut(s, l)
    OBVIOUS
  <1>11. t \in Seq(WsItems) /\ Len(t) = size - l /\ \A i \in 1 .. size - l : t[i] = s[i + l]
    BY <1>6, <1>2a, <1>10, CutItems
  <1>12. d2 \in [Nat -> Nat] /\ g2 \in [Nat -> WsFlags] /\ \A i \in Nat : d2[i] = d[i + l] /\ g2[i] = g[i + l]
    <2>1. \A i \in Nat : i + l \in Nat
      OBVIOUS
    <2> QED BY <1>5, <1>8, <1>9, <2>1
  <1>13. ends2 \subseteq 1 .. Len(t) + 1 /\ 1 \in ends2 /\ Len(t) + 1 \in ends2
    <2>0. size + 1 \in ends
      BY <1>1, <1>2a DEF FramesOf
    <2>1. (size - l + 1) + l = size + 1 /\ 1 + l = l + 1
      OBVIOUS
    <2>2. 1 \in 1 .. size - l + 1 /\ size - l + 1 \in 1 .. size - l + 1
      BY <1>6b
    <2> QED BY <1>5, <1>7, <1>11, <2>0, <2>1, <2>2
  <1>14. ASSUME NEW i \in ends2, i # Len(t) + 1
         PROVE  /\ i + 1 + t[i].len \in ends2
                /\ Carries(t, i, d2[i], g2[i], d2[i + 1 + t[i].len], g2[i + 1 + t[i].len])
    <2>0. i \in 1 .. size - l + 1 /\ i + l \in ends /\ i # size - l + 1
      BY <1>7, <1>11, <1>14
    <2>1. i \in 1 .. size - l /\ i + l # size + 1 /\ i \in Nat /\ i + l \in 1 .. size /\ i + l \in Nat
      BY <1>6b, <2>0
    <2>2. t[i] = s[i + l] /\ t[i].len \in Nat
      <3>1. s[i + l] \in WsItems
        BY <1>2a, <2>1
      <3> QED BY <1>11, <2>1, <3>1, WsItemFields
    <2> DEFINE k == s[i + l].len
    <2>2a. k \in Nat /\ t[i].len = k
      BY <2>2
    <2>3. /\ (i + l) + 1 + s[i + l].len \in ends
          /\ Carries(s, i + l, d[i + l], g[i + l],
                     d[(i + l) + 1 + s[i + l].len], g[(i + l) + 1 + s[i + l].len])
      BY <1>1, <1>2a, <2>0, <2>1 DEF FramesOf
    <2>3a. (i + l) + 1 + k \in 1 .. size + 1
      BY <1>1, <1>2a, <2>3 DEF FramesOf
    <2> HIDE DEF k
    <2>4. /\ (i + l) + 1 + k = (i + 1 + k) + l /\ i + 1 + k \in Nat
          /\ i + 1 + k \in 1 .. size - l + 1
      BY <2>1, <2>2a, <2>3a, <1>6b
    <2>6. \A j \in 1 .. k : s[(i + l) + j] = t[i + j]
      <3> SUFFICES ASSUME NEW j \in 1 .. k PROVE s[(i + l) + j] = t[i + j]
        OBVIOUS
      <3>1. i + j \in 1 .. size - l /\ (i + j) + l = (i + l) + j
        BY <2>1, <2>2a, <2>4
      <3> QED BY <1>11, <3>1
    <2>3b. Carries(s, i + l, d[i + l], g[i + l], d[(i + l) + 1 + k], g[(i + l) + 1 + k])
      BY <2>3 DEF k
    <2>7. Carries(t, i, d[i + l], g[i + l], d[(i + l) + 1 + k], g[(i + l) + 1 + k])
      <3>1. \A j \in 1 .. s[i + l].len : s[(i + l) + j] = t[i + j]
        BY <2>6 DEF k
      <3>2. s[i + l].len \in Nat
        BY <2>2a DEF k
      <3>3. i + l \in Nat /\ s[i + l] = t[i] /\ i \in Nat
        BY <2>1, <2>2
      <3>4. ASSUME NEW a, NEW b, NEW x, NEW y, Carries(s, i + l, a, b, x, y)
            PROVE  Carries(t, i, a, b, x, y)
        BY <3>1, <3>2, <3>3, <3>4, CarriesSame
      <3> QED BY <2>3b, <3>4
    <2>8. (i + l) + 1 + k \in ends
      BY <2>3 DEF k
    <2>9. i + 1 + k \in ends2 /\ d2[i + 1 + k] = d[(i + l) + 1 + k] /\ g2[i + 1 + k] = g[(i + l) + 1 + k]
      <3>1. (i + 1 + k) + l \in ends
        BY <2>4, <2>8
      <3>2. i + 1 + k \in ends2
        BY <1>7, <2>4, <3>1
      <3>3. i + 1 + k \in Nat /\ (i + 1 + k) + l = (i + l) + 1 + k
        BY <2>4
      <3>4. d2[i + 1 + k] = d[(i + 1 + k) + l] /\ g2[i + 1 + k] = g[(i + 1 + k) + l]
        BY <1>12, <3>3
      <3> QED BY <3>2, <3>3, <3>4
    <2> QED BY <1>12, <2>1, <2>2a, <2>7, <2>9
  <1>15. \A i \in 1 .. Len(t) : t[i].is \in {"head", "byte"}
    <2> SUFFICES ASSUME NEW i \in 1 .. Len(t) PROVE t[i].is \in {"head", "byte"}
      OBVIOUS
    <2>1. i + l \in 1 .. size /\ i \in 1 .. size - l
      BY <1>6b, <1>11
    <2> QED BY <1>1, <1>2a, <1>11, <2>1 DEF FramesOf
  <1>16. FramesOf(t, ends2, d2, g2)
    BY <1>12, <1>13, <1>14, <1>15 DEF FramesOf
  <1>17. d2[1] = d[l + 1] /\ g2[1] = g[l + 1] /\ d2[Len(t) + 1] = m /\ g2[Len(t) + 1] = e
    <2>0. (size - l) + 1 \in Nat /\ ((size - l) + 1) + l = size + 1
      BY <1>6b
    <2>1. Len(t) + 1 \in Nat /\ (Len(t) + 1) + l = Len(s) + 1
      <3>1. (Len(t) = size - l) => (Len(t) + 1 = (size - l) + 1)
        OBVIOUS
      <3>2. Len(t) = size - l
        BY <1>11
      <3> QED BY <1>2a, <2>0, <3>1, <3>2
    <2>2. d2[1] = d[l + 1] /\ g2[1] = g[l + 1]
      BY <1>4a, <1>12
    <2>3. PICK j \in Nat : j = Len(t) + 1
      BY <2>1
    <2>3a. d2[j] = d[Len(s) + 1] /\ g2[j] = g[Len(s) + 1]
      BY <1>12, <2>1, <2>3
    <2>4. d[Len(s) + 1] = m /\ g[Len(s) + 1] = e
      BY <1>1
    <2> QED BY <2>2, <2>3, <2>3a, <2>4
  <1>18. Stream(t, d[l + 1], g[l + 1], m, e)
    BY <1>16, <1>17 DEF Stream
  <1>19. d[l + 1] \in Nat /\ g[l + 1] \in WsFlags /\ n \in Nat /\ f \in WsFlags
    BY <1>1, <1>4a, <1>5
  <1>20. Carries(s, 1, n, f, d[l + 1], g[l + 1])
    BY <1>1, <1>5
  <1> QED BY <1>6, <1>10, <1>18, <1>19, <1>20, <1>3a

\* A frame that goes on from what is there may be put behind it.
LEMMA FrameSent ==
    ASSUME NEW s \in Seq(WsItems), NEW w \in Seq(WsItems), w # <<>>, Len(w) = 1 + w[1].len,
           \A i \in 1 .. Len(w) : w[i].is \in {"head", "byte"},
           NEW n, NEW f, NEW m, NEW e, NEW k \in Nat, NEW c \in WsFlags,
           Stream(s, n, f, m, e), Carries(w, 1, m, e, k, c)
    PROVE  Stream(s \o w, n, f, k, c)
  <1>1. PICK ends, d, g : /\ FramesOf(s, ends, d, g) /\ d[1] = n /\ g[1] = f
                          /\ d[Len(s) + 1] = m /\ g[Len(s) + 1] = e
    BY DEF Stream
  <1>2a. Len(s) \in Nat /\ Len(w) \in Nat \ {0} /\ 1 \in 1 .. Len(w) /\ w[1] \in WsItems
    BY EmptySeq
  <1>2b. w[1].len \in Nat
    BY <1>2a, WsItemFields
  <1>2c. PICK size \in Nat : size = Len(s)
    BY <1>2a
  <1>2d. PICK more \in Nat : more = w[1].len
    BY <1>2b
  <1>3. PICK u : u = s \o w
    OBVIOUS
  <1>4. /\ u \in Seq(WsItems) /\ Len(u) = size + (1 + more)
        /\ \A i \in 1 .. size : u[i] = s[i]
        /\ \A i \in 1 .. 1 + more : u[size + i] = w[i]
    <2>1. /\ u \in Seq(WsItems) /\ Len(u) = size + (1 + more)
          /\ \A i \in 1 .. size + (1 + more) : u[i] = IF i <= size THEN s[i] ELSE w[i - size]
      <3>1. Len(w) = 1 + more
        BY <1>2d
      <3>2. /\ u \in Seq(WsItems) /\ Len(u) = Len(s) + Len(w)
            /\ \A i \in 1 .. Len(s) + Len(w) : u[i] = IF i <= Len(s) THEN s[i] ELSE w[i - Len(s)]
        BY <1>3, ConcatProperties
      <3> QED BY <1>2c, <3>1, <3>2
    <2>2. \A i \in 1 .. size : i \in 1 .. size + (1 + more) /\ i <= size
      OBVIOUS
    <2>3. \A i \in 1 .. 1 + more :
             size + i \in 1 .. size + (1 + more) /\ ~(size + i <= size) /\ (size + i) - size = i
      OBVIOUS
    <2> QED BY <2>1, <2>2, <2>3
  <1>4a. PICK last \in Nat : last = size + (1 + more) + 1
    OBVIOUS
  <1>4b. PICK mid \in Nat : mid = size + 1
    OBVIOUS
  <1>5. last # mid /\ mid + 1 + more = last /\ mid < last /\ last # 1
    BY <1>4a, <1>4b
  <1>6. PICK d2 : d2 = [d EXCEPT ![last] = k]
    OBVIOUS
  <1>7. PICK g2 : g2 = [g EXCEPT ![last] = c]
    OBVIOUS
  <1>8. d \in [Nat -> Nat] /\ g \in [Nat -> WsFlags] /\ ends \subseteq 1 .. mid /\ 1 \in ends /\ mid \in ends
    BY <1>1, <1>2c, <1>4b DEF FramesOf
  <1>9. /\ d2 \in [Nat -> Nat] /\ g2 \in [Nat -> WsFlags] /\ d2[last] = k /\ g2[last] = c
        /\ \A i \in Nat : i # last => d2[i] = d[i] /\ g2[i] = g[i]
    BY <1>5, <1>6, <1>7, <1>8
  <1>10. ASSUME NEW i \in ends \cup {last}, i # last
         PROVE  /\ i + 1 + u[i].len \in ends \cup {last}
                /\ Carries(u, i, d2[i], g2[i], d2[i + 1 + u[i].len], g2[i + 1 + u[i].len])
    <2>1. CASE i = mid
      <3>0. 1 \in 1 .. 1 + more /\ i = size + 1 /\ i \in Nat
        BY <1>4b, <2>1
      <3>1. u[i] = w[1] /\ u[i].len = more
        BY <1>2d, <1>4, <3>0
      <3>2. \A j \in 1 .. more : w[1 + j] = u[i + j]
        <4> SUFFICES ASSUME NEW j \in 1 .. more PROVE w[1 + j] = u[i + j]
          OBVIOUS
        <4>1. 1 + j \in 1 .. 1 + more /\ size + (1 + j) = i + j
          BY <3>0
        <4> QED BY <1>4, <4>1
      <3>3. Carries(u, i, m, e, k, c)
        BY <1>2d, <3>0, <3>1, <3>2, CarriesSame
      <3>4. d2[i] = m /\ g2[i] = e
        BY <1>1, <1>2c, <1>5, <1>9, <3>0, <2>1
      <3>5. i + 1 + u[i].len = last
        BY <1>5, <2>1, <3>1
      <3> QED BY <1>9, <3>3, <3>4, <3>5
    <2>2. CASE i # mid
      <3>0. i \in ends /\ i \in 1 .. mid
        BY <1>8, <1>10
      <3>1. i \in 1 .. size /\ i \in Nat /\ i < last
        BY <1>4b, <1>5, <2>2, <3>0
      <3>2. u[i] = s[i] /\ s[i] \in WsItems /\ s[i].len \in Nat
        <4>1. s[i] \in WsItems
          BY <1>2c, <3>1
        <4> QED BY <1>4, <3>1, <4>1, WsItemFields
      <3>2a. PICK q \in Nat : q = s[i].len
        BY <3>2
      <3>3. i + 1 + q \in ends /\ Carries(s, i, d[i], g[i], d[i + 1 + q], g[i + 1 + q])
        BY <1>1, <1>2c, <1>4b, <2>2, <3>0, <3>2a DEF FramesOf
      <3>4. i + 1 + q \in 1 .. mid
        BY <1>8, <3>3
      <3>4a. i + 1 + q \in Nat /\ i + 1 + q # last
        BY <1>5, <3>1, <3>4
      <3>5. \A j \in 1 .. q : s[i + j] = u[i + j]
        <4> SUFFICES ASSUME NEW j \in 1 .. q PROVE s[i + j] = u[i + j]
          OBVIOUS
        <4>1. i + j \in 1 .. size
          BY <1>4b, <3>1, <3>4
        <4> QED BY <1>4, <4>1
      <3>6. Carries(u, i, d[i], g[i], d[i + 1 + q], g[i + 1 + q])
        <4>1. \A j \in 1 .. s[i].len : s[i + j] = u[i + j]
          BY <3>2a, <3>5
        <4>2. s[i] = u[i] /\ s[i].len \in Nat /\ i \in Nat
          BY <3>1, <3>2
        <4>3. ASSUME NEW a, NEW b, NEW x, NEW y, Carries(s, i, a, b, x, y)
              PROVE  Carries(u, i, a, b, x, y)
          BY <4>1, <4>2, <4>3, CarriesSame
        <4> QED BY <3>3, <4>3
      <3>7. d2[i] = d[i] /\ g2[i] = g[i] /\ d2[i + 1 + q] = d[i + 1 + q] /\ g2[i + 1 + q] = g[i + 1 + q]
        BY <1>9, <1>10, <3>1, <3>4a
      <3>8. u[i].len = q
        BY <3>2, <3>2a
      <3> QED BY <3>3, <3>6, <3>7, <3>8
    <2> QED BY <2>1, <2>2
  <1>11. \A i \in 1 .. Len(u) : u[i].is \in {"head", "byte"}
    <2> SUFFICES ASSUME NEW i \in 1 .. Len(u) PROVE u[i].is \in {"head", "byte"}
      OBVIOUS
    <2>0. i \in 1 .. size + (1 + more)
      BY <1>4
    <2>1. CASE i <= size
      <3>1. i \in 1 .. size
        BY <2>0, <2>1
      <3> QED BY <1>1, <1>2c, <1>4, <3>1 DEF FramesOf
    <2>2. CASE ~(i <= size)
      <3>1. i - size \in 1 .. 1 + more /\ size + (i - size) = i
        BY <2>0, <2>2
      <3>2. u[i] = w[i - size]
        BY <1>4, <3>1
      <3> QED BY <1>2d, <3>1, <3>2
    <2> QED BY <2>1, <2>2
  <1>12. /\ ends \cup {last} \subseteq 1 .. Len(u) + 1 /\ 1 \in ends \cup {last}
         /\ Len(u) + 1 \in ends \cup {last}
    <2>1. Len(u) + 1 = last
      BY <1>4, <1>4a
    <2>2. 1 .. mid \subseteq 1 .. last /\ last \in 1 .. last
      BY <1>4a, <1>4b
    <2> QED BY <1>8, <2>1, <2>2
  <1>12a. Len(u) + 1 = last
    BY <1>4, <1>4a
  <1>13. FramesOf(u, ends \cup {last}, d2, g2)
    BY <1>9, <1>10, <1>11, <1>12, <1>12a DEF FramesOf
  <1>14. d2[1] = n /\ g2[1] = f /\ d2[Len(u) + 1] = k /\ g2[Len(u) + 1] = c
    BY <1>1, <1>5, <1>9, <1>12a
  <1>15. Stream(u, n, f, k, c)
    BY <1>13, <1>14 DEF Stream
  <1> QED BY <1>3, <1>15

LEMMA NothingSent ==
    ASSUME NEW n \in Nat, NEW f \in WsFlags
    PROVE  Stream(<<>>, n, f, n, f)
  <1>1. /\ [i \in Nat |-> n] \in [Nat -> Nat] /\ [i \in Nat |-> f] \in [Nat -> WsFlags]
        /\ [i \in Nat |-> n][1] = n /\ [i \in Nat |-> f][1] = f /\ Len(<<>>) = 0 /\ 0 + 1 = 1
        /\ {1} \subseteq 1 .. 1
    OBVIOUS
  <1>2. FramesOf(<<>>, {1}, [i \in Nat |-> n], [i \in Nat |-> f])
    BY <1>1 DEF FramesOf
  <1> QED BY <1>1, <1>2 DEF Stream

\* What the parser p has made of the stream, of which coming is still on its way.
SoundParser(p, coming) ==
    /\ p \in WsParsers /\ p.done = TRUE
    /\ Stream(p.buf \o coming, Len(p.data), p.frag, messages_sent, fragment)
    /\ p.msg = IF p.frag = TRUE THEN <<Len(p.data) + 1>> ELSE <<>>
    /\ \A i \in 1 .. Len(p.data) : p.data[i] = <<i, i>>

LEMMA ParserFields ==
    ASSUME NEW p \in WsParsers
    PROVE  /\ p.buf \in Seq(WsItems) /\ p.frag \in WsFlags /\ p.msg \in Seq(Nat) /\ p.done \in WsFlags
           /\ p.bits \in SUBSET {"SUCCESS", "FAILED"} /\ p.up \in WsFlags /\ p.data \in Seq(Seq(Nat))
           /\ p.told \in Seq({"connected", "disconnected"})
  BY DEF WsParsers

\* A whole message is handed over.
LEMMA HandedWhole ==
    ASSUME NEW data \in Seq(Seq(Nat)), \A i \in 1 .. Len(data) : data[i] = <<i, i>>,
           NEW n \in Nat, n = Len(data), NEW msg, msg = <<n + 1, n + 1>>
    PROVE  /\ Append(data, msg) \in Seq(Seq(Nat)) /\ Len(Append(data, msg)) = n + 1
           /\ \A i \in 1 .. n + 1 : Append(data, msg)[i] = <<i, i>>
  <1>1. n + 1 \in Nat
    OBVIOUS
  <1>2. msg \in Seq(Nat)
    BY <1>1
  <1> QED BY <1>2, AppendProperties

LEMMA TwiceOne == ASSUME NEW a \in Nat PROVE <<a>> \o <<a>> = <<a, a>>
  <1>1. <<a>> \in Seq(Nat) /\ Len(<<a>>) = 1 /\ <<a>>[1] = a
    OBVIOUS
  <1>2. <<a, a>> \in Seq(Nat) /\ Len(<<a, a>>) = 2 /\ <<a, a>>[1] = a /\ <<a, a>>[2] = a
    OBVIOUS
  <1> DEFINE u == <<a>> \o <<a>>
  <1>3. /\ u \in Seq(Nat) /\ Len(u) = Len(<<a>>) + Len(<<a>>)
        /\ \A i \in 1 .. Len(<<a>>) + Len(<<a>>) :
              u[i] = IF i <= Len(<<a>>) THEN <<a>>[i] ELSE <<a>>[i - Len(<<a>>)]
    BY <1>1, ConcatProperties
  <1> HIDE DEF u
  <1>4. 1 \in 1 .. 1 + 1 /\ 2 \in 1 .. 1 + 1 /\ 2 - 1 = 1 /\ ~(2 <= 1) /\ 1 <= 1 /\ 1 + 1 = 2
    OBVIOUS
  <1>5. u[1] = a /\ u[2] = a /\ Len(u) = 2
    BY <1>1, <1>3, <1>4
  <1>6. \A i \in 1 .. 2 : u[i] = <<a, a>>[i]
    BY <1>2, <1>5
  <1>7. u = <<a, a>>
    BY <1>2, <1>3, <1>5, <1>6, SeqEqual
  <1> QED BY <1>7 DEF u

LEMMA FrameHandled ==
    ASSUME NEW coming \in Seq(WsItems), NEW p, SoundParser(p, coming), Ws!FrameWhole(p)
    PROVE  SoundParser(Ws!OneFrame(p), coming)
  <1> DEFINE h == p.buf[1]
             l == 1 + h.len
             rest == [p EXCEPT !.buf = Ws!Cut(@, 1 + h.len)]
             bytes == [i \in 1 .. h.len |-> p.buf[i + 1].v]
             q == Ws!OneFrame(p)
  <1>1. p \in WsParsers /\ p.done = TRUE
    BY DEF SoundParser
  <1>2. p.buf \in Seq(WsItems) /\ p.data \in Seq(Seq(Nat)) /\ p.frag \in WsFlags
    BY <1>1, ParserFields
  <1>3. p.buf # <<>> /\ Len(p.buf) >= l
    BY DEF Ws!FrameWhole
  <1>4. PICK s : s = p.buf \o coming
    OBVIOUS
  <1>5. /\ s \in Seq(WsItems) /\ Len(s) = Len(p.buf) + Len(coming)
        /\ \A i \in 1 .. Len(p.buf) : s[i] = p.buf[i]
    <2>1. /\ s \in Seq(WsItems) /\ Len(s) = Len(p.buf) + Len(coming)
          /\ \A i \in 1 .. Len(p.buf) + Len(coming) :
                s[i] = IF i <= Len(p.buf) THEN p.buf[i] ELSE coming[i - Len(p.buf)]
      BY <1>2, <1>4, ConcatProperties
    <2>2. Len(p.buf) \in Nat /\ Len(coming) \in Nat
      BY <1>2
    <2>3. \A i \in 1 .. Len(p.buf) : i \in 1 .. Len(p.buf) + Len(coming) /\ i <= Len(p.buf)
      BY <2>2
    <2> QED BY <2>1, <2>3
  <1>6. Len(p.buf) \in Nat \ {0} /\ Len(coming) \in Nat /\ 1 \in 1 .. Len(p.buf) /\ h \in WsItems
    BY <1>2, <1>3, EmptySeq
  <1>7. h.len \in Nat /\ s[1] = h /\ s # <<>>
    <2>1. h.len \in Nat
      BY <1>6, WsItemFields
    <2>2. s[1] = h
      BY <1>5, <1>6
    <2>3. Len(s) # 0
      BY <1>5, <1>6
    <2> QED BY <2>1, <2>2, <2>3
  <1>8. l \in 0 .. Len(p.buf) /\ l \in Nat
    BY <1>3, <1>6, <1>7
  <1>9. PICK n \in Nat : n = Len(p.data)
    BY <1>2
  <1>10. Stream(s, n, p.frag, messages_sent, fragment)
    BY <1>4, <1>9 DEF SoundParser
  <1>11. PICK k \in Nat, c \in WsFlags : /\ Carries(s, 1, n, p.frag, k, c)
                                        /\ Stream(Ws!Cut(s, l), k, c, messages_sent, fragment)
    BY <1>5, <1>7, <1>10, FrameTaken
  <1>12. Ws!Cut(p.buf, l) \in Seq(WsItems) /\ Ws!Cut(s, l) = Ws!Cut(p.buf, l) \o coming
    BY <1>2, <1>4, <1>8, CutItems, CutJoined
  <1>13. rest = [p EXCEPT !.buf = Ws!Cut(p.buf, l)]
    OBVIOUS
  <1>14. /\ rest \in WsParsers /\ rest.buf = Ws!Cut(p.buf, l) /\ rest.done = TRUE /\ rest.data = p.data
         /\ rest.frag = p.frag /\ rest.msg = p.msg
    BY <1>1, <1>12, <1>13 DEF WsParsers
  <1>15. /\ h.len = 0 => bytes = <<>>
         /\ h.len = 1 => bytes = <<s[2].v>>
         /\ h.len = 2 => bytes = <<s[2].v, s[3].v>>
    <2>1. ASSUME h.len = 1 PROVE bytes = <<s[2].v>>
      <3>1. 2 \in 1 .. Len(p.buf)
        BY <1>3, <1>6, <2>1
      <3>2. s[2] = p.buf[2]
        BY <1>5, <3>1
      <3>3. bytes = [i \in 1 .. 1 |-> p.buf[i + 1].v]
        BY <2>1
      <3>4. [i \in 1 .. 1 |-> p.buf[i + 1].v] = <<p.buf[2].v>>
        OBVIOUS
      <3> QED BY <3>2, <3>3, <3>4
    <2>2. ASSUME h.len = 2 PROVE bytes = <<s[2].v, s[3].v>>
      <3>1. 2 \in 1 .. Len(p.buf) /\ 3 \in 1 .. Len(p.buf)
        BY <1>3, <1>6, <2>2
      <3>2. s[2] = p.buf[2] /\ s[3] = p.buf[3]
        BY <1>5, <3>1
      <3>3. bytes = [i \in 1 .. 2 |-> p.buf[i + 1].v]
        BY <2>2
      <3>4. [i \in 1 .. 2 |-> p.buf[i + 1].v] = <<p.buf[2].v, p.buf[3].v>>
        OBVIOUS
      <3> QED BY <3>2, <3>3, <3>4
    <2>3. ASSUME h.len = 0 PROVE bytes = <<>>
      BY <2>3
    <2> QED BY <2>1, <2>2, <2>3
  <1>16. /\ h.op \in {"text", "continue"} => q = Ws!DataFrame(rest, h, bytes)
         /\ h.op = "close" => q = [rest EXCEPT !.up = FALSE, !.told = Append(@, "disconnected")]
         /\ h.op = "ping" => q = rest
    BY Zenon DEF Ws!OneFrame
  <1> HIDE DEF h, l, rest, bytes, q
  <1>17. ASSUME q \in WsParsers, q.buf = Ws!Cut(p.buf, l), q.done = TRUE, q.frag = c, Len(q.data) = k,
                q.msg = IF c = TRUE THEN <<k + 1>> ELSE <<>>,
                \A i \in 1 .. k : q.data[i] = <<i, i>>
         PROVE  SoundParser(q, coming)
    BY <1>11, <1>12, <1>17 DEF SoundParser
  <1>18. /\ h.op \in {"ping", "close"} /\ h.len = 0 /\ k = n /\ c = p.frag
         \/ /\ h.op = "continue" /\ h.fin = FALSE /\ p.frag = TRUE
            /\ bytes = <<>> /\ k = n /\ c = TRUE
         \/ /\ h.op = "text" /\ h.fin = TRUE /\ p.frag = FALSE
            /\ bytes = <<n + 1, n + 1>> /\ k = n + 1 /\ c = FALSE
         \/ /\ h.op = "text" /\ h.fin = FALSE /\ p.frag = FALSE /\ bytes = <<n + 1>> /\ k = n /\ c = TRUE
         \/ /\ h.op = "continue" /\ h.fin = TRUE /\ p.frag = TRUE
            /\ bytes = <<n + 1>> /\ k = n + 1 /\ c = FALSE
    BY <1>7, <1>11, <1>15 DEF Carries
  <1>19. \A i \in 1 .. n : p.data[i] = <<i, i>>
    BY <1>9 DEF SoundParser
  <1>20. p.msg = IF p.frag = TRUE THEN <<n + 1>> ELSE <<>>
    BY <1>9 DEF SoundParser
  <1>21. CASE h.op \in {"ping", "close"} /\ h.len = 0 /\ k = n /\ c = p.frag
    <2>1. /\ q \in WsParsers /\ q.buf = rest.buf /\ q.done = rest.done /\ q.frag = rest.frag
          /\ q.data = rest.data /\ q.msg = rest.msg
      <3>1. CASE h.op = "ping"
        BY <1>14, <1>16, <3>1
      <3>2. CASE h.op = "close"
        <4>1. Append(rest.told, "disconnected") \in Seq({"connected", "disconnected"})
          <5>1. rest.told \in Seq({"connected", "disconnected"})
            BY <1>14, ParserFields
          <5> QED BY <5>1
        <4>2. q = [rest EXCEPT !.up = FALSE, !.told = Append(rest.told, "disconnected")]
          BY <1>16, <3>2
        <4> QED BY <1>14, <4>1, <4>2 DEF WsParsers, WsFlags
      <3> QED BY <1>21, <3>1, <3>2
    <2>7. /\ q.buf = Ws!Cut(p.buf, l) /\ q.done = TRUE /\ q.frag = c /\ Len(q.data) = k
          /\ \A i \in 1 .. k : q.data[i] = <<i, i>>
      BY <1>9, <1>14, <1>19, <1>21, <2>1
    <2>8. q.msg = IF c = TRUE THEN <<k + 1>> ELSE <<>>
      BY <1>14, <1>20, <1>21, <2>1
    <2> QED BY <1>17, <2>1, <2>7, <2>8 DEF q
  <1>22. CASE /\ h.op = "text" /\ h.fin = TRUE /\ p.frag = FALSE
              /\ bytes = <<n + 1, n + 1>> /\ k = n + 1 /\ c = FALSE
    <2>1. q = [rest EXCEPT !.msg = <<>>, !.data = Append(rest.data, <<>> \o bytes), !.frag = FALSE]
      BY <1>14, <1>16, <1>22 DEF Ws!DataFrame
    <2>2. <<>> \o bytes = <<n + 1, n + 1>>
      BY <1>22
    <2>3. PICK data : data = Append(p.data, <<n + 1, n + 1>>)
      OBVIOUS
    <2>4. data \in Seq(Seq(Nat)) /\ Len(data) = n + 1 /\ \A i \in 1 .. n + 1 : data[i] = <<i, i>>
      BY <1>2, <1>9, <1>19, <2>3, HandedWhole
    <2>5. q = [rest EXCEPT !.msg = <<>>, !.data = data, !.frag = FALSE]
      BY <1>14, <2>1, <2>2, <2>3
    <2>6. /\ q \in WsParsers /\ q.buf = rest.buf /\ q.done = rest.done /\ q.frag = FALSE /\ q.data = data
          /\ q.msg = <<>>
      <3>1. <<>> \in Seq(Nat)
        OBVIOUS
      <3>2. rest \in WsParsers
        BY <1>14
      <3> QED BY <2>4, <2>5, <3>1, <3>2 DEF WsParsers, WsFlags
    <2>7. /\ q.buf = Ws!Cut(p.buf, l) /\ q.done = TRUE /\ q.frag = c /\ Len(q.data) = k
          /\ \A i \in 1 .. k : q.data[i] = <<i, i>>
      BY <1>14, <1>22, <2>4, <2>6
    <2>8. q.msg = IF c = TRUE THEN <<k + 1>> ELSE <<>>
      BY <1>22, <2>6
    <2> QED BY <1>17, <2>6, <2>7, <2>8 DEF q
  <1>23. CASE /\ h.op = "text" /\ h.fin = FALSE /\ p.frag = FALSE /\ bytes = <<n + 1>> /\ k = n /\ c = TRUE
    <2>1. q = [rest EXCEPT !.msg = <<>> \o bytes, !.frag = TRUE]
      BY <1>14, <1>16, <1>23 DEF Ws!DataFrame
    <2>2. <<>> \o bytes = <<n + 1>> /\ <<n + 1>> \in Seq(Nat)
      BY <1>23
    <2>3. q = [rest EXCEPT !.msg = <<n + 1>>, !.frag = TRUE]
      BY <2>1, <2>2
    <2>4. /\ q \in WsParsers /\ q.buf = rest.buf /\ q.done = rest.done /\ q.frag = TRUE /\ q.data = rest.data
          /\ q.msg = <<n + 1>>
      BY <1>14, <2>2, <2>3 DEF WsParsers, WsFlags
    <2>7. /\ q.buf = Ws!Cut(p.buf, l) /\ q.done = TRUE /\ q.frag = c /\ Len(q.data) = k
          /\ \A i \in 1 .. k : q.data[i] = <<i, i>>
      BY <1>9, <1>14, <1>19, <1>23, <2>4
    <2>8. q.msg = IF c = TRUE THEN <<k + 1>> ELSE <<>>
      BY <1>23, <2>4
    <2> QED BY <1>17, <2>4, <2>7, <2>8 DEF q
  <1>24. CASE /\ h.op = "continue" /\ h.fin = TRUE /\ p.frag = TRUE
              /\ bytes = <<n + 1>> /\ k = n + 1 /\ c = FALSE
    <2>1. q = [rest EXCEPT !.msg = <<>>, !.data = Append(rest.data, rest.msg \o bytes), !.frag = FALSE]
      BY <1>14, <1>16, <1>24 DEF Ws!DataFrame
    <2>2. rest.msg \o bytes = <<n + 1, n + 1>>
      <3>1. rest.msg = <<n + 1>>
        BY <1>14, <1>20, <1>24
      <3>2. bytes = <<n + 1>>
        BY <1>24
      <3>3. n + 1 \in Nat
        OBVIOUS
      <3> QED BY <3>1, <3>2, <3>3, TwiceOne
    <2>3. PICK data : data = Append(p.data, <<n + 1, n + 1>>)
      OBVIOUS
    <2>4. data \in Seq(Seq(Nat)) /\ Len(data) = n + 1 /\ \A i \in 1 .. n + 1 : data[i] = <<i, i>>
      BY <1>2, <1>9, <1>19, <2>3, HandedWhole
    <2>5. q = [rest EXCEPT !.msg = <<>>, !.data = data, !.frag = FALSE]
      BY <1>14, <2>1, <2>2, <2>3
    <2>6. /\ q \in WsParsers /\ q.buf = rest.buf /\ q.done = rest.done /\ q.frag = FALSE /\ q.data = data
          /\ q.msg = <<>>
      <3>1. <<>> \in Seq(Nat)
        OBVIOUS
      <3>2. rest \in WsParsers
        BY <1>14
      <3> QED BY <2>4, <2>5, <3>1, <3>2 DEF WsParsers, WsFlags
    <2>7. /\ q.buf = Ws!Cut(p.buf, l) /\ q.done = TRUE /\ q.frag = c /\ Len(q.data) = k
          /\ \A i \in 1 .. k : q.data[i] = <<i, i>>
      BY <1>14, <1>24, <2>4, <2>6
    <2>8. q.msg = IF c = TRUE THEN <<k + 1>> ELSE <<>>
      BY <1>24, <2>6
    <2> QED BY <1>17, <2>6, <2>7, <2>8 DEF q
  <1>25. CASE /\ h.op = "continue" /\ h.fin = FALSE /\ p.frag = TRUE
              /\ bytes = <<>> /\ k = n /\ c = TRUE
    <2>1. q = [rest EXCEPT !.msg = rest.msg \o bytes, !.frag = rest.frag]
      BY <1>14, <1>16, <1>25 DEF Ws!DataFrame
    <2>2. rest.msg \in Seq(Nat) /\ rest.msg \o <<>> = rest.msg
      BY <1>14, ParserFields, ConcatEmptySeq
    <2>3. q = [rest EXCEPT !.msg = rest.msg, !.frag = rest.frag]
      BY <1>25, <2>1, <2>2, Zenon
    <2>4. /\ q \in WsParsers /\ q.buf = rest.buf /\ q.done = rest.done /\ q.frag = rest.frag
          /\ q.data = rest.data /\ q.msg = rest.msg
      BY <1>14, <2>2, <2>3 DEF WsParsers
    <2>7. /\ q.buf = Ws!Cut(p.buf, l) /\ q.done = TRUE /\ q.frag = c /\ Len(q.data) = k
          /\ \A i \in 1 .. k : q.data[i] = <<i, i>>
      BY <1>9, <1>14, <1>19, <1>25, <2>4
    <2>8. q.msg = IF c = TRUE THEN <<k + 1>> ELSE <<>>
      BY <1>14, <1>20, <1>25, <2>4
    <2> QED BY <1>17, <2>4, <2>7, <2>8 DEF q
  <1> QED BY <1>18, <1>21, <1>22, <1>23, <1>24, <1>25

\* The loop over the frames
FrameRound(after, p, n) ==
    IF n = 0 THEN p ELSE LET q == after[n - 1] IN IF Ws!FrameWhole(q) THEN Ws!OneFrame(q) ELSE q

LEMMA LoopExists ==
    ASSUME NEW p, NEW size \in Nat
    PROVE  \E after : after = [n \in 0 .. size |-> FrameRound(after, p, n)]
  <1> DEFINE S == {k \in Nat : \E after : \A n \in 0 .. k : after[n] = FrameRound(after, p, n)}
  <1>1. 0 \in S
    <2>1. \A n \in 0 .. 0 : [i \in {0} |-> p][n] = FrameRound([i \in {0} |-> p], p, n)
      BY DEF FrameRound
    <2> QED BY <2>1
  <1>2. ASSUME NEW k \in Nat, k \in S PROVE k + 1 \in S
    <2>1. PICK h : \A n \in 0 .. k : h[n] = FrameRound(h, p, n)
      BY <1>2
    <2> DEFINE g == [n \in 0 .. k + 1 |-> IF n <= k THEN h[n] ELSE FrameRound(h, p, n)]
    <2>2. \A n \in 0 .. k : n \in 0 .. k + 1 /\ n <= k
      OBVIOUS
    <2>3. \A n \in 0 .. k : g[n] = h[n]
      BY <2>2
    <2>4. ASSUME NEW n \in 0 .. k + 1 PROVE g[n] = FrameRound(g, p, n)
      <3>1. g[n] = FrameRound(h, p, n)
        <4>1. n <= k => n \in 0 .. k
          OBVIOUS
        <4> QED BY <2>1, <4>1
      <3>2. n # 0 => n - 1 \in 0 .. k
        OBVIOUS
      <3> HIDE DEF g
      <3>3. n # 0 => g[n - 1] = h[n - 1]
        BY <2>3, <3>2
      <3>4. FrameRound(g, p, n) = FrameRound(h, p, n)
        BY <3>3 DEF FrameRound
      <3> QED BY <3>1, <3>4
    <2> HIDE DEF g
    <2> QED BY <2>4
  <1>3. size \in S
    <2> HIDE DEF S
    <2> QED BY <1>1, <1>2, AllNat
  <1>4. PICK h : \A n \in 0 .. size : h[n] = FrameRound(h, p, n)
    BY <1>3
  <1> DEFINE g == [n \in 0 .. size |-> h[n]]
  <1>5. ASSUME NEW n \in 0 .. size PROVE g[n] = FrameRound(g, p, n)
    <2>1. n # 0 => n - 1 \in 0 .. size
      OBVIOUS
    <2>2. n # 0 => g[n - 1] = h[n - 1]
      BY <2>1
    <2>3. g[n] = h[n]
      OBVIOUS
    <2> HIDE DEF g
    <2> QED BY <1>4, <2>2, <2>3 DEF FrameRound
  <1>6. g = [n \in 0 .. size |-> FrameRound(g, p, n)]
    BY <1>5
  <1> QED BY <1>6

LEMMA FramesHandled ==
    ASSUME NEW coming \in Seq(WsItems), NEW p, SoundParser(p, coming)
    PROVE  SoundParser(Ws!Frames(p), coming)
  <1>1. PICK size \in Nat : size = Len(p.buf)
    <2>1. p.buf \in Seq(WsItems)
      BY ParserFields DEF SoundParser
    <2> QED BY <2>1
  <1> DEFINE after == CHOOSE h : h = [n \in 0 .. size |-> FrameRound(h, p, n)]
  <1>2. Ws!Frames(p) = after[size]
    BY <1>1 DEF Ws!Frames, FrameRound
  <1>3. after = [n \in 0 .. size |-> FrameRound(after, p, n)]
    BY LoopExists
  <1> HIDE DEF after
  <1> DEFINE S == {n \in Nat : n <= size => SoundParser(after[n], coming)}
  <1>4. 0 \in S
    <2>1. after[0] = p
      BY <1>3 DEF FrameRound
    <2> QED BY <2>1
  <1>5. ASSUME NEW n \in Nat, n \in S PROVE n + 1 \in S
    <2> SUFFICES ASSUME n + 1 <= size PROVE SoundParser(after[n + 1], coming)
      OBVIOUS
    <2>1. SoundParser(after[n], coming)
      BY <1>5
    <2>2. n + 1 \in 0 .. size /\ n + 1 # 0 /\ (n + 1) - 1 = n
      OBVIOUS
    <2>3. after[n + 1] = IF Ws!FrameWhole(after[n]) THEN Ws!OneFrame(after[n]) ELSE after[n]
      BY <1>3, <2>2 DEF FrameRound
    <2> QED BY <2>1, <2>3, FrameHandled
  <1>6. size \in S
    <2> HIDE DEF S
    <2> QED BY <1>4, <1>5, AllNat
  <1> QED BY <1>2, <1>6

\* s begins with the answer to the handshake, and frames follow.
Opening(s, m, e) ==
    /\ Len(s) >= 2 /\ s[1] = Ws!Item("101", 1) /\ s[2] = Ws!Item("101", 2)
    /\ Stream(Ws!Cut(s, 2), 0, FALSE, m, e)

\* No handshake can be completed any more.
NoOpening(s) == \A i \in 1 .. Len(s) : ~(s[i].is = "101" /\ s[i].v = 1)

\* What comes for a parser that has, or has not, had its handshake, and that has been
\* given n messages, and the beginning of one more if f.
Follows(done, s, n, f, m, e) ==
    \/ done = TRUE /\ Stream(s, n, f, m, e)
    \/ done = FALSE /\ Opening(s, m, e)
    \/ done = FALSE /\ NoOpening(s)

LEMMA StreamItems ==
    ASSUME NEW s, NEW n, NEW f, NEW m, NEW e, Stream(s, n, f, m, e)
    PROVE  \A i \in 1 .. Len(s) : s[i].is \in {"head", "byte"}
  BY DEF Stream, FramesOf

\* After the first item no "101" comes that a handshake could begin with.
LEMMA OpeningItems ==
    ASSUME NEW s \in Seq(WsItems), NEW m, NEW e, Opening(s, m, e)
    PROVE  /\ \A i \in 1 .. Len(s) : i # 1 => ~(s[i].is = "101" /\ s[i].v = 1)
           /\ \A i \in 1 .. Len(s) : i # 2 => ~(s[i].v = 2 /\ s[i].is \in {"101", "refused"})
           /\ s[1].is = "101" /\ s[1].v = 1 /\ s[2].is = "101" /\ s[2].v = 2
  <1>1. PICK size \in Nat : size = Len(s)
    OBVIOUS
  <1>2. size >= 2 /\ 2 \in 0 .. size
    BY <1>1 DEF Opening
  <1>3. /\ Len(Ws!Cut(s, 2)) = size - 2
        /\ \A i \in 1 .. size - 2 : Ws!Cut(s, 2)[i] = s[i + 2]
    BY <1>1, <1>2, CutItems
  <1>4. \A i \in 1 .. Len(Ws!Cut(s, 2)) : Ws!Cut(s, 2)[i].is \in {"head", "byte"}
    BY StreamItems DEF Opening
  <1>5. ASSUME NEW i \in 3 .. size PROVE s[i].is \in {"head", "byte"}
    <2>1. i - 2 \in 1 .. size - 2 /\ (i - 2) + 2 = i
      OBVIOUS
    <2>2. Ws!Cut(s, 2)[i - 2] = s[i]
      BY <1>3, <2>1
    <2> QED BY <1>3, <1>4, <2>1, <2>2
  <1>6. s[1].is = "101" /\ s[1].v = 1 /\ s[2].is = "101" /\ s[2].v = 2
    <2>1. \A v : Ws!Item("101", v).is = "101" /\ Ws!Item("101", v).v = v
      BY DEF Ws!Item
    <2>2. s[1] = Ws!Item("101", 1) /\ s[2] = Ws!Item("101", 2)
      BY DEF Opening
    <2> QED BY <2>1, <2>2
  <1>7. \A i \in 1 .. size : i = 1 \/ i = 2 \/ i \in 3 .. size
    OBVIOUS
  <1> QED BY <1>1, <1>5, <1>6, <1>7

\* What is taken off before the handshake takes the handshake with it.
LEMMA OpeningLost ==
    ASSUME NEW s \in Seq(WsItems), NEW k \in 1 .. Len(s), NEW m, NEW e, NEW n, NEW f,
           Follows(FALSE, s, n, f, m, e)
    PROVE  NoOpening(Ws!Cut(s, k))
  <1>1. PICK size \in Nat : size = Len(s)
    OBVIOUS
  <1>2. k \in 0 .. size /\ k \in 1 .. size
    BY <1>1
  <1>3. Len(Ws!Cut(s, k)) = size - k /\ \A i \in 1 .. size - k : Ws!Cut(s, k)[i] = s[i + k]
    BY <1>1, <1>2, CutItems
  <1>4. \A i \in 1 .. size : i # 1 => ~(s[i].is = "101" /\ s[i].v = 1)
    BY <1>1, OpeningItems DEF Follows, NoOpening
  <1>5. \A i \in 1 .. size - k : i + k \in 1 .. size /\ i + k # 1
    BY <1>2
  <1> QED BY <1>3, <1>4, <1>5 DEF NoOpening

LEMMA NoOpeningCut ==
    ASSUME NEW s \in Seq(WsItems), NEW k \in 0 .. Len(s), NoOpening(s)
    PROVE  NoOpening(Ws!Cut(s, k))
  <1>1. PICK size \in Nat : size = Len(s)
    OBVIOUS
  <1>2. k \in 0 .. size
    BY <1>1
  <1>3. Len(Ws!Cut(s, k)) = size - k /\ \A i \in 1 .. size - k : Ws!Cut(s, k)[i] = s[i + k]
    BY <1>1, <1>2, CutItems
  <1>4. \A i \in 1 .. size - k : i + k \in 1 .. size
    BY <1>2
  <1> QED BY <1>1, <1>3, <1>4 DEF NoOpening

\* The server sends one more frame.
LEMMA FollowsSent ==
    ASSUME NEW s \in Seq(WsItems), NEW w \in Seq(WsItems), w # <<>>, Len(w) = 1 + w[1].len,
           \A i \in 1 .. Len(w) : w[i].is \in {"head", "byte"},
           NEW done, NEW n, NEW f, NEW m, NEW e, NEW k \in Nat, NEW c \in WsFlags,
           Follows(done, s, n, f, m, e), Carries(w, 1, m, e, k, c)
    PROVE  Follows(done, s \o w, n, f, k, c)
  <1>1. CASE done = TRUE /\ Stream(s, n, f, m, e)
    BY <1>1, FrameSent DEF Follows
  <1>2. PICK u : u = s \o w
    OBVIOUS
  <1>3. PICK size \in Nat, more \in Nat : size = Len(s) /\ more = Len(w)
    OBVIOUS
  <1>4. /\ u \in Seq(WsItems) /\ Len(u) = size + more
        /\ \A i \in 1 .. size + more : u[i] = IF i <= size THEN s[i] ELSE w[i - size]
    BY <1>2, <1>3, ConcatProperties
  <1>5. CASE done = FALSE /\ Opening(s, m, e)
    <2>1. size >= 2 /\ 2 \in 0 .. size /\ s[1] = Ws!Item("101", 1) /\ s[2] = Ws!Item("101", 2)
      BY <1>3, <1>5 DEF Opening
    <2>2. Ws!Cut(u, 2) = Ws!Cut(s, 2) \o w /\ Ws!Cut(s, 2) \in Seq(WsItems)
      BY <1>2, <1>3, <2>1, CutJoined, CutItems
    <2>3. Stream(Ws!Cut(u, 2), 0, FALSE, k, c)
      BY <1>5, <2>2, FrameSent DEF Opening
    <2>4. Len(u) >= 2 /\ u[1] = Ws!Item("101", 1) /\ u[2] = Ws!Item("101", 2)
      <3>1. size + more >= 2 /\ 1 \in 1 .. size + more /\ 2 \in 1 .. size + more /\ 1 <= size /\ 2 <= size
        BY <2>1
      <3> QED BY <1>4, <2>1, <3>1
    <2> QED BY <1>2, <1>5, <2>3, <2>4 DEF Follows, Opening
  <1>6. CASE done = FALSE /\ NoOpening(s)
    <2>1. ASSUME NEW i \in 1 .. size + more PROVE ~(u[i].is = "101" /\ u[i].v = 1)
      <3>1. CASE i <= size
        <4>1. i \in 1 .. size /\ u[i] = s[i]
          BY <1>4, <3>1
        <4> QED BY <1>3, <1>6, <4>1 DEF NoOpening
      <3>2. CASE ~(i <= size)
        <4>1. i - size \in 1 .. more
          BY <3>2
        <4>2. u[i] = w[i - size]
          BY <1>4, <3>2
        <4> QED BY <1>3, <4>1, <4>2
      <3> QED BY <3>1, <3>2
    <2> QED BY <1>2, <1>4, <1>6, <2>1 DEF Follows, NoOpening
  <1> QED BY <1>1, <1>5, <1>6 DEF Follows

\* What the parser p has made of what has come, with coming still to come.
ParsedSoFar(p, coming) ==
    /\ p \in WsParsers
    /\ Follows(p.done, p.buf \o coming, Len(p.data), p.frag, messages_sent, fragment)
    /\ p.msg = IF p.frag = TRUE THEN <<Len(p.data) + 1>> ELSE <<>>
    /\ \A i \in 1 .. Len(p.data) : p.data[i] = <<i, i>>
    /\ p.done = FALSE => p.data = <<>> /\ p.frag = FALSE

LEMMA ParsedIsSound ==
    ASSUME NEW p, NEW coming, p.done = TRUE
    PROVE  ParsedSoFar(p, coming) <=> SoundParser(p, coming)
  BY DEF ParsedSoFar, SoundParser, Follows

LEMMA HandshakeHandled ==
    ASSUME NEW coming \in Seq(WsItems), NEW p, ParsedSoFar(p, coming), p.done = FALSE, Ws!HandshakeWhole(p)
    PROVE  ParsedSoFar(Ws!Handshake(p), coming)
  <1> DEFINE End(i) == i \in DOMAIN p.buf /\ p.buf[i].v = 2 /\ p.buf[i].is \in {"101", "refused"}
  <1>1. PICK e : e = CHOOSE i \in DOMAIN p.buf : p.buf[i].v = 2 /\ p.buf[i].is \in {"101", "refused"}
    OBVIOUS
  <1>2. e \in DOMAIN p.buf /\ p.buf[e].v = 2 /\ p.buf[e].is \in {"101", "refused"}
    BY <1>1 DEF Ws!HandshakeWhole
  <1>3. p \in WsParsers /\ p.buf \in Seq(WsItems) /\ p.data = <<>> /\ p.frag = FALSE /\ p.msg = <<>>
        /\ p.bits \in SUBSET {"SUCCESS", "FAILED"}
    BY ParserFields DEF ParsedSoFar
  <1>4. PICK size \in Nat, more \in Nat : size = Len(p.buf) /\ more = Len(coming)
    BY <1>3
  <1>5. e \in 1 .. size /\ e \in 0 .. size
    BY <1>2, <1>3, <1>4
  <1>6. PICK s : s = p.buf \o coming
    OBVIOUS
  <1>7. /\ s \in Seq(WsItems) /\ Len(s) = size + more
        /\ \A i \in 1 .. size : s[i] = p.buf[i]
    <2>1. /\ s \in Seq(WsItems) /\ Len(s) = size + more
          /\ \A i \in 1 .. size + more : s[i] = IF i <= size THEN p.buf[i] ELSE coming[i - size]
      BY <1>3, <1>4, <1>6, ConcatProperties
    <2>2. \A i \in 1 .. size : i \in 1 .. size + more /\ i <= size
      OBVIOUS
    <2> QED BY <2>1, <2>2
  <1>8. PICK b : b = Ws!Cut(p.buf, e)
    OBVIOUS
  <1>9. b \in Seq(WsItems) /\ Ws!Cut(s, e) = b \o coming
    BY <1>3, <1>4, <1>5, <1>6, <1>8, CutItems, CutJoined
  <1>10. Follows(FALSE, s, 0, FALSE, messages_sent, fragment)
    BY <1>3, <1>6 DEF ParsedSoFar
  <1>11. 1 \in 1 .. size /\ 1 \in 1 .. Len(s) /\ e \in 1 .. Len(s) /\ e \in 0 .. Len(s)
    BY <1>5, <1>7
  <1>12. CASE p.buf[1].is = "101" /\ p.buf[1].v = 1
    <2>1. s[1].is = "101" /\ s[1].v = 1
      BY <1>7, <1>11, <1>12
    <2>2. Opening(s, messages_sent, fragment)
      BY <1>10, <1>11, <2>1 DEF Follows, NoOpening
    <2>3. e = 2
      <3>1. s[e].v = 2 /\ s[e].is \in {"101", "refused"}
        BY <1>2, <1>5, <1>7
      <3> QED BY <1>7, <1>11, <2>2, <3>1, OpeningItems
    <2>4. Stream(b \o coming, 0, FALSE, messages_sent, fragment)
      BY <1>9, <2>2, <2>3 DEF Opening
    <2>5. Ws!Handshake(p) = [p EXCEPT !.buf = b, !.done = TRUE, !.bits = p.bits \cup {"SUCCESS"}]
      BY <1>1, <1>8, <1>12 DEF Ws!Handshake
    <2> DEFINE q == Ws!Handshake(p)
    <2>6. /\ q \in WsParsers /\ q.buf = b /\ q.done = TRUE /\ q.frag = FALSE /\ q.data = <<>> /\ q.msg = <<>>
      <3>1. p.bits \cup {"SUCCESS"} \in SUBSET {"SUCCESS", "FAILED"} /\ TRUE \in WsFlags
        BY <1>3 DEF WsFlags
      <3> QED BY <1>3, <1>9, <2>5, <3>1 DEF WsParsers
    <2> HIDE DEF q
    <2>7. Len(q.data) = 0 /\ \A i \in 1 .. Len(q.data) : q.data[i] = <<i, i>>
      BY <2>6
    <2>8. ParsedSoFar(q, coming)
      BY <2>4, <2>6, <2>7 DEF ParsedSoFar, Follows
    <2> QED BY <2>8 DEF q
  <1>13. CASE ~(p.buf[1].is = "101" /\ p.buf[1].v = 1)
    <2>1. NoOpening(b \o coming)
      BY <1>7, <1>9, <1>10, <1>11, OpeningLost
    <2>5. Ws!Handshake(p) = [p EXCEPT !.buf = b, !.bits = p.bits \cup {"FAILED"}]
      BY <1>1, <1>8, <1>13 DEF Ws!Handshake
    <2> DEFINE q == Ws!Handshake(p)
    <2>6. /\ q \in WsParsers /\ q.buf = b /\ q.done = FALSE /\ q.frag = FALSE /\ q.data = <<>> /\ q.msg = <<>>
      <3>1. p.bits \cup {"FAILED"} \in SUBSET {"SUCCESS", "FAILED"}
        BY <1>3
      <3> QED BY <1>3, <1>9, <2>5, <3>1 DEF WsParsers
    <2> HIDE DEF q
    <2>7. Len(q.data) = 0 /\ \A i \in 1 .. Len(q.data) : q.data[i] = <<i, i>>
      BY <2>6
    <2>8. ParsedSoFar(q, coming)
      BY <2>1, <2>6, <2>7 DEF ParsedSoFar, Follows
    <2> QED BY <2>8 DEF q
  <1> QED BY <1>12, <1>13

\* OnTcpData, with what it appended to receive_buffer_ in p
TakenIn(p) ==
    IF p.done THEN Ws!Frames(p)
    ELSE IF ~Ws!HandshakeWhole(p) THEN p
    ELSE IF Ws!Handshake(p).done THEN Ws!Frames(Ws!Handshake(p)) ELSE Ws!Handshake(p)

LEMMA TakenInParsed ==
    ASSUME NEW coming \in Seq(WsItems), NEW p, ParsedSoFar(p, coming)
    PROVE  ParsedSoFar(TakenIn(p), coming)
  <1> DEFINE q == Ws!Handshake(p)
  <1>1. p.done \in WsFlags
    BY ParserFields DEF ParsedSoFar
  <1>2. ASSUME NEW r, ParsedSoFar(r, coming), r.done = TRUE PROVE ParsedSoFar(Ws!Frames(r), coming)
    <2>1. SoundParser(Ws!Frames(r), coming)
      BY <1>2, ParsedIsSound, FramesHandled
    <2>2. Ws!Frames(r).done = TRUE
      BY <2>1 DEF SoundParser
    <2> QED BY <2>1, <2>2, ParsedIsSound
  <1>3. CASE p.done = TRUE
    BY <1>2, <1>3 DEF TakenIn
  <1>4. CASE p.done = FALSE /\ ~Ws!HandshakeWhole(p)
    BY <1>4 DEF TakenIn
  <1>5. CASE p.done = FALSE /\ Ws!HandshakeWhole(p)
    <2>1. ParsedSoFar(q, coming)
      BY <1>5, HandshakeHandled
    <2>2. q.done \in WsFlags
      BY <2>1, ParserFields DEF ParsedSoFar
    <2>3. TakenIn(p) = IF q.done THEN Ws!Frames(q) ELSE q
      BY <1>5 DEF TakenIn
    <2> HIDE DEF q
    <2>4. CASE q.done = TRUE
      BY <1>2, <2>1, <2>3, <2>4
    <2>5. CASE q.done = FALSE
      BY <2>1, <2>3, <2>5
    <2> QED BY <2>2, <2>4, <2>5 DEF WsFlags
  <1> QED BY <1>1, <1>3, <1>4, <1>5 DEF WsFlags

WsType ==
    /\ receive_buffer \in Seq(WsItems) /\ is_fragmented \in WsFlags /\ current_message \in Seq(Nat)
    /\ handshake_completed \in WsFlags /\ wsBits \in SUBSET {"SUCCESS", "FAILED"}
    /\ wsConnected \in WsFlags /\ onData \in Seq(Seq(Nat)) /\ wsTold \in Seq({"connected", "disconnected"})
    /\ wsNet \in Seq(WsItems) /\ wsUp \in WsFlags
    /\ messages_sent \in Nat /\ fragment \in WsFlags /\ controls \in Nat
    /\ wsAt \in {"idle", "listen", "wait", "up", "given_up", "failed"}

\* Before the callbacks are registered nothing is kept; without an answer nothing has
\* come; a message is kept back exactly while it is fragmented.
WsInv ==
    /\ WsType
    /\ wsUp = FALSE => wsNet = <<>>
    /\ wsAt = "idle" => wsUp = FALSE /\ controls = 0
    /\ ~Ws!Registered => receive_buffer = <<>> /\ handshake_completed = FALSE
    /\ controls = 0 => /\ messages_sent = 0 /\ fragment = FALSE
                       /\ receive_buffer = <<>> /\ wsNet = <<>> /\ handshake_completed = FALSE
    /\ current_message = IF is_fragmented = TRUE THEN <<Len(onData) + 1>> ELSE <<>>
    /\ handshake_completed = FALSE => onData = <<>> /\ is_fragmented = FALSE
    /\ \A i \in 1 .. Len(onData) : onData[i] = <<i, i>>
    /\ wsUp = TRUE /\ controls # 0 =>
          Follows(handshake_completed, receive_buffer \o wsNet, Len(onData), is_fragmented,
                  messages_sent, fragment)

\* w is a frame with its head and its bytes.
IsFrame(w, op, fin, bytes) ==
    /\ w \in Seq(WsItems) /\ w # <<>> /\ Len(w) = 1 + w[1].len
    /\ \A i \in 1 .. Len(w) : w[i].is \in {"head", "byte"}
    /\ w[1].is = "head" /\ w[1].op = op /\ w[1].fin = fin /\ w[1].len = Len(bytes)
    /\ \A i \in 1 .. Len(bytes) : w[1 + i].v = bytes[i]

LEMMA FrameItems ==
    ASSUME NEW op \in {"text", "continue", "ping", "close"}, NEW fin \in WsFlags, NEW bytes \in Seq(Nat),
           NEW w, w = Ws!Frame(op, fin, bytes)
    PROVE  IsFrame(w, op, fin, bytes)
  <1> DEFINE h == [is |-> "head", op |-> op, fin |-> fin, len |-> Len(bytes), v |-> 0]
             t == [i \in DOMAIN bytes |-> Ws!Item("byte", bytes[i])]
  <1>1. PICK size \in Nat : size = Len(bytes)
    OBVIOUS
  <1>2. h \in WsItems /\ h.is = "head" /\ h.op = op /\ h.fin = fin /\ h.len = size /\ <<h>> \in Seq(WsItems)
    <2>1. h = [is |-> "head", op |-> op, fin |-> fin, len |-> size, v |-> 0]
      BY <1>1
    <2>2. h \in WsItems
      BY <2>1 DEF WsItems
    <2>3. h.is = "head" /\ h.op = op /\ h.fin = fin /\ h.len = size
      BY <2>1
    <2> HIDE DEF h
    <2> QED BY <2>2, <2>3
  <1>3. \A i \in 1 .. size : bytes[i] \in Nat
    BY <1>1
  <1>4. \A v \in Nat : Ws!Item("byte", v) \in WsItems /\ Ws!Item("byte", v).is = "byte" /\ Ws!Item("byte", v).v = v
    BY DEF Ws!Item, WsItems, WsFlags
  <1>5. DOMAIN bytes = 1 .. size
    BY <1>1
  <1>6. t = [i \in 1 .. size |-> Ws!Item("byte", bytes[i])]
    BY <1>5
  <1>7. \A i \in 1 .. size : t[i] \in WsItems /\ t[i].is = "byte" /\ t[i].v = bytes[i]
    BY <1>3, <1>4, <1>6
  <1>8. t \in Seq(WsItems) /\ Len(t) = size
    <2> DEFINE E(i) == Ws!Item("byte", bytes[i])
    <2>1. \A i \in 1 .. size : E(i) \in WsItems
      BY <1>3, <1>4
    <2>2. t = [i \in 1 .. size |-> E(i)]
      BY <1>6
    <2> HIDE DEF t, E
    <2> QED BY <2>1, <2>2
  <1>9. w = <<h>> \o t
    BY DEF Ws!Frame
  <1> HIDE DEF h, t
  <1>10. Len(<<h>>) = 1 /\ <<h>>[1] = h
    OBVIOUS
  <1>11. /\ w \in Seq(WsItems) /\ Len(w) = 1 + size
         /\ \A i \in 1 .. 1 + size : w[i] = IF i <= 1 THEN <<h>>[i] ELSE t[i - 1]
    BY <1>2, <1>8, <1>9, <1>10, ConcatProperties
  <1>12. w[1] = h /\ w # <<>>
    BY <1>10, <1>11
  <1>13. \A i \in 1 .. size : 1 + i \in 1 .. 1 + size /\ ~(1 + i <= 1) /\ (1 + i) - 1 = i
    OBVIOUS
  <1>14. \A i \in 1 .. size : w[1 + i] = t[i]
    BY <1>11, <1>13
  <1>15. \A i \in 1 .. 1 + size : i = 1 \/ (i - 1 \in 1 .. size /\ 1 + (i - 1) = i)
    OBVIOUS
  <1>16. \A i \in 1 .. 1 + size : w[i].is \in {"head", "byte"}
    <2> SUFFICES ASSUME NEW i \in 1 .. 1 + size PROVE w[i].is \in {"head", "byte"}
      OBVIOUS
    <2>1. CASE i = 1
      BY <1>2, <1>12, <2>1
    <2>2. CASE i - 1 \in 1 .. size /\ 1 + (i - 1) = i
      <3>1. w[i] = t[i - 1]
        BY <1>14, <2>2
      <3> QED BY <1>7, <2>2, <3>1
    <2> QED BY <1>15, <2>1, <2>2
  <1>17. \A i \in 1 .. size : w[1 + i].v = bytes[i]
    BY <1>7, <1>14
  <1>18. Len(w) = 1 + w[1].len /\ w[1].len = Len(bytes)
    BY <1>1, <1>2, <1>11, <1>12
  <1>19. \A i \in 1 .. Len(w) : w[i].is \in {"head", "byte"}
    BY <1>11, <1>16
  <1>20. w[1].is = "head" /\ w[1].op = op /\ w[1].fin = fin
    BY <1>2, <1>12
  <1>21. \A i \in 1 .. Len(bytes) : w[1 + i].v = bytes[i]
    BY <1>1, <1>17
  <1> QED BY <1>11, <1>12, <1>18, <1>19, <1>20, <1>21 DEF IsFrame

LEMMA WsInitInv == Ws!Init => WsInv
  <1>1. Ws!Init => WsType
    <2>1. /\ <<>> \in Seq(WsItems) /\ <<>> \in Seq(Nat) /\ <<>> \in Seq(Seq(Nat))
          /\ <<>> \in Seq({"connected", "disconnected"}) /\ FALSE \in WsFlags
      BY DEF WsFlags
    <2>2. Ws!Init => /\ receive_buffer \in Seq(WsItems) /\ current_message \in Seq(Nat)
                  /\ onData \in Seq(Seq(Nat)) /\ wsTold \in Seq({"connected", "disconnected"})
                  /\ wsNet \in Seq(WsItems)
      BY <2>1, Zenon DEF Ws!Init
    <2>3. Ws!Init => /\ is_fragmented \in WsFlags /\ handshake_completed \in WsFlags
                     /\ wsConnected \in WsFlags
                     /\ wsUp \in WsFlags /\ fragment \in WsFlags
      BY <2>1, Zenon DEF Ws!Init
    <2>4. Ws!Init => /\ wsBits \in SUBSET {"SUCCESS", "FAILED"} /\ messages_sent \in Nat /\ controls \in Nat
                  /\ wsAt \in {"idle", "listen", "wait", "up", "given_up", "failed"}
      BY DEF Ws!Init
    <2> QED BY <2>2, <2>3, <2>4, Zenon DEF WsType
  <1>2. Len(<<>>) = 0
    OBVIOUS
  <1> QED BY <1>1, <1>2 DEF Ws!Init, WsInv, Ws!Registered

LEMMA Regrouped ==
    ASSUME NEW a \in Seq(WsItems), NEW b \in Seq(WsItems), NEW c \in Seq(WsItems)
    PROVE  (a \o b) \o c = a \o (b \o c)
  BY ConcatAssociative

LEMMA WsAnswers == ASSUME WsInv, Ws!ServerAnswers PROVE WsInv'
  <1>1. PICK a \in {"101", "refused"} : wsNet' = <<Ws!Item(a, 1), Ws!Item(a, 2)>>
    BY DEF Ws!ServerAnswers
  <1>2. \A v \in Nat : Ws!Item(a, v) \in WsItems /\ Ws!Item(a, v).is = a /\ Ws!Item(a, v).v = v
    BY DEF Ws!Item, WsItems, WsFlags
  <1>3. PICK x, y : x = Ws!Item(a, 1) /\ y = Ws!Item(a, 2)
    OBVIOUS
  <1>4. x \in WsItems /\ y \in WsItems /\ x.is = a /\ y.is = a /\ wsNet' = <<x, y>>
    BY <1>1, <1>2, <1>3
  <1>5. wsNet' \in Seq(WsItems) /\ Len(wsNet') = 2 /\ wsNet'[1] = x /\ wsNet'[2] = y
    BY <1>4
  <1>6. /\ messages_sent = 0 /\ fragment = FALSE /\ receive_buffer = <<>> /\ handshake_completed = FALSE
        /\ onData = <<>> /\ is_fragmented = FALSE /\ wsUp = TRUE
    BY DEF Ws!ServerAnswers, WsInv, WsType, WsFlags
  <1>7. UNCHANGED <<Ws!host, wsUp, messages_sent, fragment>> /\ controls' = 1
    BY DEF Ws!ServerAnswers
  <1>8. receive_buffer' \o wsNet' = wsNet'
    BY <1>5, <1>6, <1>7, ConcatEmptySeq DEF Ws!host, Ws!parser
  <1>9. Follows(FALSE, wsNet', 0, FALSE, 0, FALSE)
    <2>1. CASE a = "101"
      <3>1. 2 \in 0 .. 2
        OBVIOUS
      <3>2. ASSUME NEW coming \in Seq(WsItems), Len(coming) = 2 PROVE Ws!Cut(coming, 2) = <<>>
        <4>0. 2 \in 0 .. Len(coming)
          BY <3>2
        <4>1. Ws!Cut(coming, 2) \in Seq(WsItems) /\ Len(Ws!Cut(coming, 2)) = Len(coming) - 2
          BY <4>0, CutItems, Zenon
        <4>2. Len(Ws!Cut(coming, 2)) = 0
          BY <3>2, <4>1
        <4> QED BY <4>1, <4>2, EmptySeq, Zenon
      <3>3. Ws!Cut(wsNet', 2) = <<>>
        BY <1>5, <3>2
      <3>4. Stream(<<>>, 0, FALSE, 0, FALSE)
        <4>1. FALSE \in WsFlags /\ 0 \in Nat
          BY DEF WsFlags
        <4> QED BY <4>1, NothingSent, Zenon
      <3>5. Len(wsNet') >= 2 /\ wsNet'[1] = Ws!Item("101", 1) /\ wsNet'[2] = Ws!Item("101", 2)
        BY <1>3, <1>5, <2>1
      <3>6. Opening(wsNet', 0, FALSE)
        BY <3>3, <3>4, <3>5, Zenon DEF Opening
      <3> QED BY <3>6, Zenon DEF Follows
    <2>2. CASE a = "refused"
      <3>1. \A i \in 1 .. 2 : i = 1 \/ i = 2
        OBVIOUS
      <3> QED BY <1>4, <1>5, <2>2, <3>1 DEF Follows, NoOpening
    <2> QED BY <2>1, <2>2
  <1>10. WsType'
    BY <1>5, <1>7 DEF WsInv, WsType, Ws!host, Ws!parser
  <1>11. wsAt' # "idle" /\ controls' # 0 /\ wsUp' = TRUE /\ (Ws!Registered' <=> Ws!Registered)
    BY <1>6, <1>7 DEF Ws!ServerAnswers, Ws!host, Ws!Registered
  <1>12. Len(onData') = 0 /\ is_fragmented' = FALSE /\ handshake_completed' = FALSE
         /\ messages_sent' = 0 /\ fragment' = FALSE
    BY <1>6, <1>7 DEF Ws!host, Ws!parser
  <1>13. Follows(handshake_completed, receive_buffer \o wsNet, Len(onData), is_fragmented,
                 messages_sent, fragment)'
    BY <1>8, <1>9, <1>12
  <1> QED BY <1>6, <1>7, <1>10, <1>11, <1>13 DEF WsInv, Ws!host, Ws!parser

LEMMA WsSends == ASSUME WsInv, Ws!ServerSends PROVE WsInv'
  <1> DEFINE s == receive_buffer \o wsNet
  <1>1. /\ wsUp = TRUE /\ controls # 0 /\ UNCHANGED <<Ws!host, wsUp>>
        /\ Follows(handshake_completed, s, Len(onData), is_fragmented, messages_sent, fragment)
    BY DEF Ws!ServerSends, WsInv, WsType, WsFlags
  <1>2. receive_buffer \in Seq(WsItems) /\ wsNet \in Seq(WsItems) /\ s \in Seq(WsItems)
    BY ConcatProperties DEF WsInv, WsType
  <1> HIDE DEF s
  <1>3. ASSUME NEW w \in Seq(WsItems), w # <<>>, Len(w) = 1 + w[1].len,
               \A i \in 1 .. Len(w) : w[i].is \in {"head", "byte"},
               NEW k \in Nat, NEW c \in WsFlags, Carries(w, 1, messages_sent, fragment, k, c),
               wsNet' = wsNet \o w, messages_sent' = k, fragment' = c, controls' \in Nat \ {0}
        PROVE  WsInv'
    <2>1. Follows(handshake_completed, s \o w, Len(onData), is_fragmented, k, c)
      BY <1>1, <1>2, <1>3, FollowsSent
    <2>2. receive_buffer' \o wsNet' = s \o w /\ wsNet' \in Seq(WsItems)
      <3>1. receive_buffer' = receive_buffer
        BY <1>1 DEF Ws!host, Ws!parser
      <3>2. wsNet' \in Seq(WsItems)
        <4>1. wsNet \o w \in Seq(WsItems)
          BY <1>2, ConcatProperties
        <4> QED BY <1>3, <4>1, Zenon
      <3>3. (receive_buffer \o wsNet) \o w = receive_buffer \o (wsNet \o w)
        BY <1>2, Regrouped
      <3> QED BY <1>3, <3>1, <3>2, <3>3 DEF s
    <2>3. Follows(handshake_completed, receive_buffer \o wsNet, Len(onData), is_fragmented,
                  messages_sent, fragment)'
      <3>1. /\ handshake_completed' = handshake_completed /\ onData' = onData
            /\ is_fragmented' = is_fragmented
        BY <1>1 DEF Ws!host, Ws!parser
      <3> QED BY <1>3, <2>1, <2>2, <3>1
    <2>4. WsType'
      BY <1>1, <1>3, <2>2 DEF WsInv, WsType, Ws!host, Ws!parser
    <2> QED BY <1>1, <1>3, <2>3, <2>4 DEF WsInv, Ws!host, Ws!parser, Ws!Registered
  <1>4. PICK m \in Nat : m = messages_sent
    BY DEF WsInv, WsType
  <1>5a. controls \in Nat \ {0} /\ controls + 1 \in Nat \ {0} /\ fragment \in WsFlags
    BY <1>1 DEF WsInv, WsType
  <1>5. m + 1 \in Nat
        /\ <<m + 1>> \in Seq(Nat) /\ <<m + 1, m + 1>> \in Seq(Nat) /\ <<>> \in Seq(Nat)
        /\ Len(<<m + 1>>) = 1 /\ <<m + 1>>[1] = m + 1
        /\ Len(<<m + 1, m + 1>>) = 2 /\ <<m + 1, m + 1>>[1] = m + 1 /\ <<m + 1, m + 1>>[2] = m + 1
        /\ Len(<<>>) = 0
        /\ TRUE \in WsFlags /\ FALSE \in WsFlags /\ 1 + 1 = 2 /\ 1 + 2 = 3
        /\ 1 \in 1 .. 1 /\ 1 \in 1 .. 2 /\ 2 \in 1 .. 2
    <2>1. m + 1 \in Nat /\ TRUE \in WsFlags /\ FALSE \in WsFlags /\ 1 + 1 = 2 /\ 1 + 2 = 3
          /\ 1 \in 1 .. 1 /\ 1 \in 1 .. 2 /\ 2 \in 1 .. 2
      BY DEF WsFlags
    <2>2. ASSUME NEW a \in Nat
          PROVE  /\ <<a>> \in Seq(Nat) /\ <<a, a>> \in Seq(Nat) /\ <<>> \in Seq(Nat)
                 /\ Len(<<a>>) = 1 /\ <<a>>[1] = a /\ Len(<<>>) = 0
                 /\ Len(<<a, a>>) = 2 /\ <<a, a>>[1] = a /\ <<a, a>>[2] = a
      OBVIOUS
    <2> QED BY <2>1, <2>2
  <1>6. CASE /\ fragment = TRUE /\ wsNet' = wsNet \o Ws!Frame("continue", TRUE, <<m + 1>>)
             /\ fragment' = FALSE /\ messages_sent' = m + 1 /\ controls' = controls
    <2>0. PICK b \in Seq(Nat), y \in WsFlags : b = <<m + 1>> /\ y = TRUE
      BY <1>5
    <2>1. PICK w : w = Ws!Frame("continue", y, b)
      OBVIOUS
    <2>2. /\ w \in Seq(WsItems) /\ w # <<>> /\ Len(w) = 1 + w[1].len
          /\ \A i \in 1 .. Len(w) : w[i].is \in {"head", "byte"}
          /\ w[1].is = "head" /\ w[1].op = "continue" /\ w[1].fin = TRUE /\ w[1].len = 1 /\ w[1 + 1].v = m + 1
      <3>1. IsFrame(w, "continue", y, b)
        BY <2>1, FrameItems
      <3> QED BY <1>5, <2>0, <3>1 DEF IsFrame
    <2>2a. PICK z \in WsFlags, k \in Nat : z = FALSE /\ k = m + 1
      BY <1>5
    <2>3. Carries(w, 1, messages_sent, fragment, k, z)
      BY <1>4, <1>5, <1>6, <2>2, <2>2a DEF Carries
    <2>4. /\ wsNet' = wsNet \o w /\ messages_sent' = k /\ fragment' = z
          /\ controls' \in Nat \ {0}
      BY <1>5a, <1>6, <2>0, <2>1, <2>2a
    <2> QED BY <1>3, <2>2, <2>3, <2>4
  <1>7. CASE /\ fragment = FALSE /\ wsNet' = wsNet \o Ws!Frame("text", TRUE, <<m + 1, m + 1>>)
             /\ fragment' = FALSE /\ messages_sent' = m + 1 /\ controls' = controls
    <2>0. PICK b \in Seq(Nat), y \in WsFlags : b = <<m + 1, m + 1>> /\ y = TRUE
      BY <1>5
    <2>1. PICK w : w = Ws!Frame("text", y, b)
      OBVIOUS
    <2>2. /\ w \in Seq(WsItems) /\ w # <<>> /\ Len(w) = 1 + w[1].len
          /\ \A i \in 1 .. Len(w) : w[i].is \in {"head", "byte"}
          /\ w[1].is = "head" /\ w[1].op = "text" /\ w[1].fin = TRUE /\ w[1].len = 2
          /\ w[1 + 1].v = m + 1 /\ w[1 + 2].v = m + 1
      <3>1. IsFrame(w, "text", y, b)
        BY <2>1, FrameItems
      <3> QED BY <1>5, <2>0, <3>1 DEF IsFrame
    <2>2a. PICK z \in WsFlags, k \in Nat : z = FALSE /\ k = m + 1
      BY <1>5
    <2>3. Carries(w, 1, messages_sent, fragment, k, z)
      BY <1>4, <1>5, <1>7, <2>2, <2>2a DEF Carries
    <2>4. /\ wsNet' = wsNet \o w /\ messages_sent' = k /\ fragment' = z
          /\ controls' \in Nat \ {0}
      BY <1>5a, <1>7, <2>0, <2>1, <2>2a
    <2> QED BY <1>3, <2>2, <2>3, <2>4
  <1>8. CASE /\ fragment = FALSE /\ wsNet' = wsNet \o Ws!Frame("text", FALSE, <<m + 1>>)
             /\ fragment' = TRUE /\ messages_sent' = m /\ controls' = controls
    <2>0. PICK b \in Seq(Nat), y \in WsFlags : b = <<m + 1>> /\ y = FALSE
      BY <1>5
    <2>1. PICK w : w = Ws!Frame("text", y, b)
      OBVIOUS
    <2>2. /\ w \in Seq(WsItems) /\ w # <<>> /\ Len(w) = 1 + w[1].len
          /\ \A i \in 1 .. Len(w) : w[i].is \in {"head", "byte"}
          /\ w[1].is = "head" /\ w[1].op = "text" /\ w[1].fin = FALSE /\ w[1].len = 1 /\ w[1 + 1].v = m + 1
      <3>1. IsFrame(w, "text", y, b)
        BY <2>1, FrameItems
      <3> QED BY <1>5, <2>0, <3>1 DEF IsFrame
    <2>2a. PICK z \in WsFlags : z = TRUE
      BY <1>5
    <2>3. Carries(w, 1, messages_sent, fragment, m, z)
      BY <1>4, <1>5, <1>8, <2>2, <2>2a DEF Carries
    <2> QED BY <1>3, <1>4, <1>5, <1>5a, <1>8, <2>0, <2>1, <2>2, <2>2a, <2>3
  <1>9. ASSUME NEW op \in {"ping", "close"}, wsNet' = wsNet \o Ws!Frame(op, TRUE, <<>>),
               fragment' = fragment, messages_sent' = m, controls' = controls + 1
        PROVE  WsInv'
    <2>0. PICK b \in Seq(Nat), y \in WsFlags : b = <<>> /\ y = TRUE
      BY <1>5
    <2>1. PICK w : w = Ws!Frame(op, y, b)
      OBVIOUS
    <2>2. /\ w \in Seq(WsItems) /\ w # <<>> /\ Len(w) = 1 + w[1].len
          /\ \A i \in 1 .. Len(w) : w[i].is \in {"head", "byte"}
          /\ w[1].is = "head" /\ w[1].op = op /\ w[1].len = 0
      <3>1. IsFrame(w, op, y, b)
        BY <2>1, FrameItems
      <3> QED BY <1>5, <2>0, <3>1 DEF IsFrame
    <2>3. Carries(w, 1, messages_sent, fragment, m, fragment)
      BY <1>4, <2>2 DEF Carries
    <2> QED BY <1>3, <1>4, <1>5a, <1>9, <2>0, <2>1, <2>2, <2>3
  <1>9a. CASE /\ fragment = TRUE /\ wsNet' = wsNet \o Ws!Frame("continue", FALSE, <<>>)
              /\ fragment' = fragment /\ messages_sent' = m /\ controls' = controls + 1
    <2>0. PICK b \in Seq(Nat), y \in WsFlags : b = <<>> /\ y = FALSE
      BY <1>5
    <2>1. PICK w : w = Ws!Frame("continue", y, b)
      OBVIOUS
    <2>2. /\ w \in Seq(WsItems) /\ w # <<>> /\ Len(w) = 1 + w[1].len
          /\ \A i \in 1 .. Len(w) : w[i].is \in {"head", "byte"}
          /\ w[1].is = "head" /\ w[1].op = "continue" /\ w[1].fin = FALSE /\ w[1].len = 0
      <3>1. IsFrame(w, "continue", y, b)
        BY <2>1, FrameItems
      <3> QED BY <1>5, <2>0, <3>1 DEF IsFrame
    <2>3. Carries(w, 1, messages_sent, fragment, m, fragment)
      BY <1>4, <1>9a, <2>2 DEF Carries
    <2> QED BY <1>3, <1>4, <1>5a, <1>9a, <2>0, <2>1, <2>2, <2>3
  <1>10. \/ /\ fragment = TRUE /\ wsNet' = wsNet \o Ws!Frame("continue", TRUE, <<m + 1>>)
            /\ fragment' = FALSE /\ messages_sent' = m + 1 /\ controls' = controls
         \/ /\ fragment = FALSE /\ wsNet' = wsNet \o Ws!Frame("text", TRUE, <<m + 1, m + 1>>)
            /\ fragment' = FALSE /\ messages_sent' = m + 1 /\ controls' = controls
         \/ /\ fragment = FALSE /\ wsNet' = wsNet \o Ws!Frame("text", FALSE, <<m + 1>>)
            /\ fragment' = TRUE /\ messages_sent' = m /\ controls' = controls
         \/ \E op \in {"ping", "close"} :
               /\ wsNet' = wsNet \o Ws!Frame(op, TRUE, <<>>)
               /\ fragment' = fragment /\ messages_sent' = m /\ controls' = controls + 1
         \/ /\ fragment = TRUE /\ wsNet' = wsNet \o Ws!Frame("continue", FALSE, <<>>)
            /\ fragment' = fragment /\ messages_sent' = m /\ controls' = controls + 1
    BY <1>4, <1>5a DEF Ws!ServerSends, WsFlags
  <1> QED BY <1>6, <1>7, <1>8, <1>9, <1>9a, <1>10

LEMMA WsTcpData == ASSUME WsInv, Ws!TcpData PROVE WsInv'
  <1>1. PICK k \in 1 .. Len(wsNet) :
           /\ wsNet' = Ws!Cut(wsNet, k)
           /\ IF Ws!Registered THEN Ws!OnTcpData(SubSeq(wsNet, 1, k))
              ELSE UNCHANGED <<wsConnected, Ws!parser, wsBits, onData, wsTold>>
    BY DEF Ws!TcpData
  <1>2. receive_buffer \in Seq(WsItems) /\ wsNet \in Seq(WsItems) /\ wsNet # <<>>
    BY DEF WsInv, WsType, Ws!TcpData
  <1>3. k \in 0 .. Len(wsNet) /\ k \in Nat /\ k <= Len(wsNet) /\ Len(wsNet) \in Nat
    BY <1>2
  <1>4. wsNet' \in Seq(WsItems)
    BY <1>1, <1>2, <1>3, CutItems
  <1>5. UNCHANGED <<wsAt, wsUp, Ws!server>>
    BY DEF Ws!TcpData
  <1>6. wsUp = TRUE /\ controls # 0
    BY <1>2 DEF WsInv, WsType, WsFlags
  <1>7. Follows(handshake_completed, receive_buffer \o wsNet, Len(onData), is_fragmented,
                messages_sent, fragment)
    BY <1>6 DEF WsInv
  <1>8. CASE ~Ws!Registered
    <2>1. UNCHANGED <<wsConnected, Ws!parser, wsBits, onData, wsTold>>
      BY <1>1, <1>8
    <2>2. receive_buffer = <<>> /\ handshake_completed = FALSE
      BY <1>8 DEF WsInv
    <2>3. receive_buffer \o wsNet = wsNet /\ receive_buffer' \o wsNet' = wsNet'
      <3>1. receive_buffer' = <<>>
        BY <2>1, <2>2 DEF Ws!parser
      <3> QED BY <1>2, <1>4, <2>2, <3>1, ConcatEmptySeq
    <2>4. NoOpening(wsNet')
      BY <1>1, <1>2, <1>7, <2>2, <2>3, OpeningLost
    <2>5. handshake_completed' = FALSE
      BY <2>1, <2>2 DEF Ws!parser
    <2>6. Follows(handshake_completed, receive_buffer \o wsNet, Len(onData), is_fragmented,
                  messages_sent, fragment)'
      BY <2>3, <2>4, <2>5 DEF Follows
    <2>7. WsType'
      BY <1>4, <1>5, <2>1 DEF WsInv, WsType, Ws!parser, Ws!server
    <2> QED BY <1>5, <1>6, <2>1, <2>6, <2>7 DEF WsInv, Ws!parser, Ws!server, Ws!Registered
  <1>9. CASE Ws!Registered
    <2>1. PICK data : data = SubSeq(wsNet, 1, k)
      OBVIOUS
    <2>2. data \in Seq(WsItems) /\ data \o wsNet' = wsNet
      <3>1. data \in Seq(WsItems)
        BY <1>2, <2>1
      <3>2. wsNet = SubSeq(wsNet, 1, k) \o SubSeq(wsNet, k + 1, Len(wsNet))
        BY <1>2, <1>3, HeadTailProperties, SubSeqProperties, ConcatProperties, ConcatAdjacentSubSeq
      <3> QED BY <1>1, <2>1, <3>1, <3>2 DEF Ws!Cut
    <2>3. PICK p : p = [Ws!Now EXCEPT !.buf = receive_buffer \o data]
      OBVIOUS
    <2>4. /\ p \in WsParsers /\ p.buf = receive_buffer \o data /\ p.frag = is_fragmented
          /\ p.msg = current_message /\ p.done = handshake_completed /\ p.data = onData
      <3>1. receive_buffer \o data \in Seq(WsItems)
        BY <1>2, <2>2, ConcatProperties
      <3>2. p = [buf |-> receive_buffer \o data, frag |-> is_fragmented, msg |-> current_message,
                 done |-> handshake_completed, bits |-> wsBits,
                 up |-> wsConnected, data |-> onData, told |-> wsTold]
        BY <2>3 DEF Ws!Now
      <3> QED BY <3>1, <3>2 DEF WsParsers, WsInv, WsType
    <2>5. p.buf \o wsNet' = receive_buffer \o wsNet
      <3>1. ASSUME NEW coming \in Seq(WsItems), data \o coming = wsNet
            PROVE  (receive_buffer \o data) \o coming = receive_buffer \o wsNet
        <4>1. (receive_buffer \o data) \o coming = receive_buffer \o (data \o coming)
          BY <1>2, <2>2, <3>1, Regrouped
        <4> QED BY <3>1, <4>1
      <3> QED BY <1>4, <2>2, <2>4, <3>1
    <2>6. ParsedSoFar(p, wsNet')
      BY <1>7, <2>4, <2>5 DEF ParsedSoFar, WsInv
    <2>7. PICK q : q = TakenIn(p)
      OBVIOUS
    <2>8. ParsedSoFar(q, wsNet')
      BY <1>4, <2>6, <2>7, TakenInParsed
    <2>9. /\ receive_buffer' = q.buf /\ is_fragmented' = q.frag /\ current_message' = q.msg
          /\ handshake_completed' = q.done /\ wsBits' = q.bits
          /\ wsConnected' = q.up /\ onData' = q.data /\ wsTold' = q.told
      <3>1. Ws!OnTcpData(data)
        BY <1>1, <1>9, <2>1
      <3>2. p = [Ws!Now EXCEPT !.buf = @ \o data]
        BY <2>3 DEF Ws!Now
      <3> QED BY <2>7, <3>1, <3>2 DEF Ws!OnTcpData, TakenIn
    <2>10. /\ q.buf \in Seq(WsItems) /\ q.frag \in WsFlags /\ q.msg \in Seq(Nat) /\ q.done \in WsFlags
           /\ q.bits \in SUBSET {"SUCCESS", "FAILED"} /\ q.up \in WsFlags /\ q.data \in Seq(Seq(Nat))
           /\ q.told \in Seq({"connected", "disconnected"})
      BY <2>8, ParserFields DEF ParsedSoFar
    <2>11. WsType'
      BY <1>4, <1>5, <2>9, <2>10 DEF WsInv, WsType, Ws!server
    <2>12. /\ Follows(handshake_completed', receive_buffer' \o wsNet', Len(onData'), is_fragmented',
                      messages_sent', fragment')
           /\ current_message' = IF is_fragmented' = TRUE THEN <<Len(onData') + 1>> ELSE <<>>
           /\ \A i \in 1 .. Len(onData') : onData'[i] = <<i, i>>
           /\ handshake_completed' = FALSE => onData' = <<>> /\ is_fragmented' = FALSE
      BY <1>5, <2>8, <2>9 DEF ParsedSoFar, Ws!server
    <2> QED BY <1>5, <1>6, <1>9, <2>11, <2>12 DEF WsInv, Ws!server, Ws!Registered
  <1> QED BY <1>8, <1>9

LEMMA WsNextInv == ASSUME WsInv, [Ws!Next]_(Ws!vars) PROVE WsInv'
  <1>1. CASE Ws!ServerAnswers
    BY <1>1, WsAnswers
  <1>2. CASE Ws!ServerSends
    BY <1>2, WsSends
  <1>3. CASE Ws!TcpData
    BY <1>3, WsTcpData
  <1>4. CASE Ws!ConnectTcp
    <2>1. WsType'
      BY <1>4 DEF Ws!ConnectTcp, WsInv, WsType, WsFlags, Ws!parser, Ws!server
    <2>2. controls' = 0 /\ wsNet' = <<>>
      BY <1>4 DEF Ws!ConnectTcp, WsInv, Ws!server
    <2> QED BY <1>4, <2>1, <2>2 DEF Ws!ConnectTcp, WsInv, Ws!parser, Ws!server, Ws!Registered
  <1>5. CASE Ws!ConnectListens
    <2>1. WsType'
      BY <1>5 DEF Ws!ConnectListens, WsInv, WsType, Ws!parser, Ws!server
    <2> QED BY <1>5, <2>1 DEF Ws!ConnectListens, WsInv, Ws!parser, Ws!server, Ws!Registered
  <1>6. CASE Ws!Connect
    <2>0. wsTold \in Seq({"connected", "disconnected"})
      BY DEF WsInv, WsType
    <2>1. Append(wsTold, "connected") \in Seq({"connected", "disconnected"})
      BY <2>0
    <2>2. WsType'
      BY <1>6, <2>1 DEF Ws!Connect, WsInv, WsType, WsFlags, Ws!parser, Ws!server
    <2> QED BY <1>6, <2>2 DEF Ws!Connect, WsInv, Ws!parser, Ws!server, Ws!Registered
  <1>8. CASE Ws!OnDisconnected
    <2>0. wsTold \in Seq({"connected", "disconnected"})
      BY DEF WsInv, WsType
    <2>1. Append(wsTold, "disconnected") \in Seq({"connected", "disconnected"})
      BY <2>0
    <2>2. wsTold' \in Seq({"connected", "disconnected"}) /\ wsConnected' \in WsFlags
      BY <1>8, <2>0, <2>1 DEF Ws!OnDisconnected, WsInv, WsType, WsFlags
    <2>3. wsNet' = <<>> /\ wsUp' = FALSE
      BY <1>8 DEF Ws!OnDisconnected
    <2>4. wsNet' \in Seq(WsItems) /\ wsUp' \in WsFlags
      <3>1. <<>> \in Seq(WsItems) /\ FALSE \in WsFlags
        BY DEF WsFlags
      <3> QED BY <2>3, <3>1, Zenon
    <2>5. UNCHANGED <<Ws!parser, wsBits, wsAt, Ws!server, onData>>
      BY <1>8 DEF Ws!OnDisconnected
    <2>6. WsType'
      BY <2>2, <2>4, <2>5 DEF WsInv, WsType, Ws!parser, Ws!server
    <2> QED BY <2>3, <2>5, <2>6 DEF WsInv, Ws!parser, Ws!server, Ws!Registered
  <1>9. CASE UNCHANGED Ws!vars
    <2>1. WsType'
      BY <1>9 DEF Ws!vars, WsInv, WsType, Ws!parser, Ws!server
    <2> QED BY <1>9, <2>1 DEF Ws!vars, WsInv, Ws!parser, Ws!server, Ws!Registered
  <1> QED BY <1>1, <1>2, <1>3, <1>4, <1>5, <1>6, <1>8, <1>9 DEF Ws!Next

\* MessagesWhole of MCModem: on_data_ is given the server's messages whole, each once and
\* in order, however they are cut into frames and packets and whatever control frames
\* come between: what is in receive_buffer_ and on its way is frames end to end, which
\* take the application from the messages it has got to those that were sent.
THEOREM WsMessagesWhole == Ws!Spec => []MessagesWhole
  <1>1. WsInv => MessagesWhole
    <2>1. WsInv => DOMAIN onData = 1 .. Len(onData)
      BY DEF WsInv, WsType
    <2> QED BY <2>1 DEF WsInv, MessagesWhole, Ws!MessagesWhole
  <1> QED BY <1>1, WsInitInv, WsNextInv, PTL DEF Ws!Spec

-----------------------------------------------------------------------------
(* The HTTP client: http_client.cc *)

\* The types of the items of the stream and of the parser.
HcHeads == [length : Nat, chunked : WsFlags, connection : {"none", "keep", "close"}]
HcItems == [kind : {"status", "header", "empty", "byte", "size"}, n : Nat, of : Nat, headers : HcHeads]
HcStates == {"STATUS_LINE", "HEADERS", "BODY", "CHUNK_SIZE", "CHUNK_DATA", "CHUNK_TRAILER", "COMPLETE"}
HcRequests == [state : HcStates, rx_buffer : Seq(HcItems), headers : HcHeads, received : WsFlags,
               chunked : WsFlags, length : Nat, total : Nat, chunk : Nat, eof : WsFlags,
               connection_error : WsFlags, failed : WsFlags, keep : WsFlags, body : Seq(HcItems)]

\* The place of an answer before one of its items: what is expected, the bytes of the
\* body before it, those left in its chunk, and what the header said.
HcPlaces == [at : {"status", "header", "end", "body", "size", "crlf", "data", "trailer"},
             n : Nat, left : Nat, chunked : WsFlags]

\* The items of answer a of request q that follow its place i, and the places P behind them.
Leads(a, P, i, q) ==
    \/ /\ P[i].at = "status" /\ a[i + 1].kind = "status"
       /\ P[i + 1].at = "header" /\ P[i + 1].n = P[i].n
    \/ /\ P[i].at = "header" /\ a[i + 1].kind = "header"
       /\ P[i + 1].at = "end" /\ P[i + 1].n = P[i].n /\ P[i + 1].chunked = a[i + 1].headers.chunked
    \/ /\ P[i].at = "end" /\ a[i + 1].kind = "empty" /\ P[i + 1].n = P[i].n
       /\ \/ P[i].chunked = TRUE /\ P[i + 1].at = "size"
          \/ P[i].chunked = FALSE /\ P[i + 1].at = "body"
    \/ /\ P[i].at = "body"
       /\ \A m \in 1 .. Len(a) - i : /\ a[i + m] = Http!Byte(q, P[i].n + m)
                                     /\ P[i + m].at = "body" /\ P[i + m].n = P[i].n + m
    \/ /\ P[i].at = "size" /\ a[i + 1].kind = "size" /\ P[i + 1].n = P[i].n
       /\ \/ a[i + 1].n # 0 /\ P[i + 1].at = "data" /\ P[i + 1].left = a[i + 1].n
          \/ a[i + 1].n = 0 /\ P[i + 1].at = "trailer"
    \/ /\ P[i].at = "data" /\ P[i].left # 0
       /\ \A m \in 1 .. P[i].left :
             /\ a[i + m] = Http!Byte(q, P[i].n + m) /\ P[i + m].n = P[i].n + m
             /\ m < P[i].left => P[i + m].at = "data" /\ P[i + m].left = P[i].left - m
       /\ P[i + P[i].left].at = "crlf"
    \/ /\ P[i].at = "crlf" /\ a[i + 1].kind = "empty"
       /\ P[i + 1].at = "size" /\ P[i + 1].n = P[i].n
    \/ P[i].at = "trailer"

Labelled(a, P, q) ==
    /\ a \in Seq(HcItems) /\ P \in [Nat -> HcPlaces]
    /\ P[0].at = "status" /\ P[0].n = 0
    /\ \A i \in 0 .. Len(a) - 1 : Leads(a, P, i, q)

\* The items s are those of a from place i on.
Window(s, a, i) == i + Len(s) <= Len(a) /\ \A j \in 1 .. Len(s) : s[j] = a[i + j]

\* A parser in state st, that has read headers h and needs c bytes more of a chunk, is at place p.
Agrees(st, h, c, p) ==
    \/ st = "STATUS_LINE" /\ p.at = "status"
    \/ st = "HEADERS" /\ p.at = "header"
    \/ st = "HEADERS" /\ p.at = "end" /\ h.chunked = p.chunked
    \/ st = "BODY" /\ p.at = "body"
    \/ st = "CHUNK_SIZE" /\ p.at \in {"size", "crlf"}
    \/ st = "CHUNK_DATA" /\ p.at = "data" /\ p.left = c

\* The items s, which come next, go on from where the parser r is, after d bytes of the body.
AtPlace(r, s, d, q) ==
    \E a, P : /\ Labelled(a, P, q)
              /\ \E i \in Nat : Window(s, a, i) /\ Agrees(r.state, r.headers, r.chunk, P[i]) /\ P[i].n = d

\* Behind the body nothing is claimed: no byte comes any more.
PastBody == {"CHUNK_TRAILER", "COMPLETE"}

\* What the parser r has made of a stream, with the items that come; the reader has d bytes.
HcSound(r, coming, d, q) ==
    /\ r \in HcRequests
    /\ \A m \in 1 .. Len(r.body) : r.body[m] = Http!Byte(q, d + m)
    /\ r.state \notin PastBody => AtPlace(r, r.rx_buffer \o coming, d + Len(r.body), q)

LEMMA RequestFields ==
    ASSUME NEW r \in HcRequests
    PROVE  /\ r.state \in HcStates /\ r.rx_buffer \in Seq(HcItems) /\ r.headers \in HcHeads
           /\ r.received \in WsFlags /\ r.chunked \in WsFlags /\ r.length \in Nat /\ r.total \in Nat
           /\ r.chunk \in Nat /\ r.eof \in WsFlags /\ r.connection_error \in WsFlags
           /\ r.failed \in WsFlags /\ r.keep \in WsFlags /\ r.body \in Seq(HcItems)
  BY DEF HcRequests

LEMMA NoItems == <<>> \in Seq(HcItems)
  OBVIOUS

LEMMA HcItemFields ==
    ASSUME NEW x \in HcItems
    PROVE  /\ x.kind \in {"status", "header", "empty", "byte", "size"} /\ x.n \in Nat /\ x.of \in Nat
           /\ x.headers \in HcHeads /\ x.headers.chunked \in WsFlags
  BY DEF HcItems, HcHeads

LEMMA HcLineIs ==
    ASSUME NEW k \in {"status", "header", "empty", "byte", "size"}
    PROVE  Http!Line(k) \in HcItems /\ Http!Line(k).kind = k
  BY DEF Http!Line, Http!NoHeaders, HcItems, HcHeads, WsFlags

LEMMA HcByteIs ==
    ASSUME NEW q \in Nat, NEW i \in Nat
    PROVE  Http!Byte(q, i) \in HcItems /\ Http!Byte(q, i).kind = "byte"
  BY DEF Http!Byte, Http!Line, Http!NoHeaders, HcItems, HcHeads, WsFlags

LEMMA HcSizeIs ==
    ASSUME NEW n \in Nat
    PROVE  Http!Size(n) \in HcItems /\ Http!Size(n).kind = "size" /\ Http!Size(n).n = n
  BY DEF Http!Size, Http!Line, Http!NoHeaders, HcItems, HcHeads, WsFlags

LEMMA HcJoined ==
    ASSUME NEW s \in Seq(HcItems), NEW t \in Seq(HcItems)
    PROVE  /\ s \o t \in Seq(HcItems) /\ Len(s \o t) = Len(s) + Len(t)
           /\ \A i \in 1 .. Len(s) : (s \o t)[i] = s[i]
           /\ \A i \in 1 .. Len(t) : (s \o t)[Len(s) + i] = t[i]
  <1>1. PICK a \in Nat, b \in Nat : Len(s) = a /\ Len(t) = b
    OBVIOUS
  <1>2. /\ s \o t \in Seq(HcItems) /\ Len(s \o t) = a + b
        /\ \A i \in 1 .. a + b : (s \o t)[i] = IF i <= a THEN s[i] ELSE t[i - a]
    BY <1>1, ConcatProperties
  <1>3. \A i \in 1 .. a : i \in 1 .. a + b /\ i <= a
    OBVIOUS
  <1>4. \A i \in 1 .. b : a + i \in 1 .. a + b /\ ~(a + i <= a) /\ (a + i) - a = i
    OBVIOUS
  <1>5. \A i \in 1 .. a : (s \o t)[i] = s[i]
    BY <1>2, <1>3
  <1>6. \A i \in 1 .. b : (s \o t)[a + i] = t[i]
    BY <1>2, <1>4
  <1> QED BY <1>1, <1>2, <1>5, <1>6

\* u are the a items of s and then the b of t.
HcJoin(u, s, t, a, b) ==
    /\ u \in Seq(HcItems) /\ Len(u) = a + b
    /\ \A i \in 1 .. a : u[i] = s[i]
    /\ \A i \in 1 .. b : u[a + i] = t[i]

LEMMA HcJoinedAt ==
    ASSUME NEW s \in Seq(HcItems), NEW t \in Seq(HcItems), NEW a \in Nat, NEW b \in Nat,
           Len(s) = a, Len(t) = b, NEW u, u = s \o t
    PROVE  HcJoin(u, s, t, a, b)
  BY HcJoined, Zenon DEF HcJoin

LEMMA HcFront ==
    ASSUME NEW s \in Seq(HcItems), NEW n \in 0 .. Len(s)
    PROVE  /\ SubSeq(s, 1, n) \in Seq(HcItems) /\ Len(SubSeq(s, 1, n)) = n
           /\ \A m \in 1 .. n : SubSeq(s, 1, n)[m] = s[m]
  <1>1. PICK x \in Nat : Len(s) = x /\ n \in 0 .. x /\ n \in Nat
    OBVIOUS
  <1>2. 1 \in 1 .. x + 1 /\ n \in 1 - 1 .. x
    BY <1>1
  <1>3. /\ SubSeq(s, 1, n) \in Seq(HcItems)
        /\ Len(SubSeq(s, 1, n)) = IF 1 <= n THEN n - 1 + 1 ELSE 0
        /\ \A m \in 1 .. n - 1 + 1 : SubSeq(s, 1, n)[m] = s[1 + m - 1]
    <2>1. 1 \in 1 .. Len(s) + 1 /\ n \in 1 - 1 .. Len(s)
      BY <1>1, <1>2
    <2> QED BY <2>1, SubSeqProperties
  <1>4. n - 1 + 1 = n /\ (IF 1 <= n THEN n - 1 + 1 ELSE 0) = n /\ \A m \in 1 .. n : 1 + m - 1 = m
    BY <1>1
  <1> QED BY <1>3, <1>4

LEMMA HcRegrouped ==
    ASSUME NEW a \in Seq(HcItems), NEW b \in Seq(HcItems), NEW c \in Seq(HcItems)
    PROVE  (a \o b) \o c = a \o (b \o c)
  BY ConcatAssociative

\* What stands before the end of a window is one too.
LEMMA WindowFront ==
    ASSUME NEW s \in Seq(HcItems), NEW t \in Seq(HcItems), NEW a \in Seq(HcItems), NEW i \in Nat,
           Window(s \o t, a, i)
    PROVE  Window(s, a, i)
  <1>1. PICK x \in Nat, y \in Nat, z \in Nat : Len(s) = x /\ Len(t) = y /\ Len(a) = z
    OBVIOUS
  <1>2. Len(s \o t) = x + y /\ \A j \in 1 .. x : (s \o t)[j] = s[j]
    BY <1>1, HcJoined
  <1>3. i + (x + y) <= z /\ \A j \in 1 .. x + y : (s \o t)[j] = a[i + j]
    BY <1>1, <1>2 DEF Window
  <1>4. \A j \in 1 .. x : j \in 1 .. x + y
    OBVIOUS
  <1>5. i + x <= z
    BY <1>3
  <1>6. \A j \in 1 .. x : s[j] = a[i + j]
    BY <1>2, <1>3, <1>4
  <1> QED BY <1>1, <1>5, <1>6 DEF Window

\* So is what is left when l items are taken off.
LEMMA WindowRest ==
    ASSUME NEW s \in Seq(HcItems), NEW a \in Seq(HcItems), NEW i \in Nat, NEW l \in 0 .. Len(s),
           Window(s, a, i)
    PROVE  Window(Ws!Cut(s, l), a, i + l)
  <1>1. PICK x \in Nat, z \in Nat : Len(s) = x /\ Len(a) = z /\ l \in 0 .. x /\ l \in Nat
    OBVIOUS
  <1>2. Len(Ws!Cut(s, l)) = x - l /\ \A j \in 1 .. x - l : Ws!Cut(s, l)[j] = s[j + l]
    BY <1>1, CutItems
  <1>3. i + x <= z /\ \A j \in 1 .. x : s[j] = a[i + j]
    BY <1>1 DEF Window
  <1>4. \A j \in 1 .. x - l : j + l \in 1 .. x /\ i + (j + l) = (i + l) + j
    BY <1>1
  <1>5. (i + l) + (x - l) <= z
    BY <1>1, <1>3
  <1>6. \A j \in 1 .. x - l : Ws!Cut(s, l)[j] = a[(i + l) + j]
    <2> SUFFICES ASSUME NEW j \in 1 .. x - l PROVE Ws!Cut(s, l)[j] = a[(i + l) + j]
      OBVIOUS
    <2>1. Ws!Cut(s, l)[j] = s[j + l]
      BY <1>2
    <2>2. s[j + l] = a[i + (j + l)]
      BY <1>3, <1>4
    <2>3. i + (j + l) = (i + l) + j
      BY <1>4
    <2> QED BY <2>1, <2>2, <2>3
  <1> QED BY <1>1, <1>2, <1>5, <1>6 DEF Window

\* What the parser has in its buffer are the items behind its place.
LEMMA WindowItems ==
    ASSUME NEW buf \in Seq(HcItems), NEW coming \in Seq(HcItems), NEW a \in Seq(HcItems), NEW i \in Nat,
           Window(buf \o coming, a, i)
    PROVE  /\ i + Len(buf) <= Len(a) /\ \A j \in 1 .. Len(buf) : buf[j] = a[i + j]
           /\ \A l \in 0 .. Len(buf) : Window(Ws!Cut(buf, l) \o coming, a, i + l)
  <1>1. Window(buf, a, i)
    BY WindowFront
  <1>2. ASSUME NEW l \in 0 .. Len(buf) PROVE Window(Ws!Cut(buf, l) \o coming, a, i + l)
    <2>1. Ws!Cut(buf \o coming, l) = Ws!Cut(buf, l) \o coming
      BY CutJoined
    <2>2. buf \o coming \in Seq(HcItems) /\ Len(buf \o coming) = Len(buf) + Len(coming)
      BY HcJoined
    <2>3. PICK x \in Nat, y \in Nat : Len(buf) = x /\ Len(coming) = y
      OBVIOUS
    <2>4. l \in 0 .. x + y
      BY <2>3
    <2>5. l \in 0 .. Len(buf \o coming)
      BY <2>2, <2>3, <2>4
    <2> QED BY <2>1, <2>2, <2>5, WindowRest
  <1> QED BY <1>1, <1>2 DEF Window

LEMMA FirstLine ==
    ASSUME NEW buf \in Seq(HcItems), buf # <<>>, buf[1].kind # "byte"
    PROVE  Http!EndOfLine(buf) = 1
  <1>1. PICK x \in Nat : Len(buf) = x
    OBVIOUS
  <1>2. x # 0 /\ DOMAIN buf = 1 .. x
    BY <1>1, EmptySeq
  <1>3. 1 \in 1 .. x /\ \A j \in 1 .. 1 - 1 : buf[j].kind = "byte"
    BY <1>2
  <1>4. ASSUME NEW i \in 1 .. x, \A j \in 1 .. i - 1 : buf[j].kind = "byte" PROVE i = 1
    <2>1. i # 1 => 1 \in 1 .. i - 1
      OBVIOUS
    <2> QED BY <1>4, <2>1
  <1>5. \A i : (i \in 1 .. x /\ buf[i].kind # "byte" /\ \A j \in 1 .. i - 1 : buf[j].kind = "byte") <=> i = 1
    BY <1>3, <1>4
  <1> QED BY <1>2, <1>5 DEF Http!EndOfLine

\* The end of the first line of a stream of any items.
LEMMA LineEnds ==
    ASSUME NEW buf \in Seq(HcItems), Http!HasCompleteLine(buf)
    PROVE  Http!EndOfLine(buf) \in 1 .. Len(buf)
  <1> DEFINE T == {i \in 1 .. Len(buf) : buf[i].kind # "byte"}
  <1>1. DOMAIN buf = 1 .. Len(buf) /\ Len(buf) \in Nat
    OBVIOUS
  <1>2. T \subseteq Nat /\ T # {}
    BY <1>1 DEF Http!HasCompleteLine
  <1>3. PICK e \in T : \A y \in T : ~(y < e)
    <2> HIDE DEF T
    <2> QED BY <1>2, LeastNat
  <1>4. ASSUME NEW j \in 1 .. e - 1 PROVE buf[j].kind = "byte"
    <2>1. j < e /\ j \in 1 .. Len(buf)
      BY <1>1
    <2> QED BY <1>3, <2>1
  <1>5. e \in DOMAIN buf /\ buf[e].kind # "byte" /\ \A j \in 1 .. e - 1 : buf[j].kind = "byte"
    BY <1>1, <1>4
  <1> HIDE DEF T
  <1> QED BY <1>1, <1>5 DEF Http!EndOfLine

LEMMA Head3Items ==
    ASSUME NEW h \in HcHeads
    PROVE  /\ Http!Head3(h) \in Seq(HcItems) /\ Len(Http!Head3(h)) = 3
           /\ Http!Head3(h)[1].kind = "status" /\ Http!Head3(h)[2].kind = "header"
           /\ Http!Head3(h)[2].headers = h /\ Http!Head3(h)[3].kind = "empty"
  <1>1. PICK x : x = [Http!Line("header") EXCEPT !.headers = h]
    OBVIOUS
  <1>2. x \in HcItems /\ x.kind = "header" /\ x.headers = h
    BY <1>1 DEF Http!Line, Http!NoHeaders, HcItems
  <1>3. PICK y \in HcItems, z \in HcItems : y = Http!Line("status") /\ z = Http!Line("empty")
    BY HcLineIs
  <1>4. y.kind = "status" /\ z.kind = "empty"
    BY <1>3, HcLineIs
  <1>5. Http!Head3(h) = <<y, x, z>>
    BY <1>1, <1>3 DEF Http!Head3
  <1>6. <<y, x, z>> \in Seq(HcItems) /\ Len(<<y, x, z>>) = 3
    BY <1>2
  <1> QED BY <1>2, <1>4, <1>5, <1>6

LEMMA BytesItems ==
    ASSUME NEW q \in Nat, NEW d \in Nat, NEW l \in Nat
    PROVE  /\ Http!Bytes(q, d + 1, d + l) \in Seq(HcItems) /\ Len(Http!Bytes(q, d + 1, d + l)) = l
           /\ \A m \in 1 .. l : Http!Bytes(q, d + 1, d + l)[m] = Http!Byte(q, d + m)
  <1>1. (d + l) - (d + 1) + 1 = l /\ \A m \in 1 .. l : (d + 1) + m - 1 = d + m /\ d + m \in Nat
    OBVIOUS
  <1>2. Http!Bytes(q, d + 1, d + l) = [m \in 1 .. l |-> Http!Byte(q, d + m)]
    BY <1>1 DEF Http!Bytes
  <1>3. \A m \in 1 .. l : Http!Byte(q, d + m) \in HcItems
    BY <1>1, HcByteIs
  <1>4. [m \in 1 .. l |-> Http!Byte(q, d + m)] \in [1 .. l -> HcItems]
    BY <1>3
  <1>5. [m \in 1 .. l |-> Http!Byte(q, d + m)] \in Seq(HcItems)
    BY <1>4, SeqDef
  <1>6. Len([m \in 1 .. l |-> Http!Byte(q, d + m)]) = l
    BY <1>5
  <1> QED BY <1>2, <1>5, <1>6

\* c is a chunk of the l bytes after the first d.
ChunkIs(c, q, d, l) ==
    /\ c \in Seq(HcItems) /\ Len(c) = l + 2 /\ c[1].kind = "size" /\ c[1].n = l
    /\ \A m \in 1 .. l : c[1 + m] = Http!Byte(q, d + m)
    /\ c[l + 2].kind = "empty"

LEMMA ChunkItems ==
    ASSUME NEW q \in Nat, NEW d \in Nat, NEW l \in Nat
    PROVE  ChunkIs(Http!Chunk(q, d + 1, d + l), q, d, l)
  <1>1. PICK s : s = Http!Bytes(q, d + 1, d + l)
    OBVIOUS
  <1>2. s \in Seq(HcItems) /\ Len(s) = l /\ \A m \in 1 .. l : s[m] = Http!Byte(q, d + m)
    BY <1>1, BytesItems
  <1>3. PICK x \in HcItems, y \in HcItems : x = Http!Size(l) /\ y = Http!Line("empty")
    BY HcSizeIs, HcLineIs
  <1>4. x.kind = "size" /\ x.n = l /\ y.kind = "empty"
    BY <1>3, HcSizeIs, HcLineIs
  <1>5. (d + l) - (d + 1) + 1 = l
    OBVIOUS
  <1>6. Http!Chunk(q, d + 1, d + l) = (<<x>> \o s) \o <<y>>
    BY <1>1, <1>3, <1>5 DEF Http!Chunk
  <1>7. /\ <<x>> \in Seq(HcItems) /\ Len(<<x>>) = 1 /\ <<x>>[1] = x
        /\ <<y>> \in Seq(HcItems) /\ Len(<<y>>) = 1 /\ <<y>>[1] = y
    OBVIOUS
  <1>8. PICK u : u = <<x>> \o s
    OBVIOUS
  <1>9. u \in Seq(HcItems) /\ Len(u) = 1 + l /\ u[1] = x /\ \A m \in 1 .. l : u[1 + m] = s[m]
    <2>1. 1 \in 1 .. 1
      OBVIOUS
    <2> QED BY <1>2, <1>7, <1>8, <2>1, HcJoined
  <1>10. PICK c : c = u \o <<y>>
    OBVIOUS
  <1>11. /\ c \in Seq(HcItems) /\ Len(c) = (1 + l) + 1
         /\ \A m \in 1 .. 1 + l : c[m] = u[m]
         /\ \A m \in 1 .. 1 : c[(1 + l) + m] = <<y>>[m]
    BY <1>7, <1>9, <1>10, HcJoined
  <1>12. (1 + l) + 1 = l + 2 /\ 1 \in 1 .. 1 + l /\ 1 \in 1 .. 1 /\ \A m \in 1 .. l : 1 + m \in 1 .. 1 + l
    OBVIOUS
  <1>13. c[1] = x /\ c[l + 2] = y /\ \A m \in 1 .. l : c[1 + m] = Http!Byte(q, d + m)
    BY <1>2, <1>7, <1>9, <1>11, <1>12
  <1>14. Len(c) = l + 2
    BY <1>11, <1>12
  <1>15. Http!Chunk(q, d + 1, d + l) = c
    BY <1>6, <1>8, <1>10
  <1> QED BY <1>4, <1>11, <1>13, <1>14, <1>15 DEF ChunkIs

\* The header, the chunk of the first k bytes, and, if there are more, that of the others.
ChunkedItems(a, k, q) ==
    /\ a \in Seq(HcItems)
    /\ a[1].kind = "status" /\ a[2].kind = "header" /\ a[2].headers.chunked = TRUE /\ a[3].kind = "empty"
    /\ a[4].kind = "size" /\ a[4].n = k
    /\ \A m \in 1 .. k : a[4 + m] = Http!Byte(q, 0 + m)
    /\ a[5 + k].kind = "empty"
    /\ \/ /\ k = BodyLength /\ Len(a) = 7 + k
          /\ a[6 + k].kind = "size" /\ a[6 + k].n = 0
       \/ /\ k < BodyLength /\ Len(a) = 9 + BodyLength
          /\ a[6 + k].kind = "size" /\ a[6 + k].n = BodyLength - k
          /\ \A m \in 1 .. BodyLength - k : a[6 + k + m] = Http!Byte(q, k + m)
          /\ a[7 + BodyLength].kind = "empty"
          /\ a[8 + BodyLength].kind = "size" /\ a[8 + BodyLength].n = 0

LEMMA ChunkedAnswer ==
    ASSUME BodyLength \in Nat \ {0}, NEW q \in Nat, NEW k \in 1 .. BodyLength, NEW a,
           a = Http!Head3(Http!Chunked) \o Http!Chunk(q, 1, k)
                 \o (IF k < BodyLength THEN Http!Chunk(q, k + 1, BodyLength) ELSE <<>>)
                 \o <<Http!Size(0), Http!Line("empty")>>
    PROVE  ChunkedItems(a, k, q)
  <1>1. PICK h : h = Http!Head3(Http!Chunked)
    OBVIOUS
  <1>2. /\ h \in Seq(HcItems) /\ Len(h) = 3 /\ h[1].kind = "status" /\ h[2].kind = "header"
        /\ h[2].headers.chunked = TRUE /\ h[3].kind = "empty"
    <2>1. Http!Chunked \in HcHeads /\ Http!Chunked.chunked = TRUE
      BY DEF Http!Chunked, HcHeads, WsFlags
    <2> QED BY <1>1, <2>1, Head3Items
  <1>3. PICK c : c = Http!Chunk(q, 1, k)
    OBVIOUS
  <1>4. /\ c \in Seq(HcItems) /\ Len(c) = k + 2 /\ c[1].kind = "size" /\ c[1].n = k
        /\ \A m \in 1 .. k : c[1 + m] = Http!Byte(q, 0 + m)
        /\ c[k + 2].kind = "empty"
    <2>1. k \in Nat /\ 0 + 1 = 1 /\ 0 + k = k
      OBVIOUS
    <2>2. Http!Chunk(q, 0 + 1, 0 + k) = c
      BY <1>3, <2>1, Zenon
    <2>3. 0 \in Nat
      OBVIOUS
    <2>4. ChunkIs(c, q, 0, k)
      BY <2>1, <2>2, <2>3, ChunkItems, Zenon
    <2> QED BY <2>4 DEF ChunkIs
  <1>5. PICK u : u = h \o c
    OBVIOUS
  <1>6. /\ u \in Seq(HcItems) /\ Len(u) = 3 + (k + 2)
        /\ \A m \in 1 .. 3 : u[m] = h[m]
        /\ \A m \in 1 .. k + 2 : u[3 + m] = c[m]
    <2>1. 3 \in Nat /\ k + 2 \in Nat
      OBVIOUS
    <2>2. HcJoin(u, h, c, 3, k + 2)
      BY <1>2, <1>4, <1>5, <2>1, HcJoinedAt, Zenon
    <2> QED BY <2>2 DEF HcJoin
  <1>7. /\ u[1].kind = "status" /\ u[2].kind = "header" /\ u[2].headers.chunked = TRUE /\ u[3].kind = "empty"
        /\ u[4].kind = "size" /\ u[4].n = k
        /\ \A m \in 1 .. k : u[4 + m] = Http!Byte(q, 0 + m)
        /\ u[5 + k].kind = "empty"
    <2>1. 1 \in 1 .. 3 /\ 2 \in 1 .. 3 /\ 3 \in 1 .. 3
      OBVIOUS
    <2>2. u[1] = h[1] /\ u[2] = h[2] /\ u[3] = h[3]
      BY <1>6, <2>1
    <2>3. /\ 1 \in 1 .. k + 2 /\ 3 + 1 = 4 /\ k + 2 \in 1 .. k + 2 /\ 3 + (k + 2) = 5 + k
          /\ \A m \in 1 .. k : 1 + m \in 1 .. k + 2 /\ 3 + (1 + m) = 4 + m
      OBVIOUS
    <2>4. u[4] = c[1] /\ u[5 + k] = c[k + 2] /\ \A m \in 1 .. k : u[4 + m] = c[1 + m]
      BY <1>6, <2>3
    <2> QED BY <1>2, <1>4, <2>2, <2>4
  <1>8. PICK x \in HcItems, y \in HcItems : x = Http!Size(0) /\ y = Http!Line("empty")
    BY HcSizeIs, HcLineIs
  <1>9. PICK e : e = <<x, y>>
    OBVIOUS
  <1>10. e \in Seq(HcItems) /\ Len(e) = 2 /\ e[1].kind = "size" /\ e[1].n = 0
    <2>1. x.kind = "size" /\ x.n = 0
      BY <1>8, HcSizeIs
    <2> QED BY <1>9, <2>1
  <1>11. \A m \in 1 .. 5 + k : m \in 1 .. Len(u)
    BY <1>6
  <1>12. /\ 1 \in 1 .. 5 + k /\ 2 \in 1 .. 5 + k /\ 3 \in 1 .. 5 + k /\ 4 \in 1 .. 5 + k
         /\ 5 + k \in 1 .. 5 + k /\ \A m \in 1 .. k : 4 + m \in 1 .. 5 + k
    OBVIOUS
  <1>13. Len(u) = 5 + k /\ 5 + k \in Nat
    BY <1>6
  <1>14. CASE k = BodyLength
    <2>1. a = u \o e
      <3>1. a = (u \o <<>>) \o e
        <4>1. ~(k < BodyLength)
          BY <1>14
        <4> QED BY <1>1, <1>3, <1>5, <1>8, <1>9, <4>1, Zenon
      <3>2. u \o <<>> = u
        BY <1>6, ConcatEmptySeq
      <3> QED BY <3>1, <3>2
    <2>2. /\ a \in Seq(HcItems) /\ Len(a) = (5 + k) + 2
          /\ \A m \in 1 .. 5 + k : a[m] = u[m]
          /\ \A m \in 1 .. 2 : a[(5 + k) + m] = e[m]
      <3>1. 2 \in Nat
        OBVIOUS
      <3>2. HcJoin(a, u, e, 5 + k, 2)
        BY <1>6, <1>10, <1>13, <2>1, <3>1, HcJoinedAt, Zenon
      <3> QED BY <3>2 DEF HcJoin
    <2>3. 1 \in 1 .. 2 /\ (5 + k) + 1 = 6 + k /\ (5 + k) + 2 = 7 + k
      OBVIOUS
    <2>4. a[6 + k] = e[1] /\ Len(a) = 7 + k
      BY <2>2, <2>3
    <2>5. /\ a[1] = u[1] /\ a[2] = u[2] /\ a[3] = u[3] /\ a[4] = u[4] /\ a[5 + k] = u[5 + k]
          /\ \A m \in 1 .. k : a[4 + m] = u[4 + m]
      BY <1>12, <2>2, Zenon
    <2>6. /\ a[1].kind = "status" /\ a[2].kind = "header" /\ a[2].headers.chunked = TRUE
          /\ a[3].kind = "empty" /\ a[4].kind = "size" /\ a[4].n = k /\ a[5 + k].kind = "empty"
      BY <1>7, <2>5, Zenon
    <2>7. ASSUME NEW m \in 1 .. k PROVE a[4 + m] = Http!Byte(q, 0 + m)
      <3>1. u[4 + m] = Http!Byte(q, 0 + m)
        BY <1>7, Zenon
      <3>2. a[4 + m] = u[4 + m]
        BY <2>5, Zenon
      <3> QED BY <3>1, <3>2, Zenon
    <2>8. a[6 + k].kind = "size" /\ a[6 + k].n = 0
      BY <1>10, <2>4, Zenon
    <2> QED BY <1>14, <2>2, <2>4, <2>6, <2>7, <2>8, Zenon DEF ChunkedItems
  <1>15. CASE k < BodyLength
    <2>1. PICK l \in Nat : BodyLength = k + l /\ BodyLength - k = l
      <3>1. BodyLength - k \in Nat /\ BodyLength = k + (BodyLength - k)
        BY <1>15
      <3> QED BY <3>1
    <2>2. PICK t : t = Http!Chunk(q, k + 1, k + l)
      OBVIOUS
    <2>3. /\ t \in Seq(HcItems) /\ Len(t) = l + 2 /\ t[1].kind = "size" /\ t[1].n = l
          /\ \A m \in 1 .. l : t[1 + m] = Http!Byte(q, k + m)
          /\ t[l + 2].kind = "empty"
      <3>1. k \in Nat
        OBVIOUS
      <3>2. ChunkIs(t, q, k, l)
        BY <2>2, <3>1, ChunkItems, Zenon
      <3> QED BY <3>2 DEF ChunkIs
    <2>4. PICK v : v = u \o t
      OBVIOUS
    <2>5. a = v \o e
      BY <1>1, <1>3, <1>5, <1>8, <1>9, <1>15, <2>1, <2>2, <2>4
    <2>6. /\ v \in Seq(HcItems) /\ Len(v) = (5 + k) + (l + 2)
          /\ \A m \in 1 .. 5 + k : v[m] = u[m]
          /\ \A m \in 1 .. l + 2 : v[(5 + k) + m] = t[m]
      <3>1. l + 2 \in Nat
        OBVIOUS
      <3>2. HcJoin(v, u, t, 5 + k, l + 2)
        BY <1>6, <1>13, <2>3, <2>4, <3>1, HcJoinedAt, Zenon
      <3> QED BY <3>2 DEF HcJoin
    <2>7. PICK z \in Nat : z = 7 + (k + l)
      OBVIOUS
    <2>8. /\ (5 + k) + (l + 2) = z /\ z + 2 = 9 + (k + l) /\ z + 1 = 8 + (k + l)
          /\ \A m \in 1 .. 5 + k : m \in 1 .. z
          /\ \A m \in 1 .. l + 2 : (5 + k) + m \in 1 .. z
          /\ (5 + k) + 1 = 6 + k /\ 1 \in 1 .. l + 2 /\ l + 2 \in 1 .. l + 2 /\ 1 \in 1 .. 2
          /\ \A m \in 1 .. l : 1 + m \in 1 .. l + 2 /\ (5 + k) + (1 + m) = 6 + k + m
      BY <2>7
    <2>9. /\ a \in Seq(HcItems) /\ Len(a) = z + 2
          /\ \A m \in 1 .. z : a[m] = v[m]
          /\ \A m \in 1 .. 2 : a[z + m] = e[m]
      <3>1. Len(v) = z
        BY <2>6, <2>8, Zenon
      <3>2. 2 \in Nat
        OBVIOUS
      <3>3. HcJoin(a, v, e, z, 2)
        BY <1>10, <2>5, <2>6, <3>1, <3>2, HcJoinedAt, Zenon
      <3> QED BY <3>3 DEF HcJoin
    <2>10. \A m \in 1 .. 5 + k : a[m] = u[m]
      BY <2>6, <2>8, <2>9
    <2>11. \A m \in 1 .. l + 2 : a[(5 + k) + m] = t[m]
      BY <2>6, <2>8, <2>9
    <2>12. /\ a[1] = u[1] /\ a[2] = u[2] /\ a[3] = u[3] /\ a[4] = u[4] /\ a[5 + k] = u[5 + k]
           /\ \A m \in 1 .. k : a[4 + m] = u[4 + m]
      BY <1>12, <2>10
    <2>13. /\ a[6 + k] = t[1] /\ a[7 + (k + l)] = t[l + 2] /\ a[8 + (k + l)] = e[1]
           /\ \A m \in 1 .. l : a[6 + k + m] = t[1 + m]
      <3>1. a[z + 1] = e[1]
        BY <2>8, <2>9, Zenon
      <3>2. a[(5 + k) + 1] = t[1] /\ a[(5 + k) + (l + 2)] = t[l + 2]
        BY <2>8, <2>11, Zenon
      <3>3. \A m \in 1 .. l : a[(5 + k) + (1 + m)] = t[1 + m]
        BY <2>8, <2>11, Zenon
      <3>4. \A m \in 1 .. l : a[6 + k + m] = t[1 + m]
        BY <2>8, <3>3, Zenon
      <3> QED BY <2>7, <2>8, <3>1, <3>2, <3>4, Zenon
    <2>14. Len(a) = 9 + (k + l)
      BY <2>8, <2>9, Zenon
    <2>15. /\ a[1].kind = "status" /\ a[2].kind = "header" /\ a[2].headers.chunked = TRUE
           /\ a[3].kind = "empty" /\ a[4].kind = "size" /\ a[4].n = k /\ a[5 + k].kind = "empty"
      BY <1>7, <2>12, Zenon
    <2>16. ASSUME NEW m \in 1 .. k PROVE a[4 + m] = Http!Byte(q, 0 + m)
      <3>1. u[4 + m] = Http!Byte(q, 0 + m)
        BY <1>7, Zenon
      <3>2. a[4 + m] = u[4 + m]
        BY <2>12, Zenon
      <3> QED BY <3>1, <3>2, Zenon
    <2>17. /\ a[6 + k].kind = "size" /\ a[6 + k].n = BodyLength - k
           /\ a[7 + BodyLength].kind = "empty" /\ a[8 + BodyLength].kind = "size" /\ a[8 + BodyLength].n = 0
           /\ Len(a) = 9 + BodyLength
      BY <1>10, <2>1, <2>3, <2>13, <2>14, Zenon
    <2>18. \A m \in 1 .. BodyLength - k : a[6 + k + m] = Http!Byte(q, k + m)
      BY <2>1, <2>3, <2>13, Zenon
    <2> QED BY <1>15, <2>9, <2>15, <2>16, <2>17, <2>18, Zenon DEF ChunkedItems
  <1>16. k = BodyLength \/ k < BodyLength
    OBVIOUS
  <1> QED BY <1>14, <1>15, <1>16

HcPlace(kindOf, n, left, c) == [at |-> kindOf, n |-> n, left |-> left, chunked |-> c]

LEMMA PlainLabelled ==
    ASSUME NEW q \in Nat, NEW l \in Nat, NEW a \in Seq(HcItems), Len(a) = 3 + l,
           a[1].kind = "status", a[2].kind = "header", a[2].headers.chunked = FALSE, a[3].kind = "empty",
           \A m \in 1 .. l : a[3 + m] = Http!Byte(q, m)
    PROVE  \E P : Labelled(a, P, q)
  <1>1. PICK P : P = [i \in Nat |-> IF i = 0 THEN HcPlace("status", 0, 0, FALSE)
                                    ELSE IF i = 1 THEN HcPlace("header", 0, 0, FALSE)
                                    ELSE IF i = 2 THEN HcPlace("end", 0, 0, FALSE)
                                    ELSE HcPlace("body", i - 3, 0, FALSE)]
    OBVIOUS
  <1>2. P \in [Nat -> HcPlaces]
    BY <1>1 DEF HcPlace, HcPlaces, WsFlags
  <1>3. /\ P[0].at = "status" /\ P[0].n = 0 /\ P[1].at = "header" /\ P[1].n = 0
        /\ P[2].at = "end" /\ P[2].n = 0 /\ P[2].chunked = FALSE
    BY <1>1 DEF HcPlace
  <1>4. \A m \in Nat : P[3 + m].at = "body" /\ P[3 + m].n = m
    <2>1. \A m \in Nat : 3 + m \in Nat /\ 3 + m # 0 /\ 3 + m # 1 /\ 3 + m # 2 /\ (3 + m) - 3 = m
      OBVIOUS
    <2>2. ASSUME NEW m \in Nat PROVE P[3 + m] = HcPlace("body", (3 + m) - 3, 0, FALSE)
      BY <1>1, <2>1, Zenon
    <2>3. ASSUME NEW m \in Nat PROVE P[3 + m] = HcPlace("body", m, 0, FALSE)
      BY <2>1, <2>2, Zenon
    <2>4. ASSUME NEW m \in Nat PROVE P[3 + m].at = "body" /\ P[3 + m].n = m
      <3>1. HcPlace("body", m, 0, FALSE).at = "body" /\ HcPlace("body", m, 0, FALSE).n = m
        BY DEF HcPlace
      <3> QED BY <2>3, <3>1, Zenon
    <2> QED BY <2>4
  <1>5. P[3].at = "body" /\ P[3].n = 0
    <2>1. 0 \in Nat /\ 3 + 0 = 3
      OBVIOUS
    <2> QED BY <1>4, <2>1
  <1>6. ASSUME NEW i \in 0 .. Len(a) - 1 PROVE Leads(a, P, i, q)
    <2>1. CASE i = 0
      BY <1>3, <2>1 DEF Leads
    <2>2. CASE i = 1
      <3>1. 1 + 1 = 2
        OBVIOUS
      <3> QED BY <1>3, <2>2, <3>1, Zenon DEF Leads
    <2>3. CASE i = 2
      BY <1>3, <1>5, <2>3 DEF Leads
    <2>4. CASE i \in 3 .. Len(a) - 1
      <3>1. PICK d \in Nat : i = 3 + d /\ Len(a) - i = l - d /\ d <= l
        <4>1. i - 3 \in Nat /\ i = 3 + (i - 3) /\ Len(a) - i = l - (i - 3) /\ i - 3 <= l
          BY <2>4
        <4> QED BY <4>1
      <3>2. ASSUME NEW m \in 1 .. l - d
            PROVE  /\ a[i + m] = Http!Byte(q, P[i].n + m)
                   /\ P[i + m].at = "body" /\ P[i + m].n = P[i].n + m
        <4>1. i + m = 3 + (d + m) /\ d + m \in 1 .. l /\ d + m \in Nat
          BY <3>1
        <4>2. a[3 + (d + m)] = Http!Byte(q, d + m)
          BY <4>1
        <4>3. P[i].n = d
          BY <1>4, <3>1
        <4> QED BY <1>4, <4>1, <4>2, <4>3
      <3>3. P[i].at = "body"
        BY <1>4, <3>1
      <3> QED BY <3>1, <3>2, <3>3 DEF Leads
    <2> QED BY <2>1, <2>2, <2>3, <2>4
  <1> QED BY <1>2, <1>3, <1>6 DEF Labelled

LEMMA ChunkedLabelled ==
    ASSUME BodyLength \in Nat \ {0}, NEW q \in Nat, NEW k \in 1 .. BodyLength, NEW a, ChunkedItems(a, k, q)
    PROVE  \E P : Labelled(a, P, q)
  <1>0. PICK l \in Nat : BodyLength = k + l /\ BodyLength - k = l /\ k \in Nat /\ k # 0
    <2>1. BodyLength - k \in Nat /\ BodyLength = k + (BodyLength - k) /\ k \in Nat /\ k # 0
      OBVIOUS
    <2> QED BY <2>1
  <1>1. PICK P : P = [i \in Nat |->
                        IF i = 0 THEN HcPlace("status", 0, 0, FALSE)
                        ELSE IF i = 1 THEN HcPlace("header", 0, 0, FALSE)
                        ELSE IF i = 2 THEN HcPlace("end", 0, 0, TRUE)
                        ELSE IF i = 3 THEN HcPlace("size", 0, 0, FALSE)
                        ELSE IF i < 4 + k THEN HcPlace("data", i - 4, k - (i - 4), FALSE)
                        ELSE IF i = 4 + k THEN HcPlace("crlf", k, 0, FALSE)
                        ELSE IF i = 5 + k THEN HcPlace("size", k, 0, FALSE)
                        ELSE IF l = 0 THEN HcPlace("trailer", k, 0, FALSE)
                        ELSE IF i < 6 + k + l THEN HcPlace("data", i - 6, l - (i - (6 + k)), FALSE)
                        ELSE IF i = 6 + k + l THEN HcPlace("crlf", k + l, 0, FALSE)
                        ELSE IF i = 7 + k + l THEN HcPlace("size", k + l, 0, FALSE)
                        ELSE HcPlace("trailer", k + l, 0, FALSE)]
    OBVIOUS
  <1>2. P \in [Nat -> HcPlaces]
    <2> SUFFICES ASSUME NEW i \in Nat PROVE P[i] \in HcPlaces
      BY <1>1
    <2>1. \A k0 \in {"status", "header", "end", "body", "size", "crlf", "data", "trailer"},
             n \in Nat, left \in Nat, c \in WsFlags : HcPlace(k0, n, left, c) \in HcPlaces
      BY DEF HcPlace, HcPlaces
    <2>2. TRUE \in WsFlags /\ FALSE \in WsFlags
      BY DEF WsFlags
    <2>3. ~(i = 0) /\ ~(i = 1) /\ ~(i = 2) /\ ~(i = 3) /\ i < 4 + k => i - 4 \in Nat /\ k - (i - 4) \in Nat
      BY <1>0
    <2>4. ~(i < 4 + k) /\ ~(i = 4 + k) /\ ~(i = 5 + k) /\ i < 6 + k + l
             => i - 6 \in Nat /\ l - (i - (6 + k)) \in Nat
      BY <1>0
    <2>5. k + l \in Nat
      BY <1>0
    <2> QED BY <1>0, <1>1, <2>1, <2>2, <2>3, <2>4, <2>5
  <1>3. /\ P[0].at = "status" /\ P[0].n = 0 /\ P[1].at = "header" /\ P[1].n = 0
        /\ P[2].at = "end" /\ P[2].n = 0 /\ P[2].chunked = TRUE /\ P[3].at = "size" /\ P[3].n = 0
    BY <1>1 DEF HcPlace
  <1>4. \A m \in 0 .. k - 1 : P[4 + m].at = "data" /\ P[4 + m].n = m /\ P[4 + m].left = k - m
    <2> SUFFICES ASSUME NEW m \in 0 .. k - 1
                 PROVE  P[4 + m].at = "data" /\ P[4 + m].n = m /\ P[4 + m].left = k - m
      OBVIOUS
    <2>1. /\ 4 + m \in Nat /\ 4 + m # 0 /\ 4 + m # 1 /\ 4 + m # 2 /\ 4 + m # 3 /\ 4 + m < 4 + k
          /\ (4 + m) - 4 = m
      BY <1>0
    <2>2. P[4 + m] = HcPlace("data", m, k - m, FALSE)
      BY <1>1, <2>1
    <2> QED BY <2>2 DEF HcPlace
  <1>5. P[4 + k].at = "crlf" /\ P[4 + k].n = k /\ P[5 + k].at = "size" /\ P[5 + k].n = k
    <2>1. /\ 4 + k \in Nat /\ 4 + k # 0 /\ 4 + k # 1 /\ 4 + k # 2 /\ 4 + k # 3 /\ ~(4 + k < 4 + k)
          /\ 5 + k \in Nat /\ 5 + k # 0 /\ 5 + k # 1 /\ 5 + k # 2 /\ 5 + k # 3 /\ ~(5 + k < 4 + k)
          /\ 5 + k # 4 + k
      BY <1>0
    <2>2. P[4 + k] = HcPlace("crlf", k, 0, FALSE) /\ P[5 + k] = HcPlace("size", k, 0, FALSE)
      BY <1>1, <2>1
    <2> QED BY <2>2 DEF HcPlace
  <1>6. l = 0 => P[6 + k].at = "trailer" /\ P[6 + k].n = k
    <2>1. /\ 6 + k \in Nat /\ 6 + k # 0 /\ 6 + k # 1 /\ 6 + k # 2 /\ 6 + k # 3 /\ ~(6 + k < 4 + k)
          /\ 6 + k # 4 + k /\ 6 + k # 5 + k
      BY <1>0
    <2>2. l = 0 => P[6 + k] = HcPlace("trailer", k, 0, FALSE)
      BY <1>1, <2>1
    <2> QED BY <2>2 DEF HcPlace
  <1>7. ASSUME l # 0
        PROVE  /\ \A m \in 0 .. l - 1 : /\ P[6 + k + m].at = "data" /\ P[6 + k + m].n = k + m
                                        /\ P[6 + k + m].left = l - m
               /\ P[6 + k + l].at = "crlf" /\ P[6 + k + l].n = k + l
               /\ P[7 + k + l].at = "size" /\ P[7 + k + l].n = k + l
               /\ P[8 + k + l].at = "trailer" /\ P[8 + k + l].n = k + l
    <2>1. \A i \in Nat : i >= 6 + k => /\ i # 0 /\ i # 1 /\ i # 2 /\ i # 3 /\ ~(i < 4 + k)
                                      /\ i # 4 + k /\ i # 5 + k
      BY <1>0
    <2>2. ASSUME NEW m \in 0 .. l - 1
          PROVE  P[6 + k + m].at = "data" /\ P[6 + k + m].n = k + m /\ P[6 + k + m].left = l - m
      <3>1. /\ 6 + k + m \in Nat /\ 6 + k + m >= 6 + k /\ 6 + k + m < 6 + k + l
            /\ (6 + k + m) - 6 = k + m /\ (6 + k + m) - (6 + k) = m
        BY <1>0
      <3>2. P[6 + k + m] = HcPlace("data", k + m, l - m, FALSE)
        BY <1>1, <1>7, <2>1, <3>1
      <3> QED BY <3>2 DEF HcPlace
    <2>3. /\ 6 + k + l \in Nat /\ 6 + k + l >= 6 + k /\ ~(6 + k + l < 6 + k + l)
          /\ 7 + k + l \in Nat /\ 7 + k + l >= 6 + k /\ ~(7 + k + l < 6 + k + l) /\ 7 + k + l # 6 + k + l
          /\ 8 + k + l \in Nat /\ 8 + k + l >= 6 + k /\ ~(8 + k + l < 6 + k + l) /\ 8 + k + l # 6 + k + l
          /\ 8 + k + l # 7 + k + l
      BY <1>0
    <2>4. P[6 + k + l] = HcPlace("crlf", k + l, 0, FALSE)
      BY <1>1, <1>7, <2>1, <2>3
    <2>5. P[7 + k + l] = HcPlace("size", k + l, 0, FALSE)
      BY <1>1, <1>7, <2>1, <2>3
    <2>6. P[8 + k + l] = HcPlace("trailer", k + l, 0, FALSE)
      BY <1>1, <1>7, <2>1, <2>3
    <2> QED BY <2>2, <2>4, <2>5, <2>6 DEF HcPlace
  <1>8. /\ a \in Seq(HcItems)
        /\ a[1].kind = "status" /\ a[2].kind = "header" /\ a[2].headers.chunked = TRUE /\ a[3].kind = "empty"
        /\ a[4].kind = "size" /\ a[4].n = k
        /\ \A m \in 1 .. k : a[4 + m] = Http!Byte(q, m)
        /\ a[5 + k].kind = "empty"
    <2>1. \A m \in 1 .. k : 0 + m = m
      OBVIOUS
    <2> QED BY <2>1 DEF ChunkedItems
  <1>9. \/ l = 0 /\ Len(a) = 7 + k /\ a[6 + k].kind = "size" /\ a[6 + k].n = 0
        \/ /\ l # 0 /\ Len(a) = 9 + k + l
           /\ a[6 + k].kind = "size" /\ a[6 + k].n = l
           /\ \A m \in 1 .. l : a[6 + k + m] = Http!Byte(q, k + m)
           /\ a[7 + k + l].kind = "empty" /\ a[8 + k + l].kind = "size" /\ a[8 + k + l].n = 0
    <2>1. /\ (k = k + l <=> l = 0) /\ (k < k + l <=> l # 0)
          /\ 7 + (k + l) = 7 + k + l /\ 8 + (k + l) = 8 + k + l /\ 9 + (k + l) = 9 + k + l
      BY <1>0
    <2> QED BY <1>0, <2>1 DEF ChunkedItems
  <1>10. ASSUME NEW i \in 0 .. Len(a) - 1 PROVE Leads(a, P, i, q)
    <2>1. CASE i = 0
      BY <1>3, <1>8, <2>1 DEF Leads
    <2>2. CASE i = 1
      <3>1. 1 + 1 = 2
        OBVIOUS
      <3> QED BY <1>3, <1>8, <2>2, <3>1, Zenon DEF Leads
    <2>3. CASE i = 2
      BY <1>3, <1>8, <2>3 DEF Leads
    <2>4. CASE i = 3
      <3>1. 0 \in 0 .. k - 1 /\ 4 + 0 = 4 /\ k - 0 = k
        BY <1>0
      <3>2. P[4].at = "data" /\ P[4].n = 0 /\ P[4].left = k
        BY <1>4, <3>1
      <3>3. 3 + 1 = 4
        OBVIOUS
      <3> QED BY <1>0, <1>3, <1>8, <2>4, <3>2, <3>3 DEF Leads
    <2>5. CASE i \in 4 .. 3 + k
      <3>1. PICK d \in 0 .. k - 1 : i = 4 + d
        <4>1. i - 4 \in 0 .. k - 1 /\ i = 4 + (i - 4)
          BY <1>0, <2>5
        <4> QED BY <4>1
      <3>2. P[i].at = "data" /\ P[i].n = d /\ P[i].left = k - d
        BY <1>4, <3>1
      <3>3. ASSUME NEW m \in 1 .. k - d
            PROVE  /\ a[i + m] = Http!Byte(q, d + m) /\ P[i + m].n = d + m
                   /\ m < k - d => P[i + m].at = "data" /\ P[i + m].left = (k - d) - m
        <4>1. i + m = 4 + (d + m) /\ d + m \in 1 .. k /\ k - (d + m) = (k - d) - m
          BY <1>0, <3>1
        <4>2. CASE m < k - d
          <5>1. d + m \in 0 .. k - 1
            <6>1. d \in Nat /\ m \in Nat /\ k \in Nat
              BY <1>0
            <6>2. d + m < k /\ d + m \in Nat
              BY <4>2, <6>1
            <6> QED BY <6>1, <6>2
          <5>2. P[4 + (d + m)].at = "data" /\ P[4 + (d + m)].n = d + m /\ P[4 + (d + m)].left = k - (d + m)
            BY <1>4, <5>1, Zenon
          <5>3. a[4 + (d + m)] = Http!Byte(q, d + m)
            BY <1>8, <4>1, Zenon
          <5> QED BY <4>1, <5>2, <5>3, Zenon
        <4>3. CASE ~(m < k - d)
          <5>1. d + m = k
            BY <1>0, <3>1, <4>3
          <5> QED BY <1>5, <1>8, <4>1, <4>3, <5>1
        <4> QED BY <4>2, <4>3
      <3>4. k - d # 0 /\ i + (k - d) = 4 + k
        BY <1>0, <3>1
      <3> QED BY <1>5, <3>2, <3>3, <3>4 DEF Leads
    <2>6. CASE i = 4 + k
      <3>1. (4 + k) + 1 = 5 + k
        BY <1>0
      <3> QED BY <1>5, <1>8, <2>6, <3>1 DEF Leads
    <2>7. CASE i = 5 + k
      <3>1. (5 + k) + 1 = 6 + k
        BY <1>0
      <3>2. CASE l = 0
        BY <1>5, <1>6, <1>9, <2>7, <3>1, <3>2 DEF Leads
      <3>3. CASE l # 0
        <4>1. 0 \in 0 .. l - 1 /\ 6 + k + 0 = 6 + k /\ k + 0 = k /\ l - 0 = l
          BY <1>0, <3>3
        <4>2. P[6 + k].at = "data" /\ P[6 + k].n = k /\ P[6 + k].left = l
          BY <1>7, <3>3, <4>1
        <4> QED BY <1>5, <1>9, <2>7, <3>1, <3>3, <4>2 DEF Leads
      <3> QED BY <3>2, <3>3
    <2>8. CASE i = 6 + k /\ l = 0
      BY <1>6, <2>8 DEF Leads
    <2>9. CASE i \in 6 + k .. 5 + k + l /\ l # 0
      <3>1. PICK d \in 0 .. l - 1 : i = 6 + k + d
        <4>1. i - (6 + k) \in 0 .. l - 1 /\ i = 6 + k + (i - (6 + k))
          BY <1>0, <2>9
        <4> QED BY <4>1
      <3>2. P[i].at = "data" /\ P[i].n = k + d /\ P[i].left = l - d
        BY <1>7, <2>9, <3>1
      <3>3. ASSUME NEW m \in 1 .. l - d
            PROVE  /\ a[i + m] = Http!Byte(q, (k + d) + m) /\ P[i + m].n = (k + d) + m
                   /\ m < l - d => P[i + m].at = "data" /\ P[i + m].left = (l - d) - m
        <4>1. /\ i + m = 6 + k + (d + m) /\ d + m \in 1 .. l /\ l - (d + m) = (l - d) - m
              /\ k + (d + m) = (k + d) + m
          BY <1>0, <3>1
        <4>2. CASE m < l - d
          <5>1. d + m \in 0 .. l - 1
            BY <1>0, <3>1, <4>2
          <5> QED BY <1>7, <1>9, <2>9, <4>1, <5>1
        <4>3. CASE ~(m < l - d)
          <5>1. d + m = l
            BY <1>0, <3>1, <4>3
          <5> QED BY <1>7, <1>9, <2>9, <4>1, <4>3, <5>1
        <4> QED BY <4>2, <4>3
      <3>4. l - d # 0 /\ i + (l - d) = 6 + k + l
        <4>1. l - d # 0 /\ k \in Nat /\ d \in Nat
          BY <1>0
        <4>2. 6 + k + d + (l - d) = 6 + k + l
          BY <4>1
        <4> QED BY <3>1, <4>1, <4>2
      <3>5. P[i].left # 0 /\ P[i + P[i].left].at = "crlf"
        BY <1>7, <2>9, <3>2, <3>4, Zenon
      <3>6. \A m \in 1 .. P[i].left :
               /\ a[i + m] = Http!Byte(q, P[i].n + m) /\ P[i + m].n = P[i].n + m
               /\ m < P[i].left => P[i + m].at = "data" /\ P[i + m].left = P[i].left - m
        BY <3>2, <3>3, Zenon
      <3> QED BY <3>2, <3>5, <3>6, Zenon DEF Leads
    <2>10. CASE i = 6 + k + l /\ l # 0
      <3>1. (6 + k + l) + 1 = 7 + k + l
        BY <1>0
      <3> QED BY <1>7, <1>9, <2>10, <3>1 DEF Leads
    <2>11. CASE i = 7 + k + l /\ l # 0
      <3>1. (7 + k + l) + 1 = 8 + k + l
        BY <1>0
      <3> QED BY <1>7, <1>9, <2>11, <3>1 DEF Leads
    <2>12. CASE i = 8 + k + l /\ l # 0
      BY <1>7, <2>12 DEF Leads
    <2>13. i = 0 \/ i = 1 \/ i = 2 \/ i = 3 \/ i \in 4 .. 3 + k \/ i = 4 + k \/ i = 5 + k \/ i >= 6 + k
      BY <1>0
    <2>14. i >= 6 + k /\ l = 0 => i = 6 + k
      BY <1>0, <1>9
    <2>15. i >= 6 + k /\ l # 0 => \/ i \in 6 + k .. 5 + k + l \/ i = 6 + k + l
                                  \/ i = 7 + k + l \/ i = 8 + k + l
      BY <1>0, <1>9
    <2> QED BY <2>1, <2>2, <2>3, <2>4, <2>5, <2>6, <2>7, <2>8, <2>9, <2>10, <2>11, <2>12,
               <2>13, <2>14, <2>15
  <1> QED BY <1>2, <1>3, <1>8, <1>10 DEF Labelled

LEMMA AnswersLabelled ==
    ASSUME BodyLength \in Nat \ {0}, NEW q \in Nat, NEW a \in Http!Answers(q)
    PROVE  a \in Seq(HcItems) /\ \E P : Labelled(a, P, q)
  <1>1. PICK s : s = Http!Bytes(q, 1, BodyLength)
    OBVIOUS
  <1>2. s \in Seq(HcItems) /\ Len(s) = BodyLength /\ \A m \in 1 .. BodyLength : s[m] = Http!Byte(q, m)
    <2>1. 0 + 1 = 1 /\ 0 + BodyLength = BodyLength /\ \A m \in 1 .. BodyLength : 0 + m = m
      OBVIOUS
    <2>2. 0 \in Nat /\ BodyLength \in Nat
      OBVIOUS
    <2>3. Http!Bytes(q, 0 + 1, 0 + BodyLength) = s
      BY <1>1, <2>1, Zenon
    <2>4. /\ Http!Bytes(q, 0 + 1, 0 + BodyLength) \in Seq(HcItems)
          /\ Len(Http!Bytes(q, 0 + 1, 0 + BodyLength)) = BodyLength
          /\ \A m \in 1 .. BodyLength : Http!Bytes(q, 0 + 1, 0 + BodyLength)[m] = Http!Byte(q, 0 + m)
      BY <2>2, BytesItems, Zenon
    <2> QED BY <2>1, <2>3, <2>4, Zenon
  <1>3. ASSUME NEW h \in HcHeads, h.chunked = FALSE PROVE \E P : Labelled(Http!Head3(h), P, q)
    <2>1. PICK b : b = Http!Head3(h)
      OBVIOUS
    <2>2. /\ b \in Seq(HcItems) /\ Len(b) = 3 + 0 /\ b[1].kind = "status" /\ b[2].kind = "header"
          /\ b[2].headers.chunked = FALSE /\ b[3].kind = "empty"
      BY <1>3, <2>1, Head3Items
    <2>3. 0 \in Nat /\ \A m \in 1 .. 0 : b[3 + m] = Http!Byte(q, m)
      OBVIOUS
    <2> QED BY <2>1, <2>2, <2>3, PlainLabelled
  <1>4. ASSUME NEW h \in HcHeads, h.chunked = FALSE PROVE \E P : Labelled(Http!Head3(h) \o s, P, q)
    <2>1. PICK b, c : b = Http!Head3(h) /\ c = b \o s
      OBVIOUS
    <2>2. /\ b \in Seq(HcItems) /\ Len(b) = 3 /\ b[1].kind = "status" /\ b[2].kind = "header"
          /\ b[2].headers.chunked = FALSE /\ b[3].kind = "empty"
      BY <1>4, <2>1, Head3Items
    <2>3. /\ c \in Seq(HcItems) /\ Len(c) = 3 + BodyLength
          /\ \A m \in 1 .. 3 : c[m] = b[m]
          /\ \A m \in 1 .. BodyLength : c[3 + m] = s[m]
      <3>1. 3 \in Nat /\ BodyLength \in Nat
        OBVIOUS
      <3>2. HcJoin(c, b, s, 3, BodyLength)
        BY <1>2, <2>1, <2>2, <3>1, HcJoinedAt, Zenon
      <3> QED BY <3>2 DEF HcJoin
    <2>4. 1 \in 1 .. 3 /\ 2 \in 1 .. 3 /\ 3 \in 1 .. 3
      OBVIOUS
    <2>5. c[1] = b[1] /\ c[2] = b[2] /\ c[3] = b[3] /\ \A m \in 1 .. BodyLength : c[3 + m] = Http!Byte(q, m)
      BY <1>2, <2>3, <2>4
    <2>6. BodyLength \in Nat
      OBVIOUS
    <2> QED BY <2>1, <2>2, <2>3, <2>5, <2>6, PlainLabelled
  <1>5. PICK h1, h2, h3, h4 : /\ h1 = [length |-> BodyLength, chunked |-> FALSE, connection |-> "keep"]
                              /\ h2 = [length |-> BodyLength, chunked |-> FALSE, connection |-> "close"]
                              /\ h3 = [length |-> 0, chunked |-> FALSE, connection |-> "keep"]
                              /\ h4 = [length |-> 0, chunked |-> FALSE, connection |-> "none"]
    OBVIOUS
  <1>6. /\ h1 \in HcHeads /\ h2 \in HcHeads /\ h3 \in HcHeads /\ h4 \in HcHeads
        /\ h1.chunked = FALSE /\ h2.chunked = FALSE /\ h3.chunked = FALSE /\ h4.chunked = FALSE
    BY <1>5 DEF HcHeads, WsFlags
  <1>7. \/ a = Http!Head3(h1) \o s \/ a = Http!Head3(h2) \o s \/ a = Http!Head3(h3) \/ a = Http!Head3(h4) \o s
        \/ \E k \in 1 .. BodyLength :
              a = Http!Head3(Http!Chunked) \o Http!Chunk(q, 1, k)
                    \o (IF k < BodyLength THEN Http!Chunk(q, k + 1, BodyLength) ELSE <<>>)
                    \o <<Http!Size(0), Http!Line("empty")>>
    BY <1>1, <1>5, Zenon DEF Http!Answers
  <1>8. \E P : Labelled(a, P, q)
    <2>1. CASE a = Http!Head3(h1) \o s \/ a = Http!Head3(h2) \o s \/ a = Http!Head3(h3) \/ a = Http!Head3(h4) \o s
      BY <1>3, <1>4, <1>6, <2>1
    <2>2. ASSUME NEW k \in 1 .. BodyLength,
                 a = Http!Head3(Http!Chunked) \o Http!Chunk(q, 1, k)
                       \o (IF k < BodyLength THEN Http!Chunk(q, k + 1, BodyLength) ELSE <<>>)
                       \o <<Http!Size(0), Http!Line("empty")>>
          PROVE  \E P : Labelled(a, P, q)
      BY <2>2, ChunkedAnswer, ChunkedLabelled
    <2> QED BY <1>7, <2>1, <2>2
  <1>9. a \in Seq(HcItems)
    BY <1>8 DEF Labelled
  <1> QED BY <1>8, <1>9

\* A line is taken off, and nothing else changes.
LEMMA RestIs ==
    ASSUME NEW r \in HcRequests, Http!HasCompleteLine(r.rx_buffer)
    PROVE  /\ Http!Rest(r) \in HcRequests
           /\ Http!Rest(r) = [r EXCEPT !.rx_buffer = Ws!Cut(r.rx_buffer, Http!EndOfLine(r.rx_buffer))]
           /\ Http!line(r) = r.rx_buffer[1] /\ r.rx_buffer[1] \in HcItems
  <1>1. PICK buf \in Seq(HcItems) : buf = r.rx_buffer
    BY RequestFields
  <1>2. PICK e \in 1 .. Len(buf) : e = Http!EndOfLine(buf)
    BY <1>1, LineEnds
  <1>3. e \in 0 .. Len(buf) /\ 1 \in 1 .. Len(buf) /\ buf[1] \in HcItems
    <2>1. PICK x \in Nat : Len(buf) = x
      OBVIOUS
    <2>2. e \in 0 .. x /\ 1 \in 1 .. x
      BY <2>1
    <2> QED BY <2>1, <2>2
  <1>4. Ws!Cut(buf, e) \in Seq(HcItems)
    BY <1>3, CutItems
  <1>5. Http!Rest(r) = [r EXCEPT !.rx_buffer = Ws!Cut(buf, e)]
    BY <1>1, <1>2 DEF Http!Rest, Ws!Cut, HcRequests
  <1>6. [r EXCEPT !.rx_buffer = Ws!Cut(buf, e)] \in HcRequests
    BY <1>4 DEF HcRequests
  <1>7. Http!line(r) = buf[1]
    BY <1>1 DEF Http!line, Http!GetNextLine
  <1> QED BY <1>1, <1>2, <1>3, <1>5, <1>6, <1>7

\* In the states that read lines the loop goes on only when there is one.
LEMMA LineThere ==
    ASSUME NEW r \in HcRequests, ~Http!Stops(r)
    PROVE  /\ r.rx_buffer # <<>> /\ r.state # "COMPLETE"
           /\ r.state \in {"STATUS_LINE", "HEADERS", "CHUNK_SIZE", "CHUNK_TRAILER"}
                 => Http!HasCompleteLine(r.rx_buffer)
  BY DEF Http!Stops, Http!ByLine

LEMMA ParseIs ==
    ASSUME NEW r
    PROVE  /\ r.state = "STATUS_LINE" => Http!Parse(r) = Http!ParseStatusLine(r)
           /\ r.state = "HEADERS" => Http!Parse(r) = IF Http!line(r).kind = "empty"
                                                    THEN Http!HeadersEnd(r) ELSE Http!ParseHeaderLine(r)
           /\ r.state = "BODY" => Http!Parse(r) = Http!ParseRegularBody(r)
           /\ r.state = "CHUNK_SIZE" => Http!Parse(r) = Http!ParseChunkSize(r)
           /\ r.state = "CHUNK_DATA" => Http!Parse(r) = Http!ParseChunkData(r)
           /\ r.state = "CHUNK_TRAILER" => Http!Parse(r) = Http!ParseTrailer(r)
  <1>1. r.state = "STATUS_LINE" => Http!Parse(r) = Http!ParseStatusLine(r)
    BY Zenon DEF Http!Parse
  <1>2. r.state = "HEADERS" => Http!Parse(r) = IF Http!line(r).kind = "empty"
                                               THEN Http!HeadersEnd(r) ELSE Http!ParseHeaderLine(r)
    BY Zenon DEF Http!Parse
  <1>3. r.state = "BODY" => Http!Parse(r) = Http!ParseRegularBody(r)
    BY Zenon DEF Http!Parse
  <1>4. r.state = "CHUNK_SIZE" => Http!Parse(r) = Http!ParseChunkSize(r)
    BY Zenon DEF Http!Parse
  <1>5. r.state = "CHUNK_DATA" => Http!Parse(r) = Http!ParseChunkData(r)
    BY Zenon DEF Http!Parse
  <1>6. r.state = "CHUNK_TRAILER" => Http!Parse(r) = Http!ParseTrailer(r)
    BY Zenon DEF Http!Parse
  <1> QED BY <1>1, <1>2, <1>3, <1>4, <1>5, <1>6

\* The steps of the parser, field by field, for those that the place depends on.
LEMMA StatusParsed ==
    ASSUME NEW r \in HcRequests, ~Http!Stops(r), r.state = "STATUS_LINE"
    PROVE  /\ Http!Parse(r) \in HcRequests
           /\ r.rx_buffer[1].kind = "status" =>
                 /\ Http!Parse(r).state = "HEADERS" /\ Http!Parse(r).body = r.body
                 /\ Http!Parse(r).rx_buffer = Ws!Cut(r.rx_buffer, Http!EndOfLine(r.rx_buffer))
  <1>1. Http!HasCompleteLine(r.rx_buffer)
    BY LineThere
  <1>2. PICK p \in HcRequests : p = Http!Rest(r)
    BY <1>1, RestIs
  <1>3. p.body = r.body /\ p.rx_buffer = Ws!Cut(r.rx_buffer, Http!EndOfLine(r.rx_buffer))
    BY <1>1, <1>2, RestIs DEF HcRequests
  <1>4. Http!Parse(r) = IF r.rx_buffer[1].kind = "status" THEN [p EXCEPT !.state = "HEADERS"]
                        ELSE [p EXCEPT !.failed = TRUE]
    BY <1>1, <1>2, RestIs, ParseIs DEF Http!ParseStatusLine
  <1>5. [p EXCEPT !.state = "HEADERS"] \in HcRequests /\ [p EXCEPT !.failed = TRUE] \in HcRequests
    BY DEF HcRequests, HcStates, WsFlags
  <1>6. /\ [p EXCEPT !.state = "HEADERS"].state = "HEADERS" /\ [p EXCEPT !.state = "HEADERS"].body = p.body
        /\ [p EXCEPT !.state = "HEADERS"].rx_buffer = p.rx_buffer
    BY DEF HcRequests
  <1> QED BY <1>3, <1>4, <1>5, <1>6

LEMMA HeadersParsed ==
    ASSUME NEW r \in HcRequests, ~Http!Stops(r), r.state = "HEADERS"
    PROVE  /\ Http!Parse(r) \in HcRequests
           /\ r.rx_buffer[1].kind = "header" =>
                 /\ Http!Parse(r).state = "HEADERS" /\ Http!Parse(r).body = r.body
                 /\ Http!Parse(r).headers = r.rx_buffer[1].headers
                 /\ Http!Parse(r).rx_buffer = Ws!Cut(r.rx_buffer, Http!EndOfLine(r.rx_buffer))
           /\ r.rx_buffer[1].kind = "empty" =>
                 /\ Http!Parse(r).state = IF r.headers.chunked = TRUE THEN "CHUNK_SIZE" ELSE "BODY"
                 /\ Http!Parse(r).body = r.body
                 /\ Http!Parse(r).rx_buffer = Ws!Cut(r.rx_buffer, Http!EndOfLine(r.rx_buffer))
  <1>1. Http!HasCompleteLine(r.rx_buffer)
    BY LineThere
  <1>2. PICK p \in HcRequests : p = Http!Rest(r)
    BY <1>1, RestIs
  <1>3. p.body = r.body /\ p.rx_buffer = Ws!Cut(r.rx_buffer, Http!EndOfLine(r.rx_buffer)) /\ p.keep = r.keep
    BY <1>1, <1>2, RestIs DEF HcRequests
  <1>4. PICK x \in HcItems : x = r.rx_buffer[1] /\ Http!line(r) = x
    BY <1>1, RestIs
  <1>5. x.headers \in HcHeads /\ x.kind \in {"status", "header", "empty", "byte", "size"}
    BY HcItemFields
  <1>6. CASE x.kind = "empty"
    <2>1. PICK h \in HcHeads : h = r.headers
      BY RequestFields
    <2>2. PICK z \in WsFlags : z = h.chunked
      BY DEF HcHeads
    <2>3. PICK k : k = IF h.connection = "none" THEN p.keep ELSE h.connection = "keep"
      OBVIOUS
    <2>4. k \in WsFlags
      <3>1. p.keep \in WsFlags
        BY RequestFields
      <3>2. (h.connection = "keep") \in BOOLEAN
        OBVIOUS
      <3> QED BY <2>3, <3>1, <3>2, Zenon DEF WsFlags
    <2>5. PICK s : s = IF z = TRUE THEN "CHUNK_SIZE" ELSE "BODY"
      OBVIOUS
    <2>6. PICK l \in Nat : l = h.length
      BY DEF HcHeads
    <2>7. Http!Parse(r) = [p EXCEPT !.received = TRUE, !.keep = k, !.chunked = z, !.length = l, !.state = s]
      <3>1. Http!Parse(r) = Http!HeadersEnd(r)
        BY <1>4, <1>6, ParseIs
      <3>2. Http!HeadersEnd(r) = [p EXCEPT !.received = TRUE,
                                           !.keep = IF h.connection = "none" THEN @ ELSE h.connection = "keep",
                                           !.chunked = h.chunked, !.length = h.length,
                                           !.state = IF h.chunked THEN "CHUNK_SIZE" ELSE "BODY"]
        BY <1>2, <2>1, Zenon DEF Http!HeadersEnd
      <3>3. (IF h.chunked THEN "CHUNK_SIZE" ELSE "BODY") = s
        BY <2>2, <2>5 DEF WsFlags
      <3> DEFINE p1 == [p EXCEPT !.received = TRUE]
      <3>4. p1.keep = p.keep
        BY DEF HcRequests
      <3>5. [p EXCEPT !.received = TRUE, !.keep = IF h.connection = "none" THEN @ ELSE h.connection = "keep"]
               = [p1 EXCEPT !.keep = k]
        BY <2>3, <3>4
      <3> QED BY <2>2, <2>6, <3>1, <3>2, <3>3, <3>5, Zenon
    <2>8. s \in HcStates
      BY <2>5 DEF HcStates
    <2>9. PICK t \in WsFlags : t = TRUE
      BY DEF WsFlags
    <2>10. PICK p1 \in HcRequests : p1 = [p EXCEPT !.received = t] /\ p1.body = p.body /\ p1.rx_buffer = p.rx_buffer
      <3>1. PICK x0 : x0 = [p EXCEPT !.received = t]
        OBVIOUS
      <3>2. x0 \in HcRequests /\ x0.body = p.body /\ x0.rx_buffer = p.rx_buffer
        BY <3>1 DEF HcRequests
      <3> QED BY <3>1, <3>2
    <2>11. PICK p2 \in HcRequests : p2 = [p1 EXCEPT !.keep = k] /\ p2.body = p1.body /\ p2.rx_buffer = p1.rx_buffer
      <3>1. PICK x0 : x0 = [p1 EXCEPT !.keep = k]
        OBVIOUS
      <3>2. x0 \in HcRequests /\ x0.body = p1.body /\ x0.rx_buffer = p1.rx_buffer
        BY <3>1, <2>4 DEF HcRequests
      <3> QED BY <3>1, <3>2
    <2>12. PICK p3 \in HcRequests : p3 = [p2 EXCEPT !.chunked = z] /\ p3.body = p2.body /\ p3.rx_buffer = p2.rx_buffer
      <3>1. PICK x0 : x0 = [p2 EXCEPT !.chunked = z]
        OBVIOUS
      <3>2. x0 \in HcRequests /\ x0.body = p2.body /\ x0.rx_buffer = p2.rx_buffer
        BY <3>1 DEF HcRequests
      <3> QED BY <3>1, <3>2
    <2>13. PICK p4 \in HcRequests : p4 = [p3 EXCEPT !.length = l] /\ p4.body = p3.body /\ p4.rx_buffer = p3.rx_buffer
      <3>1. PICK x0 : x0 = [p3 EXCEPT !.length = l]
        OBVIOUS
      <3>2. x0 \in HcRequests /\ x0.body = p3.body /\ x0.rx_buffer = p3.rx_buffer
        BY <3>1 DEF HcRequests
      <3> QED BY <3>1, <3>2
    <2>14. PICK p5 \in HcRequests : /\ p5 = [p4 EXCEPT !.state = s] /\ p5.state = s
                                    /\ p5.body = p4.body /\ p5.rx_buffer = p4.rx_buffer
      <3>1. PICK x0 : x0 = [p4 EXCEPT !.state = s]
        OBVIOUS
      <3>2. x0 \in HcRequests /\ x0.state = s /\ x0.body = p4.body /\ x0.rx_buffer = p4.rx_buffer
        BY <3>1, <2>8 DEF HcRequests
      <3> QED BY <3>1, <3>2
    <2>15. Http!Parse(r) = p5
      BY <2>7, <2>9, <2>10, <2>11, <2>12, <2>13, <2>14, Zenon
    <2> QED BY <1>3, <1>4, <1>6, <2>1, <2>2, <2>5, <2>10, <2>11, <2>12, <2>13, <2>14, <2>15
  <1>7. CASE x.kind # "empty"
    <2>1. Http!Parse(r) = IF x.kind = "header" THEN [p EXCEPT !.headers = x.headers]
                          ELSE [p EXCEPT !.failed = TRUE]
      BY <1>2, <1>4, <1>7, ParseIs DEF Http!ParseHeaderLine
    <2>2. [p EXCEPT !.headers = x.headers] \in HcRequests /\ [p EXCEPT !.failed = TRUE] \in HcRequests
      BY <1>5 DEF HcRequests, WsFlags
    <2>3. /\ [p EXCEPT !.headers = x.headers].state = p.state /\ [p EXCEPT !.headers = x.headers].body = p.body
          /\ [p EXCEPT !.headers = x.headers].rx_buffer = p.rx_buffer
          /\ [p EXCEPT !.headers = x.headers].headers = x.headers
      BY DEF HcRequests
    <2>4. p.state = "HEADERS"
      BY <1>1, <1>2, RestIs DEF HcRequests
    <2> QED BY <1>3, <1>4, <1>7, <2>1, <2>2, <2>3, <2>4
  <1> QED BY <1>6, <1>7

LEMMA BodyParsed ==
    ASSUME NEW r \in HcRequests, r.state = "BODY"
    PROVE  /\ Http!Parse(r) \in HcRequests
           /\ Http!Parse(r).state \in {"BODY", "COMPLETE"}
           /\ Http!Parse(r).body = r.body \o r.rx_buffer /\ Http!Parse(r).rx_buffer = <<>>
  <1>1. PICK b \in Seq(HcItems) : b = r.body \o r.rx_buffer
    BY RequestFields, HcJoined
  <1>2. PICK all \in Nat : all = r.total + Len(r.rx_buffer)
    <2>1. r.total \in Nat /\ Len(r.rx_buffer) \in Nat
      BY RequestFields
    <2> QED BY <2>1
  <1>3. PICK done1 \in BOOLEAN : done1 = (r.length > 0 /\ all >= r.length)
    OBVIOUS
  <1>4. PICK s : s = IF done1 THEN "COMPLETE" ELSE "BODY"
    OBVIOUS
  <1>5. PICK e : e = IF done1 THEN TRUE ELSE r.eof
    OBVIOUS
  <1>6. e \in WsFlags
    <2>1. r.eof \in WsFlags
      BY RequestFields
    <2> QED BY <1>5, <2>1, Zenon DEF WsFlags
  <1>7. PICK n0 \in Seq(HcItems) : n0 = <<>>
    BY NoItems
  <1>8. PICK p1 \in HcRequests : /\ p1 = [r EXCEPT !.body = b] /\ p1.body = b /\ p1.total = r.total
                                 /\ p1.rx_buffer = r.rx_buffer /\ p1.state = r.state /\ p1.eof = r.eof
    <2>1. PICK x0 : x0 = [r EXCEPT !.body = b]
      OBVIOUS
    <2>2. x0 \in HcRequests /\ x0.body = b /\ x0.total = r.total /\ x0.rx_buffer = r.rx_buffer /\ x0.state = r.state /\ x0.eof = r.eof
      BY <2>1 DEF HcRequests
    <2> QED BY <2>1, <2>2
  <1>9. PICK p2 \in HcRequests : /\ p2 = [p1 EXCEPT !.total = all] /\ p2.body = p1.body
                                 /\ p2.rx_buffer = p1.rx_buffer /\ p2.state = p1.state /\ p2.eof = p1.eof
    <2>1. PICK x0 : x0 = [p1 EXCEPT !.total = all]
      OBVIOUS
    <2>2. x0 \in HcRequests /\ x0.body = p1.body /\ x0.rx_buffer = p1.rx_buffer /\ x0.state = p1.state /\ x0.eof = p1.eof
      BY <2>1 DEF HcRequests
    <2> QED BY <2>1, <2>2
  <1>10. PICK p3 \in HcRequests : /\ p3 = [p2 EXCEPT !.rx_buffer = n0] /\ p3.body = p2.body
                                  /\ p3.rx_buffer = n0 /\ p3.state = p2.state /\ p3.eof = p2.eof
    <2>1. PICK x0 : x0 = [p2 EXCEPT !.rx_buffer = n0]
      OBVIOUS
    <2>2. x0 \in HcRequests /\ x0.body = p2.body /\ x0.rx_buffer = n0 /\ x0.state = p2.state /\ x0.eof = p2.eof
      BY <2>1 DEF HcRequests
    <2> QED BY <2>1, <2>2
  <1>11. s \in HcStates
    BY <1>4 DEF HcStates
  <1>12. PICK p4 \in HcRequests : /\ p4 = [p3 EXCEPT !.state = s] /\ p4.body = p3.body
                                  /\ p4.rx_buffer = p3.rx_buffer /\ p4.state = s /\ p4.eof = p3.eof
    <2>1. PICK x0 : x0 = [p3 EXCEPT !.state = s]
      OBVIOUS
    <2>2. x0 \in HcRequests /\ x0.body = p3.body /\ x0.rx_buffer = p3.rx_buffer /\ x0.state = s /\ x0.eof = p3.eof
      BY <2>1, <1>11 DEF HcRequests
    <2> QED BY <2>1, <2>2
  <1>13. PICK p5 \in HcRequests : /\ p5 = [p4 EXCEPT !.eof = e] /\ p5.body = p4.body
                                  /\ p5.rx_buffer = p4.rx_buffer /\ p5.state = p4.state
    <2>1. PICK x0 : x0 = [p4 EXCEPT !.eof = e]
      OBVIOUS
    <2>2. x0 \in HcRequests /\ x0.body = p4.body /\ x0.rx_buffer = p4.rx_buffer /\ x0.state = p4.state
      BY <2>1, <1>6 DEF HcRequests
    <2> QED BY <2>1, <2>2
  <1>14. Http!Parse(r) = p5
    <2>1. Http!Parse(r) = [r EXCEPT !.body = @ \o r.rx_buffer, !.total = all, !.rx_buffer = <<>>,
                                    !.state = IF done1 THEN "COMPLETE" ELSE @, !.eof = IF done1 THEN TRUE ELSE @]
      BY <1>2, <1>3, ParseIs, Zenon DEF Http!ParseRegularBody
    <2>2. p1 = [r EXCEPT !.body = @ \o r.rx_buffer]
      BY <1>1, <1>8
    <2>3. p3 = [r EXCEPT !.body = @ \o r.rx_buffer, !.total = all, !.rx_buffer = <<>>]
      BY <1>7, <1>9, <1>10, <2>2, Zenon
    <2>4. p4 = [p3 EXCEPT !.state = IF done1 THEN "COMPLETE" ELSE @]
      <3>1. p3.state = "BODY"
        BY <1>8, <1>9, <1>10
      <3> QED BY <1>4, <1>12, <3>1
    <2>5. p5 = [p4 EXCEPT !.eof = IF done1 THEN TRUE ELSE @]
      <3>1. p4.eof = r.eof
        BY <1>8, <1>9, <1>10, <1>12
      <3> QED BY <1>5, <1>13, <3>1, Zenon
    <2>6. p4 = [r EXCEPT !.body = @ \o r.rx_buffer, !.total = all, !.rx_buffer = <<>>,
                         !.state = IF done1 THEN "COMPLETE" ELSE @]
      BY <2>3, <2>4, Zenon
    <2>7. p5 = [r EXCEPT !.body = @ \o r.rx_buffer, !.total = all, !.rx_buffer = <<>>,
                         !.state = IF done1 THEN "COMPLETE" ELSE @, !.eof = IF done1 THEN TRUE ELSE @]
      BY <2>5, <2>6, Zenon
    <2> QED BY <2>1, <2>7, Zenon
  <1>15. p5.body = b
    BY <1>8, <1>9, <1>10, <1>12, <1>13, Zenon
  <1>16. p5.rx_buffer = n0 /\ p5.state = s
    BY <1>10, <1>12, <1>13, Zenon
  <1>17. s \in {"BODY", "COMPLETE"}
    BY <1>4
  <1> QED BY <1>1, <1>7, <1>14, <1>15, <1>16, <1>17, Zenon

LEMMA ChunkSizeParsed ==
    ASSUME NEW r \in HcRequests, ~Http!Stops(r), r.state = "CHUNK_SIZE"
    PROVE  /\ Http!Parse(r) \in HcRequests /\ Http!Parse(r).body = r.body
           /\ r.rx_buffer[1].kind = "size" /\ r.rx_buffer[1].n # 0 =>
                 /\ Http!Parse(r).state = "CHUNK_DATA" /\ Http!Parse(r).chunk = r.rx_buffer[1].n
                 /\ Http!Parse(r).rx_buffer = Ws!Cut(r.rx_buffer, Http!EndOfLine(r.rx_buffer))
           /\ ~(r.rx_buffer[1].kind = "size" /\ r.rx_buffer[1].n # 0) => Http!Parse(r).state = "CHUNK_TRAILER"
  <1>1. Http!HasCompleteLine(r.rx_buffer)
    BY LineThere
  <1>2. PICK p \in HcRequests : p = Http!Rest(r)
    BY <1>1, RestIs
  <1>3. p.body = r.body /\ p.rx_buffer = Ws!Cut(r.rx_buffer, Http!EndOfLine(r.rx_buffer))
    BY <1>1, <1>2, RestIs DEF HcRequests
  <1>4. PICK x \in HcItems : x = r.rx_buffer[1] /\ Http!line(r) = x
    BY <1>1, RestIs
  <1>5. PICK n \in Nat : n = IF x.kind = "size" THEN x.n ELSE 0
    BY HcItemFields
  <1>6. PICK s : s = IF n = 0 THEN "CHUNK_TRAILER" ELSE "CHUNK_DATA"
    OBVIOUS
  <1>7. s \in HcStates
    BY <1>6 DEF HcStates
  <1>8. PICK p1 \in HcRequests : /\ p1 = [p EXCEPT !.chunk = n] /\ p1.chunk = n
                                 /\ p1.body = p.body /\ p1.rx_buffer = p.rx_buffer
    <2>1. PICK x0 : x0 = [p EXCEPT !.chunk = n]
      OBVIOUS
    <2>2. x0 \in HcRequests /\ x0.chunk = n /\ x0.body = p.body /\ x0.rx_buffer = p.rx_buffer
      BY <2>1 DEF HcRequests
    <2> QED BY <2>1, <2>2
  <1>9. PICK p2 \in HcRequests : /\ p2 = [p1 EXCEPT !.state = s] /\ p2.state = s /\ p2.chunk = n
                                 /\ p2.body = p.body /\ p2.rx_buffer = p.rx_buffer
    <2>1. PICK x0 : x0 = [p1 EXCEPT !.state = s]
      OBVIOUS
    <2>2. x0 \in HcRequests /\ x0.state = s /\ x0.chunk = n /\ x0.body = p.body /\ x0.rx_buffer = p.rx_buffer
      BY <2>1, <1>7, <1>8 DEF HcRequests
    <2> QED BY <2>1, <2>2
  <1>10. Http!Parse(r) = p2
    <2>1. Http!Parse(r) = [p EXCEPT !.chunk = n, !.state = s]
      BY <1>2, <1>4, <1>5, <1>6, ParseIs, Zenon DEF Http!ParseChunkSize
    <2> QED BY <1>8, <1>9, <2>1, Zenon
  <1> QED BY <1>3, <1>4, <1>5, <1>6, <1>9, <1>10

\* n bytes of the chunk are there, and, if it ends with them, perhaps the line end.
LEMMA ChunkDataParsed ==
    ASSUME NEW r \in HcRequests, r.state = "CHUNK_DATA"
    PROVE  /\ Http!Parse(r) \in HcRequests
           /\ \E n \in Nat : /\ n = IF Len(r.rx_buffer) < r.chunk THEN Len(r.rx_buffer) ELSE r.chunk
                             /\ Http!Parse(r).body = r.body \o SubSeq(r.rx_buffer, 1, n)
                             /\ Http!Parse(r).chunk = r.chunk - n
                             /\ n # r.chunk => /\ Http!Parse(r).state = "CHUNK_DATA"
                                               /\ Http!Parse(r).rx_buffer = Ws!Cut(r.rx_buffer, n)
                             /\ n = r.chunk =>
                                   /\ Http!Parse(r).state = "CHUNK_SIZE"
                                   /\ Http!Parse(r).rx_buffer =
                                         IF /\ Ws!Cut(r.rx_buffer, n) # <<>>
                                            /\ Ws!Cut(r.rx_buffer, n)[1].kind = "empty"
                                         THEN Tail(Ws!Cut(r.rx_buffer, n)) ELSE Ws!Cut(r.rx_buffer, n)
  <1>1. PICK buf \in Seq(HcItems), c \in Nat, size \in Nat : buf = r.rx_buffer /\ c = r.chunk /\ size = Len(buf)
    BY RequestFields
  <1>2. PICK n \in Nat : n = IF size < c THEN size ELSE c
    OBVIOUS
  <1>3. n <= size /\ n <= c /\ n \in 0 .. size /\ c - n \in Nat /\ n \in 0 .. Len(buf)
    BY <1>1, <1>2
  <1>4. PICK rest \in Seq(HcItems) : rest = Ws!Cut(buf, n)
    BY <1>3, CutItems
  <1>5. PICK front \in Seq(HcItems) : front = SubSeq(buf, 1, n)
    BY <1>3, HcFront
  <1>6. PICK b \in Seq(HcItems) : b = r.body \o front
    BY RequestFields, HcJoined
  <1>7. PICK total \in Nat : total = r.total + n
    <2>1. r.total \in Nat
      BY RequestFields
    <2> QED BY <2>1
  <1>8. PICK more \in Nat : more = c - n
    BY <1>3
  <1>9. PICK left \in Seq(HcItems) :
           left = IF n = c /\ rest # <<>> /\ rest[1].kind = "empty" THEN Tail(rest) ELSE rest
    <2>1. rest # <<>> => Tail(rest) \in Seq(HcItems)
      BY HeadTailProperties
    <2> QED BY <2>1
  <1>10. PICK s \in HcStates : s = IF n = c THEN "CHUNK_SIZE" ELSE "CHUNK_DATA"
    BY DEF HcStates
  <1>11. PICK p1 \in HcRequests : /\ p1 = [r EXCEPT !.body = b] /\ p1.body = b /\ p1.total = r.total
                                  /\ p1.chunk = c /\ p1.state = r.state
    <2>1. PICK x0 : x0 = [r EXCEPT !.body = b]
      OBVIOUS
    <2>2. x0 \in HcRequests /\ x0.body = b /\ x0.total = r.total /\ x0.chunk = c /\ x0.state = r.state
      BY <2>1, <1>1 DEF HcRequests
    <2> QED BY <2>1, <2>2
  <1>12. PICK p2 \in HcRequests : /\ p2 = [p1 EXCEPT !.total = total] /\ p2.body = b
                                  /\ p2.chunk = c /\ p2.state = r.state
    <2>1. PICK x0 : x0 = [p1 EXCEPT !.total = total]
      OBVIOUS
    <2>2. x0 \in HcRequests /\ x0.body = b /\ x0.chunk = c /\ x0.state = r.state
      BY <2>1, <1>11 DEF HcRequests
    <2> QED BY <2>1, <2>2
  <1>13. PICK p3 \in HcRequests : /\ p3 = [p2 EXCEPT !.chunk = more] /\ p3.body = b
                                  /\ p3.chunk = more /\ p3.state = r.state
    <2>1. PICK x0 : x0 = [p2 EXCEPT !.chunk = more]
      OBVIOUS
    <2>2. x0 \in HcRequests /\ x0.body = b /\ x0.chunk = more /\ x0.state = r.state
      BY <2>1, <1>12 DEF HcRequests
    <2> QED BY <2>1, <2>2
  <1>14. PICK p4 \in HcRequests : /\ p4 = [p3 EXCEPT !.rx_buffer = left] /\ p4.body = b
                                  /\ p4.chunk = more /\ p4.state = r.state /\ p4.rx_buffer = left
    <2>1. PICK x0 : x0 = [p3 EXCEPT !.rx_buffer = left]
      OBVIOUS
    <2>2. x0 \in HcRequests /\ x0.body = b /\ x0.chunk = more /\ x0.state = r.state /\ x0.rx_buffer = left
      BY <2>1, <1>13 DEF HcRequests
    <2> QED BY <2>1, <2>2
  <1>15. PICK p5 \in HcRequests : /\ p5 = [p4 EXCEPT !.state = s] /\ p5.body = b
                                  /\ p5.chunk = more /\ p5.state = s /\ p5.rx_buffer = left
    <2>1. PICK x0 : x0 = [p4 EXCEPT !.state = s]
      OBVIOUS
    <2>2. x0 \in HcRequests /\ x0.body = b /\ x0.chunk = more /\ x0.state = s /\ x0.rx_buffer = left
      BY <2>1, <1>14 DEF HcRequests
    <2> QED BY <2>1, <2>2
  <1>16. Http!Parse(r) = p5
    <2>1. Http!Parse(r) =
             [r EXCEPT !.body = @ \o front, !.total = @ + n, !.chunk = @ - n,
                       !.rx_buffer = IF n = c /\ rest # <<>> /\ rest[1].kind = "empty" THEN Tail(rest) ELSE rest,
                       !.state = IF n = c THEN "CHUNK_SIZE" ELSE @]
      <3>1. Http!Parse(r) = Http!ParseChunkData(r)
        BY ParseIs
      <3>2. rest = SubSeq(buf, n + 1, Len(buf))
        BY <1>4 DEF Ws!Cut
      <3> QED BY <1>1, <1>2, <1>5, <3>1, <3>2, Zenon DEF Http!ParseChunkData
    <2>2. p1 = [r EXCEPT !.body = @ \o front]
      BY <1>6, <1>11
    <2>3. p2 = [p1 EXCEPT !.total = @ + n]
      BY <1>7, <1>11, <1>12
    <2>4. p3 = [p2 EXCEPT !.chunk = @ - n]
      BY <1>8, <1>12, <1>13
    <2>5. p5 = [p4 EXCEPT !.state = IF n = c THEN "CHUNK_SIZE" ELSE @]
      BY <1>10, <1>14, <1>15
    <2>6. p4 = [r EXCEPT !.body = @ \o front, !.total = @ + n, !.chunk = @ - n,
                         !.rx_buffer = IF n = c /\ rest # <<>> /\ rest[1].kind = "empty" THEN Tail(rest) ELSE rest]
      <3>1. p3 = [r EXCEPT !.body = @ \o front, !.total = @ + n, !.chunk = @ - n]
        BY <2>2, <2>3, <2>4, Zenon
      <3>2. p4 = [p3 EXCEPT !.rx_buffer = IF n = c /\ rest # <<>> /\ rest[1].kind = "empty" THEN Tail(rest) ELSE rest]
        BY <1>9, <1>14, Zenon
      <3> QED BY <3>1, <3>2, Zenon
    <2>7. p5 = [r EXCEPT !.body = @ \o front, !.total = @ + n, !.chunk = @ - n,
                         !.rx_buffer = IF n = c /\ rest # <<>> /\ rest[1].kind = "empty" THEN Tail(rest) ELSE rest,
                         !.state = IF n = c THEN "CHUNK_SIZE" ELSE @]
      BY <2>5, <2>6, Zenon
    <2> QED BY <2>1, <2>7, Zenon
  <1>17. n = IF Len(r.rx_buffer) < r.chunk THEN Len(r.rx_buffer) ELSE r.chunk
    BY <1>1, <1>2
  <1>18. p5.body = r.body \o SubSeq(r.rx_buffer, 1, n) /\ p5.chunk = r.chunk - n
    BY <1>1, <1>5, <1>6, <1>8, <1>15
  <1>19. n # r.chunk => p5.state = "CHUNK_DATA" /\ p5.rx_buffer = Ws!Cut(r.rx_buffer, n)
    BY <1>1, <1>4, <1>9, <1>10, <1>15
  <1>20. n = r.chunk => /\ p5.state = "CHUNK_SIZE"
                        /\ p5.rx_buffer = IF /\ Ws!Cut(r.rx_buffer, n) # <<>>
                                             /\ Ws!Cut(r.rx_buffer, n)[1].kind = "empty"
                                          THEN Tail(Ws!Cut(r.rx_buffer, n)) ELSE Ws!Cut(r.rx_buffer, n)
    BY <1>1, <1>4, <1>9, <1>10, <1>15
  <1> QED BY <1>16, <1>17, <1>18, <1>19, <1>20

LEMMA TrailerParsed ==
    ASSUME NEW r \in HcRequests, ~Http!Stops(r), r.state = "CHUNK_TRAILER"
    PROVE  /\ Http!Parse(r) \in HcRequests /\ Http!Parse(r).body = r.body
           /\ Http!Parse(r).state \in PastBody
  <1>1. Http!HasCompleteLine(r.rx_buffer)
    BY LineThere
  <1>2. PICK p \in HcRequests : p = Http!Rest(r)
    BY <1>1, RestIs
  <1>3. p.body = r.body /\ p.state = "CHUNK_TRAILER"
    BY <1>1, <1>2, RestIs DEF HcRequests
  <1>4. Http!Parse(r) = IF Http!line(r).kind = "empty" THEN [p EXCEPT !.state = "COMPLETE", !.eof = TRUE] ELSE p
    BY <1>2, ParseIs, Zenon DEF Http!ParseTrailer
  <1>5. PICK u : u = [p EXCEPT !.state = "COMPLETE", !.eof = TRUE]
    OBVIOUS
  <1>6. u \in HcRequests /\ u.body = p.body /\ u.state = "COMPLETE"
    BY <1>5 DEF HcRequests, HcStates, WsFlags
  <1> QED BY <1>2, <1>3, <1>4, <1>5, <1>6 DEF PastBody

LEMMA ParseTyped ==
    ASSUME NEW r \in HcRequests, ~Http!Stops(r)
    PROVE  Http!Parse(r) \in HcRequests
  <1>1. r.state \in HcStates /\ r.state # "COMPLETE"
    BY RequestFields, LineThere
  <1> QED BY <1>1, StatusParsed, HeadersParsed, BodyParsed, ChunkSizeParsed, ChunkDataParsed, TrailerParsed
          DEF HcStates

\* What the parser r is about to read, after place i of answer a.
Reading(r, coming, d, q, a, P, i) ==
    /\ HcSound(r, coming, d, q) /\ ~Http!Stops(r) /\ r.state \notin PastBody
    /\ Labelled(a, P, q) /\ i \in Nat /\ Window(r.rx_buffer \o coming, a, i)
    /\ Agrees(r.state, r.headers, r.chunk, P[i]) /\ P[i].n = d + Len(r.body)

\* The buffer of parser r holds the items behind place i, one at least.
ReadingIs(r, coming, q, a, P, i) ==
    /\ r \in HcRequests /\ i \in Nat /\ i \in 0 .. Len(a) - 1 /\ Leads(a, P, i, q)
    /\ P \in [Nat -> HcPlaces]
    /\ r.rx_buffer \in Seq(HcItems) /\ r.rx_buffer # <<>> /\ r.rx_buffer[1] = a[i + 1]
    /\ i + Len(r.rx_buffer) <= Len(a)
    /\ \A j \in 1 .. Len(r.rx_buffer) : r.rx_buffer[j] = a[i + j]
    /\ \A l \in 0 .. Len(r.rx_buffer) : Window(Ws!Cut(r.rx_buffer, l) \o coming, a, i + l)

LEMMA ReadingItems ==
    ASSUME NEW coming \in Seq(HcItems), NEW r, NEW d \in Nat, NEW q \in Nat, NEW a, NEW P, NEW i,
           Reading(r, coming, d, q, a, P, i)
    PROVE  ReadingIs(r, coming, q, a, P, i)
  <1>1. r \in HcRequests /\ a \in Seq(HcItems) /\ i \in Nat /\ P \in [Nat -> HcPlaces]
    BY DEF Reading, HcSound, Labelled
  <1>2. PICK buf \in Seq(HcItems) : buf = r.rx_buffer
    BY <1>1, RequestFields
  <1>3. buf # <<>>
    BY <1>1, <1>2, LineThere DEF Reading
  <1>4. Window(buf \o coming, a, i)
    BY <1>2 DEF Reading
  <1>5. /\ i + Len(buf) <= Len(a) /\ \A j \in 1 .. Len(buf) : buf[j] = a[i + j]
        /\ \A l \in 0 .. Len(buf) : Window(Ws!Cut(buf, l) \o coming, a, i + l)
    BY <1>1, <1>4, WindowItems
  <1>6. PICK x \in Nat, z \in Nat : Len(buf) = x /\ Len(a) = z
    BY <1>1
  <1>7. x # 0
    BY <1>3, <1>6, EmptySeq
  <1>8. 1 \in 1 .. x /\ i \in 0 .. z - 1
    BY <1>1, <1>5, <1>6, <1>7
  <1>9. buf[1] = a[i + 1]
    BY <1>5, <1>6, <1>8
  <1>10. Leads(a, P, i, q)
    BY <1>6, <1>8 DEF Reading, Labelled
  <1> QED BY <1>1, <1>2, <1>3, <1>5, <1>6, <1>8, <1>9, <1>10 DEF ReadingIs

\* The parser has come to place k of the same answer.
LEMMA PlaceReached ==
    ASSUME NEW coming, NEW r \in HcRequests, NEW d, NEW q, NEW a, NEW P, NEW k \in Nat,
           Labelled(a, P, q), Window(r.rx_buffer \o coming, a, k),
           Agrees(r.state, r.headers, r.chunk, P[k]), P[k].n = d + Len(r.body),
           \A m \in 1 .. Len(r.body) : r.body[m] = Http!Byte(q, d + m)
    PROVE  HcSound(r, coming, d, q)
  BY DEF HcSound, AtPlace

\* The bytes b are those of the body after the first d.
BytesFrom(b, d, q) == \A m \in 1 .. Len(b) : b[m] = Http!Byte(q, d + m)

\* Bytes that are joined to the body follow those that are there.
Grown(b, w, d, q) == d + Len(b \o w) = (d + Len(b)) + Len(w) /\ BytesFrom(b \o w, d, q)

LEMMA BodyGrows ==
    ASSUME NEW b \in Seq(HcItems), NEW w \in Seq(HcItems), NEW d \in Nat, NEW q \in Nat,
           BytesFrom(b, d, q), BytesFrom(w, d + Len(b), q)
    PROVE  Grown(b, w, d, q)
  <1>1. PICK x \in Nat, y \in Nat : Len(b) = x /\ Len(w) = y
    OBVIOUS
  <1>2. /\ b \o w \in Seq(HcItems) /\ Len(b \o w) = x + y
        /\ \A m \in 1 .. x : (b \o w)[m] = b[m]
        /\ \A m \in 1 .. y : (b \o w)[x + m] = w[m]
    BY <1>1, HcJoined
  <1>3. ASSUME NEW m \in 1 .. x + y PROVE (b \o w)[m] = Http!Byte(q, d + m)
    <2>1. CASE m <= x
      BY <1>1, <1>2, <2>1 DEF BytesFrom
    <2>2. CASE ~(m <= x)
      <3>1. PICK k \in 1 .. y : m = x + k /\ (d + x) + k = d + m
        <4>1. m - x \in 1 .. y /\ m = x + (m - x) /\ (d + x) + (m - x) = d + m
          BY <2>2
        <4> QED BY <4>1
      <3> QED BY <1>1, <1>2, <3>1 DEF BytesFrom
    <2> QED BY <2>1, <2>2
  <1>4. d + (x + y) = (d + x) + y
    OBVIOUS
  <1> QED BY <1>1, <1>2, <1>3, <1>4 DEF Grown, BytesFrom

LEMMA OneLine ==
    ASSUME NEW coming \in Seq(HcItems), NEW r, NEW d \in Nat, NEW q \in Nat, NEW a, NEW P, NEW i,
           Reading(r, coming, d, q, a, P, i), a[i + 1].kind # "byte"
    PROVE  /\ Http!EndOfLine(r.rx_buffer) = 1
           /\ Window(Ws!Cut(r.rx_buffer, 1) \o coming, a, i + 1)
           /\ i + 1 \in Nat
  <1>0. ReadingIs(r, coming, q, a, P, i)
    BY ReadingItems, Zenon
  <1>1. PICK buf \in Seq(HcItems) : buf = r.rx_buffer /\ buf # <<>> /\ buf[1] = a[i + 1] /\ i \in Nat
    <2>1. r.rx_buffer \in Seq(HcItems) /\ r.rx_buffer # <<>> /\ r.rx_buffer[1] = a[i + 1] /\ i \in Nat
      BY <1>0 DEF ReadingIs
    <2> QED BY <2>1
  <1>2. Http!EndOfLine(buf) = 1
    BY <1>1, FirstLine
  <1>3. 1 \in 0 .. Len(buf)
    <2>1. PICK x \in Nat : Len(buf) = x
      OBVIOUS
    <2>2. x # 0
      BY <1>1, <2>1, EmptySeq
    <2>3. 1 \in 0 .. x
      BY <2>2
    <2> QED BY <2>1, <2>3, Zenon
  <1>4. Window(Ws!Cut(r.rx_buffer, 1) \o coming, a, i + 1)
    BY <1>0, <1>1, <1>3, Zenon DEF ReadingIs
  <1>5. i + 1 \in Nat
    BY <1>1
  <1> QED BY <1>1, <1>2, <1>4, <1>5

LEMMA LineSound ==
    ASSUME NEW coming \in Seq(HcItems), NEW r, NEW d \in Nat, NEW q \in Nat, NEW a, NEW P, NEW i,
           Reading(r, coming, d, q, a, P, i), r.state \in {"STATUS_LINE", "HEADERS", "CHUNK_SIZE"}
    PROVE  HcSound(Http!Parse(r), coming, d, q)
  <1>0. ReadingIs(r, coming, q, a, P, i)
    BY ReadingItems, Zenon
  <1>1. /\ r \in HcRequests /\ i \in Nat /\ Leads(a, P, i, q) /\ P \in [Nat -> HcPlaces]
        /\ r.rx_buffer[1] = a[i + 1] /\ ~Http!Stops(r) /\ Labelled(a, P, q)
        /\ Agrees(r.state, r.headers, r.chunk, P[i]) /\ P[i].n = d + Len(r.body)
        /\ \A m \in 1 .. Len(r.body) : r.body[m] = Http!Byte(q, d + m)
    <2>1. /\ r \in HcRequests /\ i \in Nat /\ Leads(a, P, i, q) /\ P \in [Nat -> HcPlaces]
          /\ r.rx_buffer[1] = a[i + 1]
      BY <1>0 DEF ReadingIs
    <2>2. /\ ~Http!Stops(r) /\ Labelled(a, P, q) /\ Agrees(r.state, r.headers, r.chunk, P[i])
          /\ P[i].n = d + Len(r.body) /\ HcSound(r, coming, d, q)
      BY DEF Reading
    <2>3. \A m \in 1 .. Len(r.body) : r.body[m] = Http!Byte(q, d + m)
      BY <2>2 DEF HcSound
    <2> QED BY <2>1, <2>2, <2>3
  <1>2. PICK p : p = Http!Parse(r)
    OBVIOUS
  <1>3. p \in HcRequests
    BY <1>1, <1>2, ParseTyped
  <1>4. ASSUME p.body = r.body, p.rx_buffer = Ws!Cut(r.rx_buffer, 1), a[i + 1].kind # "byte",
               Agrees(p.state, p.headers, p.chunk, P[i + 1]), P[i + 1].n = P[i].n
        PROVE  HcSound(p, coming, d, q)
    <2>1. Window(p.rx_buffer \o coming, a, i + 1) /\ i + 1 \in Nat
      BY <1>4, OneLine
    <2>2. P[i + 1].n = d + Len(p.body) /\ \A m \in 1 .. Len(p.body) : p.body[m] = Http!Byte(q, d + m)
      BY <1>1, <1>4
    <2> QED BY <1>1, <1>3, <1>4, <2>1, <2>2, PlaceReached
  <1>5. a[i + 1].kind # "byte" => Http!EndOfLine(r.rx_buffer) = 1
    BY OneLine
  <1>6. CASE r.state = "STATUS_LINE"
    <2>1. P[i].at = "status"
      BY <1>1, <1>6 DEF Agrees
    <2>2. a[i + 1].kind = "status" /\ P[i + 1].at = "header" /\ P[i + 1].n = P[i].n
      BY <1>1, <2>1 DEF Leads
    <2>3. p.state = "HEADERS" /\ p.body = r.body /\ p.rx_buffer = Ws!Cut(r.rx_buffer, 1)
      BY <1>1, <1>2, <1>5, <1>6, <2>2, StatusParsed
    <2>4. Agrees(p.state, p.headers, p.chunk, P[i + 1])
      BY <2>2, <2>3 DEF Agrees
    <2> QED BY <1>2, <1>4, <2>2, <2>3, <2>4
  <1>7. CASE r.state = "HEADERS" /\ P[i].at = "header"
    <2>1. /\ a[i + 1].kind = "header" /\ P[i + 1].at = "end" /\ P[i + 1].n = P[i].n
          /\ P[i + 1].chunked = a[i + 1].headers.chunked
      BY <1>1, <1>7 DEF Leads
    <2>2. /\ p.state = "HEADERS" /\ p.body = r.body /\ p.rx_buffer = Ws!Cut(r.rx_buffer, 1)
          /\ p.headers = a[i + 1].headers
      <3>1. r.rx_buffer[1].kind = "header" /\ Http!EndOfLine(r.rx_buffer) = 1
        BY <1>1, <1>5, <2>1
      <3>2. /\ Http!Parse(r).state = "HEADERS" /\ Http!Parse(r).body = r.body
            /\ Http!Parse(r).headers = r.rx_buffer[1].headers
            /\ Http!Parse(r).rx_buffer = Ws!Cut(r.rx_buffer, Http!EndOfLine(r.rx_buffer))
        BY <1>1, <1>7, <3>1, HeadersParsed, Zenon
      <3> QED BY <1>1, <1>2, <3>1, <3>2, Zenon
    <2>3. Agrees(p.state, p.headers, p.chunk, P[i + 1])
      BY <2>1, <2>2 DEF Agrees
    <2> QED BY <1>2, <1>4, <2>1, <2>2, <2>3
  <1>8. CASE r.state = "HEADERS" /\ P[i].at # "header"
    <2>1. P[i].at = "end" /\ r.headers.chunked = P[i].chunked
      BY <1>1, <1>8 DEF Agrees
    <2>2. /\ a[i + 1].kind = "empty" /\ P[i + 1].n = P[i].n
          /\ \/ P[i].chunked = TRUE /\ P[i + 1].at = "size"
             \/ P[i].chunked = FALSE /\ P[i + 1].at = "body"
      BY <1>1, <2>1 DEF Leads
    <2>3. /\ p.state = IF r.headers.chunked = TRUE THEN "CHUNK_SIZE" ELSE "BODY"
          /\ p.body = r.body /\ p.rx_buffer = Ws!Cut(r.rx_buffer, 1)
      <3>1. r.rx_buffer[1].kind = "empty" /\ Http!EndOfLine(r.rx_buffer) = 1
        BY <1>1, <1>5, <2>2
      <3>2. /\ Http!Parse(r).state = IF r.headers.chunked = TRUE THEN "CHUNK_SIZE" ELSE "BODY"
            /\ Http!Parse(r).body = r.body
            /\ Http!Parse(r).rx_buffer = Ws!Cut(r.rx_buffer, Http!EndOfLine(r.rx_buffer))
        BY <1>1, <1>8, <3>1, HeadersParsed, Zenon
      <3> QED BY <1>2, <3>1, <3>2, Zenon
    <2>4. \/ p.state = "CHUNK_SIZE" /\ P[i + 1].at = "size"
          \/ p.state = "BODY" /\ P[i + 1].at = "body"
      BY <2>1, <2>2, <2>3
    <2>5. Agrees(p.state, p.headers, p.chunk, P[i + 1])
      BY <2>4 DEF Agrees
    <2> QED BY <1>2, <1>4, <2>2, <2>3, <2>5
  <1>9. CASE r.state = "CHUNK_SIZE"
    <2>1. P[i].at \in {"size", "crlf"}
      BY <1>1, <1>9 DEF Agrees
    <2>2. p.body = r.body
      BY <1>1, <1>2, <1>9, ChunkSizeParsed
    <2>3. CASE p.state \in PastBody
      BY <1>1, <1>3, <1>2, <2>2, <2>3 DEF HcSound
    <2>4. CASE p.state \notin PastBody
      <3>1. a[i + 1].kind = "size" /\ a[i + 1].n # 0
        <4>1. p.state # "CHUNK_TRAILER"
          BY <2>4 DEF PastBody
        <4> QED BY <1>1, <1>2, <1>9, <4>1, ChunkSizeParsed
      <3>2. P[i + 1].at = "data" /\ P[i + 1].left = a[i + 1].n /\ P[i + 1].n = P[i].n
        BY <1>1, <2>1, <3>1 DEF Leads
      <3>3. p.state = "CHUNK_DATA" /\ p.chunk = a[i + 1].n /\ p.rx_buffer = Ws!Cut(r.rx_buffer, 1)
        BY <1>1, <1>2, <1>5, <1>9, <3>1, ChunkSizeParsed
      <3>4. Agrees(p.state, p.headers, p.chunk, P[i + 1])
        BY <3>2, <3>3 DEF Agrees
      <3> QED BY <1>2, <1>4, <2>2, <3>1, <3>2, <3>3, <3>4
    <2> QED BY <2>3, <2>4
  <1> QED BY <1>6, <1>7, <1>8, <1>9

LEMMA BodySound ==
    ASSUME NEW coming \in Seq(HcItems), NEW r, NEW d \in Nat, NEW q \in Nat, NEW a, NEW P, NEW i,
           Reading(r, coming, d, q, a, P, i), r.state = "BODY"
    PROVE  HcSound(Http!Parse(r), coming, d, q)
  <1>0. ReadingIs(r, coming, q, a, P, i)
    BY ReadingItems, Zenon
  <1>1. /\ r \in HcRequests /\ i \in Nat /\ Leads(a, P, i, q) /\ P \in [Nat -> HcPlaces]
        /\ ~Http!Stops(r) /\ Labelled(a, P, q) /\ a \in Seq(HcItems)
        /\ P[i].at = "body" /\ P[i].n = d + Len(r.body)
        /\ \A m \in 1 .. Len(r.body) : r.body[m] = Http!Byte(q, d + m)
    <2>1. r \in HcRequests /\ i \in Nat /\ Leads(a, P, i, q) /\ P \in [Nat -> HcPlaces]
      BY <1>0 DEF ReadingIs
    <2>2. /\ ~Http!Stops(r) /\ Labelled(a, P, q) /\ Agrees(r.state, r.headers, r.chunk, P[i])
          /\ P[i].n = d + Len(r.body) /\ HcSound(r, coming, d, q)
      BY DEF Reading
    <2>3. \A m \in 1 .. Len(r.body) : r.body[m] = Http!Byte(q, d + m)
      BY <2>2 DEF HcSound
    <2>4. a \in Seq(HcItems)
      BY <2>2 DEF Labelled
    <2>5. P[i].at = "body"
      BY <2>2 DEF Agrees
    <2> QED BY <2>1, <2>2, <2>3, <2>4, <2>5
  <1>2. PICK buf \in Seq(HcItems), size \in Nat, all \in Nat :
           buf = r.rx_buffer /\ size = Len(buf) /\ all = Len(a)
    BY <1>1, RequestFields
  <1>3. /\ i + size <= all /\ \A j \in 1 .. size : buf[j] = a[i + j]
        /\ Window(Ws!Cut(buf, size) \o coming, a, i + size) /\ size # 0
    <2>1. size \in 0 .. Len(buf)
      BY <1>2
    <2>2. /\ r.rx_buffer # <<>> /\ i + Len(r.rx_buffer) <= Len(a)
          /\ \A j \in 1 .. Len(r.rx_buffer) : r.rx_buffer[j] = a[i + j]
          /\ \A l \in 0 .. Len(r.rx_buffer) : Window(Ws!Cut(r.rx_buffer, l) \o coming, a, i + l)
      BY <1>0, Zenon DEF ReadingIs
    <2>3. size # 0
      BY <1>2, <2>2, EmptySeq, Zenon
    <2> QED BY <1>2, <2>1, <2>2, <2>3, Zenon
  <1>4. \A m \in 1 .. all - i : /\ a[i + m] = Http!Byte(q, P[i].n + m)
                                /\ P[i + m].at = "body" /\ P[i + m].n = P[i].n + m
    BY <1>1, <1>2 DEF Leads
  <1>5. \A m \in 1 .. size : m \in 1 .. all - i
    BY <1>1, <1>3
  <1>6. PICK p : p = Http!Parse(r)
    OBVIOUS
  <1>7. /\ p \in HcRequests /\ p.state \in {"BODY", "COMPLETE"} /\ p.body = r.body \o buf /\ p.rx_buffer = <<>>
    BY <1>1, <1>2, <1>6, BodyParsed
  <1>8. Ws!Cut(buf, size) = <<>>
    <2>1. Ws!Cut(buf, size) \in Seq(HcItems) /\ Len(Ws!Cut(buf, size)) = size - size
      <3>1. size \in 0 .. Len(buf)
        BY <1>2
      <3> QED BY <1>2, <3>1, CutItems
    <2>2. size - size = 0
      OBVIOUS
    <2> QED BY <2>1, <2>2, EmptySeq
  <1>9. PICK b \in Seq(HcItems) : b = r.body
    BY <1>1, RequestFields
  <1>10. \A m \in 1 .. Len(buf) : buf[m] = Http!Byte(q, (d + Len(b)) + m)
    BY <1>1, <1>2, <1>3, <1>4, <1>5, <1>9
  <1>11. /\ d + Len(b \o buf) = (d + Len(b)) + size
         /\ \A m \in 1 .. Len(b \o buf) : (b \o buf)[m] = Http!Byte(q, d + m)
    <2>1. BytesFrom(b, d, q)
      BY <1>1, <1>9, Zenon DEF BytesFrom
    <2>2. BytesFrom(buf, d + Len(b), q)
      BY <1>10, Zenon DEF BytesFrom
    <2>3. Grown(b, buf, d, q)
      BY <2>1, <2>2, BodyGrows, Zenon
    <2> QED BY <1>2, <2>3, Zenon DEF Grown, BytesFrom
  <1>12. size \in 1 .. all - i /\ i + size \in Nat
    BY <1>1, <1>3
  <1>13. P[i + size].at = "body" /\ P[i + size].n = d + Len(p.body)
    BY <1>1, <1>4, <1>7, <1>9, <1>11, <1>12
  <1>14. \A m \in 1 .. Len(p.body) : p.body[m] = Http!Byte(q, d + m)
    BY <1>7, <1>9, <1>11
  <1>15. CASE p.state = "BODY"
    <2>1. Agrees(p.state, p.headers, p.chunk, P[i + size])
      BY <1>13, <1>15 DEF Agrees
    <2>2. Window(p.rx_buffer \o coming, a, i + size)
      BY <1>3, <1>7, <1>8
    <2> QED BY <1>1, <1>6, <1>7, <1>12, <1>13, <1>14, <2>1, <2>2, PlaceReached
  <1>16. CASE p.state = "COMPLETE"
    BY <1>6, <1>7, <1>14, <1>16 DEF HcSound, PastBody
  <1> QED BY <1>7, <1>15, <1>16

LEMMA TailIsCut ==
    ASSUME NEW s \in Seq(HcItems), NEW n \in 0 .. Len(s), Ws!Cut(s, n) # <<>>
    PROVE  n + 1 \in 0 .. Len(s) /\ Tail(Ws!Cut(s, n)) = Ws!Cut(s, n + 1) /\ Ws!Cut(s, n)[1] = s[n + 1]
  <1>1. PICK x \in Nat : Len(s) = x /\ n \in 0 .. x /\ n \in Nat
    OBVIOUS
  <1>2. PICK t \in Seq(HcItems) : t = Ws!Cut(s, n) /\ Len(t) = x - n /\ \A i \in 1 .. x - n : t[i] = s[i + n]
    <2>1. /\ Ws!Cut(s, n) \in Seq(HcItems) /\ Len(Ws!Cut(s, n)) = x - n
          /\ \A i \in 1 .. x - n : Ws!Cut(s, n)[i] = s[i + n]
      BY <1>1, CutItems, Zenon
    <2> QED BY <2>1
  <1>3. x - n # 0
    BY <1>2, EmptySeq
  <1>4. n + 1 \in 0 .. x /\ 1 \in 1 .. x - n /\ 1 + n = n + 1
    BY <1>1, <1>3
  <1>5. PICK u \in Seq(HcItems) : /\ u = Ws!Cut(s, n + 1) /\ Len(u) = x - (n + 1)
                                  /\ \A i \in 1 .. x - (n + 1) : u[i] = s[i + (n + 1)]
    <2>1. n + 1 \in 0 .. Len(s)
      BY <1>1, <1>4, Zenon
    <2>2. /\ Ws!Cut(s, n + 1) \in Seq(HcItems) /\ Len(Ws!Cut(s, n + 1)) = x - (n + 1)
          /\ \A i \in 1 .. x - (n + 1) : Ws!Cut(s, n + 1)[i] = s[i + (n + 1)]
      BY <1>1, <2>1, CutItems, Zenon
    <2> QED BY <2>2
  <1>6. /\ Tail(t) \in Seq(HcItems) /\ Len(Tail(t)) = (x - n) - 1
        /\ \A i \in 1 .. (x - n) - 1 : Tail(t)[i] = t[i + 1]
    BY <1>2, <1>3, HeadTailProperties
  <1>7. (x - n) - 1 = x - (n + 1) /\ \A i \in 1 .. (x - n) - 1 : i + 1 \in 1 .. x - n /\ (i + 1) + n = i + (n + 1)
    BY <1>1
  <1>8. Tail(t) = u
    <2>1. \A i \in 1 .. (x - n) - 1 : Tail(t)[i] = u[i]
      BY <1>2, <1>5, <1>6, <1>7
    <2> QED BY <1>5, <1>6, <1>7, <2>1, SeqEqual
  <1> QED BY <1>1, <1>2, <1>4, <1>5, <1>8

LEMMA DataSound ==
    ASSUME NEW coming \in Seq(HcItems), NEW r, NEW d \in Nat, NEW q \in Nat, NEW a, NEW P, NEW i,
           Reading(r, coming, d, q, a, P, i), r.state = "CHUNK_DATA"
    PROVE  HcSound(Http!Parse(r), coming, d, q)
  <1>0. ReadingIs(r, coming, q, a, P, i)
    BY ReadingItems, Zenon
  <1>1. /\ r \in HcRequests /\ i \in Nat /\ Leads(a, P, i, q) /\ P \in [Nat -> HcPlaces]
        /\ ~Http!Stops(r) /\ Labelled(a, P, q) /\ a \in Seq(HcItems)
        /\ P[i].at = "data" /\ P[i].left = r.chunk /\ P[i].n = d + Len(r.body)
        /\ \A m \in 1 .. Len(r.body) : r.body[m] = Http!Byte(q, d + m)
    <2>1. r \in HcRequests /\ i \in Nat /\ Leads(a, P, i, q) /\ P \in [Nat -> HcPlaces]
      BY <1>0 DEF ReadingIs
    <2>2. /\ ~Http!Stops(r) /\ Labelled(a, P, q) /\ Agrees(r.state, r.headers, r.chunk, P[i])
          /\ P[i].n = d + Len(r.body) /\ HcSound(r, coming, d, q)
      BY DEF Reading
    <2>3. \A m \in 1 .. Len(r.body) : r.body[m] = Http!Byte(q, d + m)
      BY <2>2 DEF HcSound
    <2>4. a \in Seq(HcItems)
      BY <2>2 DEF Labelled
    <2>5. P[i].at = "data" /\ P[i].left = r.chunk
      BY <2>2 DEF Agrees
    <2> QED BY <2>1, <2>2, <2>3, <2>4, <2>5
  <1>2. PICK buf \in Seq(HcItems), size \in Nat, all \in Nat, c \in Nat :
           buf = r.rx_buffer /\ size = Len(buf) /\ all = Len(a) /\ c = r.chunk
    BY <1>1, RequestFields
  <1>3. /\ i + size <= all /\ size # 0 /\ \A j \in 1 .. size : buf[j] = a[i + j]
        /\ \A l \in 0 .. Len(buf) : Window(Ws!Cut(buf, l) \o coming, a, i + l)
    <2>1. /\ r.rx_buffer # <<>> /\ i + Len(r.rx_buffer) <= Len(a)
          /\ \A j \in 1 .. Len(r.rx_buffer) : r.rx_buffer[j] = a[i + j]
          /\ \A l \in 0 .. Len(r.rx_buffer) : Window(Ws!Cut(r.rx_buffer, l) \o coming, a, i + l)
      BY <1>0, Zenon DEF ReadingIs
    <2>2. size # 0
      BY <1>2, <2>1, EmptySeq, Zenon
    <2> QED BY <1>2, <2>1, <2>2, Zenon
  <1>4. /\ c # 0 /\ P[i + c].at = "crlf"
        /\ \A m \in 1 .. c : /\ a[i + m] = Http!Byte(q, P[i].n + m) /\ P[i + m].n = P[i].n + m
                             /\ m < c => P[i + m].at = "data" /\ P[i + m].left = c - m
    BY <1>1, <1>2 DEF Leads
  <1>5. PICK p : p = Http!Parse(r)
    OBVIOUS
  <1>6. PICK n \in Nat : /\ n = IF size < c THEN size ELSE c
                         /\ p.body = r.body \o SubSeq(buf, 1, n)
                         /\ p.chunk = c - n
                         /\ n # c => p.state = "CHUNK_DATA" /\ p.rx_buffer = Ws!Cut(buf, n)
                         /\ n = c => /\ p.state = "CHUNK_SIZE"
                                     /\ p.rx_buffer = IF Ws!Cut(buf, n) # <<>> /\ Ws!Cut(buf, n)[1].kind = "empty"
                                                      THEN Tail(Ws!Cut(buf, n)) ELSE Ws!Cut(buf, n)
    BY <1>1, <1>2, <1>5, ChunkDataParsed
  <1>7. p \in HcRequests
    BY <1>1, <1>5, ParseTyped
  <1>8. n # 0 /\ n \in 0 .. size /\ n \in 0 .. Len(buf) /\ n \in 1 .. c /\ i + n \in Nat
    <2>1. n # 0 /\ n \in 0 .. size /\ n \in 1 .. c /\ i + n \in Nat
      <3>1. i \in Nat
        BY <1>1
      <3>2. size # 0
        BY <1>3, Zenon
      <3>3. c # 0
        BY <1>4, Zenon
      <3>4. n = IF size < c THEN size ELSE c
        BY <1>6
      <3> QED BY <3>1, <3>2, <3>3, <3>4
    <2> QED BY <1>2, <2>1
  <1>9. PICK b \in Seq(HcItems) : b = r.body
    BY <1>1, RequestFields
  <1>10. PICK w \in Seq(HcItems) : w = SubSeq(buf, 1, n) /\ Len(w) = n /\ \A m \in 1 .. n : w[m] = buf[m]
    BY <1>8, HcFront
  <1>11. \A m \in 1 .. Len(w) : w[m] = Http!Byte(q, (d + Len(b)) + m)
    <2>1. \A m \in 1 .. n : m \in 1 .. size /\ m \in 1 .. c
      BY <1>8
    <2> QED BY <1>1, <1>3, <1>4, <1>9, <1>10, <2>1
  <1>12. /\ d + Len(b \o w) = (d + Len(b)) + n
         /\ \A m \in 1 .. Len(b \o w) : (b \o w)[m] = Http!Byte(q, d + m)
    <2>1. BytesFrom(b, d, q)
      BY <1>1, <1>9, Zenon DEF BytesFrom
    <2>2. BytesFrom(w, d + Len(b), q)
      BY <1>11, Zenon DEF BytesFrom
    <2>3. Grown(b, w, d, q)
      BY <2>1, <2>2, BodyGrows, Zenon
    <2> QED BY <1>10, <2>3, Zenon DEF Grown, BytesFrom
  <1>13. /\ P[i + n].n = d + Len(p.body)
         /\ \A m \in 1 .. Len(p.body) : p.body[m] = Http!Byte(q, d + m)
    <2>1. p.body = b \o w
      BY <1>6, <1>9, <1>10
    <2>2. P[i + n].n = P[i].n + n
      BY <1>4, <1>8
    <2> QED BY <1>1, <1>9, <1>12, <2>1, <2>2
  <1>14. Window(Ws!Cut(buf, n) \o coming, a, i + n)
    BY <1>3, <1>8
  <1>15. CASE n # c
    <2>1. P[i + n].at = "data" /\ P[i + n].left = c - n
      <3>1. n < c
        BY <1>8, <1>15
      <3> QED BY <1>4, <1>8, <3>1
    <2>2. Agrees(p.state, p.headers, p.chunk, P[i + n])
      BY <1>6, <1>15, <2>1 DEF Agrees
    <2>3. Window(p.rx_buffer \o coming, a, i + n)
      BY <1>6, <1>14, <1>15
    <2> QED BY <1>1, <1>5, <1>7, <1>8, <1>13, <2>2, <2>3, PlaceReached
  <1>16. CASE n = c /\ p.rx_buffer = Ws!Cut(buf, n)
    <2>1. Agrees(p.state, p.headers, p.chunk, P[i + n])
      BY <1>4, <1>6, <1>16 DEF Agrees
    <2>2. Window(p.rx_buffer \o coming, a, i + n)
      BY <1>14, <1>16
    <2> QED BY <1>1, <1>5, <1>7, <1>8, <1>13, <2>1, <2>2, PlaceReached
  <1>17. CASE n = c /\ p.rx_buffer # Ws!Cut(buf, n)
    <2>1. Ws!Cut(buf, n) # <<>> /\ Ws!Cut(buf, n)[1].kind = "empty" /\ p.rx_buffer = Tail(Ws!Cut(buf, n))
      BY <1>6, <1>17
    <2>2. /\ n + 1 \in 0 .. Len(buf) /\ p.rx_buffer = Ws!Cut(buf, n + 1)
      BY <1>8, <2>1, TailIsCut
    <2>3. i + (n + 1) = (i + n) + 1 /\ (i + n) + 1 \in Nat /\ n + 1 <= size /\ i + n \in 0 .. all - 1
      <3>1. n + 1 \in 0 .. size
        BY <1>2, <2>2
      <3>2. i \in Nat
        BY <1>1, Zenon
      <3>3. i + size <= all
        BY <1>3, Zenon
      <3> QED BY <3>1, <3>2, <3>3
    <2>4. Leads(a, P, i + n, q)
      BY <1>1, <1>2, <2>3 DEF Labelled
    <2>5. P[i + n].at = "crlf"
      BY <1>4, <1>17
    <2>6. P[(i + n) + 1].at = "size" /\ P[(i + n) + 1].n = P[i + n].n
      BY <2>4, <2>5 DEF Leads
    <2>7. Agrees(p.state, p.headers, p.chunk, P[(i + n) + 1])
      BY <1>6, <1>17, <2>6 DEF Agrees
    <2>8. Window(p.rx_buffer \o coming, a, (i + n) + 1)
      BY <1>3, <2>2, <2>3
    <2>9. P[(i + n) + 1].n = d + Len(p.body)
      BY <1>13, <2>6
    <2> QED BY <1>1, <1>5, <1>7, <1>13, <2>3, <2>7, <2>8, <2>9, PlaceReached
  <1> QED BY <1>15, <1>16, <1>17

LEMMA ParseSound ==
    ASSUME NEW coming \in Seq(HcItems), NEW r, NEW d \in Nat, NEW q \in Nat,
           HcSound(r, coming, d, q), ~Http!Stops(r)
    PROVE  HcSound(Http!Parse(r), coming, d, q)
  <1>1. r \in HcRequests /\ \A m \in 1 .. Len(r.body) : r.body[m] = Http!Byte(q, d + m)
    BY DEF HcSound
  <1>2. r.state \in HcStates /\ r.state # "COMPLETE"
    BY <1>1, RequestFields, LineThere
  <1>3. CASE r.state = "CHUNK_TRAILER"
    BY <1>1, <1>3, TrailerParsed DEF HcSound
  <1>4. CASE r.state # "CHUNK_TRAILER"
    <2>1. r.state \notin PastBody
      BY <1>2, <1>4 DEF PastBody
    <2>2. PICK a, P : /\ Labelled(a, P, q)
                      /\ \E i \in Nat : /\ Window(r.rx_buffer \o coming, a, i)
                                        /\ Agrees(r.state, r.headers, r.chunk, P[i]) /\ P[i].n = d + Len(r.body)
      BY <2>1 DEF HcSound, AtPlace
    <2>3. PICK i \in Nat : /\ Window(r.rx_buffer \o coming, a, i)
                           /\ Agrees(r.state, r.headers, r.chunk, P[i]) /\ P[i].n = d + Len(r.body)
      BY <2>2
    <2>4. Reading(r, coming, d, q, a, P, i)
      BY <2>1, <2>2, <2>3 DEF Reading
    <2> QED BY <1>2, <1>4, <2>4, LineSound, BodySound, DataSound DEF HcStates
  <1> QED BY <1>3, <1>4

\* The loop of ProcessReceivedData, after n rounds.
ParseRound(after, r, n) ==
    IF n = 0 THEN r ELSE IF Http!Stops(after[n - 1]) THEN after[n - 1] ELSE Http!Parse(after[n - 1])

LEMMA ParseLoopExists ==
    ASSUME NEW r, NEW size \in Nat
    PROVE  \E after : after = [n \in 0 .. size |-> ParseRound(after, r, n)]
  <1> DEFINE S == {k \in Nat : \E after : \A n \in 0 .. k : after[n] = ParseRound(after, r, n)}
  <1>1. 0 \in S
    <2>1. \A n \in 0 .. 0 : [i \in {0} |-> r][n] = ParseRound([i \in {0} |-> r], r, n)
      BY DEF ParseRound
    <2> QED BY <2>1
  <1>2. ASSUME NEW k \in Nat, k \in S PROVE k + 1 \in S
    <2>1. PICK h : \A n \in 0 .. k : h[n] = ParseRound(h, r, n)
      BY <1>2
    <2> DEFINE g == [n \in 0 .. k + 1 |-> IF n <= k THEN h[n] ELSE ParseRound(h, r, n)]
    <2>2. \A n \in 0 .. k : n \in 0 .. k + 1 /\ n <= k
      OBVIOUS
    <2>3. \A n \in 0 .. k : g[n] = h[n]
      BY <2>2
    <2>4. ASSUME NEW n \in 0 .. k + 1 PROVE g[n] = ParseRound(g, r, n)
      <3>1. g[n] = ParseRound(h, r, n)
        <4>1. n <= k => n \in 0 .. k
          OBVIOUS
        <4> QED BY <2>1, <4>1
      <3>2. n # 0 => n - 1 \in 0 .. k
        OBVIOUS
      <3> HIDE DEF g
      <3>3. n # 0 => g[n - 1] = h[n - 1]
        BY <2>3, <3>2
      <3>4. ParseRound(g, r, n) = ParseRound(h, r, n)
        BY <3>3 DEF ParseRound
      <3> QED BY <3>1, <3>4
    <2> HIDE DEF g
    <2> QED BY <2>4
  <1>3. size \in S
    <2> HIDE DEF S
    <2> QED BY <1>1, <1>2, AllNat
  <1>4. PICK h : \A n \in 0 .. size : h[n] = ParseRound(h, r, n)
    BY <1>3
  <1> DEFINE g == [n \in 0 .. size |-> h[n]]
  <1>5. ASSUME NEW n \in 0 .. size PROVE g[n] = ParseRound(g, r, n)
    <2>1. n # 0 => n - 1 \in 0 .. size
      OBVIOUS
    <2>2. n # 0 => g[n - 1] = h[n - 1]
      BY <2>1
    <2>3. g[n] = h[n]
      OBVIOUS
    <2> HIDE DEF g
    <2> QED BY <1>4, <2>2, <2>3 DEF ParseRound
  <1>6. g = [n \in 0 .. size |-> ParseRound(g, r, n)]
    BY <1>5
  <1> QED BY <1>6

\* All rounds keep what one keeps: the type, and what is sound.
LEMMA Processed ==
    ASSUME NEW coming \in Seq(HcItems), NEW r \in HcRequests, NEW d \in Nat, NEW q \in Nat
    PROVE  /\ Http!ProcessReceivedData(r) \in HcRequests
           /\ HcSound(r, coming, d, q) => HcSound(Http!ProcessReceivedData(r), coming, d, q)
  <1>1. PICK size \in Nat : size = Len(r.rx_buffer)
    <2>1. r.rx_buffer \in Seq(HcItems)
      BY RequestFields
    <2> QED BY <2>1
  <1> DEFINE after == CHOOSE h : h = [n \in 0 .. size |-> ParseRound(h, r, n)]
  <1>2. Http!ProcessReceivedData(r) = after[size]
    BY <1>1 DEF Http!ProcessReceivedData, ParseRound
  <1>3. after = [n \in 0 .. size |-> ParseRound(after, r, n)]
    BY ParseLoopExists
  <1> HIDE DEF after
  <1> DEFINE S == {n \in Nat : n <= size =>
                               /\ after[n] \in HcRequests
                               /\ HcSound(r, coming, d, q) => HcSound(after[n], coming, d, q)}
  <1>4. 0 \in S
    <2>1. after[0] = r
      BY <1>3 DEF ParseRound
    <2> QED BY <2>1
  <1>5. ASSUME NEW n \in Nat, n \in S PROVE n + 1 \in S
    <2> SUFFICES ASSUME n + 1 <= size
                 PROVE  /\ after[n + 1] \in HcRequests
                        /\ HcSound(r, coming, d, q) => HcSound(after[n + 1], coming, d, q)
      OBVIOUS
    <2>1. after[n] \in HcRequests /\ (HcSound(r, coming, d, q) => HcSound(after[n], coming, d, q))
      BY <1>5
    <2>2. n + 1 \in 0 .. size /\ n + 1 # 0 /\ (n + 1) - 1 = n
      OBVIOUS
    <2>3. after[n + 1] = IF Http!Stops(after[n]) THEN after[n] ELSE Http!Parse(after[n])
      BY <1>3, <2>2 DEF ParseRound
    <2> QED BY <2>1, <2>3, ParseTyped, ParseSound
  <1>6. size \in S
    <2> HIDE DEF S
    <2> QED BY <1>4, <1>5, AllNat
  <1> QED BY <1>2, <1>6

HcType ==
    /\ httpConnected \in WsFlags /\ server_keep_alive \in WsFlags /\ closing \in WsFlags /\ early \in WsFlags
    /\ req \in HcRequests /\ req.body = <<>> /\ request \in Nat
    /\ body_chunks \in Seq(HcItems) /\ packet \in Seq(HcItems) /\ net \in Seq(HcItems) /\ got \in Seq(HcItems)

\* Nothing of the answer has come, nor is on its way.
HcFresh == /\ packet = <<>> /\ net = <<>> /\ got = <<>> /\ body_chunks = <<>>
           /\ req.rx_buffer = <<>> /\ req.state = "STATUS_LINE"

\* What Read has returned, what it can return, and what comes are one answer.
HcWhole ==
    /\ \A m \in 1 .. Len(got) : got[m] = Http!Byte(request, m)
    /\ \A m \in 1 .. Len(body_chunks) : body_chunks[m] = Http!Byte(request, Len(got) + m)
    /\ HcSound(req, packet \o net, Len(got) + Len(body_chunks), request)

HcInv == /\ HcType
         /\ packet # <<>> => httpConnected = TRUE \/ httpAt = "closing"
         /\ early = FALSE => HcWhole /\ (httpAt = "send" => HcFresh)

\* With nothing on its way a parser that begins is at the beginning of any answer.
LEMMA FreshSound ==
    ASSUME BodyLength \in Nat \ {0}, NEW r \in HcRequests, r.body = <<>>, r.rx_buffer = <<>>,
           r.state = "STATUS_LINE", NEW q \in Nat, NEW a \in Http!Answers(q)
    PROVE  HcSound(r, <<>> \o <<>>, 0, q) /\ HcSound(r, <<>> \o a, 0, q)
  <1>1. PICK P : a \in Seq(HcItems) /\ Labelled(a, P, q)
    BY AnswersLabelled
  <1>2. <<>> \o <<>> = <<>> /\ <<>> \o a = a
    BY <1>1, ConcatEmptySeq
  <1>3. P[0].at = "status" /\ P[0].n = 0
    BY <1>1 DEF Labelled
  <1>4. Agrees(r.state, r.headers, r.chunk, P[0])
    BY <1>3 DEF Agrees
  <1>5. Len(r.body) = 0 /\ 0 + Len(r.body) = 0
    OBVIOUS
  <1>6. \A m \in 1 .. Len(r.body) : r.body[m] = Http!Byte(q, 0 + m)
    BY <1>5
  <1>7. ASSUME NEW s, s \in {<<>>, a} PROVE Window(s, a, 0)
    <2>1. PICK z \in Nat : Len(a) = z
      BY <1>1
    <2>2. CASE s = <<>>
      <3>1. Len(s) = 0 /\ 0 + 0 <= z
        BY <2>2
      <3> QED BY <2>1, <3>1 DEF Window
    <2>3. CASE s = a
      <3>1. 0 + z <= z /\ \A j \in 1 .. z : 0 + j = j
        OBVIOUS
      <3> QED BY <2>1, <2>3, <3>1 DEF Window
    <2> QED BY <1>7, <2>2, <2>3
  <1>8. ASSUME NEW s, s \in {<<>>, a} PROVE HcSound(r, s, 0, q)
    <2>1. r.rx_buffer \o s = s
      BY <1>1, <1>2, <1>8
    <2>2. Window(r.rx_buffer \o s, a, 0)
      BY <1>7, <1>8, <2>1
    <2>3. P[0].n = 0 + Len(r.body) /\ 0 \in Nat
      BY <1>3, <1>5
    <2> QED BY <1>1, <1>4, <1>6, <2>2, <2>3, PlaceReached
  <1> QED BY <1>2, <1>8

LEMMA SomeAnswer == ASSUME NEW q PROVE \E a : a \in Http!Answers(q)
  BY DEF Http!Answers

\* Less may come than is on its way.
LEMMA LessComes ==
    ASSUME NEW x \in Seq(HcItems), NEW y \in Seq(HcItems), NEW r, NEW d, NEW q, HcSound(r, x \o y, d, q)
    PROVE  HcSound(r, x, d, q)
  <1>1. r \in HcRequests
    BY DEF HcSound
  <1>2. r.rx_buffer \in Seq(HcItems)
    BY <1>1, RequestFields
  <1>3. PICK buf \in Seq(HcItems) : buf = r.rx_buffer
    BY <1>2
  <1>4. buf \o (x \o y) = (buf \o x) \o y /\ buf \o x \in Seq(HcItems)
    BY HcRegrouped, HcJoined
  <1>5. ASSUME r.state \notin PastBody PROVE AtPlace(r, buf \o x, d + Len(r.body), q)
    <2>1. AtPlace(r, buf \o (x \o y), d + Len(r.body), q)
      BY <1>3, <1>5 DEF HcSound
    <2>2. PICK a, P : /\ Labelled(a, P, q)
                      /\ \E i \in Nat : /\ Window(buf \o (x \o y), a, i)
                                        /\ Agrees(r.state, r.headers, r.chunk, P[i])
                                        /\ P[i].n = d + Len(r.body)
      BY <2>1 DEF AtPlace
    <2>3. PICK i \in Nat : /\ Window(buf \o (x \o y), a, i)
                           /\ Agrees(r.state, r.headers, r.chunk, P[i])
                           /\ P[i].n = d + Len(r.body)
      BY <2>2
    <2>4. a \in Seq(HcItems)
      BY <2>2 DEF Labelled
    <2>5. Window(buf \o x, a, i)
      BY <1>4, <2>3, <2>4, WindowFront
    <2> QED BY <2>2, <2>3, <2>5 DEF AtPlace
  <1> QED BY <1>3, <1>5 DEF HcSound

\* A change of the other fields leaves the parser where it is.
LEMMA SoundKept ==
    ASSUME NEW r, NEW p \in HcRequests, NEW coming, NEW d, NEW q, HcSound(r, coming, d, q),
           p.state = r.state, p.rx_buffer = r.rx_buffer, p.headers = r.headers, p.chunk = r.chunk, p.body = r.body
    PROVE  HcSound(p, coming, d, q)
  BY DEF HcSound, AtPlace

\* The bytes that were given to the reader.
LEMMA BodyTaken ==
    ASSUME NEW r, NEW coming, NEW d \in Nat, NEW q, HcSound(r, coming, d, q)
    PROVE  HcSound([r EXCEPT !.body = <<>>], coming, d + Len(r.body), q)
  <1>1. r \in HcRequests
    BY DEF HcSound
  <1>2. PICK n0 \in Seq(HcItems) : n0 = <<>>
    BY NoItems
  <1>3. PICK p \in HcRequests : /\ p = [r EXCEPT !.body = n0] /\ p.body = n0 /\ p.state = r.state
                                /\ p.rx_buffer = r.rx_buffer /\ p.headers = r.headers /\ p.chunk = r.chunk
    <2>1. PICK x0 : x0 = [r EXCEPT !.body = n0]
      OBVIOUS
    <2>2. x0 \in HcRequests /\ x0.body = n0 /\ x0.state = r.state /\ x0.rx_buffer = r.rx_buffer /\ x0.headers = r.headers /\ x0.chunk = r.chunk
      BY <2>1, <1>1 DEF HcRequests
    <2> QED BY <2>1, <2>2
  <1>4. PICK k \in Nat : k = d + Len(r.body)
    <2>1. Len(r.body) \in Nat
      BY <1>1, RequestFields
    <2> QED BY <2>1
  <1>5. Len(p.body) = 0 /\ k + Len(p.body) = k
    BY <1>2, <1>3
  <1>6. \A m \in 1 .. Len(p.body) : p.body[m] = Http!Byte(q, k + m)
    BY <1>5
  <1>7. p.state \notin PastBody => AtPlace(p, p.rx_buffer \o coming, k + Len(p.body), q)
    BY <1>3, <1>4, <1>5 DEF HcSound, AtPlace
  <1>8. HcSound(p, coming, k, q)
    BY <1>6, <1>7 DEF HcSound
  <1> QED BY <1>2, <1>3, <1>4, <1>8

\* Packet p is parsed, and coming is still to come.
LEMMA HcReceived ==
    ASSUME HcType, NEW p \in Seq(HcItems), NEW coming \in Seq(HcItems), Http!Received(p),
           UNCHANGED <<got, request>>
    PROVE  /\ body_chunks' \in Seq(HcItems) /\ server_keep_alive' \in WsFlags
           /\ req' \in HcRequests /\ req'.body = <<>>
           /\ (\A m \in 1 .. Len(body_chunks) : body_chunks[m] = Http!Byte(request, Len(got) + m))
              /\ HcSound(req, p \o coming, Len(got) + Len(body_chunks), request)
              => /\ \A m \in 1 .. Len(body_chunks') : body_chunks'[m] = Http!Byte(request, Len(got) + m)
                 /\ HcSound(req', coming, Len(got) + Len(body_chunks'), request)
  <1>1. /\ req \in HcRequests /\ req.body = <<>> /\ request \in Nat /\ server_keep_alive \in WsFlags
        /\ body_chunks \in Seq(HcItems) /\ Len(got) \in Nat
    BY DEF HcType
  <1>2. PICK buf \in Seq(HcItems) : buf = req.rx_buffer
    BY <1>1, RequestFields
  <1>3. PICK more \in Seq(HcItems) : more = buf \o p
    BY HcJoined
  <1>4. PICK z \in WsFlags : z = FALSE
    BY DEF WsFlags
  <1>5. PICK r1 \in HcRequests : /\ r1 = [req EXCEPT !.rx_buffer = more] /\ r1.rx_buffer = more
                                 /\ r1.state = req.state /\ r1.headers = req.headers
                                 /\ r1.chunk = req.chunk /\ r1.body = req.body
    <2>1. PICK x0 : x0 = [req EXCEPT !.rx_buffer = more]
      OBVIOUS
    <2>2. x0 \in HcRequests /\ x0.rx_buffer = more /\ x0.state = req.state /\ x0.headers = req.headers /\ x0.chunk = req.chunk /\ x0.body = req.body
      BY <2>1, <1>1 DEF HcRequests
    <2> QED BY <2>1, <2>2
  <1>6. PICK r2 \in HcRequests : /\ r2 = [r1 EXCEPT !.failed = z] /\ r2.rx_buffer = r1.rx_buffer
                                 /\ r2.state = r1.state /\ r2.headers = r1.headers
                                 /\ r2.chunk = r1.chunk /\ r2.body = r1.body
    <2>1. PICK x0 : x0 = [r1 EXCEPT !.failed = z]
      OBVIOUS
    <2>2. x0 \in HcRequests /\ x0.rx_buffer = r1.rx_buffer /\ x0.state = r1.state /\ x0.headers = r1.headers /\ x0.chunk = r1.chunk /\ x0.body = r1.body
      BY <2>1 DEF HcRequests
    <2> QED BY <2>1, <2>2
  <1>7. PICK r3 \in HcRequests : /\ r3 = [r2 EXCEPT !.keep = server_keep_alive] /\ r3.rx_buffer = r2.rx_buffer
                                 /\ r3.state = r2.state /\ r3.headers = r2.headers
                                 /\ r3.chunk = r2.chunk /\ r3.body = r2.body
    <2>1. PICK x0 : x0 = [r2 EXCEPT !.keep = server_keep_alive]
      OBVIOUS
    <2>2. x0 \in HcRequests /\ x0.rx_buffer = r2.rx_buffer /\ x0.state = r2.state /\ x0.headers = r2.headers /\ x0.chunk = r2.chunk /\ x0.body = r2.body
      BY <2>1, <1>1 DEF HcRequests
    <2> QED BY <2>1, <2>2
  <1>8. r3 = [req EXCEPT !.rx_buffer = @ \o p, !.failed = FALSE, !.keep = server_keep_alive]
    <2>1. r1 = [req EXCEPT !.rx_buffer = @ \o p]
      BY <1>2, <1>3, <1>5
    <2> QED BY <1>4, <1>6, <1>7, <2>1, Zenon
  <1>9. PICK r \in HcRequests : r = Http!ProcessReceivedData(r3)
    BY <1>1, Processed
  <1>10. body_chunks' = body_chunks \o r.body /\ server_keep_alive' = r.keep /\ req' = [r EXCEPT !.body = <<>>]
    BY <1>8, <1>9 DEF Http!Received
  <1>11. r.body \in Seq(HcItems) /\ r.keep \in WsFlags
    BY RequestFields
  <1>12. body_chunks' \in Seq(HcItems)
    BY <1>1, <1>10, <1>11, HcJoined
  <1>13. req' \in HcRequests /\ req'.body = <<>>
    <2>1. PICK n0 \in Seq(HcItems) : n0 = <<>>
      BY NoItems
    <2>2. [r EXCEPT !.body = n0] \in HcRequests /\ [r EXCEPT !.body = n0].body = n0
      BY DEF HcRequests
    <2> QED BY <1>10, <2>1, <2>2
  <1>14. ASSUME \A m \in 1 .. Len(body_chunks) : body_chunks[m] = Http!Byte(request, Len(got) + m),
                HcSound(req, p \o coming, Len(got) + Len(body_chunks), request)
         PROVE  /\ \A m \in 1 .. Len(body_chunks') : body_chunks'[m] = Http!Byte(request, Len(got) + m)
                /\ HcSound(req', coming, Len(got) + Len(body_chunks'), request)
    <2>1. PICK d \in Nat : d = Len(got) + Len(body_chunks)
      BY <1>1
    <2>2. HcSound(r3, coming, d, request)
      <3>1. (buf \o p) \o coming = buf \o (p \o coming)
        BY HcRegrouped
      <3>2. r3.rx_buffer \o coming = req.rx_buffer \o (p \o coming)
        BY <1>2, <1>3, <1>5, <1>6, <1>7, <3>1
      <3>3. /\ r3.state = req.state /\ r3.headers = req.headers /\ r3.chunk = req.chunk /\ r3.body = req.body
        BY <1>5, <1>6, <1>7
      <3> QED BY <1>14, <2>1, <3>2, <3>3 DEF HcSound, AtPlace
    <2>3. HcSound(r, coming, d, request)
      BY <1>1, <1>9, <2>2, Processed
    <2>4. HcSound(req', coming, d + Len(r.body), request)
      BY <1>10, <2>3, BodyTaken
    <2>5. \A m \in 1 .. Len(r.body) : r.body[m] = Http!Byte(request, d + m)
      BY <2>3 DEF HcSound
    <2>6. /\ Len(got) + Len(body_chunks') = d + Len(r.body)
          /\ \A m \in 1 .. Len(body_chunks') : body_chunks'[m] = Http!Byte(request, Len(got) + m)
      <3>1. BytesFrom(r.body, Len(got) + Len(body_chunks), request)
        BY <2>1, <2>5, Zenon DEF BytesFrom
      <3>2. BytesFrom(body_chunks, Len(got), request)
        BY <1>14, Zenon DEF BytesFrom
      <3>3. Grown(body_chunks, r.body, Len(got), request)
        BY <1>1, <1>11, <3>1, <3>2, BodyGrows, Zenon
      <3> QED BY <1>10, <2>1, <3>3, Zenon DEF Grown, BytesFrom
    <2> QED BY <2>4, <2>6
  <1> QED BY <1>10, <1>11, <1>12, <1>13, <1>14

LEMMA HcInitInv == ASSUME BodyLength \in Nat \ {0}, Http!Init PROVE HcInv
  <1>1. req \in HcRequests /\ req.body = <<>> /\ req.rx_buffer = <<>> /\ req.state = "STATUS_LINE"
    BY DEF Http!Init, Http!NoRequest, Http!NoHeaders, HcRequests, HcStates, HcHeads, WsFlags
  <1>2. HcType
    BY <1>1, NoItems DEF Http!Init, HcType, WsFlags
  <1>3. packet = <<>> /\ net = <<>> /\ got = <<>> /\ body_chunks = <<>> /\ request \in Nat /\ httpAt = "idle"
    BY DEF Http!Init
  <1>4. HcSound(req, <<>> \o <<>>, 0, request)
    BY <1>1, <1>3, SomeAnswer, FreshSound
  <1>5. Len(<<>>) = 0 /\ 0 + 0 = 0 /\ \A m \in 1 .. 0 : FALSE
    OBVIOUS
  <1>6. HcWhole
    BY <1>3, <1>4, <1>5 DEF HcWhole
  <1> QED BY <1>2, <1>3, <1>6 DEF HcInv

LEMMA HcTcpData == ASSUME HcInv, Http!TcpData PROVE HcInv'
  <1>1. /\ Http!OnTcpData /\ UNCHANGED <<httpConnected, httpAt, request, closing, got, early>>
    BY DEF Http!TcpData, Http!caller
  <1>2. HcType /\ packet \in Seq(HcItems) /\ net \in Seq(HcItems) /\ httpConnected \in WsFlags
    BY DEF HcInv, HcType
  <1>3. CASE packet = <<>>
    <2>1. PICK k \in 1 .. Len(net) :
             /\ net' = SubSeq(net, k + 1, Len(net))
             /\ IF Http!Room(SubSeq(net, 1, k)) THEN Http!Received(SubSeq(net, 1, k)) /\ UNCHANGED packet
                ELSE packet' = SubSeq(net, 1, k) /\ UNCHANGED <<req, body_chunks, server_keep_alive>>
      BY <1>1, <1>3 DEF Http!OnTcpData, Http!free
    <2>2. PICK p : p = SubSeq(net, 1, k)
      OBVIOUS
    <2>3. PICK x \in Nat : x = Len(net) /\ k \in 1 .. x /\ k \in Nat
      BY <1>2
    <2>4. p \in Seq(HcItems) /\ net' \in Seq(HcItems) /\ p \o net' = net /\ net # <<>>
      <3>1. p \in Seq(HcItems)
        BY <1>2, <2>2, <2>3
      <3>2. k \in 0 .. Len(net)
        BY <2>3
      <3>3. net' \in Seq(HcItems)
        BY <1>2, <2>1, <3>2, CutItems DEF Ws!Cut
      <3>4. net = SubSeq(net, 1, k) \o SubSeq(net, k + 1, Len(net))
        BY <1>2, <2>3, HeadTailProperties, SubSeqProperties, ConcatProperties, ConcatAdjacentSubSeq
      <3>5. net # <<>>
        <4>1. net = <<>> => Len(net) = 0
          OBVIOUS
        <4> QED BY <2>3, <4>1
      <3> QED BY <2>1, <2>2, <3>1, <3>3, <3>4, <3>5
    <2>5. packet \o net = net
      BY <1>2, <1>3, ConcatEmptySeq
    <2>6. early = FALSE => httpAt # "send"
      BY <2>4 DEF HcInv, HcFresh
    <2>7. CASE Http!Room(p)
      <3>1. Http!Received(p) /\ packet' = <<>>
        BY <1>3, <2>1, <2>2, <2>7
      <3>2. HcType'
        BY <1>1, <1>2, <2>4, <3>1, HcReceived DEF HcType
      <3>3. packet' \o net' = net'
        BY <2>4, <3>1, ConcatEmptySeq
      <3>4. early = FALSE => HcWhole'
        <4>1. SUFFICES ASSUME early = FALSE PROVE HcWhole'
          OBVIOUS
        <4>2. HcWhole
          BY <4>1 DEF HcInv
        <4>3. HcSound(req, p \o net', Len(got) + Len(body_chunks), request)
          BY <2>4, <2>5, <4>2 DEF HcWhole
        <4>4. /\ \A m \in 1 .. Len(body_chunks') : body_chunks'[m] = Http!Byte(request, Len(got) + m)
              /\ HcSound(req', net', Len(got) + Len(body_chunks'), request)
          BY <1>1, <1>2, <2>4, <3>1, <4>2, <4>3, HcReceived DEF HcWhole
        <4> QED BY <1>1, <3>3, <4>2, <4>4 DEF HcWhole
      <3> QED BY <1>1, <2>6, <3>1, <3>2, <3>4 DEF HcInv
    <2>8. CASE ~Http!Room(p)
      <3>1. packet' = p /\ UNCHANGED <<req, body_chunks, server_keep_alive>>
        BY <2>1, <2>2, <2>8
      <3>2. httpConnected = TRUE
        BY <1>2, <2>8 DEF Http!Room, WsFlags
      <3>3. HcType'
        BY <1>1, <1>2, <2>4, <3>1 DEF HcType
      <3>4. packet' \o net' = packet \o net
        BY <2>4, <2>5, <3>1
      <3>5. early = FALSE => HcWhole'
        <4>1. HcWhole => HcWhole'
          BY <1>1, <3>1, <3>4 DEF HcWhole
        <4> QED BY <4>1 DEF HcInv
      <3> QED BY <1>1, <2>6, <3>2, <3>3, <3>5 DEF HcInv
    <2> QED BY <2>7, <2>8
  <1>4. CASE packet # <<>>
    <2>1. Http!Received(packet) /\ packet' = <<>> /\ UNCHANGED net
      BY <1>1, <1>4 DEF Http!OnTcpData, Http!free
    <2>2. early = FALSE => httpAt # "send"
      BY <1>4 DEF HcInv, HcFresh
    <2>3. packet' \in Seq(HcItems) /\ net' \in Seq(HcItems) /\ packet' \o net' = net
      BY <1>2, <2>1, ConcatEmptySeq
    <2>4. HcType'
      BY <1>1, <1>2, <2>1, <2>3, HcReceived DEF HcType
    <2>5. early = FALSE => HcWhole'
      <3>1. SUFFICES ASSUME early = FALSE PROVE HcWhole'
        OBVIOUS
      <3>2. HcWhole
        BY <3>1 DEF HcInv
      <3>3. /\ \A m \in 1 .. Len(body_chunks') : body_chunks'[m] = Http!Byte(request, Len(got) + m)
            /\ HcSound(req', net, Len(got) + Len(body_chunks'), request)
        BY <1>1, <1>2, <2>1, <3>2, HcReceived DEF HcWhole
      <3> QED BY <1>1, <2>3, <3>2, <3>3 DEF HcWhole
    <2> QED BY <1>1, <2>1, <2>2, <2>4, <2>5 DEF HcInv
  <1> QED BY <1>3, <1>4

LEMMA EndedIs ==
    ASSUME NEW r \in HcRequests
    PROVE  \A p \in {[r EXCEPT !.eof = TRUE], [r EXCEPT !.connection_error = TRUE]} :
              /\ p \in HcRequests /\ p.state = r.state /\ p.rx_buffer = r.rx_buffer /\ p.headers = r.headers
              /\ p.chunk = r.chunk /\ p.body = r.body
  BY DEF HcRequests, WsFlags

\* Steps that change neither what was read nor the parser's place, and perhaps lose what comes.
LEMMA HcKept ==
    ASSUME HcInv, UNCHANGED <<got, body_chunks, request, packet, early>>,
           req' = req \/ req' = [req EXCEPT !.eof = TRUE] \/ req' = [req EXCEPT !.connection_error = TRUE],
           net' = net \/ net' = <<>>,
           httpConnected' \in WsFlags, server_keep_alive' \in WsFlags, closing' \in WsFlags,
           packet # <<>> => httpConnected' = TRUE \/ httpAt' = "closing",
           httpAt' = "send" => httpAt = "send"
    PROVE  HcInv'
  <1>1. HcType /\ packet \in Seq(HcItems) /\ net \in Seq(HcItems) /\ req \in HcRequests /\ req.body = <<>>
    BY DEF HcInv, HcType
  <1>2. /\ req' \in HcRequests /\ req'.state = req.state /\ req'.rx_buffer = req.rx_buffer
        /\ req'.headers = req.headers /\ req'.chunk = req.chunk /\ req'.body = req.body
    BY <1>1, EndedIs
  <1>3. net' \in Seq(HcItems)
    BY <1>1, NoItems
  <1>4. HcType'
    BY <1>1, <1>2, <1>3 DEF HcType
  <1>5. early = FALSE => HcWhole'
    <2>1. SUFFICES ASSUME HcWhole PROVE HcWhole'
      BY DEF HcInv
    <2>2. HcSound(req, packet \o net, Len(got) + Len(body_chunks), request)
      BY <2>1 DEF HcWhole
    <2>3. HcSound(req, packet \o net', Len(got) + Len(body_chunks), request)
      <3>1. CASE net' = net
        BY <2>2, <3>1
      <3>2. CASE net' = <<>>
        <4>1. packet \o net' = packet
          BY <1>1, <3>2, ConcatEmptySeq
        <4> QED BY <1>1, <2>2, <4>1, LessComes
      <3> QED BY <3>1, <3>2
    <2>4. HcSound(req', packet \o net', Len(got) + Len(body_chunks), request)
      BY <1>2, <2>3, SoundKept
    <2> QED BY <2>1, <2>4 DEF HcWhole
  <1>6. HcFresh => HcFresh'
    BY <1>2 DEF HcFresh
  <1> QED BY <1>4, <1>5, <1>6 DEF HcInv

LEMMA HcServerCloses == ASSUME HcInv, Http!ServerCloses PROVE HcInv'
  <1>1. PICK k \in 0 .. Len(net) : net' = SubSeq(net, 1, k)
    BY DEF Http!ServerCloses
  <1>2. closing' = TRUE /\ UNCHANGED <<httpConnected, server_keep_alive, req, body_chunks, httpAt, request,
                                       packet, got, early>>
    BY DEF Http!ServerCloses, Http!caller
  <1>3. HcType /\ packet \in Seq(HcItems) /\ net \in Seq(HcItems)
    BY DEF HcInv, HcType
  <1>4. PICK rest \in Seq(HcItems) : net' \in Seq(HcItems) /\ net = net' \o rest
    <2>1. PICK x \in Nat : x = Len(net) /\ k \in 0 .. x
      BY <1>3
    <2>2. SubSeq(net, k + 1, Len(net)) \in Seq(HcItems)
      BY <1>3, CutItems DEF Ws!Cut
    <2>3. CASE k = 0
      <3>1. net' = <<>>
        BY <1>1, <1>3, <2>3
      <3> QED BY <1>3, <3>1, ConcatEmptySeq
    <2>4. CASE k # 0
      <3>1. k \in 1 .. x /\ k \in Nat
        BY <2>1, <2>4
      <3>2. net = SubSeq(net, 1, k) \o SubSeq(net, k + 1, Len(net))
        BY <1>3, <2>1, <3>1, HeadTailProperties, SubSeqProperties, ConcatProperties, ConcatAdjacentSubSeq
      <3>3. SubSeq(net, 1, k) \in Seq(HcItems)
        BY <1>3, <2>1, <3>1
      <3> QED BY <1>1, <2>2, <3>2, <3>3
    <2> QED BY <2>3, <2>4
  <1>5. HcType'
    <2>1. closing' \in WsFlags
      BY <1>2 DEF WsFlags
    <2> QED BY <1>2, <1>3, <1>4, <2>1 DEF HcType
  <1>6. HcWhole => HcWhole'
    <2>1. SUFFICES ASSUME HcWhole PROVE HcWhole'
      OBVIOUS
    <2>2. packet \o net = (packet \o net') \o rest /\ packet \o net' \in Seq(HcItems)
      <3>1. (packet \o net') \o rest = packet \o (net' \o rest)
        BY <1>3, <1>4, HcRegrouped
      <3> QED BY <1>3, <1>4, <3>1, HcJoined
    <2>3. HcSound(req, packet \o net, Len(got) + Len(body_chunks), request)
      BY <2>1 DEF HcWhole
    <2>4. HcSound(req, packet \o net', Len(got) + Len(body_chunks), request)
      BY <1>4, <2>2, <2>3, LessComes
    <2> QED BY <1>2, <2>1, <2>4 DEF HcWhole
  <1>7. HcFresh => HcFresh'
    <2>1. net = <<>> => net' = <<>>
      <3>1. SUFFICES ASSUME net = <<>> PROVE net' = <<>>
        OBVIOUS
      <3>2. k = 0
        BY <3>1
      <3> QED BY <1>1, <1>3, <3>2
    <2> QED BY <1>2, <2>1 DEF HcFresh
  <1> QED BY <1>2, <1>5, <1>6, <1>7 DEF HcInv

LEMMA HcOpen == ASSUME BodyLength \in Nat \ {0}, HcInv, Http!Open PROVE HcInv'
  <1>1. HcType /\ request \in Nat /\ httpConnected \in WsFlags
    BY DEF HcInv, HcType
  <1>2. /\ httpAt \in {"idle", "open"} /\ req' = Http!NoRequest /\ body_chunks' = <<>> /\ got' = <<>>
        /\ request' = request + 1 /\ UNCHANGED <<server_keep_alive, packet>>
    BY DEF Http!Open, Http!ResetRequestState
  <1>3. req' \in HcRequests /\ req'.body = <<>> /\ req'.rx_buffer = <<>> /\ req'.state = "STATUS_LINE"
    BY <1>2 DEF Http!NoRequest, Http!NoHeaders, HcRequests, HcStates, HcHeads, WsFlags
  <1>4. packet # <<>> => httpConnected = TRUE
    BY <1>2 DEF HcInv
  <1>5. request' \in Nat /\ <<>> \in Seq(HcItems)
    BY <1>1, <1>2
  <1>6. ASSUME packet' = <<>>, net' = <<>> PROVE HcWhole' /\ HcFresh'
    <2>1. HcSound(req', <<>> \o <<>>, 0, request')
      BY <1>3, <1>5, SomeAnswer, FreshSound
    <2>2. Len(<<>>) = 0 /\ 0 + 0 = 0 /\ \A m \in 1 .. 0 : FALSE
      OBVIOUS
    <2>3. HcWhole'
      BY <1>2, <1>6, <2>1, <2>2 DEF HcWhole
    <2> QED BY <1>2, <1>3, <1>6, <2>3 DEF HcFresh
  <1>7. CASE Http!IsConnectionReusable
    <2>1. UNCHANGED <<httpConnected, net, closing>>
      BY <1>7 DEF Http!Open, Http!stream
    <2>2. early' = (early \/ ~req.received \/ ~Http!free \/ net # <<>>)
      BY <1>7 DEF Http!Open
    <2>3. early' \in WsFlags
      <3>1. (early \/ ~req.received \/ ~Http!free \/ net # <<>>) \in BOOLEAN
        OBVIOUS
      <3> QED BY <2>2, <3>1, Zenon DEF WsFlags
    <2>4. early' = FALSE => packet' = <<>> /\ net' = <<>>
      BY <1>2, <2>1, <2>2 DEF Http!free
    <2>5. HcType'
      BY <1>1, <1>2, <1>3, <1>5, <2>1, <2>3 DEF HcType
    <2>6. packet' # <<>> => httpConnected' = TRUE
      BY <1>2, <1>4, <2>1
    <2> QED BY <1>6, <2>4, <2>5, <2>6 DEF HcInv
  <1>8. CASE ~Http!IsConnectionReusable
    <2>1. PICK up \in BOOLEAN : httpConnected' = up
      BY <1>8 DEF Http!Open
    <2>2. net' = <<>> /\ closing' = FALSE /\ early' = FALSE /\ (httpConnected => packet = <<>>)
      BY <1>8 DEF Http!Open, Http!free
    <2>3. packet' = <<>>
      BY <1>2, <1>4, <2>2
    <2>4. httpConnected' \in WsFlags /\ closing' \in WsFlags /\ early' \in WsFlags
      BY <2>1, <2>2 DEF WsFlags
    <2>5. HcType'
      BY <1>1, <1>2, <1>3, <1>5, <2>2, <2>4 DEF HcType
    <2> QED BY <1>6, <2>2, <2>3, <2>5 DEF HcInv
  <1> QED BY <1>7, <1>8

LEMMA HcSend == ASSUME BodyLength \in Nat \ {0}, HcInv, Http!SendRequest PROVE HcInv'
  <1>1. HcType /\ request \in Nat /\ net \in Seq(HcItems) /\ packet \in Seq(HcItems) /\ req \in HcRequests
    BY DEF HcInv, HcType
  <1>2. httpAt = "send" /\ UNCHANGED <<body_chunks, request, packet, got, early>>
    BY DEF Http!SendRequest
  <1>3. CASE httpAt' = "open" /\ UNCHANGED <<httpConnected, server_keep_alive, req, closing>> /\ UNCHANGED net
    <2>1. /\ httpConnected' \in WsFlags /\ server_keep_alive' \in WsFlags /\ closing' \in WsFlags
          /\ (packet # <<>> => httpConnected' = TRUE)
      BY <1>1, <1>2, <1>3 DEF HcInv, HcType
    <2> QED BY <1>2, <1>3, <2>1, HcKept
  <1>4. ASSUME httpAt' = "open", UNCHANGED <<httpConnected, server_keep_alive, req, closing>>,
               NEW a \in Http!Answers(request), net' = net \o a
        PROVE  HcInv'
    <2>1. a \in Seq(HcItems)
      BY <1>1, AnswersLabelled
    <2>2. net' \in Seq(HcItems)
      BY <1>1, <1>4, <2>1, HcJoined
    <2>3. HcType'
      BY <1>1, <1>2, <1>4, <2>2 DEF HcType
    <2>4. early = FALSE => HcWhole'
      <3>1. SUFFICES ASSUME HcFresh PROVE HcWhole'
        BY <1>2 DEF HcInv
      <3>2. /\ packet' = <<>> /\ net' = a /\ got' = <<>> /\ body_chunks' = <<>>
            /\ req.rx_buffer = <<>> /\ req.state = "STATUS_LINE"
        <4>1. <<>> \o a = a
          BY <2>1, ConcatEmptySeq
        <4> QED BY <1>2, <1>4, <3>1, <4>1 DEF HcFresh
      <3>3. HcSound(req, <<>> \o a, 0, request)
        BY <1>1, <3>2, FreshSound DEF HcType
      <3>4. Len(<<>>) = 0 /\ 0 + 0 = 0 /\ \A m \in 1 .. 0 : FALSE
        OBVIOUS
      <3> QED BY <1>2, <1>4, <3>2, <3>3, <3>4 DEF HcWhole
    <2>5. packet' # <<>> => httpConnected' = TRUE
      BY <1>2, <1>4 DEF HcInv
    <2> QED BY <1>2, <1>4, <2>3, <2>4, <2>5 DEF HcInv
  <1>5. CASE /\ Http!free /\ httpAt' = "idle" /\ httpConnected' = FALSE /\ server_keep_alive' = FALSE
             /\ req' = Http!Ended /\ net' = <<>> /\ closing' = TRUE
    <2>1. /\ httpConnected' \in WsFlags /\ server_keep_alive' \in WsFlags /\ closing' \in WsFlags
          /\ packet = <<>>
      BY <1>5 DEF Http!free, WsFlags
    <2>2. req' = [req EXCEPT !.eof = TRUE] \/ req' = [req EXCEPT !.connection_error = TRUE]
      BY <1>5 DEF Http!Ended
    <2> QED BY <1>2, <1>5, <2>1, <2>2, HcKept
  <1> QED BY <1>3, <1>4, <1>5 DEF Http!SendRequest

LEMMA HcRead == ASSUME HcInv, Http!Read PROVE HcInv'
  <1>1. HcType /\ body_chunks \in Seq(HcItems) /\ got \in Seq(HcItems)
    BY DEF HcInv, HcType
  <1>2. /\ body_chunks # <<>> /\ got' = Append(got, Head(body_chunks)) /\ body_chunks' = Tail(body_chunks)
        /\ UNCHANGED <<httpConnected, server_keep_alive, req, httpAt, request, packet, net, closing, early>>
        /\ httpAt = "open"
    BY DEF Http!Read, Http!caller, Http!stream
  <1>3. PICK x \in Nat, y \in Nat : Len(got) = x /\ Len(body_chunks) = y
    BY <1>1
  <1>4. y # 0
    BY <1>1, <1>2, <1>3, EmptySeq
  <1>5. /\ Head(body_chunks) = body_chunks[1] /\ Head(body_chunks) \in HcItems
        /\ body_chunks' \in Seq(HcItems) /\ Len(body_chunks') = y - 1
        /\ \A m \in 1 .. y - 1 : body_chunks'[m] = body_chunks[m + 1]
    BY <1>1, <1>2, <1>3, HeadTailProperties
  <1>6. /\ got' \in Seq(HcItems) /\ Len(got') = x + 1 /\ got'[x + 1] = body_chunks[1]
        /\ \A m \in 1 .. x : got'[m] = got[m]
    BY <1>1, <1>2, <1>3, <1>5, AppendProperties
  <1>7. HcType'
    BY <1>1, <1>2, <1>5, <1>6 DEF HcType
  <1>8. HcWhole => HcWhole'
    <2>1. SUFFICES ASSUME HcWhole PROVE HcWhole'
      OBVIOUS
    <2>2. /\ \A m \in 1 .. x : got[m] = Http!Byte(request, m)
          /\ \A m \in 1 .. y : body_chunks[m] = Http!Byte(request, x + m)
          /\ HcSound(req, packet \o net, x + y, request)
      BY <1>3, <2>1 DEF HcWhole
    <2>3. \A m \in 1 .. x + 1 : got'[m] = Http!Byte(request, m)
      <3>1. 1 \in 1 .. y /\ \A m \in 1 .. x + 1 : m \in 1 .. x \/ m = x + 1
        BY <1>4
      <3> QED BY <1>6, <2>2, <3>1
    <2>4. \A m \in 1 .. y - 1 : body_chunks'[m] = Http!Byte(request, (x + 1) + m)
      <3>1. \A m \in 1 .. y - 1 : m + 1 \in 1 .. y /\ x + (m + 1) = (x + 1) + m
        OBVIOUS
      <3> QED BY <1>5, <2>2, <3>1
    <2>5. (x + 1) + (y - 1) = x + y
      OBVIOUS
    <2> QED BY <1>2, <1>5, <1>6, <2>2, <2>3, <2>4, <2>5 DEF HcWhole
  <1> QED BY <1>2, <1>7, <1>8 DEF HcInv

LEMMA HcNextInv == ASSUME BodyLength \in Nat \ {0}, HcInv, [Http!Next]_(Http!vars) PROVE HcInv'
  <1>1. /\ httpConnected \in WsFlags /\ server_keep_alive \in WsFlags /\ closing \in WsFlags
        /\ (packet # <<>> => httpConnected = TRUE \/ httpAt = "closing")
    BY DEF HcInv, HcType
  <1>2. CASE Http!ServerCloses
    BY <1>2, HcServerCloses
  <1>3. CASE Http!TcpData
    BY <1>3, HcTcpData
  <1>4. CASE Http!OnTcpDisconnected
    <2>1. req' = [req EXCEPT !.eof = TRUE] \/ req' = [req EXCEPT !.connection_error = TRUE]
      BY <1>4 DEF Http!OnTcpDisconnected, Http!Ended
    <2>2. httpConnected' \in WsFlags /\ server_keep_alive' \in WsFlags /\ closing' \in WsFlags
      BY <1>1, <1>4 DEF Http!OnTcpDisconnected, Http!stream, WsFlags
    <2> QED BY <1>4, <2>1, <2>2, HcKept DEF Http!OnTcpDisconnected, Http!free, Http!caller, Http!stream
  <1>5. CASE Http!Open
    BY <1>5, HcOpen
  <1>6. CASE Http!SendRequest
    BY <1>6, HcSend
  <1>7. CASE Http!Read
    BY <1>7, HcRead
  <1>8. CASE Http!ReadWhole
    <2>1. httpAt \in {"open", "reading"} /\ httpAt' \in {"open", "reading"}
      BY <1>8 DEF Http!ReadWhole, Http!ReadAll
    <2> QED BY <1>1, <1>8, <2>1, HcKept DEF Http!ReadWhole, Http!stream
  <1>9. CASE Http!CloseRequest
    <2>0. UNCHANGED <<body_chunks, request, packet, got, early>>
      BY <1>9 DEF Http!CloseRequest
    <2>1. CASE httpConnected' = FALSE /\ server_keep_alive' = FALSE /\ httpAt' = "closing" /\ UNCHANGED <<req, net, closing>>
      <3>1. httpConnected' \in WsFlags /\ server_keep_alive' \in WsFlags /\ closing' \in WsFlags
        BY <1>1, <2>1 DEF WsFlags
      <3> QED BY <2>0, <2>1, <3>1, HcKept
    <2>2. CASE /\ packet = <<>> /\ httpAt' = "idle" /\ req' = [req EXCEPT !.eof = TRUE] /\ net' = <<>>
               /\ closing' = TRUE /\ UNCHANGED <<httpConnected, server_keep_alive>>
      <3>1. httpConnected' \in WsFlags /\ server_keep_alive' \in WsFlags /\ closing' \in WsFlags
        BY <1>1, <2>2 DEF WsFlags
      <3> QED BY <2>0, <2>2, <3>1, HcKept
    <2> QED BY <1>9, <2>1, <2>2 DEF Http!CloseRequest, Http!Close, Http!free, Http!stream
  <1>10. CASE UNCHANGED Http!vars
    BY <1>1, <1>10, HcKept DEF Http!vars, Http!caller, Http!stream
  <1> QED BY <1>2, <1>3, <1>4, <1>5, <1>6, <1>7, <1>8, <1>9, <1>10 DEF Http!Next

\* BodyInOrder of MCModem: HttpClient::Read gives the bytes of the last request's body in
\* order, on a kept connection too, however long it is and however the answer is cut into
\* chunks and packets: the parser is always at a place of that answer, with as many bytes
\* before it as were handed on, until a place is reached behind which none comes.
THEOREM HttpBodyInOrder ==
    ASSUME BodyLength \in Nat \ {0} PROVE Http!Spec => []BodyInOrder
  <1>1. HcInv => BodyInOrder
    <2>1. HcInv => DOMAIN got = 1 .. Len(got)
      BY DEF HcInv, HcType
    <2>2. HcInv => early \in WsFlags
      BY DEF HcInv, HcType
    <2> QED BY <2>1, <2>2 DEF HcInv, HcWhole, BodyInOrder, Http!BodyInOrder, WsFlags
  <1> QED BY <1>1, HcInitInv, HcNextInv, PTL DEF Http!Spec
=============================================================================
