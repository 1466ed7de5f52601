---------------------------- MODULE Modem_proofs ----------------------------
(***************************************************************************)
(* What is proved of the classes of esp-ml307, of the sockets and of the   *)
(* upgrade that MCModem checks in turn, for every value of the constants   *)
(* that its .cfg gives a value.  Each section has the invariant of one     *)
(* class, one lemma or step per action, and its theorem.                   *)
(***************************************************************************)
EXTENDS Streams_proofs

-----------------------------------------------------------------------------
(* The command engine: at_uart.cc *)

AtFlags == {TRUE, FALSE}
AtCommands == [id : Nat, data : AtFlags]
AtLines == [kind : {"ok", "error", "cme", "text", "prompt", "urc"}, of : Nat]
AtHeld == {"clear", "wait", "data", "wait_data"}

AtType ==
    /\ at \in [Tasks -> {"idle", "lock"} \cup AtHeld]
    /\ cur \in [Tasks -> AtCommands] /\ \A t \in Tasks : at[t] # "idle" => cur[t].id > 0
    /\ ok \in [Tasks -> AtFlags] /\ clean \in [Tasks -> AtFlags]
    /\ issued \in Nat /\ expects \in Nat
    /\ owed \in Seq(AtCommands) /\ wire \in Seq(AtLines)

\* The task with command_mutex_ is the one with a command under way.
OneCommand == \A t \in Tasks : at[t] \in AtHeld <=> command_mutex = t

\* The lines w that answer commands: none; no prompt; one at most; all of command c.
NoAnswer(w)     == \A k \in 1 .. Len(w) : w[k].kind = "urc"
NoPrompt(w)     == \A k \in 1 .. Len(w) : w[k].kind # "prompt"
OneAnswer(w)    == \A j, k \in 1 .. Len(w) : w[j].kind # "urc" /\ w[k].kind # "urc" => j = k
AnswersOf(w, c) == \A k \in 1 .. Len(w) : w[k].kind # "urc" => w[k].of = c

\* What answers a command of task t that was sent when nothing was on its way: it is
\* of that command, and there is one prompt at most.
Own(t) ==
    /\ ~prompt
    /\ AnswersOf(wire, cur[t].id)
    /\ expects \in {0, cur[t].id}
    /\ "DONE" \in bits => cur[t].id \in doneBy
    /\ at[t] \in {"clear", "data"} => owed = <<>> /\ NoAnswer(wire) /\ "DONE" \notin bits
    /\ at[t] = "clear" => wait_for_response /\ expects = 0
    /\ at[t] = "wait" =>
          /\ wait_for_response
          /\ \/ owed = <<cur[t]>> /\ expects = 0 /\ NoAnswer(wire) /\ "DONE" \notin bits
             \/ owed = <<>>
          /\ cur[t].data => /\ OneAnswer(wire)
                            /\ "DONE" \in bits => NoAnswer(wire)
          /\ ~cur[t].data => NoPrompt(wire)
    /\ at[t] = "wait_data" =>
          /\ wait_for_response /\ NoPrompt(wire)
          /\ owed \in {<<>>, <<[id |-> cur[t].id, data |-> FALSE]>>}

AtInv == AtType /\ OneCommand /\ \A t \in Tasks : command_mutex = t /\ clean[t] => Own(t)

LEMMA Shorter ==
    ASSUME NEW w \in Seq(AtLines), w # <<>>
    PROVE  /\ Tail(w) \in Seq(AtLines) /\ Head(w) \in AtLines
           /\ NoAnswer(w) => NoAnswer(Tail(w)) /\ Head(w).kind = "urc"
           /\ NoPrompt(w) => NoPrompt(Tail(w)) /\ Head(w).kind # "prompt"
           /\ OneAnswer(w) => OneAnswer(Tail(w)) /\ (Head(w).kind # "urc" => NoAnswer(Tail(w)))
           /\ \A c : AnswersOf(w, c) => AnswersOf(Tail(w), c) /\ (Head(w).kind # "urc" => Head(w).of = c)
  <1> DEFINE v == Tail(w)
  <1>1. /\ v \in Seq(AtLines) /\ 1 \in 1 .. Len(w) /\ Head(w) = w[1] /\ w[1] \in AtLines
        /\ \A k \in 1 .. Len(v) : k + 1 \in 1 .. Len(w) /\ v[k] = w[k + 1] /\ k + 1 # 1
    OBVIOUS
  <1> HIDE DEF v
  <1>2. NoAnswer(w) => NoAnswer(v) /\ Head(w).kind = "urc"
    BY <1>1 DEF NoAnswer
  <1>3. NoPrompt(w) => NoPrompt(v) /\ Head(w).kind # "prompt"
    BY <1>1 DEF NoPrompt
  <1>4. ASSUME OneAnswer(w) PROVE OneAnswer(v) /\ (Head(w).kind # "urc" => NoAnswer(v))
    <2>1. ASSUME NEW j \in 1 .. Len(v), NEW k \in 1 .. Len(v), v[j].kind # "urc", v[k].kind # "urc" PROVE j = k
      <3>1. j + 1 = k + 1
        BY <1>1, <1>4, <2>1, SMTT(30) DEF OneAnswer
      <3> QED BY <3>1
    <2>2. Head(w).kind # "urc" => NoAnswer(v)
      BY <1>1, <1>4 DEF OneAnswer, NoAnswer
    <2> QED BY <2>1, <2>2 DEF OneAnswer
  <1>5. \A c : AnswersOf(w, c) => AnswersOf(v, c) /\ (Head(w).kind # "urc" => Head(w).of = c)
    BY <1>1 DEF AnswersOf
  <1> QED BY <1>1, <1>2, <1>3, <1>4, <1>5 DEF v

LEMMA Longer ==
    ASSUME NEW w \in Seq(AtLines), NEW e \in AtLines
    PROVE  /\ Append(w, e) \in Seq(AtLines)
           /\ e.kind = "urc" => (NoAnswer(w) => NoAnswer(Append(w, e))) /\ (OneAnswer(w) => OneAnswer(Append(w, e)))
           /\ NoAnswer(w) => OneAnswer(Append(w, e)) /\ NoPrompt(w)
           /\ NoPrompt(w) /\ e.kind # "prompt" => NoPrompt(Append(w, e))
           /\ \A c : AnswersOf(w, c) /\ (e.kind # "urc" => e.of = c) => AnswersOf(Append(w, e), c)
  <1> DEFINE v == Append(w, e)
  <1>1. /\ v \in Seq(AtLines) /\ Len(w) \in Nat /\ v[Len(w) + 1] = e
        /\ \A k \in 1 .. Len(v) : (k \in 1 .. Len(w) /\ v[k] = w[k]) \/ k = Len(w) + 1
    OBVIOUS
  <1> HIDE DEF v
  <1>2. e.kind = "urc" => (NoAnswer(w) => NoAnswer(v)) /\ (OneAnswer(w) => OneAnswer(v))
    BY <1>1 DEF NoAnswer, OneAnswer
  <1>3. NoAnswer(w) => OneAnswer(v) /\ NoPrompt(w)
    BY <1>1 DEF NoAnswer, OneAnswer, NoPrompt
  <1>4. NoPrompt(w) /\ e.kind # "prompt" => NoPrompt(v)
    BY <1>1 DEF NoPrompt
  <1>5. \A c : AnswersOf(w, c) /\ (e.kind # "urc" => e.of = c) => AnswersOf(v, c)
    BY <1>1 DEF AnswersOf
  <1> QED BY <1>1, <1>2, <1>3, <1>4, <1>5 DEF v

LEMMA LineIs ==
    ASSUME NEW k \in {"ok", "error", "cme", "text", "prompt", "urc"}, NEW i \in Nat
    PROVE  At!Line(k, i) \in AtLines /\ At!Line(k, i).kind = k /\ At!Line(k, i).of = i
  BY DEF At!Line, AtLines

\* The receive task: a line is taken, and the command under way knows of it.
LEMMA TakenInv ==
    ASSUME AtInv, wire # <<>>, wire' = Tail(wire), UNCHANGED At!host, UNCHANGED At!modem,
           \/ UNCHANGED <<bits, doneBy, prompt>>
           \/ Head(wire).kind \in {"prompt", "ok"} /\ At!Done(Head(wire).of) /\ UNCHANGED prompt
           \/ Head(wire).kind = "prompt" /\ ~wait_for_response /\ UNCHANGED <<bits, doneBy>>
           \/ "DONE" \notin bits' \ bits /\ UNCHANGED <<doneBy, prompt>>
           \/ ~prompt' /\ UNCHANGED <<bits, doneBy>>
    PROVE  AtInv'
  <1> USE DEF AtInv
  <1>1. wire \in Seq(AtLines) /\ UNCHANGED <<at, cur, ok, command_mutex, wait_for_response, issued, clean, owed, expects>>
    BY DEF AtType, At!host, At!modem
  <1>2. AtType' /\ OneCommand'
    BY <1>1, Shorter DEF AtType, OneCommand
  <1>3. ASSUME NEW t \in Tasks, command_mutex' = t, clean'[t] PROVE Own(t)'
    <2>1. Own(t) /\ at[t] \in AtHeld
      BY <1>1, <1>3 DEF OneCommand
    <2> DEFINE v == Tail(wire)
    <2>2. /\ NoAnswer(wire) => NoAnswer(v) /\ Head(wire).kind = "urc"
          /\ NoPrompt(wire) => NoPrompt(v) /\ Head(wire).kind # "prompt"
          /\ OneAnswer(wire) => OneAnswer(v) /\ (Head(wire).kind # "urc" => NoAnswer(v))
          /\ AnswersOf(v, cur[t].id) /\ (Head(wire).kind # "urc" => Head(wire).of = cur[t].id)
      BY <1>1, <2>1, Shorter DEF Own
    <2>3. wire' = v
      OBVIOUS
    <2> HIDE DEF v
    <2>4. ~prompt'
      <3>1. Head(wire).kind = "prompt" => at[t] \notin {"clear", "data"}
        BY <2>1, <2>2 DEF Own
      <3> QED BY <1>1, <2>1, <3>1 DEF Own, AtHeld
    <2>5. "DONE" \in bits' => cur[t].id \in doneBy'
      BY <2>1, <2>2 DEF Own, At!Done
    <2>6. "DONE" \in bits' => "DONE" \in bits \/ Head(wire).kind # "urc"
      BY DEF At!Done
    <2> QED BY <1>1, <2>1, <2>2, <2>3, <2>4, <2>5, <2>6 DEF Own
  <1> QED BY <1>2, <1>3

LEMMA MemberFlag == ASSUME NEW S, NEW e PROVE (e \in S) \in AtFlags
  <1>1. (e \in S) \in BOOLEAN
    OBVIOUS
  <1>2. \A b \in BOOLEAN : b \in AtFlags
    BY Zenon DEF AtFlags
  <1> QED BY <1>1, <1>2, Zenon

LEMMA AtInitInv == At!Init /\ None \notin Tasks => AtInv
  <1> SUFFICES ASSUME At!Init, None \notin Tasks PROVE AtInv
    OBVIOUS
  <1>1. At!NoCommand \in AtCommands /\ FALSE \in AtFlags
    BY DEF At!NoCommand, AtCommands, AtFlags
  <1>2. AtType
    <2>1. at \in [Tasks -> {"idle", "lock"} \cup AtHeld] /\ \A t \in Tasks : at[t] = "idle"
      BY DEF At!Init
    <2>2. cur \in [Tasks -> AtCommands] /\ ok \in [Tasks -> AtFlags] /\ clean \in [Tasks -> AtFlags]
      BY <1>1 DEF At!Init
    <2>3. owed \in Seq(AtCommands) /\ wire \in Seq(AtLines) /\ issued \in Nat /\ expects \in Nat
      BY DEF At!Init
    <2> QED BY <2>1, <2>2, <2>3 DEF AtType
  <1> QED BY <1>2 DEF At!Init, AtInv, OneCommand, AtHeld

LEMMA AtNextInv == ASSUME None \notin Tasks, AtInv, [At!Next]_(At!vars) PROVE AtInv'
  <1> USE DEF AtInv
  <1>0. TRUE \in AtFlags /\ FALSE \in AtFlags
    BY DEF AtFlags
  <1>1. /\ at \in [Tasks -> {"idle", "lock"} \cup AtHeld] /\ cur \in [Tasks -> AtCommands]
        /\ ok \in [Tasks -> AtFlags] /\ clean \in [Tasks -> AtFlags]
        /\ issued \in Nat /\ expects \in Nat /\ owed \in Seq(AtCommands) /\ wire \in Seq(AtLines)
        /\ \A t \in Tasks : cur[t] \in AtCommands /\ cur[t].id \in Nat /\ cur[t].data \in AtFlags
                            /\ (at[t] # "idle" => cur[t].id > 0)
    BY DEF AtType, AtCommands
  <1>2. \A e \in AtCommands : <<e>> \in Seq(AtCommands) /\ Append(owed, e) \in Seq(AtCommands)
    BY <1>1
  <1>3. ASSUME NEW t \in Tasks, At!Call(t) PROVE AtInv'
    <2>1. PICK d \in BOOLEAN : cur' = [cur EXCEPT ![t] = [id |-> issued + 1, data |-> d]]
      BY <1>3 DEF At!Call
    <2> DEFINE c == [id |-> issued + 1, data |-> d]
    <2>2. c \in AtCommands /\ c.id > 0 /\ issued + 1 \in Nat
      <3>1. d \in AtFlags
        BY Zenon DEF AtFlags
      <3>2. issued + 1 \in Nat /\ issued + 1 > 0
        BY <1>1
      <3> QED BY <3>1, <3>2 DEF AtCommands
    <2> HIDE DEF c
    <2>3. /\ at[t] = "idle" /\ at' = [at EXCEPT ![t] = "lock"] /\ cur' = [cur EXCEPT ![t] = c] /\ issued' = issued + 1
          /\ UNCHANGED <<ok, command_mutex, wait_for_response, clean, bits, prompt, owed, expects, wire, doneBy>>
      BY <1>3, <2>1 DEF At!Call, At!Goto, At!modem, c
    <2>4. AtType' /\ OneCommand'
      BY <1>1, <2>2, <2>3 DEF AtType, OneCommand, AtHeld
    <2>5. ASSUME NEW s \in Tasks, command_mutex' = s, clean'[s] PROVE Own(s)'
      <3>1. s # t
        BY <2>3, <2>5 DEF OneCommand, AtHeld
      <3>2. Own(s) /\ at'[s] = at[s] /\ cur'[s] = cur[s]
        BY <1>1, <2>3, <2>5, <3>1
      <3> QED BY <2>3, <3>2 DEF Own
    <2> QED BY <2>4, <2>5
  <1>4. ASSUME NEW t \in Tasks, At!Begin(t) PROVE AtInv'
    <2>1. /\ at[t] = "lock" /\ command_mutex = None /\ command_mutex' = t /\ bits' = {} /\ wait_for_response'
          /\ at' = [at EXCEPT ![t] = "clear"]
          /\ clean' = [clean EXCEPT ![t] = owed = <<>> /\ expects = 0 /\ ~prompt
                                           /\ \A i \in 1 .. Len(wire) : wire[i].kind = "urc"]
          /\ UNCHANGED <<cur, ok, issued, prompt, owed, expects, wire>>
      BY <1>4 DEF At!Begin, At!ClearBits, At!Goto, At!modem
    <2>2. clean' \in [Tasks -> AtFlags]
      BY <1>1, <2>1, Zenon DEF AtFlags
    <2>3. AtType'
      BY <1>1, <2>1, <2>2 DEF AtType, AtHeld
    <2>4. OneCommand'
      BY <1>1, <2>1 DEF OneCommand, AtHeld
    <2>5. clean'[t] => owed = <<>> /\ expects = 0 /\ ~prompt /\ NoAnswer(wire)
      BY <1>1, <2>1, Zenon DEF NoAnswer
    <2>6. NoAnswer(wire) => AnswersOf(wire, cur[t].id)
      BY DEF NoAnswer, AnswersOf
    <2>7. clean'[t] => Own(t)'
      BY <1>1, <2>1, <2>5, <2>6 DEF Own
    <2> QED BY <2>1, <2>3, <2>4, <2>7
  <1>5. ASSUME NEW t \in Tasks, At!Send(t) \/ At!SendPayload(t) PROVE AtInv'
    <2> DEFINE c == IF at[t] = "clear" THEN cur[t] ELSE [id |-> cur[t].id, data |-> FALSE]
    <2>1. c \in AtCommands
      BY <1>0, <1>1 DEF AtCommands
    <2>2. /\ owed' = Append(owed, c)
          /\ UNCHANGED <<cur, ok, command_mutex, issued, clean, bits, prompt, expects, wire>>
          /\ \/ at[t] = "clear" /\ at' = [at EXCEPT ![t] = "wait"] /\ UNCHANGED <<wait_for_response, doneBy>>
             \/ at[t] = "data" /\ at' = [at EXCEPT ![t] = "wait_data"] /\ wait_for_response'
      BY <1>5 DEF At!Send, At!SendPayload, At!Goto, At!modem
    <2>3. owed' \in Seq(AtCommands)
      BY <1>2, <2>1, <2>2
    <2>4. AtType'
      <3>1. at' \in [Tasks -> {"idle", "lock"} \cup AtHeld] /\ \A s \in Tasks : at'[s] # "idle" => at[s] # "idle"
        BY <1>1, <2>2 DEF AtHeld
      <3> QED BY <1>1, <2>2, <2>3, <3>1 DEF AtType
    <2>5. OneCommand' /\ command_mutex = t
      BY <1>1, <2>2 DEF OneCommand, AtHeld
    <2>6. ASSUME clean[t] PROVE Own(t)'
      <3>1. Own(t)
        BY <2>5, <2>6
      <3>2. owed = <<>> /\ NoAnswer(wire) /\ "DONE" \notin bits /\ owed' = <<c>>
        <4>1. at[t] \in {"clear", "data"}
          BY <2>2
        <4>2. owed = <<>> /\ NoAnswer(wire) /\ "DONE" \notin bits
          BY <3>1, <4>1 DEF Own
        <4>3. owed' = Append(owed, c)
          BY <2>2
        <4> HIDE DEF c
        <4> QED BY <4>2, <4>3
      <3>3. NoPrompt(wire) /\ OneAnswer(wire)
        BY <3>2 DEF NoAnswer, NoPrompt, OneAnswer
      <3>4. CASE at[t] = "clear"
        <4>1. at'[t] = "wait" /\ c = cur[t] /\ expects = 0 /\ UNCHANGED <<wait_for_response, doneBy>> /\ wait_for_response
          BY <1>1, <2>2, <3>1, <3>4 DEF Own
        <4> HIDE DEF c
        <4> QED BY <2>2, <3>1, <3>2, <3>3, <4>1 DEF Own
      <3>5. CASE at[t] = "data"
        <4>1. at'[t] = "wait_data" /\ c = [id |-> cur[t].id, data |-> FALSE] /\ wait_for_response'
          BY <1>1, <2>2, <3>5
        <4> HIDE DEF c
        <4> QED BY <2>2, <3>1, <3>2, <3>3, <4>1 DEF Own
      <3> QED BY <2>2, <3>4, <3>5
    <2> QED BY <2>2, <2>4, <2>5, <2>6
  <1>6. ASSUME NEW t \in Tasks, At!Waited(t) \/ At!WaitedData(t) PROVE AtInv'
    <2>1. /\ at[t] \in {"wait", "wait_data"} /\ bits' = {}
          /\ UNCHANGED <<cur, issued, clean, prompt, owed, expects, wire, doneBy>>
          /\ \/ /\ at[t] = "wait" /\ "DONE" \in bits /\ cur[t].data
                /\ at' = [at EXCEPT ![t] = "data"] /\ UNCHANGED <<ok, command_mutex>>
             \/ /\ at' = [at EXCEPT ![t] = "idle"] /\ command_mutex' = None
                /\ \E r \in AtFlags : ok' = [ok EXCEPT ![t] = r]
      <3>1. ("DONE" \in bits) \in AtFlags
        BY MemberFlag
      <3> QED BY <1>6, <3>1 DEF At!Waited, At!WaitedData, At!Return, At!Goto, At!modem
    <2>2. AtType'
      BY <1>1, <2>1 DEF AtType, AtHeld
    <2>3. command_mutex = t
      BY <2>1 DEF OneCommand, AtHeld
    <2>4. OneCommand'
      BY <1>1, <2>1, <2>3 DEF OneCommand, AtHeld
    <2>5. ASSUME NEW s \in Tasks, command_mutex' = s, clean'[s] PROVE Own(s)'
      <3>1. s = t /\ Own(t) /\ at[t] = "wait" /\ "DONE" \in bits /\ cur[t].data /\ at'[t] = "data"
        BY <1>1, <2>1, <2>3, <2>5
      <3>2. owed = <<>> /\ NoAnswer(wire)
        BY <3>1 DEF Own
      <3> QED BY <2>1, <3>1, <3>2 DEF Own
    <2> QED BY <2>2, <2>4, <2>5
  <1>7. CASE At!ModemAnswers
    <2> DEFINE c == Head(owed)
    <2>1. /\ owed # <<>> /\ owed' = Tail(owed)
          /\ UNCHANGED <<at, cur, ok, command_mutex, wait_for_response, issued, clean, bits, prompt, doneBy>>
      BY <1>7 DEF At!ModemAnswers, At!host
    <2>2. owed' \in Seq(AtCommands) /\ c \in AtCommands /\ c.id \in Nat
      <3>1. owed' \in Seq(AtCommands) /\ c \in AtCommands
        BY <1>1, <2>1
      <3> QED BY <3>1 DEF AtCommands
    <2>3. \/ /\ expects # 0 /\ expects' = 0
             /\ \E k \in {"ok", "error"} : wire' = Append(wire, At!Line(k, expects))
          \/ /\ expects = 0 /\ c.data /\ expects' = c.id /\ wire' = Append(wire, At!Line("prompt", c.id))
          \/ /\ expects = 0 /\ expects' = 0 /\ ~c.data
             /\ wire' = Append(Append(wire, At!Line("text", c.id)), At!Line("ok", c.id))
          \/ /\ expects = 0 /\ expects' = 0
             /\ \E k \in {"ok", "error", "cme"} : wire' = Append(wire, At!Line(k, c.id)) /\ (k = "ok" => ~c.data)
      <3>1. wire \o <<At!Line("text", c.id), At!Line("ok", c.id)>> = Append(Append(wire, At!Line("text", c.id)), At!Line("ok", c.id))
        <4>1. At!Line("text", c.id) \in AtLines /\ At!Line("ok", c.id) \in AtLines
          BY <2>2, LineIs
        <4> QED BY <1>1, <4>1
      <3> HIDE DEF c
      <3>2. \/ /\ expects # 0 /\ expects' = 0
               /\ \E k \in {"ok", "error"} : wire' = Append(wire, At!Line(k, expects))
            \/ /\ expects = 0 /\ c.data /\ expects' = c.id /\ wire' = Append(wire, At!Line("prompt", c.id))
            \/ /\ expects = 0 /\ expects' = 0 /\ ~c.data
               /\ wire' \in {Append(wire, At!Line("ok", c.id)), wire \o <<At!Line("text", c.id), At!Line("ok", c.id)>>}
            \/ /\ expects = 0 /\ expects' = 0
               /\ \E k \in {"error", "cme"} : wire' = Append(wire, At!Line(k, c.id))
        BY <1>7, Zenon DEF At!ModemAnswers, c
      <3> QED BY <3>1, <3>2
    <2> HIDE DEF c
    <2> DEFINE Answered(w, e, x) ==
             /\ wire' = Append(w, e) /\ w \in Seq(AtLines) /\ e \in AtLines /\ e.kind # "urc"
             /\ x \in Nat /\ x = (IF expects # 0 THEN expects ELSE c.id) /\ e.of = x /\ expects' \in {0, x}
             /\ e.kind = "prompt" => expects = 0 /\ c.data
             /\ w = wire \/ (expects = 0 /\ ~c.data /\ w = Append(wire, At!Line("text", x)))
    <2>4. \E w, e, x : Answered(w, e, x)
      <3>1. CASE expects # 0 /\ expects' = 0
        <4>1. PICK k \in {"ok", "error"} : wire' = Append(wire, At!Line(k, expects))
          BY <2>3, <3>1
        <4>2. At!Line(k, expects) \in AtLines /\ At!Line(k, expects).kind = k /\ At!Line(k, expects).of = expects
          BY <1>1, LineIs
        <4>3. Answered(wire, At!Line(k, expects), expects)
          BY <1>1, <3>1, <4>1, <4>2
        <4> QED BY <4>3, Zenon
      <3>2. CASE expects = 0 /\ c.data /\ expects' = c.id /\ wire' = Append(wire, At!Line("prompt", c.id))
        <4>1. At!Line("prompt", c.id) \in AtLines /\ At!Line("prompt", c.id).kind = "prompt" /\ At!Line("prompt", c.id).of = c.id
          BY <2>2, LineIs
        <4>2. Answered(wire, At!Line("prompt", c.id), c.id)
          BY <1>1, <2>2, <3>2, <4>1
        <4> QED BY <4>2, Zenon
      <3>3. CASE expects = 0 /\ expects' = 0 /\ ~c.data /\ wire' = Append(Append(wire, At!Line("text", c.id)), At!Line("ok", c.id))
        <4>1. /\ At!Line("ok", c.id) \in AtLines /\ At!Line("ok", c.id).kind = "ok" /\ At!Line("ok", c.id).of = c.id
              /\ At!Line("text", c.id) \in AtLines
          BY <2>2, LineIs
        <4>2. Append(wire, At!Line("text", c.id)) \in Seq(AtLines)
          BY <1>1, <4>1, Longer
        <4>3. Answered(Append(wire, At!Line("text", c.id)), At!Line("ok", c.id), c.id)
          BY <1>1, <2>2, <3>3, <4>1, <4>2
        <4> QED BY <4>3, Zenon
      <3>4. CASE expects = 0 /\ expects' = 0 /\ \E k \in {"ok", "error", "cme"} : wire' = Append(wire, At!Line(k, c.id)) /\ (k = "ok" => ~c.data)
        <4>1. PICK k \in {"ok", "error", "cme"} : wire' = Append(wire, At!Line(k, c.id))
          BY <3>4
        <4>2. At!Line(k, c.id) \in AtLines /\ At!Line(k, c.id).kind = k /\ At!Line(k, c.id).of = c.id
          BY <2>2, LineIs
        <4>3. Answered(wire, At!Line(k, c.id), c.id)
          BY <1>1, <2>2, <3>4, <4>1, <4>2
        <4> QED BY <4>3, Zenon
      <3> QED BY <2>3, <3>1, <3>2, <3>3, <3>4
    <2>9. PICK w, e, x : Answered(w, e, x)
      BY <2>4
    <2>5. AtType' /\ OneCommand'
      <3>1. wire' \in Seq(AtLines) /\ expects' \in Nat
        BY <2>9, Longer
      <3> QED BY <1>1, <2>1, <2>2, <3>1 DEF AtType, OneCommand
    <2>6. ASSUME NEW t \in Tasks, command_mutex' = t, clean'[t] PROVE Own(t)'
      <3>1. Own(t) /\ at[t] \in AtHeld
        BY <2>1, <2>6 DEF OneCommand
      <3>2. at[t] \in {"wait", "wait_data"} /\ owed' = <<>> /\ c.id = cur[t].id
            /\ (at[t] = "wait" => c = cur[t] /\ expects = 0 /\ NoAnswer(wire) /\ "DONE" \notin bits)
            /\ (at[t] = "wait_data" => ~c.data /\ NoPrompt(wire))
        <4>1. CASE at[t] = "wait"
          <5>1. owed = <<cur[t]>> /\ expects = 0 /\ NoAnswer(wire) /\ "DONE" \notin bits
            BY <2>1, <3>1, <4>1 DEF Own
          <5>2. Tail(owed) = <<>> /\ c = cur[t]
            BY <1>1, <5>1 DEF c
          <5> QED BY <2>1, <4>1, <5>1, <5>2
        <4>2. CASE at[t] = "wait_data"
          <5>1. owed = <<[id |-> cur[t].id, data |-> FALSE]>> /\ NoPrompt(wire)
            BY <2>1, <3>1, <4>2 DEF Own
          <5>2. Tail(owed) = <<>> /\ c = [id |-> cur[t].id, data |-> FALSE]
            BY <5>1 DEF c
          <5> QED BY <2>1, <4>2, <5>1, <5>2
        <4> QED BY <2>1, <3>1, <4>1, <4>2 DEF Own, AtHeld
      <3>3. x = cur[t].id
        BY <2>9, <3>1, <3>2 DEF Own
      <3>4. AnswersOf(w, x) /\ (NoPrompt(wire) => NoPrompt(w)) /\ AnswersOf(wire, x)
        <4>1. AnswersOf(wire, x)
          BY <3>1, <3>3 DEF Own
        <4>2. At!Line("text", x) \in AtLines /\ At!Line("text", x).kind = "text" /\ At!Line("text", x).of = x
          BY <2>9, LineIs
        <4>3. CASE w = wire
          BY <4>1, <4>3
        <4>4. CASE w = Append(wire, At!Line("text", x))
          <5> DEFINE l == At!Line("text", x)
          <5>1. l \in AtLines /\ l.kind = "text" /\ l.of = x /\ w = Append(wire, l)
            BY <4>2, <4>4
          <5> HIDE DEF l
          <5> QED BY <1>1, <4>1, <5>1, Longer
        <4> QED BY <2>9, <4>3, <4>4
      <3>5. AnswersOf(wire', x)
        BY <2>9, <3>4, Longer
      <3>6. NoPrompt(wire) /\ e.kind # "prompt" => NoPrompt(wire')
        BY <2>9, <3>4, Longer
      <3>7. CASE at[t] = "wait"
        <4>1. NoPrompt(wire)
          BY <3>2, <3>7 DEF NoAnswer, NoPrompt
        <4>2. cur[t].data => w = wire /\ OneAnswer(wire')
          BY <1>1, <2>9, <3>2, <3>7, Longer
        <4>3. ~cur[t].data => NoPrompt(wire')
          BY <2>9, <3>2, <3>6, <3>7, <4>1
        <4> QED BY <2>1, <2>9, <3>1, <3>2, <3>3, <3>5, <3>7, <4>2, <4>3 DEF Own
      <3>8. CASE at[t] = "wait_data"
        <4>1. NoPrompt(wire')
          BY <2>9, <3>2, <3>6, <3>8
        <4> QED BY <2>1, <2>9, <3>1, <3>2, <3>3, <3>5, <3>8, <4>1 DEF Own
      <3> QED BY <3>2, <3>7, <3>8
    <2> QED BY <2>5, <2>6
  <1>8. CASE At!ModemReports
    <2>1. /\ wire' = Append(wire, At!Line("urc", 0))
          /\ UNCHANGED <<at, cur, ok, command_mutex, wait_for_response, issued, clean, bits, prompt, owed, expects, doneBy>>
      BY <1>8 DEF At!ModemReports, At!host, At!modem
    <2>2. At!Line("urc", 0) \in AtLines /\ At!Line("urc", 0).kind = "urc"
      BY LineIs
    <2>3. AtType' /\ OneCommand'
      BY <1>1, <2>1, <2>2, Longer DEF AtType, OneCommand
    <2>4. ASSUME NEW t \in Tasks, command_mutex' = t, clean'[t] PROVE Own(t)'
      <3>1. Own(t)
        BY <2>1, <2>4
      <3>2. /\ NoAnswer(wire) => NoAnswer(wire')
            /\ OneAnswer(wire) => OneAnswer(wire')
            /\ NoPrompt(wire) => NoPrompt(wire')
            /\ AnswersOf(wire, cur[t].id) => AnswersOf(wire', cur[t].id)
        BY <1>1, <2>1, <2>2, Longer
      <3> QED BY <2>1, <3>1, <3>2 DEF Own
    <2> QED BY <2>3, <2>4
  <1>9. CASE At!ParsePrompt \/ At!ParseOk
    <2>1. /\ wire # <<>> /\ wire' = Tail(wire) /\ UNCHANGED At!host /\ UNCHANGED At!modem
          /\ \/ Head(wire).kind \in {"prompt", "ok"} /\ At!Done(Head(wire).of) /\ UNCHANGED prompt
             \/ Head(wire).kind = "prompt" /\ ~wait_for_response /\ UNCHANGED <<bits, doneBy>>
      BY <1>9 DEF At!ParsePrompt, At!ParseOk, At!Parsing, At!Clear, At!Taken
    <2> QED BY <2>1, TakenInv
  <1>10. CASE At!ParseError \/ At!ParseText \/ At!ParseUrc
    <2>1. /\ wire # <<>> /\ wire' = Tail(wire) /\ UNCHANGED At!host /\ UNCHANGED At!modem
          /\ \/ "DONE" \notin bits' \ bits /\ UNCHANGED <<doneBy, prompt>>
             \/ ~prompt' /\ UNCHANGED <<bits, doneBy>>
      BY <1>10 DEF At!ParseError, At!ParseText, At!ParseUrc, At!Parsing, At!Clear, At!Taken
    <2> QED BY <2>1, TakenInv
  <1>11. CASE At!ParseOldPrompt
    <2>1. prompt /\ ~prompt' /\ UNCHANGED <<at, cur, ok, command_mutex, wait_for_response, issued, clean, owed, expects, wire>>
      BY <1>11 DEF At!ParseOldPrompt, At!host, At!modem
    <2>2. AtType' /\ OneCommand'
      BY <2>1 DEF AtType, OneCommand
    <2>3. \A t \in Tasks : ~(command_mutex' = t /\ clean'[t])
      BY <2>1 DEF Own
    <2> QED BY <2>2, <2>3
  <1>12. CASE At!CallbackReturns \/ At!CallbackSends \/ UNCHANGED At!vars
    <2>1. UNCHANGED <<at, cur, ok, command_mutex, wait_for_response, issued, clean, bits, prompt, owed, expects, wire, doneBy>>
      BY <1>12 DEF At!CallbackReturns, At!CallbackSends, At!vars, At!host, At!modem
    <2>2. AtType' /\ OneCommand'
      BY <2>1 DEF AtType, OneCommand
    <2>3. \A t \in Tasks : Own(t) => Own(t)'
      BY <2>1 DEF Own
    <2> QED BY <2>1, <2>2, <2>3
  <1> QED BY <1>3, <1>4, <1>5, <1>6, <1>7, <1>8, <1>9, <1>10, <1>11, <1>12
          DEF At!Next, At!Calling, At!Sending, At!SendCommandWithData, At!Modem, At!ReceiveTask

\* OkIsOwn of MCModem: a command that was sent when nothing of an earlier one was on its
\* way succeeds only when the modem did it: the confirmation it was given is its own,
\* over echoes, URCs, lost answers and timeouts of commands before it.
THEOREM AtOkIsOwn == ASSUME None \notin Tasks PROVE At!Spec => OkIsOwn
  <1>1. At!Init => AtInv
    BY AtInitInv
  <1>2. AtInv /\ [At!Next]_(At!vars) => AtInv'
    BY AtNextInv
  <1>3. AtInv /\ [At!Next]_(At!vars) => [\A t \in Tasks : at[t] # "idle" /\ at'[t] = "idle" /\ ok'[t] /\ clean[t]
                                    => cur[t].id \in doneBy]_(At!vars)
    <2> SUFFICES ASSUME AtInv, At!Next, NEW t \in Tasks, at[t] # "idle", at'[t] = "idle", ok'[t], clean[t]
                 PROVE  cur[t].id \in doneBy
      BY DEF AtInv
    <2>1. at \in [Tasks -> {"idle", "lock"} \cup AtHeld] /\ ok \in [Tasks -> AtFlags]
      BY DEF AtInv, AtType
    <2>2. PICK s \in Tasks : At!Waited(s) \/ At!WaitedData(s)
      <3>1. CASE At!Calling
        BY <2>1, <3>1 DEF At!Calling, At!Call, At!Goto
      <3>2. CASE At!Sending
        <4>1. PICK s \in Tasks : At!SendCommandWithData(s)
          BY <3>2 DEF At!Sending
        <4>2. ~(At!Begin(s) \/ At!Send(s) \/ At!SendPayload(s))
          BY <2>1 DEF At!Begin, At!Send, At!SendPayload, At!Goto
        <4> QED BY <4>1, <4>2 DEF At!SendCommandWithData
      <3>3. CASE At!Modem \/ At!ReceiveTask \/ At!CallbackSends
        <4>1. at' = at
          BY <3>3 DEF At!Modem, At!ModemAnswers, At!ModemReports, At!ReceiveTask,
             At!ParsePrompt, At!ParseOldPrompt, At!ParseOk, At!ParseError,
                      At!ParseText, At!ParseUrc, At!CallbackReturns, At!CallbackSends, At!host
        <4> QED BY <4>1
      <3> QED BY <3>1, <3>2, <3>3 DEF At!Next
    <2>3. /\ at' = [at EXCEPT ![s] = "idle"] \/ at' = [at EXCEPT ![s] = "data"]
          /\ at'[s] = "idle" => ok' = [ok EXCEPT ![s] = ("DONE" \in bits)]
          /\ at[s] \in AtHeld
      BY <2>1, <2>2 DEF At!Waited, At!WaitedData, At!Return, At!Goto, AtHeld
    <2>4. s = t
      BY <2>1, <2>3
    <2>5. "DONE" \in bits /\ command_mutex = t
      BY <2>1, <2>3, <2>4 DEF AtInv, OneCommand
    <2> QED BY <2>5 DEF AtInv, Own
  <1> QED BY <1>1, <1>2, <1>3, PTL DEF At!Spec, OkIsOwn, At!OkIsOwn

-----------------------------------------------------------------------------
(* The registration: at_modem.cc and ml307_at_modem.cc *)

\* The bit READY is set by a report of this call only, and the address is asked for
\* only after one.
NetworkInv ==
    /\ fresh \in BOOLEAN
    /\ "READY" \in netBits => fresh
    /\ step = "ip" => fresh

LEMMA NetworkInitInv == Network!Init => NetworkInv
  BY DEF Network!Init, NetworkInv

LEMMA NetworkNextInv == ASSUME NetworkInv, [Network!Next]_(Network!vars) PROVE NetworkInv'
  <1> USE DEF NetworkInv
  <1>1. CASE Network!UrcCereg
    <2>1. PICK s \in {0, 1, 2, Network!Denied, 5} :
              /\ netBits' = netBits \cup (IF s \in Network!Registered THEN {"READY"}
                                          ELSE IF s = Network!Denied THEN {"ERROR"} ELSE {})
              /\ fresh' = (fresh \/ s \in Network!Registered)
      BY <1>1 DEF Network!UrcCereg
    <2>2. step' = step
      BY <1>1 DEF Network!UrcCereg, Network!call
    <2>3. fresh' \in BOOLEAN /\ (fresh => fresh') /\ (s \in Network!Registered => fresh')
      BY <2>1
    <2>4. "READY" \in netBits' => "READY" \in netBits \/ s \in Network!Registered
      BY <2>1
    <2> QED BY <2>2, <2>3, <2>4
  <1>2. CASE Network!UrcCpin \/ Network!UrcMipcall \/ Network!UrcMatready
    BY <1>2 DEF Network!UrcCpin, Network!UrcMipcall, Network!UrcMatready, Network!call
  <1>3. CASE Network!Begin \/ Network!QueryPin \/ Network!QueryCereg
    BY <1>3 DEF Network!Begin, Network!QueryPin, Network!QueryCereg, Network!Return
  <1>4. CASE Network!WaitRegistered \/ Network!PollIp
    BY <1>4 DEF Network!WaitRegistered, Network!PollIp, Network!Return
  <1>5. CASE Network!SetFlightMode \/ UNCHANGED Network!vars
    BY <1>5 DEF Network!SetFlightMode, Network!vars, Network!call
  <1> QED BY <1>1, <1>2, <1>3, <1>4, <1>5 DEF Network!Next, Network!HandleUrc,
             Network!WaitForNetworkReady

\* ReadyIsFresh of MCModem: WaitForNetworkReady returns Ready only for a report of the
\* network that came while it waited.
THEOREM NetworkReadyIsFresh == Network!Spec => ReadyIsFresh
  <1>1. ASSUME NetworkInv, Network!Next, step # "idle", step' = "idle", status' = "Ready" PROVE fresh
    <2>1. CASE Network!HandleUrc
      BY <1>1, <2>1 DEF Network!HandleUrc, Network!UrcCereg, Network!UrcCpin,
         Network!UrcMipcall, Network!UrcMatready, Network!call
    <2>2. CASE Network!Begin \/ Network!QueryPin \/ Network!QueryCereg \/ Network!SetFlightMode
      BY <1>1, <2>2 DEF Network!Begin, Network!QueryPin, Network!QueryCereg,
         Network!SetFlightMode, Network!Return
    <2>3. CASE Network!WaitRegistered
      BY <1>1, <2>3 DEF Network!WaitRegistered, Network!Return
    <2>4. CASE Network!PollIp
      BY <1>1, <2>4 DEF Network!PollIp, NetworkInv
    <2> QED BY <1>1, <2>1, <2>2, <2>3, <2>4 DEF Network!Next, Network!WaitForNetworkReady
  <1>2. NetworkInv /\ [Network!Next]_(Network!vars) => [step # "idle" /\ step' = "idle" /\ status' = "Ready" => fresh]_(Network!vars)
    BY <1>1
  <1> QED BY <1>2, NetworkInitInv, NetworkNextInv, PTL DEF Network!Spec,
             ReadyIsFresh, Network!ReadyIsFresh

-----------------------------------------------------------------------------
(* The sockets of the ML307: ml307_tcp.cc *)

\* SEND_COMPLETE stands for a confirmation that Send has not counted.
TcpInv ==
    /\ sent \in Nat /\ confirmed \in Nat
    /\ sent <= confirmed
    /\ "SEND_COMPLETE" \in tcpBits => sent < confirmed

LEMMA TcpInitInv == Tcp!Init => TcpInv
  BY DEF Tcp!Init, TcpInv

LEMMA TcpNextInv == ASSUME TcpInv, [Tcp!Next]_(Tcp!vars) PROVE TcpInv'
  <1> USE DEF TcpInv
  <1>1. CASE Tcp!Caller
    <2>1. CASE Tcp!ChunkSent
      BY <2>1 DEF Tcp!ChunkSent, Tcp!Taken, Tcp!Return
    <2>2. CASE Tcp!ConnectCall \/ Tcp!StateKnown \/ Tcp!CloseOld \/ Tcp!OldClosed \/ Tcp!ConfigureSsl \/ Tcp!Open \/ Tcp!Opened
      BY <2>2 DEF Tcp!ConnectCall, Tcp!StateKnown, Tcp!CloseOld, Tcp!OldClosed,
         Tcp!ConfigureSsl, Tcp!Open, Tcp!Opened, Tcp!history
    <2>3. CASE Tcp!SendCall \/ Tcp!SendChunk \/ Tcp!DisconnectCall \/ Tcp!Disconnect \/ Tcp!DisconnectWaited \/ Tcp!Disconnected
      BY <2>3 DEF Tcp!SendCall, Tcp!SendChunk, Tcp!DisconnectCall, Tcp!Disconnect,
         Tcp!DisconnectWaited, Tcp!Disconnected, Tcp!history
    <2> QED BY <1>1, <2>1, <2>2, <2>3 DEF Tcp!Caller
  <1>2. CASE Tcp!HandleUrc
    <2>1. CASE Tcp!UrcSent
      BY <2>1 DEF Tcp!UrcSent
    <2>2. CASE Tcp!UrcOpen /\ UNCHANGED Tcp!history
      BY <2>2 DEF Tcp!UrcOpen, Tcp!history
    <2>3. CASE Tcp!UrcClose \/ Tcp!UrcDisconn \/ Tcp!UrcState
      BY <2>3 DEF Tcp!UrcClose, Tcp!UrcDisconn, Tcp!UrcState, Tcp!history
    <2> QED BY <1>2, <2>1, <2>2, <2>3 DEF Tcp!HandleUrc
  <1>3. CASE Tcp!PeerCloses \/ UNCHANGED Tcp!vars
    BY <1>3 DEF Tcp!PeerCloses, Tcp!vars, Tcp!history
  <1> QED BY <1>1, <1>2, <1>3 DEF Tcp!Next

\* ConfirmedOnce of MCModem: Ml307Tcp::Send has as many confirmations as chunks it went
\* on after, whatever closes the connection between two of them.
THEOREM TcpConfirmedOnce == Tcp!Spec => []ConfirmedOnce
  <1>1. TcpInv => ConfirmedOnce
    BY DEF TcpInv, ConfirmedOnce, Tcp!ConfirmedOnce
  <1> QED BY <1>1, TcpInitInv, TcpNextInv, PTL DEF Tcp!Spec

-----------------------------------------------------------------------------
(* The sockets that share the connections of the modem: ml307_udp_socket.cc *)

UdpFlags == {TRUE, FALSE}
UdpLines == [what : {"state_initial", "state_open", "close", "opened", "open_failed", "sent", "rudp"},
             id : Nat, data : Nat]
Udps == [id : Udp!Ids, connected : UdpFlags, instance_active : UdpFlags,
         last_packet : Nat, has_packet : UdpFlags]
Messages == [data : Nat, to : SUBSET Remotes, in : Remotes \cup {0}]
Packets == [from : Remotes, data : Nat]
Making == {"state", "close", "closing", "config", "open", "opening", "failed"}
Copying == {"copying", "copied"}

UdpType ==
    /\ conns \subseteq Remotes /\ making \in Remotes \cup {0} /\ dest \in Remotes \cup {0}
    /\ udp \in [Remotes -> Udps] /\ next_id \in Nat /\ packets \in Nat
    /\ udpUrc \in Seq(UdpLines) /\ handed \in Seq(Packets) /\ arriving \in Messages
    /\ udpAt \in {"idle", "get", "create", "send", "sending"} \cup Copying \cup Making
    /\ udpAt \in Making => making \in Remotes
    /\ udpAt \notin {"idle"} \cup Copying => dest \in Remotes
    /\ udpAt \in Copying => reading \in Remotes \X Nat

\* Every packet on its way is newer than packet d.
Older(u, d) == \A k \in 1 .. Len(u) : u[k].what = "rudp" => d < u[k].data

\* The packets come in order; what has been stored or handed came before them.
QueueInv ==
    /\ \A j, k \in 1 .. Len(udpUrc) :
           j < k /\ udpUrc[j].what = "rudp" /\ udpUrc[k].what = "rudp" => udpUrc[j].data < udpUrc[k].data
    /\ \A k \in 1 .. Len(udpUrc) : udpUrc[k].what = "rudp" => udpUrc[k].data \in 1 .. packets
    /\ \A r \in Remotes : udp[r].last_packet <= packets /\ Older(udpUrc, udp[r].last_packet)
    /\ \A n \in 1 .. Len(handed) : handed[n].data <= packets /\ Older(udpUrc, handed[n].data)
    /\ arriving.data <= packets /\ Older(udpUrc, arriving.data)

\* Packet e has not been handed, or once only; those handed of r are d or older.
Never(h, e) == \A n \in 1 .. Len(h) : h[n] # e
Once(h, e) == \A m, n \in 1 .. Len(h) : h[m] = e /\ h[n] = e => m = n
UpTo(h, r, d) == \A n \in 1 .. Len(h) : h[n].from = r => h[n].data <= d
Storing(r) == arriving.in = r /\ r # 0
Stored(r) == [from |-> r, data |-> udp[r].last_packet]

\* The message in hand is newer than what the connections still to get it hold and gave.
MessageInv ==
    \A r \in arriving.to :
        /\ udp[r].last_packet < arriving.data
        /\ \A n \in 1 .. Len(handed) : handed[n].from = r => handed[n].data < arriving.data

\* A stored packet can be handed once for the has_packet of the one before it, and once
\* for its own.
StoredInv ==
    \A r \in Remotes : udp[r].last_packet # 0 =>
        /\ udp[r].has_packet /\ Storing(r) => Never(handed, Stored(r))
        /\ udp[r].has_packet \/ Storing(r) => Once(handed, Stored(r))
        /\ UpTo(handed, r, udp[r].last_packet)

ReadingInv ==
    udpAt \in Copying =>
        /\ udp[reading[1]].has_packet /\ reading[2] <= udp[reading[1]].last_packet
        /\ reading[2] # 0 => Once(handed, Udp!copied) /\ UpTo(handed, reading[1], reading[2])

UdpInv == UdpType /\ QueueInv /\ MessageInv /\ StoredInv /\ ReadingInv /\ HandedInOrder

LEMMA SetToSeqIn == ASSUME NEW S, IsFiniteSet(S) PROVE Udp!SetToSeq(S) \in Seq(S)
  <1>1. PICK f : f \in Bijection(1 .. Cardinality(S), S)
    BY FS_CardinalityType DEF ExistsBijection
  <1>2. f \in [1 .. Cardinality(S) -> S] /\ Udp!IsInjective(f)
    BY <1>1 DEF Bijection, Injection, IsInjective, Udp!IsInjective
  <1>0. Udp!Cardinality(S) = Cardinality(S)
    BY DEF Udp!Cardinality, Cardinality
  <1>3. Udp!SetToSeq(S) \in [1 .. Cardinality(S) -> S]
    BY <1>0, <1>2, Zenon DEF Udp!SetToSeq
  <1>4. Cardinality(S) \in Nat
    BY FS_CardinalityType
  <1> QED BY <1>3, <1>4

\* A line that is on its way is one that was, or brings no packet.
Calm(v, u) == \E c \in Int : \A k \in 1 .. Len(v) :
                 v[k].what = "rudp" => k + c \in 1 .. Len(u) /\ v[k] = u[k + c]

LEMMA CalmInPlace ==
    ASSUME NEW u, NEW v, \A k \in 1 .. Len(v) : v[k].what = "rudp" => k \in 1 .. Len(u) /\ v[k] = u[k]
    PROVE  Calm(v, u)
  <1>1. \A k \in 1 .. Len(v) : k + 0 = k
    OBVIOUS
  <1>2. \A k \in 1 .. Len(v) : v[k].what = "rudp" => k + 0 \in 1 .. Len(u) /\ v[k] = u[k + 0]
    BY <1>1
  <1> QED BY <1>2, 0 \in Int DEF Calm

LEMMA CalmConcat ==
    ASSUME NEW u \in Seq(UdpLines), NEW w \in Seq(UdpLines), \A k \in 1 .. Len(w) : w[k].what # "rudp"
    PROVE  u \o w \in Seq(UdpLines) /\ Calm(u \o w, u)
  <1>1. u \o w \in Seq(UdpLines)
    OBVIOUS
  <1>2. ASSUME NEW k \in 1 .. Len(u \o w), (u \o w)[k].what = "rudp" PROVE k \in 1 .. Len(u) /\ (u \o w)[k] = u[k]
    <2>1. k \in 1 .. Len(u) \/ k - Len(u) \in 1 .. Len(w)
      OBVIOUS
    <2>2. CASE k - Len(u) \in 1 .. Len(w)
      <3>1. (u \o w)[k] = w[k - Len(u)]
        BY <2>2
      <3> QED BY <1>2, <2>2, <3>1
    <2>3. CASE k \in 1 .. Len(u)
      BY <2>3
    <2> QED BY <2>1, <2>2, <2>3
  <1> QED BY <1>1, <1>2, CalmInPlace

LEMMA CalmTail ==
    ASSUME NEW u \in Seq(UdpLines), u # <<>>
    PROVE  Tail(u) \in Seq(UdpLines) /\ Calm(Tail(u), u) /\ Head(u) \in UdpLines
  <1>1. /\ Tail(u) \in Seq(UdpLines) /\ Head(u) \in UdpLines /\ Len(Tail(u)) = Len(u) - 1 /\ Len(u) \in Nat
        /\ \A k \in 1 .. Len(u) - 1 : Tail(u)[k] = u[k + 1]
    OBVIOUS
  <1>2. \A k \in 1 .. Len(Tail(u)) : k + 1 \in 1 .. Len(u) /\ Tail(u)[k] = u[k + 1]
    BY <1>1
  <1> QED BY <1>1, <1>2, 1 \in Int DEF Calm

\* What the modem says to a command brings no packet.
LEMMA SaysCalm ==
    ASSUME udpUrc \in Seq(UdpLines), NEW i \in Nat,
           NEW w \in {"state_initial", "state_open", "close", "opened", "open_failed", "sent"}, Udp!Says(w, i)
    PROVE  udpUrc' \in Seq(UdpLines) /\ Calm(udpUrc', udpUrc)
  <1> DEFINE e == [what |-> w, id |-> i, data |-> 0]
  <1>1. e \in UdpLines /\ e.what # "rudp"
    BY DEF UdpLines
  <1>2. udpUrc' = Append(udpUrc, e)
    BY DEF Udp!Says
  <1> HIDE DEF e
  <1>3. <<e>> \in Seq(UdpLines) /\ Len(<<e>>) = 1 /\ <<e>>[1] = e /\ udpUrc' = udpUrc \o <<e>>
    BY <1>1, <1>2
  <1>4. \A k \in 1 .. Len(<<e>>) : <<e>>[k].what # "rudp"
    BY <1>1, <1>3
  <1> QED BY <1>3, <1>4, CalmConcat

LEMMA ModemCalm ==
    ASSUME udpUrc \in Seq(UdpLines), NEW i \in Nat, NEW r,
           Udp!MIPSTATE(i) \/ Udp!MIPCLOSE(i) \/ Udp!MIPOPEN(i, r) \/ Udp!MIPSEND(i) \/ Udp!Quiet
    PROVE  udpUrc' \in Seq(UdpLines) /\ Calm(udpUrc', udpUrc)
  <1>1. CASE Udp!Quiet
    BY <1>1, CalmInPlace DEF Udp!Quiet, Udp!modem
  <1>2. CASE ~Udp!Quiet
    <2>1. \E w \in {"state_initial", "state_open", "close", "opened", "open_failed", "sent"} : Udp!Says(w, i)
      BY <1>2 DEF Udp!MIPSTATE, Udp!MIPCLOSE, Udp!MIPOPEN, Udp!MIPSEND
    <2> QED BY <2>1, SaysCalm
  <1> QED BY <1>1, <1>2

NewUdp(o) == \A b, c \in UdpFlags : \A q :
    q = [o EXCEPT !.connected = b] \/ q = [o EXCEPT !.connected = b, !.instance_active = c] =>
           q \in Udps /\ q.has_packet = o.has_packet /\ q.last_packet = o.last_packet

LEMMA UdpFields ==
    ASSUME NEW o \in Udps
    PROVE  NewUdp(o) /\ o.id \in Udp!Ids /\ o.last_packet \in Nat
  BY ZenonT(40) DEF NewUdp, Udps, UdpFlags

LEMMA NoUdpIs ==
    ASSUME MAX_CONN \in Nat \ {0}
    PROVE  Udp!NoUdp \in Udps /\ Udp!NoUdp.last_packet = 0
  <1>1. 0 \in Udp!Ids
    BY DEF Udp!Ids
  <1> QED BY <1>1 DEF Udp!NoUdp, Udps, UdpFlags

\* The sockets that close_all closes each say so.
LEMMA ClosesCalm ==
    ASSUME MAX_CONN \in Nat, udpUrc \in Seq(UdpLines), NEW closed \in SUBSET Udp!Ids,
           udpUrc' = udpUrc \o Udp!SetToSeq({[what |-> "close", id |-> i, data |-> 0] : i \in closed})
    PROVE  udpUrc' \in Seq(UdpLines) /\ Calm(udpUrc', udpUrc)
  <1> DEFINE Line(i) == [what |-> "close", id |-> i, data |-> 0]
             T == {Line(i) : i \in closed}
             f == [i \in closed |-> Line(i)]
  <1>1. \A i \in Udp!Ids : Line(i) \in UdpLines /\ Line(i).what # "rudp"
    BY DEF UdpLines, Udp!Ids
  <1>2. IsFiniteSet(closed)
    <2>1. MAX_CONN - 1 \in Int
      OBVIOUS
    <2>2. IsFiniteSet(Udp!Ids)
      BY <2>1, FS_Interval, 0 \in Int DEF Udp!Ids
    <2> QED BY <2>2, FS_Subset
  <1>3. f \in Surjection(closed, T)
    BY Zenon DEF Surjection
  <1>4. IsFiniteSet(T)
    BY <1>2, <1>3, FS_Surjection
  <1>5. \A e \in T : e \in UdpLines /\ e.what # "rudp"
    BY <1>1
  <1>6. udpUrc' = udpUrc \o Udp!SetToSeq(T)
    OBVIOUS
  <1> HIDE DEF T, f, Line
  <1>7. Udp!SetToSeq(T) \in Seq(T)
    BY <1>4, SetToSeqIn
  <1>8. Udp!SetToSeq(T) \in Seq(UdpLines) /\ \A k \in 1 .. Len(Udp!SetToSeq(T)) : Udp!SetToSeq(T)[k].what # "rudp"
    BY <1>5, <1>7
  <1> QED BY <1>6, <1>8, CalmConcat

\* A step that brings no packet to a connection and none to the peer library.
LEMMA CalmStep ==
    ASSUME UdpInv, UdpType', Calm(udpUrc', udpUrc), handed' = handed, packets' = packets, arriving' = arriving,
           \A r \in Remotes : \/ udp'[r].has_packet = udp[r].has_packet /\ udp'[r].last_packet = udp[r].last_packet
                              \/ udp'[r].last_packet = 0 /\ udpAt' \notin Copying,
           udpAt' \in Copying => udpAt \in Copying /\ reading' = reading
    PROVE  UdpInv'
  <1>1. PICK c \in Int : \A k \in 1 .. Len(udpUrc') :
            udpUrc'[k].what = "rudp" => k + c \in 1 .. Len(udpUrc) /\ udpUrc'[k] = udpUrc[k + c]
    BY DEF Calm
  <1>2. \A d : Older(udpUrc, d) => Older(udpUrc', d)
    BY <1>1 DEF Older
  <1>3. \A j, k \in 1 .. Len(udpUrc') :
           j < k /\ udpUrc'[j].what = "rudp" /\ udpUrc'[k].what = "rudp" => udpUrc'[j].data < udpUrc'[k].data
    <2> SUFFICES ASSUME NEW j \in 1 .. Len(udpUrc'), NEW k \in 1 .. Len(udpUrc'), j < k,
                        udpUrc'[j].what = "rudp", udpUrc'[k].what = "rudp"
                 PROVE  udpUrc'[j].data < udpUrc'[k].data
      OBVIOUS
    <2>1. j + c < k + c /\ j + c \in 1 .. Len(udpUrc) /\ k + c \in 1 .. Len(udpUrc)
      BY <1>1
    <2>2. udpUrc[j + c].data < udpUrc[k + c].data
      BY <1>1, <2>1 DEF UdpInv, QueueInv
    <2> QED BY <1>1, <2>2
  <1>4. \A k \in 1 .. Len(udpUrc') : udpUrc'[k].what = "rudp" => udpUrc'[k].data \in 1 .. packets'
    BY <1>1 DEF UdpInv, QueueInv
  <1>5. Older(udpUrc', 0) /\ packets \in Nat
    BY <1>4 DEF Older, UdpInv, UdpType
  <1>6. QueueInv'
    <2>1. \A r \in Remotes : udp'[r].last_packet <= packets' /\ Older(udpUrc', udp'[r].last_packet)
      BY <1>2, <1>5 DEF UdpInv, QueueInv
    <2>2. \A n \in 1 .. Len(handed') : handed'[n].data <= packets' /\ Older(udpUrc', handed'[n].data)
      BY <1>2 DEF UdpInv, QueueInv
    <2>3. arriving'.data <= packets' /\ Older(udpUrc', arriving'.data)
      BY <1>2 DEF UdpInv, QueueInv
    <2> QED BY <1>3, <1>4, <2>1, <2>2, <2>3 DEF QueueInv
  <1>7. MessageInv'
    <2>1. ASSUME NEW r \in arriving.to PROVE udp'[r].last_packet < arriving.data
      <3>1. r \in Remotes
        BY <2>1 DEF UdpInv, UdpType, Messages
      <3>2. udp[r].last_packet \in Nat /\ arriving.data \in Nat
        BY <3>1, UdpFields DEF UdpInv, UdpType, Messages
      <3> QED BY <2>1, <3>1, <3>2 DEF UdpInv, MessageInv
    <2> QED BY <2>1 DEF UdpInv, MessageInv
  <1>8. StoredInv'
    <2> SUFFICES ASSUME NEW r \in Remotes, udp'[r].last_packet # 0
                 PROVE  /\ udp'[r].has_packet /\ Storing(r)' => Never(handed', Stored(r)')
                        /\ udp'[r].has_packet \/ Storing(r)' => Once(handed', Stored(r)')
                        /\ UpTo(handed', r, udp'[r].last_packet)
      BY DEF StoredInv
    <2>1. udp'[r].has_packet = udp[r].has_packet /\ udp'[r].last_packet = udp[r].last_packet
      OBVIOUS
    <2>2. Stored(r)' = Stored(r) /\ Storing(r)' = Storing(r)
      BY <2>1 DEF Stored, Storing
    <2> QED BY <2>1, <2>2 DEF UdpInv, StoredInv
  <1>9. ReadingInv'
    <2> SUFFICES ASSUME udpAt' \in Copying
                 PROVE  /\ udp'[reading'[1]].has_packet /\ reading'[2] <= udp'[reading'[1]].last_packet
                        /\ reading'[2] # 0 => Once(handed', Udp!copied') /\ UpTo(handed', reading'[1], reading'[2])
      BY DEF ReadingInv
    <2>1. reading[1] \in Remotes /\ reading' = reading
      BY DEF UdpInv, UdpType
    <2>2. udp'[reading[1]].has_packet = udp[reading[1]].has_packet /\ udp'[reading[1]].last_packet = udp[reading[1]].last_packet
      BY <2>1
    <2> QED BY <2>1, <2>2 DEF UdpInv, ReadingInv, Udp!copied
  <1>10. HandedInOrder'
    BY DEF UdpInv, HandedInOrder, Udp!HandedInOrder, Udp!Whole
  <1> QED BY <1>6, <1>7, <1>8, <1>9, <1>10 DEF UdpInv

\* recv_any begins to copy the packet of a connection.
LEMMA CopyStep ==
    ASSUME UdpInv, UdpType', NEW r \in Remotes, udp[r].has_packet, reading' = <<r, udp[r].last_packet>>,
           udpAt' = "copying", UNCHANGED <<udp, handed, packets, udpUrc, arriving>>
    PROVE  UdpInv'
  <1>1. QueueInv' /\ MessageInv' /\ StoredInv' /\ HandedInOrder'
    <2>1. QueueInv' /\ MessageInv'
      BY DEF UdpInv, QueueInv, MessageInv
    <2>2. StoredInv'
      BY DEF UdpInv, StoredInv, Stored, Storing
    <2>3. HandedInOrder'
      BY DEF UdpInv, HandedInOrder, Udp!HandedInOrder, Udp!Whole
    <2> QED BY <2>1, <2>2, <2>3
  <1>2. udp[r].last_packet \in Nat
    BY UdpFields DEF UdpInv, UdpType
  <1>3. reading'[1] = r /\ reading'[2] = udp[r].last_packet
    OBVIOUS
  <1>4. Udp!copied' = Stored(r)
    BY <1>3 DEF Udp!copied, Stored
  <1>5. udp[r].last_packet # 0 => Once(handed, Stored(r)) /\ UpTo(handed, r, udp[r].last_packet)
    BY DEF UdpInv, StoredInv
  <1>6. ReadingInv'
    BY <1>2, <1>3, <1>4, <1>5 DEF ReadingInv
  <1> QED BY <1>1, <1>6 DEF UdpInv

\* The packet is given to the peer library, and has_packet is cleared.
LEMMA ClearStep ==
    ASSUME UdpInv, UdpType', Udp!ClearPacket, UNCHANGED <<packets, udpUrc, arriving>>
    PROVE  UdpInv'
  <1> DEFINE r == reading[1]
             d == reading[2]
             e == Udp!copied
  <1>1. r \in Remotes /\ d \in Nat /\ udpAt = "copied" /\ udpAt' = "idle"
    BY DEF Udp!ClearPacket, Udp!Goto, UdpInv, UdpType, Copying
  <1>2. e = [from |-> r, data |-> d] /\ e \in Packets /\ e.from = r /\ e.data = d
    BY <1>1 DEF Udp!copied, Packets
  <1>3. /\ udp[r].has_packet /\ d <= udp[r].last_packet
        /\ d # 0 => Once(handed, e) /\ UpTo(handed, r, d)
    BY <1>1 DEF UdpInv, ReadingInv, Copying
  <1>4. /\ \A q \in Remotes : /\ udp[q] \in Udps /\ udp[q].last_packet \in Nat
                              /\ udp'[q].last_packet = udp[q].last_packet
                              /\ q # r => udp'[q] = udp[q]
        /\ ~udp'[r].has_packet
    <2>1. \A q \in Remotes : udp[q] \in Udps /\ udp[q].last_packet \in Nat
      BY UdpFields DEF UdpInv, UdpType
    <2>2. udp' = [udp EXCEPT ![r] = [udp[r] EXCEPT !.has_packet = FALSE]] /\ udp \in [Remotes -> Udps]
      BY DEF Udp!ClearPacket, UdpInv, UdpType
    <2>3. [udp[r] EXCEPT !.has_packet = FALSE].last_packet = udp[r].last_packet /\ ~[udp[r] EXCEPT !.has_packet = FALSE].has_packet
      BY <1>1, <2>1 DEF Udps
    <2> QED BY <1>1, <2>1, <2>2, <2>3
  <1>5. /\ handed \in Seq(Packets) /\ Len(handed) \in Nat /\ Len(handed') = Len(handed) + 1
        /\ handed'[Len(handed) + 1] = e /\ \A n \in 1 .. Len(handed) : handed'[n] = handed[n]
    <2>1. handed \in Seq(Packets) /\ handed' = Append(handed, e)
      BY DEF Udp!ClearPacket, UdpInv, UdpType
    <2> QED BY <1>2, <2>1
  <1> HIDE DEF r, d, e
  <1>6. \A n \in 1 .. Len(handed') : n \in 1 .. Len(handed) \/ n = Len(handed) + 1
    BY <1>5
  <1>7. \A n \in 1 .. Len(handed) : n < Len(handed) + 1 /\ n \in Nat /\ handed[n].data \in Nat
    <2>1. \A n \in 1 .. Len(handed) : handed[n] \in Packets
      BY <1>5, ElementOfSeq
    <2> QED BY <1>5, <2>1 DEF Packets
  <1>8. udp[r].last_packet <= packets /\ Older(udpUrc, udp[r].last_packet) /\ packets \in Nat /\ udpUrc \in Seq(UdpLines)
    BY <1>1 DEF UdpInv, QueueInv, UdpType
  <1>9. d <= packets /\ Older(udpUrc, d)
    <2>1. udp[r].last_packet \in Nat
      BY <1>1, <1>4
    <2>2. \A k \in 1 .. Len(udpUrc) : udpUrc[k].data \in Nat
      <3>1. \A k \in 1 .. Len(udpUrc) : udpUrc[k] \in UdpLines
        BY <1>8, ElementOfSeq
      <3> QED BY <3>1 DEF UdpLines
    <2> QED BY <1>1, <1>3, <1>8, <2>1, <2>2 DEF Older
  <1>10. QueueInv'
    <2>1. \A n \in 1 .. Len(handed') : handed'[n].data <= packets' /\ Older(udpUrc', handed'[n].data)
      BY <1>2, <1>5, <1>6, <1>9 DEF UdpInv, QueueInv
    <2>2. \A q \in Remotes : udp'[q].last_packet <= packets' /\ Older(udpUrc', udp'[q].last_packet)
      BY <1>4 DEF UdpInv, QueueInv
    <2> QED BY <2>1, <2>2 DEF UdpInv, QueueInv
  <1>11. MessageInv'
    <2> SUFFICES ASSUME NEW q \in arriving.to
                 PROVE  /\ udp'[q].last_packet < arriving.data
                        /\ \A n \in 1 .. Len(handed') : handed'[n].from = q => handed'[n].data < arriving.data
      BY DEF MessageInv
    <2>1. q \in Remotes /\ arriving.data \in Nat
      BY DEF UdpInv, UdpType, Messages
    <2>2. udp[q].last_packet < arriving.data
      BY DEF UdpInv, MessageInv
    <2>3. q = r => d < arriving.data
      BY <1>1, <1>3, <1>4, <2>1, <2>2
    <2>4. \A n \in 1 .. Len(handed) : handed[n].from = q => handed[n].data < arriving.data
      BY DEF UdpInv, MessageInv
    <2>5. \A n \in 1 .. Len(handed') : handed'[n].from = q => handed'[n].data < arriving.data
      BY <1>2, <1>5, <1>6, <2>3, <2>4
    <2> QED BY <1>4, <2>1, <2>2, <2>5
  <1>12. StoredInv'
    <2> SUFFICES ASSUME NEW q \in Remotes, udp'[q].last_packet # 0
                 PROVE  /\ udp'[q].has_packet /\ Storing(q)' => Never(handed', Stored(q)')
                        /\ udp'[q].has_packet \/ Storing(q)' => Once(handed', Stored(q)')
                        /\ UpTo(handed', q, udp'[q].last_packet)
      BY DEF StoredInv
    <2>1. Storing(q)' = Storing(q) /\ Stored(q)' = Stored(q) /\ udp[q].last_packet # 0
      BY <1>4 DEF Storing, Stored
    <2>2. UpTo(handed', q, udp'[q].last_packet)
      <3>1. UpTo(handed, q, udp[q].last_packet)
        BY <2>1 DEF UdpInv, StoredInv
      <3> QED BY <1>2, <1>3, <1>4, <1>5, <1>6, <3>1 DEF UpTo
    <2>3. CASE q = r
      <3>1. Storing(q) => Never(handed, Stored(q))
        BY <1>3, <2>1, <2>3 DEF UdpInv, StoredInv
      <3>2. Storing(q) => Once(handed', Stored(q))
        BY <1>5, <1>6, <3>1 DEF Never, Once
      <3> QED BY <1>4, <2>1, <2>2, <2>3, <3>2
    <2>4. CASE q # r
      <3>1. e # Stored(q)
        BY <1>2, <2>4 DEF Stored
      <3>2. udp'[q].has_packet = udp[q].has_packet
        BY <1>4, <2>4
      <3>3. /\ udp[q].has_packet /\ Storing(q) => Never(handed, Stored(q))
            /\ udp[q].has_packet \/ Storing(q) => Once(handed, Stored(q))
        BY <2>1 DEF UdpInv, StoredInv
      <3>4. Never(handed, Stored(q)) => Never(handed', Stored(q))
        BY <1>5, <1>6, <3>1 DEF Never
      <3>5. Once(handed, Stored(q)) => Once(handed', Stored(q))
        BY <1>5, <1>6, <3>1 DEF Once
      <3> QED BY <2>1, <2>2, <3>2, <3>3, <3>4, <3>5
    <2> QED BY <2>3, <2>4
  <1>13. ReadingInv'
    BY <1>1 DEF ReadingInv, Copying
  <1>14. HandedInOrder'
    <2>1. ASSUME NEW j \in 1 .. Len(handed'), NEW k \in 1 .. Len(handed'), j < k,
                 handed'[j].from = handed'[k].from, handed'[j].data # 0, handed'[k].data # 0
          PROVE  handed'[j].data <= handed'[k].data
      <3>1. j \in 1 .. Len(handed)
        BY <1>5, <2>1
      <3>2. CASE k \in 1 .. Len(handed)
        BY <1>5, <2>1, <3>1, <3>2 DEF UdpInv, HandedInOrder, Udp!HandedInOrder, Udp!Whole, Udp!Torn
      <3>3. CASE k = Len(handed) + 1
        BY <1>2, <1>3, <1>5, <2>1, <3>1, <3>3 DEF UpTo
      <3> QED BY <1>6, <3>2, <3>3
    <2>2. ASSUME NEW i \in 1 .. Len(handed'), NEW j \in 1 .. Len(handed'), NEW k \in 1 .. Len(handed'),
                 i < j, j < k, handed'[i] = handed'[j], handed'[j] = handed'[k]
          PROVE  handed'[i].data = 0
      <3>1. i \in 1 .. Len(handed) /\ j \in 1 .. Len(handed)
        BY <1>5, <2>2
      <3>2. CASE k \in 1 .. Len(handed)
        BY <1>5, <2>2, <3>1, <3>2 DEF UdpInv, HandedInOrder, Udp!HandedInOrder, Udp!Whole, Udp!Torn
      <3>3. CASE k = Len(handed) + 1
        <4>1. handed[i] = e /\ handed[j] = e
          BY <1>5, <2>2, <3>1, <3>3
        <4>2. ~Once(handed, e)
          BY <2>2, <3>1, <4>1 DEF Once
        <4> QED BY <1>2, <1>3, <1>5, <2>2, <3>1, <4>1, <4>2
      <3> QED BY <1>6, <3>2, <3>3
    <2> QED BY <2>1, <2>2 DEF HandedInOrder, Udp!HandedInOrder, Udp!Whole, Udp!Torn
  <1> QED BY <1>10, <1>11, <1>12, <1>13, <1>14 DEF UdpInv

\* last_packet is assigned: the packet is newer than all that was handed of the connection.
LEMMA StoreStep ==
    ASSUME UdpInv, UdpType', Udp!StorePacket
    PROVE  UdpInv'
  <1>1. PICK r \in arriving.to :
          /\ udp' = [udp EXCEPT ![r].last_packet = arriving.data]
          /\ arriving' = [arriving EXCEPT !.to = @ \ {r}, !.in = r]
          /\ IF udpAt = "copying" /\ reading[1] = r
             THEN \E d \in {reading[2], arriving.data, Udp!Torn} : reading' = <<r, d>>
             ELSE UNCHANGED reading
    BY Zenon DEF Udp!StorePacket
  <1>2. arriving.in = 0 /\ UNCHANGED <<udpAt, udpUrc, packets, handed>>
    BY DEF Udp!StorePacket, Udp!caller, Udp!modem
  <1>3. r \in Remotes /\ arriving \in Messages /\ arriving.data \in Nat /\ arriving.to \subseteq Remotes
    BY <1>1 DEF UdpInv, UdpType, Messages
  <1>4. arriving'.data = arriving.data /\ arriving'.to = arriving.to \ {r} /\ arriving'.in = r
    BY <1>1, <1>3 DEF Messages
  <1>5. /\ udp'[r].last_packet = arriving.data
        /\ \A q \in Remotes : /\ udp[q].last_packet \in Nat /\ udp'[q].has_packet = udp[q].has_packet
                              /\ q # r => udp'[q] = udp[q]
    <2>1. \A q \in Remotes : udp[q] \in Udps /\ udp[q].last_packet \in Nat
      BY UdpFields DEF UdpInv, UdpType
    <2>2. udp' = [udp EXCEPT ![r] = [udp[r] EXCEPT !.last_packet = arriving.data]] /\ udp \in [Remotes -> Udps]
      BY <1>1 DEF UdpInv, UdpType
    <2>3. /\ [udp[r] EXCEPT !.last_packet = arriving.data].last_packet = arriving.data
          /\ [udp[r] EXCEPT !.last_packet = arriving.data].has_packet = udp[r].has_packet
      BY <1>3, <2>1 DEF Udps
    <2> QED BY <1>3, <2>1, <2>2, <2>3
  <1>6. udp[r].last_packet < arriving.data /\ \A n \in 1 .. Len(handed) : handed[n].from = r => handed[n].data < arriving.data
    BY <1>1 DEF UdpInv, MessageInv
  <1>7. \A n \in 1 .. Len(handed) : handed[n].data \in Nat
    <2>1. handed \in Seq(Packets)
      BY DEF UdpInv, UdpType
    <2>2. \A n \in 1 .. Len(handed) : handed[n] \in Packets
      BY <2>1, ElementOfSeq
    <2> QED BY <2>2 DEF Packets
  <1>8. QueueInv'
    <2>1. \A q \in Remotes : udp'[q].last_packet <= packets' /\ Older(udpUrc', udp'[q].last_packet)
      BY <1>2, <1>5 DEF UdpInv, QueueInv
    <2> QED BY <1>2, <1>4, <2>1 DEF UdpInv, QueueInv
  <1>9. MessageInv'
    BY <1>2, <1>3, <1>4, <1>5 DEF UdpInv, MessageInv
  <1>10. Never(handed, [from |-> r, data |-> arriving.data]) /\ UpTo(handed, r, arriving.data)
    BY <1>3, <1>6, <1>7 DEF Never, UpTo
  <1>11. StoredInv'
    <2> SUFFICES ASSUME NEW q \in Remotes, udp'[q].last_packet # 0
                 PROVE  /\ udp'[q].has_packet /\ Storing(q)' => Never(handed', Stored(q)')
                        /\ udp'[q].has_packet \/ Storing(q)' => Once(handed', Stored(q)')
                        /\ UpTo(handed', q, udp'[q].last_packet)
      BY DEF StoredInv
    <2>1. CASE q = r
      <3>1. Stored(q)' = [from |-> r, data |-> arriving.data]
        BY <1>5, <2>1 DEF Stored
      <3>2. Never(handed', Stored(q)') /\ Once(handed', Stored(q)')
        BY <1>2, <1>10, <3>1 DEF Never, Once
      <3> QED BY <1>2, <1>5, <1>10, <2>1, <3>2
    <2>2. CASE q # r
      <3>1. ~Storing(q)' /\ Stored(q)' = Stored(q) /\ udp'[q] = udp[q]
        BY <1>4, <1>5, <2>2 DEF Storing, Stored
      <3> QED BY <1>2, <3>1 DEF UdpInv, StoredInv
    <2> QED BY <2>1, <2>2
  <1>12. ReadingInv'
    <2> SUFFICES ASSUME udpAt \in Copying
                 PROVE  /\ udp'[reading'[1]].has_packet /\ reading'[2] <= udp'[reading'[1]].last_packet
                        /\ reading'[2] # 0 => Once(handed, Udp!copied') /\ UpTo(handed, reading'[1], reading'[2])
      BY <1>2 DEF ReadingInv
    <2>1. /\ udp[reading[1]].has_packet /\ reading[2] <= udp[reading[1]].last_packet
          /\ reading[2] # 0 => Once(handed, Udp!copied) /\ UpTo(handed, reading[1], reading[2])
      BY DEF UdpInv, ReadingInv
    <2>2. reading[1] \in Remotes /\ reading[2] \in Nat
      BY DEF UdpInv, UdpType
    <2>3. reading[1] # r => reading[2] <= udp'[reading[1]].last_packet
      BY <1>5, <2>1, <2>2
    <2>4. reading[1] = r => reading[2] <= arriving.data
      BY <1>3, <1>5, <1>6, <2>1, <2>2
    <2>5. CASE reading' = reading
      BY <1>5, <2>1, <2>2, <2>3, <2>4, <2>5 DEF Udp!copied
    <2>6. CASE reading' # reading
      <3>1. PICK d \in {reading[2], arriving.data, 0} : reading[1] = r /\ reading' = <<r, d>>
        BY <1>1, <2>6 DEF Udp!Torn
      <3>2. reading'[1] = r /\ reading'[2] = d /\ Udp!copied' = [from |-> r, data |-> d]
        BY <3>1 DEF Udp!copied
      <3>3. d <= arriving.data
        BY <1>3, <2>4, <3>1
      <3>4. CASE d = reading[2]
        <4>1. Udp!copied' = Udp!copied
          BY <3>1, <3>2, <3>4 DEF Udp!copied
        <4> QED BY <1>3, <1>5, <2>1, <3>1, <3>2, <3>3, <3>4, <4>1
      <3>5. CASE d = arriving.data
        <4>1. Once(handed, Udp!copied')
          BY <1>10, <3>2, <3>5 DEF Never, Once
        <4> QED BY <1>3, <1>5, <1>10, <2>1, <3>1, <3>2, <3>3, <3>5, <4>1
      <3>6. CASE d = 0
        BY <1>3, <1>5, <2>1, <3>1, <3>2, <3>3, <3>6
      <3> QED BY <3>1, <3>4, <3>5, <3>6
    <2> QED BY <2>5, <2>6
  <1>13. HandedInOrder'
    BY <1>2 DEF UdpInv, HandedInOrder, Udp!HandedInOrder, Udp!Whole
  <1> QED BY <1>8, <1>9, <1>11, <1>12, <1>13 DEF UdpInv

\* has_packet is set for the packet stored, which has been handed once at most.
LEMMA SetStep ==
    ASSUME UdpInv, UdpType', Udp!SetPacket
    PROVE  UdpInv'
  <1> DEFINE r == arriving.in
  <1>1. /\ r # 0 /\ udp' = [udp EXCEPT ![r].has_packet = TRUE]
        /\ arriving' = IF arriving.to = {} THEN Udp!NoMessage ELSE [arriving EXCEPT !.in = 0]
        /\ UNCHANGED <<udpAt, reading, udpUrc, packets, handed>>
    BY DEF Udp!SetPacket, Udp!caller, Udp!modem
  <1>2. arriving \in Messages /\ r \in Remotes /\ arriving.data \in Nat
    BY <1>1 DEF UdpInv, UdpType, Messages
  <1>3. arriving'.in = 0 /\ arriving'.to = arriving.to /\ (arriving'.data = arriving.data \/ (arriving'.data = 0 /\ arriving'.to = {}))
    BY <1>1, <1>2 DEF Messages, Udp!NoMessage
  <1>4. /\ udp'[r].has_packet
        /\ \A q \in Remotes : udp'[q].last_packet = udp[q].last_packet /\ (q # r => udp'[q] = udp[q])
    <2>1. \A q \in Remotes : udp[q] \in Udps
      BY UdpFields DEF UdpInv, UdpType
    <2>2. udp' = [udp EXCEPT ![r] = [udp[r] EXCEPT !.has_packet = TRUE]] /\ udp \in [Remotes -> Udps]
      BY <1>1 DEF UdpInv, UdpType
    <2>3. [udp[r] EXCEPT !.has_packet = TRUE].last_packet = udp[r].last_packet /\ [udp[r] EXCEPT !.has_packet = TRUE].has_packet
      BY <1>2, <2>1 DEF Udps
    <2> QED BY <1>2, <2>1, <2>2, <2>3
  <1> HIDE DEF r
  <1>5. QueueInv'
    <2>1. Older(udpUrc, 0) /\ packets \in Nat
      BY DEF UdpInv, QueueInv, UdpType, Older
    <2>2. arriving'.data <= packets' /\ Older(udpUrc', arriving'.data)
      BY <1>1, <1>3, <2>1 DEF UdpInv, QueueInv
    <2>3. \A q \in Remotes : udp'[q].last_packet <= packets' /\ Older(udpUrc', udp'[q].last_packet)
      BY <1>1, <1>4 DEF UdpInv, QueueInv
    <2> QED BY <1>1, <2>2, <2>3 DEF UdpInv, QueueInv
  <1>6. MessageInv'
    <2>1. arriving.to \subseteq Remotes
      BY <1>2 DEF Messages
    <2> QED BY <1>1, <1>3, <1>4, <2>1 DEF UdpInv, MessageInv
  <1>7. StoredInv'
    <2> SUFFICES ASSUME NEW q \in Remotes, udp'[q].last_packet # 0
                 PROVE  /\ udp'[q].has_packet /\ Storing(q)' => Never(handed', Stored(q)')
                        /\ udp'[q].has_packet \/ Storing(q)' => Once(handed', Stored(q)')
                        /\ UpTo(handed', q, udp'[q].last_packet)
      BY DEF StoredInv
    <2>1. ~Storing(q)' /\ Stored(q)' = Stored(q) /\ udp[q].last_packet # 0 /\ udp'[q].last_packet = udp[q].last_packet
      BY <1>3, <1>4 DEF Storing, Stored
    <2>2. UpTo(handed', q, udp'[q].last_packet)
      BY <1>1, <2>1 DEF UdpInv, StoredInv
    <2>3. udp[q].has_packet \/ Storing(q) => Once(handed, Stored(q))
      BY <2>1 DEF UdpInv, StoredInv
    <2>4. CASE q = r
      <3>1. Storing(q)
        BY <1>1, <2>4 DEF Storing, r
      <3> QED BY <1>1, <2>1, <2>2, <2>3, <3>1
    <2>5. CASE q # r
      BY <1>1, <1>4, <2>1, <2>2, <2>3, <2>5
    <2> QED BY <2>4, <2>5
  <1>8. ReadingInv'
    <2> SUFFICES ASSUME udpAt \in Copying
                 PROVE  /\ udp'[reading[1]].has_packet /\ reading[2] <= udp'[reading[1]].last_packet
                        /\ reading[2] # 0 => Once(handed, Udp!copied) /\ UpTo(handed, reading[1], reading[2])
      BY <1>1 DEF ReadingInv, Udp!copied
    <2>1. reading[1] \in Remotes
      BY DEF UdpInv, UdpType
    <2> QED BY <1>4, <2>1 DEF UdpInv, ReadingInv
  <1>9. HandedInOrder'
    BY <1>1 DEF UdpInv, HandedInOrder, Udp!HandedInOrder, Udp!Whole
  <1> QED BY <1>5, <1>6, <1>7, <1>8, <1>9 DEF UdpInv

\* A packet comes from the modem: it is newer than all others.
LEMMA PacketStep ==
    ASSUME UdpInv, NEW i \in Udp!Ids, MAX_CONN \in Nat \ {0}, Udp!PacketComes(i)
    PROVE  UdpInv'
  <1>0. i \in Nat /\ packets \in Nat /\ udpUrc \in Seq(UdpLines)
    BY DEF Udp!Ids, UdpInv, UdpType
  <1> DEFINE e == [what |-> "rudp", id |-> i, data |-> packets + 1]
  <1>1. e \in UdpLines /\ e.what = "rudp" /\ e.data = packets + 1 /\ packets + 1 \in Nat
    BY <1>0 DEF UdpLines
  <1>2. udpUrc' = Append(udpUrc, e) /\ packets' = packets + 1
    BY DEF Udp!PacketComes
  <1> HIDE DEF e
  <1>3. /\ udpUrc' \in Seq(UdpLines) /\ Len(udpUrc) \in Nat /\ Len(udpUrc') = Len(udpUrc) + 1
        /\ udpUrc'[Len(udpUrc) + 1] = e /\ \A k \in 1 .. Len(udpUrc) : udpUrc'[k] = udpUrc[k]
    BY <1>0, <1>1, <1>2
  <1>4. \A k \in 1 .. Len(udpUrc') : k \in 1 .. Len(udpUrc) \/ k = Len(udpUrc) + 1
    BY <1>3
  <1>5. UNCHANGED <<conns, making, udp, next_id, udpAt, dest, reading, arriving, handed>>
    BY DEF Udp!PacketComes, Udp!map, Udp!caller
  <1>6. UdpType'
    BY <1>1, <1>2, <1>3, <1>5 DEF UdpType, UdpInv
  <1>7. \A d \in Nat : d <= packets /\ Older(udpUrc, d) => d <= packets' /\ Older(udpUrc', d)
    <2> SUFFICES ASSUME NEW d \in Nat, d <= packets, Older(udpUrc, d) PROVE d <= packets' /\ Older(udpUrc', d)
      OBVIOUS
    <2>1. d < packets + 1 /\ d <= packets'
      BY <1>0, <1>2
    <2> QED BY <1>1, <1>3, <1>4, <2>1 DEF Older
  <1>8. ASSUME NEW j \in 1 .. Len(udpUrc'), NEW k \in 1 .. Len(udpUrc'), j < k,
               udpUrc'[j].what = "rudp", udpUrc'[k].what = "rudp"
        PROVE  udpUrc'[j].data < udpUrc'[k].data
    <2>1. j \in 1 .. Len(udpUrc)
      BY <1>3, <1>8
    <2>2. udpUrc[j].data \in 1 .. packets
      BY <1>3, <1>8, <2>1 DEF UdpInv, QueueInv
    <2>3. CASE k \in 1 .. Len(udpUrc)
      BY <1>3, <1>8, <2>1, <2>3 DEF UdpInv, QueueInv
    <2>4. CASE k = Len(udpUrc) + 1
      BY <1>0, <1>1, <1>3, <2>1, <2>2, <2>4
    <2> QED BY <1>4, <2>3, <2>4
  <1>9. \A k \in 1 .. Len(udpUrc') : udpUrc'[k].what = "rudp" => udpUrc'[k].data \in 1 .. packets'
    <2>1. \A k \in 1 .. Len(udpUrc) : udpUrc[k].what = "rudp" => udpUrc[k].data \in 1 .. packets'
      BY <1>0, <1>2 DEF UdpInv, QueueInv
    <2>2. e.data \in 1 .. packets'
      BY <1>0, <1>1, <1>2
    <2> QED BY <1>3, <1>4, <2>1, <2>2
  <1>10. \A r \in Remotes : udp'[r].last_packet <= packets' /\ Older(udpUrc', udp'[r].last_packet)
    <2>1. \A r \in Remotes : udp[r].last_packet \in Nat
      BY UdpFields DEF UdpInv, UdpType
    <2>2. \A r \in Remotes : udp[r].last_packet <= packets /\ Older(udpUrc, udp[r].last_packet)
      BY DEF UdpInv, QueueInv
    <2>3. udp' = udp
      BY <1>5
    <2> QED BY <1>7, <2>1, <2>2, <2>3
  <1>11. \A n \in 1 .. Len(handed') : handed'[n].data <= packets' /\ Older(udpUrc', handed'[n].data)
    <2> SUFFICES ASSUME NEW n \in 1 .. Len(handed) PROVE handed[n].data <= packets' /\ Older(udpUrc', handed[n].data)
      BY <1>5
    <2>0. handed \in Seq(Packets)
      BY DEF UdpInv, UdpType
    <2>1. handed[n] \in Packets
      BY <2>0, ElementOfSeq, Zenon
    <2>2. handed[n].data \in Nat
      BY <2>1 DEF Packets
    <2>3. handed[n].data <= packets /\ Older(udpUrc, handed[n].data)
      BY DEF UdpInv, QueueInv
    <2> QED BY <1>7, <2>2, <2>3
  <1>12. arriving'.data <= packets' /\ Older(udpUrc', arriving'.data)
    <2>1. arriving.data \in Nat /\ arriving.data <= packets /\ Older(udpUrc, arriving.data)
      BY DEF UdpInv, QueueInv, UdpType, Messages
    <2> QED BY <1>5, <1>7, <2>1
  <1>13. QueueInv'
    BY <1>8, <1>9, <1>10, <1>11, <1>12 DEF QueueInv
  <1>14. MessageInv' /\ StoredInv' /\ ReadingInv'
    BY <1>5 DEF UdpInv, MessageInv, StoredInv, ReadingInv, Stored, Storing, Udp!copied
  <1>15. HandedInOrder'
    BY <1>5 DEF UdpInv, HandedInOrder, Udp!HandedInOrder, Udp!Whole
  <1> QED BY <1>6, <1>13, <1>14, <1>15 DEF UdpInv

\* The receive task takes a message in hand.
LEMMA MessageStep ==
    ASSUME UdpInv, UdpType', udpUrc # <<>>, Udp!NoCallback, Udp!OnMessage(Head(udpUrc)), udpUrc' = Tail(udpUrc),
           UNCHANGED <<udpAt, reading, packets, handed>>
    PROVE  UdpInv'
  <1> DEFINE u == Head(udpUrc)
  <1>0. udpUrc \in Seq(UdpLines)
    BY DEF UdpInv, UdpType
  <1>1. u \in UdpLines /\ 1 \in 1 .. Len(udpUrc) /\ udpUrc[1] = u /\ u.what = "rudp" /\ u.data \in Nat /\ udp' = udp
    BY <1>0, CalmTail DEF Udp!OnMessage, UdpLines
  <1>2. /\ arriving'.in = 0 /\ arriving.in = 0 /\ arriving'.to \subseteq Remotes
        /\ arriving'.data = u.data \/ (arriving'.data = 0 /\ arriving'.to = {})
    <2>1. arriving.in = 0
      BY DEF Udp!NoCallback, Udp!NoMessage
    <2>2. arriving'.to \subseteq Remotes
      BY DEF UdpType, Messages
    <2>3. arriving' = Udp!NoMessage \/ arriving' = [data |-> u.data, to |-> Udp!Hit(u.id), in |-> 0]
      BY DEF Udp!OnMessage
    <2> HIDE DEF u
    <2> QED BY <2>1, <2>2, <2>3 DEF Udp!NoMessage
  <1> HIDE DEF u
  <1>3. /\ Len(udpUrc') \in Nat
        /\ \A k \in 1 .. Len(udpUrc') : k + 1 \in 1 .. Len(udpUrc) /\ udpUrc'[k] = udpUrc[k + 1]
    BY <1>0
  <1>4. u.data <= packets /\ \A d : Older(udpUrc, d) => d < u.data
    BY <1>1 DEF UdpInv, QueueInv, UdpType, Older
  <1>5. Older(udpUrc', u.data)
    <2> SUFFICES ASSUME NEW k \in 1 .. Len(udpUrc'), udpUrc'[k].what = "rudp" PROVE u.data < udpUrc'[k].data
      BY DEF Older
    <2>1. 1 < k + 1 /\ k + 1 \in 1 .. Len(udpUrc) /\ udpUrc'[k] = udpUrc[k + 1]
      BY <1>3
    <2> QED BY <1>1, <2>1 DEF UdpInv, QueueInv
  <1>6. \A d : Older(udpUrc, d) => Older(udpUrc', d)
    BY <1>3 DEF Older
  <1>7. \A j, k \in 1 .. Len(udpUrc') :
            j < k /\ udpUrc'[j].what = "rudp" /\ udpUrc'[k].what = "rudp" => udpUrc'[j].data < udpUrc'[k].data
    <2> SUFFICES ASSUME NEW j \in 1 .. Len(udpUrc'), NEW k \in 1 .. Len(udpUrc'), j < k,
                        udpUrc'[j].what = "rudp", udpUrc'[k].what = "rudp"
                 PROVE  udpUrc'[j].data < udpUrc'[k].data
      OBVIOUS
    <2>1. j + 1 < k + 1 /\ j + 1 \in 1 .. Len(udpUrc) /\ k + 1 \in 1 .. Len(udpUrc)
      BY <1>3
    <2> QED BY <1>3, <2>1 DEF UdpInv, QueueInv
  <1>8. \A k \in 1 .. Len(udpUrc') : udpUrc'[k].what = "rudp" => udpUrc'[k].data \in 1 .. packets'
    BY <1>3 DEF UdpInv, QueueInv
  <1>9. Older(udpUrc', 0) /\ packets \in Nat
    BY <1>8 DEF Older, UdpInv, UdpType
  <1>10. QueueInv'
    <2>1. \A r \in Remotes : udp'[r].last_packet <= packets' /\ Older(udpUrc', udp'[r].last_packet)
      BY <1>1, <1>6 DEF UdpInv, QueueInv
    <2>2. \A n \in 1 .. Len(handed') : handed'[n].data <= packets' /\ Older(udpUrc', handed'[n].data)
      BY <1>6 DEF UdpInv, QueueInv
    <2>3. arriving'.data <= packets' /\ Older(udpUrc', arriving'.data)
      BY <1>2, <1>4, <1>5, <1>9
    <2> QED BY <1>7, <1>8, <2>1, <2>2, <2>3 DEF QueueInv
  <1>11. MessageInv'
    BY <1>1, <1>2, <1>4 DEF UdpInv, QueueInv, MessageInv
  <1>12. StoredInv' /\ ReadingInv'
    BY <1>1, <1>2 DEF UdpInv, StoredInv, ReadingInv, Stored, Storing, Udp!copied
  <1>13. HandedInOrder'
    BY DEF UdpInv, HandedInOrder, Udp!HandedInOrder, Udp!Whole
  <1> QED BY <1>10, <1>11, <1>12, <1>13 DEF UdpInv

LEMMA UdpInitInv == ASSUME MAX_CONN \in Nat \ {0}, Udp!Init PROVE UdpInv
  <1>1. UdpType
    <2>1. Udp!NoMessage \in Messages
      BY DEF Udp!NoMessage, Messages
    <2> QED BY <2>1, NoUdpIs DEF Udp!Init, UdpType, Making, Copying, Copying
  <1>2. QueueInv /\ MessageInv /\ StoredInv
    BY NoUdpIs DEF Udp!Init, QueueInv, MessageInv, StoredInv, Older, Udp!NoMessage
  <1>3. ReadingInv /\ HandedInOrder
    BY DEF Udp!Init, ReadingInv, Copying, HandedInOrder, Udp!HandedInOrder
  <1> QED BY <1>1, <1>2, <1>3 DEF UdpInv

LEMMA UdpNextInv ==
    ASSUME MAX_CONN \in Nat \ {0}, UdpInv, [Udp!Next]_(Udp!vars)
    PROVE  UdpInv'
  <1>1. /\ conns \subseteq Remotes /\ making \in Remotes \cup {0} /\ dest \in Remotes \cup {0}
        /\ udp \in [Remotes -> Udps] /\ next_id \in Nat /\ packets \in Nat
        /\ udpUrc \in Seq(UdpLines) /\ handed \in Seq(Packets) /\ arriving \in Messages
        /\ udpAt \in Making => making \in Remotes
        /\ udpAt \notin {"idle"} \cup Copying => dest \in Remotes
        /\ udpAt \in Copying => reading \in Remotes \X Nat
    BY DEF UdpInv, UdpType
  <1>2. Calm(udpUrc, udpUrc)
    BY CalmInPlace
  <1>3. \A i \in Nat : \A r : Udp!MIPSTATE(i) \/ Udp!MIPCLOSE(i) \/ Udp!MIPOPEN(i, r) \/ Udp!MIPSEND(i) \/ Udp!Quiet =>
             udpUrc' \in Seq(UdpLines) /\ Calm(udpUrc', udpUrc)
    BY <1>1, ModemCalm
  <1>4. \A r \in Remotes : udp[r] \in Udps /\ udp[r].id \in Udp!Ids /\ NewUdp(udp[r])
    BY <1>1, UdpFields
  <1>0. Udp!NoUdp \in Udps /\ Udp!NoUdp.last_packet = 0 /\ Udp!Ids \subseteq Nat
    BY NoUdpIs DEF Udp!Ids
  <1>5. ASSUME NEW r \in Remotes, Udp!udp_socket_sendto(r) PROVE UdpInv'
    <2>1. UdpType' /\ Calm(udpUrc', udpUrc)
      BY <1>1, <1>2, <1>5 DEF Udp!udp_socket_sendto, Udp!Goto, UdpType, Making, Copying, Udp!map,
         Udp!modem, Udp!other
    <2> QED BY <1>5, <2>1, CalmStep DEF Copying, Udp!udp_socket_sendto, Udp!Goto, Udp!map, Udp!other
  <1>6. CASE Udp!Get
    <2>1. CASE Udp!Found /\ Udp!Quiet
      <3>1. UdpType' /\ Calm(udpUrc', udpUrc)
        BY <1>1, <1>2, <1>6, <2>1 DEF Udp!Get, Udp!Found, Udp!Goto, UdpType, Making, Copying,
           Udp!Quiet, Udp!modem, Udp!other
      <3> QED BY <1>6, <2>1, <3>1, CalmStep DEF Copying, Udp!Get, Udp!Found, Udp!Goto, Udp!other
    <2>2. ASSUME NEW old \in conns, Udp!evict_oldest(old) PROVE UdpInv'
      <3>1. old \in Remotes /\ udpUrc' \in Seq(UdpLines) /\ Calm(udpUrc', udpUrc)
        BY <1>0, <1>1, <1>3, <1>4, <2>2 DEF Udp!evict_oldest
      <3>2. udp' \in [Remotes -> Udps] /\ \A r \in Remotes : (udp'[r].last_packet = 0 \/ udp'[r] = udp[r])
        BY <1>1, <2>2, <3>1, <1>0 DEF Udp!evict_oldest
      <3>3. UdpType'
        BY <1>1, <1>6, <2>2, <3>1, <3>2 DEF Udp!Get, Udp!evict_oldest, Udp!Goto, UdpType,
           Making, Copying, Udp!other
      <3> QED BY <1>6, <2>2, <3>1, <3>2, <3>3, CalmStep DEF Copying, Udp!Get, Udp!evict_oldest,
                 Udp!Goto, Udp!other
    <2>3. CASE Udp!Goto("create") /\ UNCHANGED Udp!map /\ Udp!Quiet
      <3>1. UdpType' /\ Calm(udpUrc', udpUrc)
        BY <1>1, <1>2, <1>6, <2>3 DEF Udp!Get, Udp!Goto, UdpType, Making, Copying, Udp!map,
           Udp!Quiet, Udp!modem, Udp!other
      <3> QED BY <1>6, <2>3, <3>1, CalmStep DEF Copying, Udp!Get, Udp!Goto, Udp!map, Udp!other
    <2> QED BY <1>6, <2>1, <2>2, <2>3 DEF Udp!Get, Udp!get
  <1>7. CASE Udp!Create
    <2>1. next_id % MAX_CONN \in Udp!Ids /\ next_id + 1 \in Nat
      BY <1>1 DEF Udp!Ids
    <2> DEFINE id == next_id % MAX_CONN
               o == [Udp!NoUdp EXCEPT !.id = id]
    <2>2. o \in Udps /\ o.last_packet = 0
      <3>1. \A q, n : n \in Udps /\ q = [n EXCEPT !.id = id] => q \in Udps /\ q.last_packet = n.last_packet
        BY <2>1 DEF Udps, id
      <3> QED BY <3>1, NoUdpIs
    <2> HIDE DEF o, id
    <2>3. dest \in Remotes /\ udp' = [udp EXCEPT ![dest] = o] /\ udpUrc' \in Seq(UdpLines) /\ Calm(udpUrc', udpUrc)
      BY <1>0, <1>1, <1>3, <1>7, <2>1 DEF Udp!Create, o, id, Copying
    <2>4. udp' \in [Remotes -> Udps] /\ \A r \in Remotes : (udp'[r].last_packet = 0 \/ udp'[r] = udp[r])
      BY <1>1, <2>2, <2>3
    <2>5. UdpType'
      BY <1>1, <1>7, <2>1, <2>3, <2>4 DEF Udp!Create, Udp!Goto, UdpType, Making, Copying, Udp!other
    <2> QED BY <1>7, <2>3, <2>4, <2>5, CalmStep DEF Copying, Udp!Create, Udp!Goto, Udp!other
  <1>8. CASE Udp!initializeUdp \/ Udp!configureUdp \/ Udp!Sent
    <2>1. UdpType' /\ Calm(udpUrc', udpUrc)
      BY <1>1, <1>2, <1>8 DEF Udp!initializeUdp, Udp!configureUdp, Udp!Sent, Udp!Wait,
         Udp!Goto, UdpType, Making, Copying, Udp!map, Udp!Quiet, Udp!modem, Udp!other
    <2> QED BY <1>8, <2>1, CalmStep DEF Copying, Udp!initializeUdp, Udp!configureUdp, Udp!Sent,
               Udp!Wait, Udp!Goto, Udp!map, Udp!other
  <1>9. CASE Udp!Disconnect
    <2>1. making \in Remotes /\ udpUrc' \in Seq(UdpLines) /\ Calm(udpUrc', udpUrc)
      BY <1>0, <1>1, <1>3, <1>4, <1>9 DEF Udp!Disconnect, Udp!Wait, Udp!mine, Making, Copying
    <2> DEFINE o == [udp[making] EXCEPT !.connected = FALSE, !.instance_active = FALSE]
    <2>2. o \in Udps /\ o.has_packet = Udp!mine.has_packet /\ o.last_packet = Udp!mine.last_packet
      BY <1>4, <2>1, ZenonT(30) DEF NewUdp, UdpFlags, Udp!mine
    <2>3. udp' = [udp EXCEPT ![making] = o]
      BY <1>1, <1>9, <2>1 DEF Udp!Disconnect
    <2> HIDE DEF o
    <2>4. /\ udp' \in [Remotes -> Udps]
          /\ \A r \in Remotes : udp'[r].has_packet = udp[r].has_packet /\ udp'[r].last_packet = udp[r].last_packet
      BY <1>1, <2>1, <2>2, <2>3 DEF Udp!mine
    <2>5. UdpType'
      BY <1>1, <1>9, <2>1, <2>4 DEF Udp!Disconnect, Udp!Wait, Udp!Goto, UdpType, Making, Copying,
         Udp!other
    <2> QED BY <1>9, <2>1, <2>4, <2>5, CalmStep DEF Copying, Udp!Disconnect, Udp!Wait, Udp!Goto,
               Udp!other
  <1>10. CASE Udp!Open
    <2>1. making \in Remotes /\ udpUrc' \in Seq(UdpLines) /\ Calm(udpUrc', udpUrc)
      BY <1>0, <1>1, <1>3, <1>4, <1>10 DEF Udp!Open, Udp!Wait, Udp!mine, Making, Copying
    <2>2. UdpType'
      BY <1>1, <1>10, <2>1 DEF Udp!Open, Udp!Wait, Udp!Goto, UdpType, Making, Copying, Udp!other
    <2> QED BY <1>10, <2>1, <2>2, CalmStep DEF Copying, Udp!Open, Udp!Wait, Udp!Goto, Udp!other
  <1>11. CASE Udp!Connect
    <2>1. UdpType' /\ Calm(udpUrc', udpUrc)
      BY <1>1, <1>2, <1>11 DEF Udp!Connect, Udp!Goto, UdpType, Making, Copying, Udp!Quiet,
         Udp!modem, Udp!other
    <2> QED BY <1>11, <2>1, CalmStep DEF Copying, Udp!Connect, Udp!Goto, Udp!other
  <1>12. CASE Udp!Failed
    <2>1. making \in Remotes /\ udpUrc' \in Seq(UdpLines) /\ Calm(udpUrc', udpUrc)
      BY <1>0, <1>1, <1>3, <1>4, <1>12 DEF Udp!Failed, Udp!mine, Making, Copying
    <2>2. udp' \in [Remotes -> Udps] /\ \A r \in Remotes : (udp'[r].last_packet = 0 \/ udp'[r] = udp[r])
      BY <1>1, <1>12, <2>1, <1>0 DEF Udp!Failed
    <2>3. UdpType'
      BY <1>1, <1>12, <2>1, <2>2 DEF Udp!Failed, Udp!Goto, UdpType, Making, Copying, Udp!other
    <2> QED BY <1>12, <2>1, <2>2, <2>3, CalmStep DEF Copying, Udp!Failed, Udp!Goto, Udp!other
  <1>13. CASE Udp!Send
    <2>1. dest \in Remotes /\ udpUrc' \in Seq(UdpLines) /\ Calm(udpUrc', udpUrc)
      BY <1>0, <1>1, <1>3, <1>4, <1>13 DEF Udp!Send, Copying
    <2>2. UdpType'
      BY <1>1, <1>13, <2>1 DEF Udp!Send, Udp!Goto, UdpType, Making, Copying, Udp!map, Udp!other
    <2> QED BY <1>13, <2>1, <2>2, CalmStep DEF Copying, Udp!Send, Udp!Goto, Udp!map, Udp!other
  <1>14. CASE Udp!recvfrom_nowait
    <2>0. UNCHANGED <<conns, making, next_id, dest, udpUrc, packets, arriving>>
      BY <1>14 DEF Udp!recvfrom_nowait, Udp!modem
    <2>1. ASSUME NEW r \in conns, udp[r].has_packet, reading' = <<r, udp[r].last_packet>>, Udp!recv_call,
                 udpAt' = "copying", UNCHANGED <<udp, handed>>
          PROVE  UdpInv'
      <3>0. r \in Remotes /\ udp[r].last_packet \in Nat
        BY <1>1, <1>4, UdpFields
      <3>1. r \in Remotes /\ reading' \in Remotes \X Nat
        BY <2>1, <3>0
      <3>2. UdpType'
        BY <1>1, <2>0, <2>1, <3>1 DEF UdpType, Making, Copying
      <3> QED BY <2>0, <2>1, <3>1, <3>2, CopyStep
    <2>2. CASE udpAt = "copying" /\ udpAt' = "copied" /\ UNCHANGED <<udp, reading, handed>>
      <3>1. UdpType' /\ Calm(udpUrc', udpUrc)
        BY <1>1, <1>2, <2>0, <2>2 DEF UdpType, Making, Copying
      <3> QED BY <2>0, <2>2, <3>1, CalmStep DEF Copying
    <2>3. CASE Udp!ClearPacket
      <3>1. /\ udpAt = "copied" /\ udpAt' = "idle"
            /\ udp' = [udp EXCEPT ![reading[1]].has_packet = FALSE] /\ handed' = Append(handed, Udp!copied)
        BY <2>3 DEF Udp!ClearPacket, Udp!Goto
      <3>2. reading[1] \in Remotes /\ reading[2] \in Nat
        BY <1>1, <3>1 DEF Copying
      <3>3. [udp[reading[1]] EXCEPT !.has_packet = FALSE] \in Udps
        BY <1>4, <3>2 DEF Udps, UdpFlags
      <3>4. udp' = [udp EXCEPT ![reading[1]] = [udp[reading[1]] EXCEPT !.has_packet = FALSE]]
        BY <1>1, <3>1, <3>2
      <3>5. udp' \in [Remotes -> Udps]
        BY <1>1, <3>2, <3>3, <3>4
      <3>6. Udp!copied \in Packets
        BY <3>2 DEF Udp!copied, Packets
      <3>7. handed' \in Seq(Packets)
        BY <1>1, <3>1, <3>6
      <3>8. UdpType'
        BY <1>1, <2>0, <3>1, <3>5, <3>7 DEF UdpType, Making, Copying
      <3> QED BY <2>0, <2>3, <3>8, ClearStep
    <2> QED BY <1>14, <2>1, <2>2, <2>3 DEF Udp!recvfrom_nowait, Udp!recv_any, Udp!Goto
  <1>15. CASE Udp!close_all
    <2>1. PICK closed \in SUBSET {udp[r].id : r \in {c \in conns : udp[c].instance_active}} :
              udpUrc' = udpUrc \o Udp!SetToSeq({[what |-> "close", id |-> i, data |-> 0] : i \in closed})
      BY <1>15 DEF Udp!close_all
    <2>2. closed \in SUBSET Udp!Ids
      BY <1>1, <1>4, <2>1
    <2>6. udpUrc' \in Seq(UdpLines) /\ Calm(udpUrc', udpUrc)
      BY <1>1, <2>1, <2>2, ClosesCalm
    <2>7. udp' \in [Remotes -> Udps] /\ \A r \in Remotes : udp'[r].last_packet = 0
      BY <1>15, <1>0 DEF Udp!close_all
    <2>8. UdpType'
      BY <1>1, <1>15, <2>6, <2>7 DEF Udp!close_all, Udp!caller, UdpType, Making, Copying
    <2> QED BY <1>15, <2>6, <2>7, <2>8, CalmStep DEF Copying, Udp!close_all, Udp!caller
  <1>16. CASE Udp!handleUrc
    <2> DEFINE u == Head(udpUrc)
    <2>1. udpUrc' \in Seq(UdpLines) /\ Calm(udpUrc', udpUrc) /\ u \in UdpLines /\ udpUrc # <<>> /\ udpUrc' = Tail(udpUrc)
      BY <1>1, <1>16, CalmTail DEF Udp!handleUrc
    <2>2. Udp!UrcState(u) \/ Udp!UrcOpen(u) \/ Udp!UrcClose(u) \/ Udp!UrcSent(u) \/ Udp!OnMessage(u)
      BY <1>16 DEF Udp!handleUrc
    <2>3. UNCHANGED <<conns, making, next_id, udpAt, dest, reading, packets, handed>> /\ Udp!NoCallback
      BY <1>16 DEF Udp!handleUrc, Udp!caller
    <2>4. u.data \in Nat /\ u.id \in Nat
      BY <2>1 DEF UdpLines
    <2> HIDE DEF u
    <2>5. ASSUME Udp!UrcState(u) \/ Udp!UrcOpen(u) \/ Udp!UrcClose(u) \/ Udp!UrcSent(u) PROVE UdpInv'
      <3> DEFINE Kept(q, o) == q \in Udps /\ q.has_packet = o.has_packet /\ q.last_packet = o.last_packet
      <3>1. udp' = [r \in Remotes |-> udp'[r]] /\ \A r \in Remotes : Kept(udp'[r], udp[r])
        <4>1. CASE Udp!UrcState(u)
          <5>1. (u.what = "state_open") \in UdpFlags
            BY DEF UdpFlags
          <5>2. udp' = [r \in Remotes |-> udp'[r]] /\ \A r \in Remotes :
                    \/ udp'[r] = [udp[r] EXCEPT !.connected = (u.what = "state_open"), !.instance_active = (u.what = "state_open")]
                    \/ udp'[r] = udp[r]
            BY <4>1, Zenon DEF Udp!UrcState, Udp!Update
          <5>3. ASSUME NEW r \in Remotes PROVE Kept(udp'[r], udp[r])
            <6>1. udp[r] \in Udps
              BY <1>4
            <6>2. \E b, c \in UdpFlags : \/ udp'[r] = [udp[r] EXCEPT !.connected = b, !.instance_active = c]
                                        \/ udp'[r] = [udp[r] EXCEPT !.connected = b]
                                        \/ udp'[r] = udp[r]
              BY <5>1, <5>2, Zenon
            <6> QED BY <6>1, <6>2 DEF Udps, UdpFlags
          <5> QED BY <5>2, <5>3, Zenon
        <4>2. CASE Udp!UrcOpen(u)
          <5>1. TRUE \in UdpFlags /\ FALSE \in UdpFlags
            BY DEF UdpFlags
          <5>2. udp' = [r \in Remotes |-> udp'[r]] /\ \A r \in Remotes :
                    \/ udp'[r] = [udp[r] EXCEPT !.connected = TRUE, !.instance_active = TRUE]
                    \/ udp'[r] = [udp[r] EXCEPT !.connected = FALSE]
                    \/ udp'[r] = udp[r]
            BY <4>2, Zenon DEF Udp!UrcOpen, Udp!Update
          <5>3. ASSUME NEW r \in Remotes PROVE Kept(udp'[r], udp[r])
            <6>1. udp[r] \in Udps
              BY <1>4
            <6>2. \E b, c \in UdpFlags : \/ udp'[r] = [udp[r] EXCEPT !.connected = b, !.instance_active = c]
                                        \/ udp'[r] = [udp[r] EXCEPT !.connected = b]
                                        \/ udp'[r] = udp[r]
              BY <5>1, <5>2, Zenon
            <6> QED BY <6>1, <6>2 DEF Udps, UdpFlags
          <5> QED BY <5>2, <5>3, Zenon
        <4>3. CASE Udp!UrcClose(u)
          <5>1. FALSE \in UdpFlags
            BY DEF UdpFlags
          <5>2. udp' = [r \in Remotes |-> udp'[r]] /\ \A r \in Remotes :
                    \/ udp'[r] = [udp[r] EXCEPT !.connected = FALSE, !.instance_active = FALSE]
                    \/ udp'[r] = udp[r]
            BY <4>3, Zenon DEF Udp!UrcClose, Udp!Update
          <5>3. ASSUME NEW r \in Remotes PROVE Kept(udp'[r], udp[r])
            <6>1. udp[r] \in Udps
              BY <1>4
            <6>2. \E b, c \in UdpFlags : \/ udp'[r] = [udp[r] EXCEPT !.connected = b, !.instance_active = c]
                                        \/ udp'[r] = [udp[r] EXCEPT !.connected = b]
                                        \/ udp'[r] = udp[r]
              BY <5>1, <5>2, Zenon
            <6> QED BY <6>1, <6>2 DEF Udps, UdpFlags
          <5> QED BY <5>2, <5>3, Zenon
        <4>4. CASE Udp!UrcSent(u)
          BY <1>1, <1>4, <4>4 DEF Udp!UrcSent
        <4> QED BY <2>5, <4>1, <4>2, <4>3, <4>4
      <3>2. udp' \in [Remotes -> Udps]
        BY <3>1
      <3>3. arriving' = arriving
        BY <2>5 DEF Udp!UrcState, Udp!UrcOpen, Udp!UrcClose, Udp!UrcSent
      <3>4. UdpType'
        BY <1>1, <2>1, <2>3, <3>2, <3>3 DEF UdpType, UdpInv, Making, Copying
      <3> QED BY <2>1, <2>3, <3>1, <3>3, <3>4, CalmStep
    <2>6. CASE Udp!OnMessage(u)
      <3>1. Udp!NoMessage \in Messages /\ Udp!Hit(u.id) \in SUBSET Remotes
        BY <1>1 DEF Udp!NoMessage, Messages, Udp!Hit, Udp!Live
      <3>2. arriving' \in Messages /\ udp' = udp
        BY <2>4, <2>6, <3>1 DEF Udp!OnMessage, Messages
      <3>3. UdpType'
        BY <1>1, <2>1, <2>3, <3>2 DEF UdpType, UdpInv, Making, Copying
      <3> QED BY <2>1, <2>3, <2>6, <3>3, MessageStep DEF u
    <2> QED BY <2>2, <2>5, <2>6
  <1>17. ASSUME NEW i \in Udp!Ids, Udp!PacketComes(i) PROVE UdpInv'
    BY <1>17, PacketStep
  <1>19. CASE Udp!StorePacket
    <2>1. PICK r \in arriving.to :
            /\ udp' = [udp EXCEPT ![r].last_packet = arriving.data]
            /\ arriving' = [arriving EXCEPT !.to = @ \ {r}, !.in = r]
            /\ IF udpAt = "copying" /\ reading[1] = r
               THEN \E d \in {reading[2], arriving.data, Udp!Torn} : reading' = <<r, d>>
               ELSE UNCHANGED reading
      BY <1>19, Zenon DEF Udp!StorePacket
    <2>2. r \in Remotes /\ arriving.data \in Nat /\ arriving' \in Messages
      BY <1>1, <2>1 DEF Messages
    <2>3. [udp[r] EXCEPT !.last_packet = arriving.data] \in Udps
      BY <1>4, <2>2 DEF Udps, UdpFlags
    <2>4. udp' = [udp EXCEPT ![r] = [udp[r] EXCEPT !.last_packet = arriving.data]]
      BY <1>1, <2>1, <2>2
    <2>5. udp' \in [Remotes -> Udps]
      BY <1>1, <2>2, <2>3, <2>4
    <2>6. udpAt \in Copying => reading' \in Remotes \X Nat
      BY <1>1, <2>1, <2>2 DEF Udp!Torn
    <2>7. UdpType'
      BY <1>1, <1>19, <2>2, <2>5, <2>6 DEF Udp!StorePacket, Udp!caller, Udp!modem, UdpType, UdpInv,
         Making, Copying
    <2> QED BY <1>19, <2>7, StoreStep
  <1>20. CASE Udp!SetPacket
    <2>1. Udp!NoMessage \in Messages /\ arriving.in \in Remotes
      BY <1>1, <1>20 DEF Udp!SetPacket, Udp!NoMessage, Messages
    <2>2. arriving' \in Messages
      BY <1>1, <1>20, <2>1 DEF Udp!SetPacket, Messages
    <2>3. [udp[arriving.in] EXCEPT !.has_packet = TRUE] \in Udps
      BY <1>4, <2>1 DEF Udps, UdpFlags
    <2>4. udp' = [udp EXCEPT ![arriving.in] = [udp[arriving.in] EXCEPT !.has_packet = TRUE]]
      BY <1>1, <1>20, <2>1 DEF Udp!SetPacket
    <2>5. udp' \in [Remotes -> Udps]
      BY <1>1, <2>1, <2>3, <2>4
    <2>6. UdpType'
      BY <1>1, <1>20, <2>2, <2>5 DEF Udp!SetPacket, Udp!caller, Udp!modem, UdpType, UdpInv, Making, Copying
    <2> QED BY <1>20, <2>6, SetStep
  <1>18. CASE UNCHANGED Udp!vars
    <2>1. UdpType' /\ Calm(udpUrc', udpUrc)
      BY <1>1, <1>2, <1>18 DEF Udp!vars, Udp!map, Udp!caller, Udp!modem, UdpType, UdpInv
    <2> QED BY <1>18, <2>1, CalmStep DEF Copying, Udp!vars, Udp!map, Udp!caller
  <1> QED BY <1>5, <1>6, <1>7, <1>8, <1>9, <1>10, <1>11, <1>12, <1>13, <1>14, <1>15,
             <1>16, <1>17, <1>18, <1>19, <1>20 DEF Udp!Next

\* HandedInOrder of MCModem: recv_any gives the packets of a connection in order and none
\* more than twice, whatever packet is stored while it copies, and although a connection
\* is closed and opened for another remote while packets of it are still on their way.
THEOREM UdpHandedInOrder == ASSUME MAX_CONN \in Nat \ {0} PROVE Udp!Spec => []HandedInOrder
  <1>1. UdpInv => HandedInOrder
    BY DEF UdpInv
  <1>2. UdpInv /\ [Udp!Next]_(Udp!vars) => UdpInv'
    BY UdpNextInv
  <1>3. Udp!Init => UdpInv
    BY UdpInitInv
  <1> QED BY <1>1, <1>2, <1>3, PTL DEF Udp!Spec

-----------------------------------------------------------------------------
(* The MQTT clients: ml307_mqtt.cc, ec801e_mqtt.cc and esp_mqtt.cc *)

\* Once Connect has cleared what was left, CONNECTED is set by a report it counts.
MqttInv == mqttAt \in {"connect", "connecting"} /\ "CONNECTED" \in mqttBits => upSince

\* ConnectIsFresh for Ml307Mqtt: CONNECTED is set by a report since the call, because
\* Connect clears it after the disconnection that it may have to ask for.
THEOREM MqttConnectIsFresh == Mqtt!Spec => Mqtt!ConnectIsFresh
  <1>1. Mqtt!Init => MqttInv
    BY DEF Mqtt!Init, MqttInv
  <1>2. MqttInv /\ [Mqtt!Next]_(Mqtt!vars) => MqttInv'
    <2> SUFFICES ASSUME MqttInv, [Mqtt!Next]_(Mqtt!vars) PROVE MqttInv'
      OBVIOUS
    <2>1. ASSUME NEW t \in Pollers, Mqtt!AskState(t) \/ Mqtt!StateKnown(t) \/ Mqtt!Publish(t) PROVE MqttInv'
      BY <2>1 DEF MqttInv, Mqtt!AskState, Mqtt!StateKnown, Mqtt!Publish
    <2>2. CASE Mqtt!ConnectCall \/ Mqtt!ConnectAsked \/ Mqtt!DisconnectFirst \/ Mqtt!DisconnectCall \/ Mqtt!DisconnectWaited
      BY <2>2 DEF MqttInv, Mqtt!ConnectCall, Mqtt!ConnectAsked, Mqtt!DisconnectFirst,
         Mqtt!DisconnectCall, Mqtt!DisconnectWaited, Mqtt!Called, Mqtt!Return
    <2>3. CASE Mqtt!Configure \/ Mqtt!Connect \/ Mqtt!Connected
      BY <2>3 DEF MqttInv, Mqtt!Configure, Mqtt!Connect, Mqtt!Connected, Mqtt!Return
    <2>4. CASE Mqtt!HandleUrc
      <3>1. mqttAt' = mqttAt
        BY <2>4 DEF Mqtt!HandleUrc, Mqtt!caller
      <3>2. CASE Mqtt!UrcConn
        <4>1. /\ upSince' = (upSince \/ Head(mqttUrc).what = "conn_ok")
              /\ mqttBits' = mqttBits \cup {IF Head(mqttUrc).what = "conn_ok" THEN "CONNECTED" ELSE "DISCONNECTED"}
          BY <3>2 DEF Mqtt!UrcConn
        <4> QED BY <3>1, <4>1 DEF MqttInv
      <3>3. CASE Mqtt!UrcPiece \/ Mqtt!UrcMessage \/ Mqtt!UrcState
        <4>1. mqttBits' \subseteq mqttBits \cup {"INITIALIZED"} /\ upSince' = upSince
          BY <3>3 DEF Mqtt!UrcPiece, Mqtt!UrcMessage, Mqtt!UrcState
        <4> QED BY <3>1, <4>1 DEF MqttInv
      <3> QED BY <2>4, <3>2, <3>3 DEF Mqtt!HandleUrc
    <2>5. CASE Mqtt!LinkLost \/ Mqtt!LinkBack \/ Mqtt!MessageComes
      BY <2>5 DEF MqttInv, Mqtt!LinkLost, Mqtt!LinkBack, Mqtt!MessageComes, Mqtt!host,
         Mqtt!caller
    <2>6. CASE UNCHANGED Mqtt!vars
      BY <2>6 DEF MqttInv, Mqtt!vars, Mqtt!caller
    <2> QED BY <2>1, <2>2, <2>3, <2>4, <2>5, <2>6 DEF Mqtt!Next
  <1>3. MqttInv /\ [Mqtt!Next]_(Mqtt!vars) => [mqttAt = "connecting" /\ mqttAt' = "idle" /\ returned' => upSince]_(Mqtt!vars)
    <2> SUFFICES ASSUME MqttInv, Mqtt!Next, mqttAt = "connecting", mqttAt' = "idle", returned' PROVE upSince
      OBVIOUS
    <2>1. CASE Mqtt!Connected
      BY <2>1 DEF MqttInv, Mqtt!Connected, Mqtt!Return
    <2>2. CASE ~Mqtt!Connected
      BY <2>2 DEF Mqtt!Next, Mqtt!AskState, Mqtt!StateKnown, Mqtt!Publish,
         Mqtt!ConnectCall, Mqtt!ConnectAsked, Mqtt!DisconnectFirst, Mqtt!DisconnectCall,
                  Mqtt!DisconnectWaited, Mqtt!Configure, Mqtt!Connect, Mqtt!Called, Mqtt!Return, Mqtt!HandleUrc, Mqtt!LinkLost, Mqtt!LinkBack, Mqtt!MessageComes,
                  Mqtt!host, Mqtt!caller
    <2> QED BY <2>1, <2>2
  <1> QED BY <1>1, <1>2, <1>3, PTL DEF Mqtt!Spec, Mqtt!ConnectIsFresh

-----------------------------------------------------------------------------


\* CONNECTED was clear when QMTCONN was sent: it is set by an acceptance since.
QmqttInv == qmtAt = "conning" /\ "CONNECTED" \in qmtBits => accepted

\* ConnectIsFresh for Ec801eMqtt: CONNECTED is clear when QMTCONN is sent.
THEOREM QmqttConnectIsFresh == Qmqtt!Spec => Qmqtt!ConnectIsFresh
  <1>1. Qmqtt!Init => QmqttInv
    BY DEF Qmqtt!Init, QmqttInv
  <1>2. QmqttInv /\ [Qmqtt!Next]_(Qmqtt!vars) => QmqttInv'
    <2> SUFFICES ASSUME QmqttInv, [Qmqtt!Next]_(Qmqtt!vars) PROVE QmqttInv'
      OBVIOUS
    <2>1. CASE Qmqtt!Task
      <3>1. CASE Qmqtt!Conn
        BY <3>1 DEF QmqttInv, Qmqtt!Conn, Qmqtt!ClearConn, Qmqtt!Return
      <3>2. CASE ~Qmqtt!Conn
        BY <2>1, <3>2 DEF QmqttInv, Qmqtt!Task, Qmqtt!Configure, Qmqtt!Open, Qmqtt!Opened,
           Qmqtt!FreeIdentifier, Qmqtt!IdentifierFree, Qmqtt!Conned, Qmqtt!Disconnect,
                          Qmqtt!Goto, Qmqtt!Return
      <3> QED BY <3>1, <3>2
    <2>2. CASE Qmqtt!HandleUrc
      BY <2>2 DEF QmqttInv, Qmqtt!HandleUrc, Qmqtt!UrcMessage, Qmqtt!UrcStat,
         Qmqtt!UrcConn, Qmqtt!UrcOpen, Qmqtt!UrcDisc, Qmqtt!Set
    <2>3. CASE Qmqtt!BrokerReports \/ UNCHANGED Qmqtt!vars
      BY <2>3 DEF QmqttInv, Qmqtt!BrokerReports, Qmqtt!vars
    <2> QED BY <2>1, <2>2, <2>3 DEF Qmqtt!Next
  <1>3. QmqttInv /\ [Qmqtt!Next]_(Qmqtt!vars) => [qmtAt = "conning" /\ qmtAt' = "idle" /\ qmqttResult' => accepted]_(Qmqtt!vars)
    <2> SUFFICES ASSUME QmqttInv, Qmqtt!Next, qmtAt = "conning", qmtAt' = "idle", qmqttResult' PROVE accepted
      OBVIOUS
    <2>1. CASE Qmqtt!Task
      BY <2>1 DEF QmqttInv, Qmqtt!Task, Qmqtt!Configure, Qmqtt!Open, Qmqtt!Opened,
         Qmqtt!FreeIdentifier, Qmqtt!IdentifierFree, Qmqtt!Conn, Qmqtt!Conned,
         Qmqtt!Disconnect,
                  Qmqtt!Goto, Qmqtt!Return
    <2>2. CASE Qmqtt!HandleUrc \/ Qmqtt!BrokerReports
      BY <2>2 DEF Qmqtt!HandleUrc, Qmqtt!BrokerReports
    <2> QED BY <2>1, <2>2 DEF Qmqtt!Next
  <1> QED BY <1>1, <1>2, <1>3, PTL DEF Qmqtt!Spec, Qmqtt!ConnectIsFresh

-----------------------------------------------------------------------------


\* A client that is gone has left no bit behind; CONNECTED is of the client there is.
EspMqttInv ==
    /\ library = "none" => emqBits = {}
    /\ emqAt = "start" => library = "none"
    /\ "CONNECTED" \in emqBits => joined

\* ConnectIsFresh for EspMqtt: CONNECTED is clear while there is no client.
THEOREM EspMqttConnectIsFresh == EspM!Spec => EspM!ConnectIsFresh
  <1>1. EspM!Init => EspMqttInv
    BY DEF EspM!Init, EspMqttInv
  <1>2. EspMqttInv /\ [EspM!Next]_(EspM!vars) => EspMqttInv'
    <2> SUFFICES ASSUME EspMqttInv, [EspM!Next]_(EspM!vars) PROVE EspMqttInv'
      OBVIOUS
    <2>1. CASE EspM!Connect \/ EspM!Disconnect
      BY <2>1 DEF EspMqttInv, EspM!Connect, EspM!Disconnect, EspM!Disconnected,
         EspM!ClearEvents
    <2>2. CASE EspM!Start \/ EspM!Waited
      BY <2>2 DEF EspMqttInv, EspM!Start, EspM!Waited
    <2>3. CASE EspM!MqttEventCallback
      BY <2>3 DEF EspMqttInv, EspM!MqttEventCallback, EspM!EventConnected,
         EspM!EventDisconnected, EspM!EventError, EspM!EventData, EspM!Event,
         EspM!EventUnchanged
    <2>4. CASE UNCHANGED EspM!vars
      BY <2>4 DEF EspMqttInv, EspM!vars
    <2> QED BY <2>1, <2>2, <2>3, <2>4 DEF EspM!Next
  <1>3. EspMqttInv /\ [EspM!Next]_(EspM!vars) => [emqAt = "wait" /\ emqAt' = "idle" /\ connectOk' => joined]_(EspM!vars)
    BY DEF EspMqttInv, EspM!Next, EspM!Connect, EspM!Disconnect, EspM!Disconnected,
       EspM!Start, EspM!Waited, EspM!MqttEventCallback, EspM!EventConnected,
           EspM!EventDisconnected, EspM!EventError, EspM!EventData, EspM!EventUnchanged
  <1> QED BY <1>1, <1>2, <1>3, PTL DEF EspM!Spec, EspM!ConnectIsFresh

-----------------------------------------------------------------------------
(* The HTTP client of the ML307: ml307_http.cc *)

Flags == {TRUE, FALSE}
HttpKinds == {"create", "header", "content", "err", "overflow"}
HttpLines == [kind : HttpKinds, id : {Mhttp!NoId, Mhttp!Own, Mhttp!Other}, chunked : Flags, cut : Flags,
              total : Nat, sum : Nat, cur : {0, 1}]

HttpType ==
    /\ lines \in Seq(HttpLines) /\ body \in Seq(Nat) /\ readBytes \in Seq(Nat) /\ body_offset \in Nat
    /\ mhttp_instance_active \in BOOLEAN /\ http_id \in {Mhttp!NoId, Mhttp!Own} /\ status_code \in BOOLEAN
    /\ bodyMutex \in BOOLEAN /\ mhttpBits \in SUBSET {"INITIALIZED", "HEADERS_RECEIVED", "ERROR"}
    /\ mhttpAt \in {"idle", "create", "request", "status", "read", "close", "done"}

Bytes(l) == l.kind = "content" /\ l.cur = 1
Answer(l) == l.kind \in {"header", "content"}

\* The lines that bring bytes of the body are in order and still ahead of offset;
\* a header comes before all of the answer.
Ahead(u, offset) ==
    /\ \A k \in 1 .. Len(u) : Bytes(u[k]) => u[k].sum > offset
    /\ \A j, k \in 1 .. Len(u) : j < k /\ Bytes(u[j]) /\ Bytes(u[k]) => u[j].sum < u[k].sum
    /\ \A j, k \in 1 .. Len(u) : j < k /\ u[k].kind = "header" => ~Answer(u[j])
    /\ \A k \in 1 .. Len(u) : u[k].kind = "create" => u[k].id = Mhttp!Own

HasAnswer(u) == \E k \in 1 .. Len(u) : Answer(u[k])
HasHeader(u) == \E k \in 1 .. Len(u) : u[k].kind = "header"

\* Bytes 1 .. m of the body in order, but for those whose line came without its data.
Complete(bytes, m, w) ==
    /\ \A i \in 1 .. Len(bytes) : bytes[i] \in 1 .. m
    /\ \A i, j \in 1 .. Len(bytes) : i < j => bytes[i] < bytes[j]
    /\ \A n \in 1 .. m : n \in w \/ \E j \in 1 .. Len(bytes) : bytes[j] = n

InOrder(bytes, w) ==
    /\ \A i, j \in 1 .. Len(bytes) : i < j => bytes[i] < bytes[j]
    /\ \A i \in 1 .. Len(bytes) : \A n \in 1 .. bytes[i] : n \in w \/ \E j \in 1 .. i : bytes[j] = n

\* What was read and what is still in body_ are the body up to body_offset_.
Whole == Complete(readBytes \o body, body_offset, without)

\* Nothing of the answer has been handled yet.
Unanswered ==
    /\ ~status_code /\ "HEADERS_RECEIVED" \notin mhttpBits
    /\ body_offset = 0 /\ readBytes = <<>> /\ body = <<>>

HttpInv == ~crossed =>
    /\ HttpType
    /\ Ahead(lines, body_offset)
    /\ InOrder(readBytes, without)
    /\ ~bodyMutex /\ mhttpAt \notin {"close", "done"} => Whole
    /\ http_id # Mhttp!NoId /\ mhttpAt # "done" => mhttp_instance_active
    /\ HasAnswer(lines) /\ mhttpAt # "done" => mhttp_instance_active
    /\ mhttpAt \in {"idle", "create", "request"} => ~HasAnswer(lines) /\ Unanswered
    /\ HasHeader(lines) => Unanswered /\ mhttpAt # "read"

LEMMA Joined ==
    ASSUME NEW S, NEW s \in Seq(S), NEW t \in Seq(S)
    PROVE  /\ s \o t \in Seq(S) /\ Len(s \o t) = Len(s) + Len(t) /\ Len(s) \in Nat /\ Len(t) \in Nat
           /\ \A k \in 1 .. Len(s) : (s \o t)[k] = s[k]
           /\ \A k \in 1 .. Len(s) + Len(t) : k > Len(s) => k - Len(s) \in 1 .. Len(t) /\ (s \o t)[k] = t[k - Len(s)]
  OBVIOUS

LEMMA CompletePrefix ==
    ASSUME NEW m \in Nat, NEW w, NEW s \in Seq(Nat), NEW t \in Seq(Nat), Complete(s \o t, m, w)
    PROVE  InOrder(s, w) /\ InOrder(s \o t, w)
  <1> DEFINE u == s \o t
  <1>1. /\ u \in Seq(Nat) /\ Len(u) \in Nat /\ Len(s) \in Nat /\ Len(s) <= Len(u)
        /\ \A k \in 1 .. Len(s) : k \in 1 .. Len(u) /\ u[k] = s[k]
    <2>1. Len(u) = Len(s) + Len(t) /\ Len(t) \in Nat
      BY Joined
    <2> QED BY <2>1, Joined
  <1>2. Complete(u, m, w)
    OBVIOUS
  <1> HIDE DEF u
  <1>3. \A k \in 1 .. Len(u) : u[k] \in Nat
    BY <1>1
  <1>4. ASSUME NEW i \in 1 .. Len(u), NEW n \in 1 .. u[i], n \notin w
        PROVE  \E j \in 1 .. i : u[j] = n
    <2>1. n \in 1 .. m /\ n <= u[i] /\ n \in Nat
      BY <1>2, <1>3, <1>4 DEF Complete
    <2>2. PICK j \in 1 .. Len(u) : u[j] = n
      BY <1>2, <1>4, <2>1 DEF Complete
    <2>3. ~(i < j)
      BY <1>2, <1>3, <2>1, <2>2 DEF Complete
    <2> QED BY <2>2, <2>3
  <1>5. InOrder(u, w)
    BY <1>2, <1>4 DEF InOrder, Complete
  <1>6. \A i \in 1 .. Len(s) : \A n \in 1 .. s[i] : n \in w \/ \E j \in 1 .. i : s[j] = n
    <2> SUFFICES ASSUME NEW i \in 1 .. Len(s), NEW n \in 1 .. s[i], n \notin w PROVE \E j \in 1 .. i : s[j] = n
      OBVIOUS
    <2>1. PICK j \in 1 .. i : u[j] = n
      BY <1>1, <1>4
    <2>2. j \in 1 .. Len(s)
      BY <1>1, <2>1
    <2> QED BY <1>1, <2>1, <2>2
  <1>7. InOrder(s, w)
    BY <1>1, <1>2, <1>6 DEF InOrder, Complete
  <1> QED BY <1>5, <1>7 DEF u

\* The next byte is appended, or it is one of those that came without data.
LEMMA CompleteByte ==
    ASSUME NEW m \in Nat, NEW w, NEW s \in Seq(Nat), Complete(s, m, w)
    PROVE  Complete(Append(s, m + 1), m + 1, w) /\ Complete(s, m + 1, w \cup {m + 1})
  <1> DEFINE u == Append(s, m + 1)
  <1>1. /\ Len(s) \in Nat /\ Len(u) = Len(s) + 1 /\ u[Len(s) + 1] = m + 1
        /\ \A k \in 1 .. Len(s) : u[k] = s[k] /\ s[k] \in 1 .. m
    BY DEF Complete
  <1> HIDE DEF u
  <1>2. \A k \in 1 .. Len(u) : k \in 1 .. Len(s) \/ k = Len(s) + 1
    BY <1>1
  <1>3. \A n \in 1 .. m + 1 : n \in 1 .. m \/ n = m + 1
    OBVIOUS
  <1>4. \A n \in 1 .. m + 1 : n \in w \/ \E j \in 1 .. Len(u) : u[j] = n
    <2> SUFFICES ASSUME NEW n \in 1 .. m + 1, n \notin w PROVE \E j \in 1 .. Len(u) : u[j] = n
      OBVIOUS
    <2>1. CASE n = m + 1
      <3>1. Len(s) + 1 \in 1 .. Len(u)
        BY <1>1
      <3> QED BY <1>1, <2>1, <3>1
    <2>2. CASE n \in 1 .. m
      <3>1. PICK j \in 1 .. Len(s) : s[j] = n
        BY <2>2 DEF Complete
      <3>2. j \in 1 .. Len(u) /\ u[j] = n
        BY <1>1, <3>1
      <3> QED BY <3>2
    <2> QED BY <1>3, <2>1, <2>2
  <1>5. \A i, j \in 1 .. Len(u) : i < j => u[i] < u[j]
    <2> SUFFICES ASSUME NEW i \in 1 .. Len(u), NEW j \in 1 .. Len(u), i < j PROVE u[i] < u[j]
      OBVIOUS
    <2>1. i \in 1 .. Len(s)
      BY <1>1
    <2>2. CASE j \in 1 .. Len(s)
      BY <1>1, <2>1, <2>2 DEF Complete
    <2>3. CASE j = Len(s) + 1
      <3>1. u[i] \in 1 .. m
        BY <1>1, <2>1
      <3>2. u[j] = m + 1
        BY <1>1, <2>3
      <3> QED BY <3>1, <3>2
    <2> QED BY <1>2, <2>2, <2>3
  <1>6. Complete(u, m + 1, w)
    BY <1>1, <1>2, <1>4, <1>5 DEF Complete
  <1>7. Complete(s, m + 1, w \cup {m + 1})
    <2>1. \A k \in 1 .. Len(s) : s[k] \in 1 .. m + 1
      BY <1>1
    <2>2. \A n \in 1 .. m + 1 : n \in w \cup {m + 1} \/ \E j \in 1 .. Len(s) : s[j] = n
      BY <1>3 DEF Complete
    <2> QED BY <2>1, <2>2 DEF Complete
  <1> QED BY <1>6, <1>7 DEF u

LEMMA OneOf ==
    ASSUME NEW S, NEW e \in S
    PROVE  <<e>> \in Seq(S) /\ Len(<<e>>) = 1 /\ <<e>>[1] = e
  OBVIOUS

LEMMA LineFields ==
    ASSUME NEW u \in Seq(HttpLines), NEW k \in 1 .. Len(u)
    PROVE  u[k] \in HttpLines /\ u[k].kind \in HttpKinds /\ u[k].sum \in Nat /\ u[k].id \in {Mhttp!NoId, Mhttp!Own, Mhttp!Other}
  <1>1. u[k] \in HttpLines
    OBVIOUS
  <1> QED BY <1>1 DEF HttpLines

LEMMA HttpLineIs ==
    ASSUME NEW w \in HttpKinds
    PROVE  /\ Mhttp!Line(w, Mhttp!Own) \in HttpLines /\ Mhttp!Line(w, Mhttp!Own).kind = w
           /\ Mhttp!Line(w, Mhttp!Own).id = Mhttp!Own /\ Mhttp!Line(w, Mhttp!Own).cur = 0
  BY DEF Mhttp!Line, HttpLines, Flags

LEMMA LineChanged ==
    ASSUME NEW l \in HttpLines, NEW m, NEW t \in Nat, NEW n \in Nat, NEW u \in {0, 1}, NEW c \in Flags,
           \/ m = [l EXCEPT !.total = t, !.sum = n, !.cur = u]
           \/ m = [l EXCEPT !.sum = n] /\ l.cur = u
           \/ m = [l EXCEPT !.chunked = c] /\ l.cur = u /\ l.sum = n
           \/ m = [l EXCEPT !.cut = c] /\ l.cur = u /\ l.sum = n
    PROVE  m \in HttpLines /\ m.kind = l.kind /\ m.id = l.id /\ m.sum = n /\ m.cur = u
  BY DEF HttpLines

\* Each line of an answer, by its place in the answer.
LEMMA AnswerLines ==
    ASSUME BodyLines \in Nat, NEW a \in Mhttp!Answers
    PROVE  /\ a \in Seq(HttpLines)
           /\ \A k \in 1 .. Len(a) :
                \/ k > 1 /\ a[k].kind = "content" /\ a[k].sum = k - 1
                \/ k > 1 /\ a[k].kind = "content" /\ a[k].cur = 0
                \/ k = 1 /\ a[k].kind = "header"
                \/ a[k].kind = "err"
  <1> DEFINE header(ch) == [Mhttp!Line("header", Mhttp!Own) EXCEPT !.chunked = ch]
             bytes(ch) == [n \in 1 .. BodyLines |-> Mhttp!Content(ch, n)]
  <1>0. TRUE \in Flags /\ FALSE \in Flags
    BY DEF Flags
  <1>1. ASSUME NEW ch \in Flags PROVE header(ch) \in HttpLines /\ header(ch).kind = "header"
    <2>1. Mhttp!Line("header", Mhttp!Own) \in HttpLines /\ Mhttp!Line("header", Mhttp!Own).kind = "header"
          /\ Mhttp!Line("header", Mhttp!Own).cur = 0 /\ Mhttp!Line("header", Mhttp!Own).sum \in Nat
      BY HttpLineIs DEF HttpKinds, HttpLines
    <2> QED BY <2>1, LineChanged, ZenonT(30)
  <1>2. ASSUME NEW ch \in Flags, NEW n \in Nat
        PROVE  Mhttp!Content(ch, n) \in HttpLines /\ Mhttp!Content(ch, n).kind = "content" /\ Mhttp!Content(ch, n).sum = n
    <2>1. Mhttp!Line("content", Mhttp!Own) \in HttpLines /\ Mhttp!Line("content", Mhttp!Own).kind = "content"
      BY HttpLineIs DEF HttpKinds
    <2>2. Mhttp!Content(ch, n) = [Mhttp!Line("content", Mhttp!Own) EXCEPT !.total = IF ch THEN 0 ELSE BodyLines, !.sum = n, !.cur = 1]
      BY DEF Mhttp!Content
    <2>3. (IF ch THEN 0 ELSE BodyLines) \in Nat
      OBVIOUS
    <2> QED BY <2>1, <2>2, <2>3 DEF HttpLines
  <1>3. Mhttp!LastChunk \in HttpLines /\ Mhttp!LastChunk.kind = "content" /\ Mhttp!LastChunk.cur = 0
    <2>1. Mhttp!Line("content", Mhttp!Own) \in HttpLines /\ Mhttp!Line("content", Mhttp!Own).kind = "content" /\ Mhttp!Line("content", Mhttp!Own).cur = 0
      BY HttpLineIs DEF HttpKinds
    <2>2. Mhttp!LastChunk = [Mhttp!Line("content", Mhttp!Own) EXCEPT !.sum = BodyLines]
      BY DEF Mhttp!LastChunk
    <2> QED BY <1>0, <2>1, <2>2, LineChanged, ZenonT(30)
  <1>4. Mhttp!Line("err", Mhttp!Own) \in HttpLines /\ Mhttp!Line("err", Mhttp!Own).kind = "err"
    BY HttpLineIs DEF HttpKinds
  <1>5. ASSUME NEW ch \in Flags
        PROVE  /\ bytes(ch) \in Seq(HttpLines) /\ Len(bytes(ch)) = BodyLines
               /\ \A n \in 1 .. BodyLines : bytes(ch)[n] = Mhttp!Content(ch, n)
    <2> DEFINE S == HttpLines
    <2>1. \A n \in 1 .. BodyLines : Mhttp!Content(ch, n) \in S
      BY <1>2
    <2> HIDE DEF S
    <2>2. bytes(ch) \in Seq(S) /\ Len(bytes(ch)) = BodyLines
      BY <2>1
    <2> QED BY <2>2 DEF S
  <1>6. a \in { <<header(FALSE)>> \o bytes(FALSE), <<header(TRUE)>> \o bytes(TRUE) \o <<Mhttp!LastChunk>>,
                <<Mhttp!Line("err", Mhttp!Own)>>, <<>> }
    BY Zenon DEF Mhttp!Answers
  <1> HIDE DEF header, bytes
  <1>7. ASSUME NEW ch \in Flags
        PROVE  /\ <<header(ch)>> \o bytes(ch) \in Seq(HttpLines) /\ Len(<<header(ch)>> \o bytes(ch)) = BodyLines + 1
               /\ (<<header(ch)>> \o bytes(ch))[1].kind = "header"
               /\ \A k \in 2 .. BodyLines + 1 : /\ (<<header(ch)>> \o bytes(ch))[k].kind = "content"
                                                /\ (<<header(ch)>> \o bytes(ch))[k].sum = k - 1
    <2> DEFINE h == <<header(ch)>>
               b == bytes(ch)
    <2>1. h \in Seq(HttpLines) /\ Len(h) = 1 /\ h[1].kind = "header"
      BY <1>1, OneOf
    <2>2. b \in Seq(HttpLines) /\ Len(b) = BodyLines
      BY <1>5
    <2>3. \A k \in 1 .. BodyLines : b[k].kind = "content" /\ b[k].sum = k
      BY <1>2, <1>5
    <2> HIDE DEF h, b
    <2> DEFINE w == h \o b
    <2>4. /\ w \in Seq(HttpLines) /\ Len(w) = BodyLines + 1 /\ w[1] = h[1]
          /\ \A k \in 1 .. BodyLines + 1 : k > 1 => w[k] = b[k - 1]
      <3>1. /\ w \in Seq(HttpLines) /\ Len(w) = Len(h) + Len(b)
            /\ \A k \in 1 .. Len(h) : w[k] = h[k]
            /\ \A k \in 1 .. Len(h) + Len(b) : k > Len(h) => w[k] = b[k - Len(h)]
        BY <2>1, <2>2, Joined
      <3> HIDE DEF w
      <3>2. Len(w) = BodyLines + 1 /\ w[1] = h[1]
        BY <2>1, <2>2, <3>1
      <3> QED BY <2>1, <2>2, <3>1, <3>2
    <2> HIDE DEF w
    <2>5. \A k \in 2 .. BodyLines + 1 : w[k].kind = "content" /\ w[k].sum = k - 1
      <3> SUFFICES ASSUME NEW k \in 2 .. BodyLines + 1 PROVE w[k].kind = "content" /\ w[k].sum = k - 1
        OBVIOUS
      <3>1. k - 1 \in 1 .. BodyLines /\ w[k] = b[k - 1]
        BY <2>4
      <3> QED BY <2>3, <3>1
    <2> QED BY <2>1, <2>4, <2>5 DEF w, h, b
  <1>8. CASE a = <<header(TRUE)>> \o bytes(TRUE) \o <<Mhttp!LastChunk>>
    <2> DEFINE b == <<header(TRUE)>> \o bytes(TRUE)
    <2>1. /\ b \in Seq(HttpLines) /\ Len(b) = BodyLines + 1 /\ b[1].kind = "header"
          /\ \A k \in 2 .. BodyLines + 1 : b[k].kind = "content" /\ b[k].sum = k - 1
      BY <1>0, <1>7
    <2>2. a = b \o <<Mhttp!LastChunk>>
      BY <1>8
    <2> HIDE DEF b
    <2>3. /\ a \in Seq(HttpLines) /\ Len(a) = BodyLines + 2 /\ a[BodyLines + 2] = Mhttp!LastChunk
          /\ \A k \in 1 .. BodyLines + 1 : a[k] = b[k]
      BY <1>3, <2>1, <2>2, Joined, OneOf
    <2> QED BY <1>3, <2>1, <2>3
  <1>9. CASE a = <<Mhttp!Line("err", Mhttp!Own)>>
    BY <1>4, <1>9
  <1>10. CASE a = <<>>
    BY <1>10
  <1>11. CASE a = <<header(FALSE)>> \o bytes(FALSE)
    <2>1. /\ a \in Seq(HttpLines) /\ Len(a) = BodyLines + 1 /\ a[1].kind = "header"
          /\ \A k \in 2 .. BodyLines + 1 : a[k].kind = "content" /\ a[k].sum = k - 1
      BY <1>0, <1>7, <1>11
    <2> QED BY <2>1
  <1> QED BY <1>6, <1>8, <1>9, <1>10, <1>11

\* Lines that were lost or handled, and new ones that are none of the answer, leave
\* what is there in order.
LEMMA AheadRest ==
    ASSUME NEW u \in Seq(HttpLines), NEW v \in Seq(HttpLines), NEW offset \in Nat, NEW c \in Int,
           Ahead(u, offset),
           \A k \in 1 .. Len(v) : \/ v[k].kind \in {"err", "overflow"} \/ (v[k].kind = "create" /\ v[k].id = Mhttp!Own)
                                  \/ k + c \in 1 .. Len(u) /\ v[k] = u[k + c]
    PROVE  /\ Ahead(v, offset)
           /\ HasAnswer(v) => HasAnswer(u)
           /\ HasHeader(v) => HasHeader(u)
  <1>1. \A k \in 1 .. Len(v) : Answer(v[k]) \/ Bytes(v[k]) => k + c \in 1 .. Len(u) /\ v[k] = u[k + c]
    BY DEF Answer, Bytes
  <1>2. Len(u) \in Nat /\ Len(v) \in Nat
    OBVIOUS
  <1>3. \A j, k \in 1 .. Len(v) : j < k => j + c < k + c
    BY <1>2
  <1>4. \A k \in 1 .. Len(v) : v[k].kind = "create" => v[k].id = Mhttp!Own
    BY DEF Ahead
  <1>5. Ahead(v, offset)
    BY <1>1, <1>2, <1>3, <1>4 DEF Ahead, Answer
  <1> QED BY <1>1, <1>5 DEF HasAnswer, HasHeader, Answer

\* The next byte of the body is handled.
LEMMA AheadByte ==
    ASSUME NEW u \in Seq(HttpLines), NEW offset \in Nat, Ahead(u, offset), u # <<>>, Bytes(Head(u))
    PROVE  Ahead(Tail(u), offset + 1) /\ Head(u).sum > offset
  <1>1. /\ Tail(u) \in Seq(HttpLines) /\ Len(Tail(u)) = Len(u) - 1 /\ Head(u) = u[1] /\ Len(u) \in Nat \ {0}
        /\ \A k \in 1 .. Len(u) - 1 : Tail(u)[k] = u[k + 1]
    OBVIOUS
  <1>2. \A k \in 1 .. Len(u) : u[k].sum \in Nat
    BY LineFields
  <1> QED BY <1>1, <1>2 DEF Ahead

\* The request is answered once: after lines that are none of an answer.
LEMMA AheadAnswer ==
    ASSUME NEW u \in Seq(HttpLines), NEW a \in Mhttp!Answers, BodyLines \in Nat, Ahead(u, 0),
           \A k \in 1 .. Len(u) : ~Answer(u[k])
    PROVE  u \o a \in Seq(HttpLines) /\ Ahead(u \o a, 0)
  <1> DEFINE w == u \o a
             n == Len(u)
  <1>1. n \in Nat /\ Len(a) \in Nat /\ Len(w) = n + Len(a) /\ a \in Seq(HttpLines) /\ w \in Seq(HttpLines)
    BY AnswerLines
  <1>2. \A k \in 1 .. Len(w) : \/ k \in 1 .. n /\ w[k] = u[k]
                               \/ k - n \in 1 .. Len(a) /\ w[k] = a[k - n]
    BY <1>1
  <1> HIDE DEF w, n
  <1>7. \A k \in 1 .. n : ~Answer(u[k])
    BY DEF n
  <1>8. \A k \in 1 .. Len(a) :
                \/ k > 1 /\ a[k].kind = "content" /\ a[k].sum = k - 1
                \/ k > 1 /\ a[k].kind = "content" /\ a[k].cur = 0
                \/ k = 1 /\ a[k].kind = "header"
                \/ a[k].kind = "err"
    BY AnswerLines
  <1>3. \A k \in 1 .. Len(w) : Bytes(w[k]) => k > n + 1 /\ w[k].sum = k - n - 1
    <2> SUFFICES ASSUME NEW k \in 1 .. Len(w), Bytes(w[k]) PROVE k > n + 1 /\ w[k].sum = k - n - 1
      OBVIOUS
    <2>1. k - n \in 1 .. Len(a) /\ w[k] = a[k - n]
      BY <1>2, <1>7 DEF Bytes, Answer
    <2>2. k - n > 1 /\ w[k].sum = k - n - 1
      BY <1>8, <2>1 DEF Bytes
    <2> QED BY <1>1, <2>1, <2>2
  <1>4. \A k \in 1 .. Len(w) : /\ Answer(w[k]) => k > n
                               /\ w[k].kind = "header" => k = n + 1
    <2> SUFFICES ASSUME NEW k \in 1 .. Len(w), Answer(w[k]) PROVE k > n /\ (w[k].kind = "header" => k = n + 1)
      BY DEF Answer
    <2>1. k - n \in 1 .. Len(a) /\ w[k] = a[k - n]
      BY <1>2, <1>7
    <2>2. w[k].kind = "header" => k - n = 1
      BY <1>8, <2>1
    <2> QED BY <1>1, <2>1, <2>2
  <1>5. \A k \in 1 .. Len(w) : w[k].kind = "create" => w[k].id = Mhttp!Own
    BY <1>1, <1>2, AnswerLines DEF Ahead, n
  <1>6. Ahead(w, 0)
    BY <1>1, <1>3, <1>4, <1>5 DEF Ahead
  <1> QED BY <1>1, <1>6 DEF w

\* The first line is taken off.
LEMMA AheadTail ==
    ASSUME NEW u \in Seq(HttpLines), NEW offset \in Nat, Ahead(u, offset), u # <<>>
    PROVE  /\ Tail(u) \in Seq(HttpLines) /\ Ahead(Tail(u), offset)
           /\ HasAnswer(Tail(u)) => HasAnswer(u)
           /\ HasHeader(Tail(u)) => HasHeader(u) /\ ~Answer(Head(u))
           /\ Answer(Head(u)) => HasAnswer(u)
           /\ Head(u).kind = "header" => HasHeader(u)
           /\ Head(u) \in HttpLines /\ (Head(u).kind = "create" => Head(u).id = Mhttp!Own)
  <1>1. /\ Tail(u) \in Seq(HttpLines) /\ Len(Tail(u)) = Len(u) - 1 /\ Head(u) = u[1] /\ Len(u) \in Nat \ {0}
        /\ \A k \in 1 .. Len(u) - 1 : Tail(u)[k] = u[k + 1]
    OBVIOUS
  <1>2. \A k \in 1 .. Len(Tail(u)) : k + 1 \in 1 .. Len(u) /\ Tail(u)[k] = u[k + 1] /\ 1 < k + 1
    BY <1>1
  <1>3. Ahead(Tail(u), offset) /\ (HasAnswer(Tail(u)) => HasAnswer(u)) /\ (HasHeader(Tail(u)) => HasHeader(u))
    BY <1>1, <1>2, AheadRest, 1 \in Int
  <1>4. HasHeader(Tail(u)) => ~Answer(Head(u))
    BY <1>1, <1>2 DEF Ahead, HasHeader
  <1>5. 1 \in 1 .. Len(u)
    BY <1>1
  <1>6. Head(u) \in HttpLines /\ (Head(u).kind = "create" => Head(u).id = Mhttp!Own)
    BY <1>1, <1>5 DEF Ahead
  <1> QED BY <1>1, <1>3, <1>4, <1>5, <1>6 DEF HasAnswer, HasHeader

\* A line that is cut keeps its place and its numbers.
LEMMA AheadCut ==
    ASSUME NEW u \in Seq(HttpLines), NEW offset \in Nat, Ahead(u, offset), u # <<>>
    PROVE  LET v == [u EXCEPT ![1].cut = TRUE]
           IN  /\ v \in Seq(HttpLines) /\ Ahead(v, offset)
               /\ HasAnswer(v) => HasAnswer(u)
               /\ HasHeader(v) => HasHeader(u)
  <1> DEFINE v == [u EXCEPT ![1].cut = TRUE]
             l == [u[1] EXCEPT !.cut = TRUE]
  <1>1. 1 \in 1 .. Len(u) /\ u[1] \in HttpLines
    OBVIOUS
  <1>2. l \in HttpLines /\ l.kind = u[1].kind /\ l.sum = u[1].sum /\ l.cur = u[1].cur /\ l.id = u[1].id
    BY <1>1 DEF HttpLines, Flags
  <1>3. v = [u EXCEPT ![1] = l]
    BY <1>1
  <1> HIDE DEF l, v
  <1>8. u \in [1 .. Len(u) -> HttpLines] /\ Len(u) \in Nat
    OBVIOUS
  <1>9. v \in [1 .. Len(u) -> HttpLines]
    BY <1>2, <1>3, <1>8
  <1>4. v \in Seq(HttpLines) /\ Len(v) = Len(u) /\ \A k \in 1 .. Len(u) : v[k] = IF k = 1 THEN l ELSE u[k]
    <2>1. v \in Seq(HttpLines) /\ Len(v) = Len(u)
      BY <1>8, <1>9
    <2>2. \A k \in 1 .. Len(u) : v[k] = IF k = 1 THEN l ELSE u[k]
      BY <1>3, <1>8
    <2> QED BY <2>1, <2>2
  <1>5. \A k \in 1 .. Len(u) : v[k].kind = u[k].kind /\ v[k].sum = u[k].sum /\ v[k].cur = u[k].cur /\ v[k].id = u[k].id
    BY <1>2, <1>4
  <1>6. Ahead(v, offset)
    BY <1>4, <1>5 DEF Ahead, Bytes, Answer
  <1>7. (HasAnswer(v) => HasAnswer(u)) /\ (HasHeader(v) => HasHeader(u))
    BY <1>4, <1>5 DEF HasAnswer, HasHeader, Answer
  <1> QED BY <1>4, <1>6, <1>7 DEF v

LEMMA HttpInit == Mhttp!Init => HttpInv
  <1> SUFFICES ASSUME Mhttp!Init PROVE HttpInv
    OBVIOUS
  <1>1. lines \in Seq(HttpLines) /\ Len(lines) = 0 /\ body \in Seq(Nat) /\ readBytes \in Seq(Nat)
    BY DEF Mhttp!Init
  <1>2. Ahead(lines, 0) /\ ~HasAnswer(lines) /\ ~HasHeader(lines)
    BY <1>1 DEF Ahead, HasAnswer, HasHeader
  <1>3. HttpType
    BY <1>1 DEF Mhttp!Init, HttpType
  <1>6. Whole /\ Unanswered
    BY DEF Mhttp!Init, Whole, Complete, Unanswered
  <1>4. InOrder(readBytes, without)
    BY DEF Mhttp!Init, InOrder
  <1>5. body_offset = 0 /\ http_id = Mhttp!NoId /\ mhttpAt = "idle"
    BY DEF Mhttp!Init
  <1> QED BY <1>2, <1>3, <1>4, <1>5, <1>6 DEF HttpInv

LEMMA BytesRegrouped ==
    ASSUME NEW a \in Seq(Nat), NEW b \in Seq(Nat), NEW c \in Seq(Nat)
    PROVE  (a \o b) \o c = a \o (b \o c)
  BY ConcatAssociative

\* Elements taken from the front of a sequence and put behind another one
LEMMA TakenFromFront ==
    ASSUME NEW s \in Seq(Nat), NEW t \in Seq(Nat), NEW n \in 1 .. Len(t)
    PROVE  /\ s \o SubSeq(t, 1, n) \in Seq(Nat)
           /\ SubSeq(t, n + 1, Len(t)) \in Seq(Nat)
           /\ (s \o SubSeq(t, 1, n)) \o SubSeq(t, n + 1, Len(t)) = s \o t
  <1>1. SubSeq(t, 1, n) \in Seq(Nat) /\ SubSeq(t, n + 1, Len(t)) \in Seq(Nat)
    <2>1. SubSeq(t, 1, n) \in Seq(Nat)
      OBVIOUS
    <2>2. SubSeq(t, n + 1, Len(t)) \in Seq(Nat)
      OBVIOUS
    <2> QED BY <2>1, <2>2
  <1>2. SubSeq(t, 1, n) \o SubSeq(t, n + 1, Len(t)) = t
    <2>1. 1 \in 1 .. Len(t) + 1 /\ n \in 1 - 1 .. Len(t) /\ Len(t) \in n .. Len(t)
      OBVIOUS
    <2>2. SubSeq(t, 1, n) \o SubSeq(t, n + 1, Len(t)) = SubSeq(t, 1, Len(t))
      BY <2>1, ConcatAdjacentSubSeq, Zenon
    <2> QED BY <2>2, SubSeqFull
  <1>3. (s \o SubSeq(t, 1, n)) \o SubSeq(t, n + 1, Len(t)) = s \o (SubSeq(t, 1, n) \o SubSeq(t, n + 1, Len(t)))
    BY <1>1, BytesRegrouped, Zenon
  <1>4. s \o SubSeq(t, 1, n) \in Seq(Nat)
    <2>1. \A u \in Seq(Nat), v \in Seq(Nat) : u \o v \in Seq(Nat)
      OBVIOUS
    <2> QED BY <1>1, <2>1, Zenon
  <1> QED BY <1>1, <1>2, <1>3, <1>4, Zenon

LEMMA AppendedLast ==
    ASSUME NEW s \in Seq(Nat), NEW t \in Seq(Nat), NEW e \in Nat
    PROVE  s \o (t \o <<e>>) = Append(s \o t, e)
  <1>1. <<e>> \in Seq(Nat) /\ s \o t \in Seq(Nat)
    OBVIOUS
  <1>2. (s \o t) \o <<e>> = s \o (t \o <<e>>)
    BY <1>1, BytesRegrouped, Zenon
  <1>3. Append(s \o t, e) = (s \o t) \o <<e>>
    <2>1. \A u \in Seq(Nat) : Append(u, e) = u \o <<e>>
      BY AppendIsConcat, Zenon
    <2> QED BY <1>1, <2>1, Zenon
  <1> QED BY <1>2, <1>3

LEMMA HttpNext ==
    ASSUME BodyLines \in Nat, HttpInv, [Mhttp!Next]_(Mhttp!vars)
    PROVE  HttpInv'
  <1> SUFFICES ASSUME ~crossed' PROVE HttpInv'
    BY DEF HttpInv
  <1>0. ~Mhttp!OtherCreates /\ ~crossed
    <2>1. ~Mhttp!OtherCreates
      BY DEF Mhttp!OtherCreates
    <2>2. crossed' = crossed
      BY <2>1 DEF Mhttp!Next, Mhttp!vars, Mhttp!Task, Mhttp!HandleUrc, Mhttp!LineLost,
         Mhttp!LineCut, Mhttp!history, Mhttp!Overflow, Mhttp!Rest, Mhttp!Open, Mhttp!Created, Mhttp!Request,
             Mhttp!FetchHeaders, Mhttp!Read, Mhttp!ReadAll, Mhttp!Close
    <2> QED BY <2>1, <2>2
  <1> USE <1>0
  <1>1. /\ HttpType /\ Ahead(lines, body_offset)
        /\ InOrder(readBytes, without)
        /\ ~bodyMutex /\ mhttpAt \notin {"close", "done"} => Whole
        /\ http_id # Mhttp!NoId /\ mhttpAt # "done" => mhttp_instance_active
        /\ HasAnswer(lines) /\ mhttpAt # "done" => mhttp_instance_active
        /\ mhttpAt \in {"idle", "create", "request"} => ~HasAnswer(lines) /\ Unanswered
        /\ HasHeader(lines) => Unanswered /\ mhttpAt # "read"
    BY DEF HttpInv
  <1>2. lines # <<>> =>
           /\ Tail(lines) \in Seq(HttpLines) /\ Ahead(Tail(lines), body_offset)
           /\ HasAnswer(Tail(lines)) => HasAnswer(lines)
           /\ HasHeader(Tail(lines)) => HasHeader(lines) /\ ~Answer(Head(lines))
           /\ Answer(Head(lines)) => HasAnswer(lines)
           /\ Head(lines).kind = "header" => HasHeader(lines)
           /\ Head(lines) \in HttpLines /\ (Head(lines).kind = "create" => Head(lines).id = Mhttp!Own)
    BY <1>1, AheadTail DEF HttpType
  <1>3. CASE Mhttp!LineLost
    BY <1>1, <1>2, <1>3 DEF Mhttp!LineLost, HttpInv, HttpType, Whole, Unanswered,
       Mhttp!fields, Mhttp!content, Mhttp!history
  <1>14. CASE Mhttp!LineCut
    <2>1. lines # <<>> /\ lines' = [lines EXCEPT ![1].cut = TRUE]
      BY <1>14 DEF Mhttp!LineCut
    <2>2. /\ lines' \in Seq(HttpLines) /\ Ahead(lines', body_offset)
          /\ HasAnswer(lines') => HasAnswer(lines)
          /\ HasHeader(lines') => HasHeader(lines)
      BY <1>1, <2>1, AheadCut DEF HttpType
    <2>3. UNCHANGED <<Mhttp!fields, Mhttp!content, mhttpBits, mhttpAt, bodyMutex, readBytes, without, crossed>>
      BY <1>14 DEF Mhttp!LineCut, Mhttp!history
    <2> QED BY <1>1, <2>2, <2>3 DEF HttpInv, HttpType, Whole, Unanswered, Mhttp!fields, Mhttp!content
  <1>4. CASE Mhttp!Overflow
    <2>1. PICK n \in 0 .. Len(lines) : lines' = <<Mhttp!Line("overflow", Mhttp!NoId)>> \o SubSeq(lines, n + 1, Len(lines))
      BY <1>4 DEF Mhttp!Overflow
    <2>2. Mhttp!Line("overflow", Mhttp!NoId) \in HttpLines /\ Mhttp!Line("overflow", Mhttp!NoId).kind = "overflow"
      BY DEF Mhttp!Line, HttpLines, HttpKinds, Flags
    <2> DEFINE t == SubSeq(lines, n + 1, Len(lines))
    <2>3. t \in Seq(HttpLines) /\ Len(t) = Len(lines) - n /\ \A k \in 1 .. Len(t) : t[k] = lines[k + n]
      BY <1>1 DEF HttpType
    <2> HIDE DEF t
    <2>4. /\ lines' \in Seq(HttpLines) /\ Len(lines') = 1 + Len(t) /\ lines'[1] = Mhttp!Line("overflow", Mhttp!NoId)
          /\ \A k \in 1 .. 1 + Len(t) : k > 1 => k - 1 \in 1 .. Len(t) /\ lines'[k] = t[k - 1]
      <3>1. /\ lines' \in Seq(HttpLines) /\ Len(lines') = Len(<<Mhttp!Line("overflow", Mhttp!NoId)>>) + Len(t)
            /\ \A k \in 1 .. Len(<<Mhttp!Line("overflow", Mhttp!NoId)>>) : lines'[k] = <<Mhttp!Line("overflow", Mhttp!NoId)>>[k]
            /\ \A k \in 1 .. Len(<<Mhttp!Line("overflow", Mhttp!NoId)>>) + Len(t) : k > Len(<<Mhttp!Line("overflow", Mhttp!NoId)>>) =>
                   /\ k - Len(<<Mhttp!Line("overflow", Mhttp!NoId)>>) \in 1 .. Len(t)
                   /\ lines'[k] = t[k - Len(<<Mhttp!Line("overflow", Mhttp!NoId)>>)]
        BY <2>1, <2>2, <2>3, Joined, OneOf DEF t
      <3> QED BY <2>2, <3>1, OneOf
    <2>5. \A k \in 1 .. Len(lines') : \/ lines'[k].kind \in {"err", "overflow"}
                                      \/ k + (n - 1) \in 1 .. Len(lines) /\ lines'[k] = lines[k + (n - 1)]
      <3> SUFFICES ASSUME NEW k \in 1 .. Len(lines'), k # 1
                   PROVE  k + (n - 1) \in 1 .. Len(lines) /\ lines'[k] = lines[k + (n - 1)]
        BY <2>2, <2>4
      <3>1. k - 1 \in 1 .. Len(t) /\ lines'[k] = t[k - 1]
        BY <2>3, <2>4
      <3>0. k \in Int /\ n \in Int /\ Len(lines) \in Int /\ n >= 0 /\ k - 1 \in 1 .. (Len(lines) - n)
        BY <1>1, <2>3, <2>4, <3>1 DEF HttpType
      <3>2. (k - 1) + n = k + (n - 1) /\ k + (n - 1) \in 1 .. Len(lines)
        BY <3>0, SMTT(30)
      <3>3. t[k - 1] = lines[(k - 1) + n]
        BY <2>3, <3>1
      <3> QED BY <3>1, <3>2, <3>3
    <2>6. n - 1 \in Int
      OBVIOUS
    <2>9. \A k \in 1 .. Len(lines') : \/ lines'[k].kind \in {"err", "overflow"} \/ (lines'[k].kind = "create" /\ lines'[k].id = Mhttp!Own)
                                      \/ k + (n - 1) \in 1 .. Len(lines) /\ lines'[k] = lines[k + (n - 1)]
      BY <2>5, Zenon
    <2>10. lines \in Seq(HttpLines) /\ body_offset \in Nat
      BY <1>1 DEF HttpType
    <2>7. Ahead(lines', body_offset) /\ (HasAnswer(lines') => HasAnswer(lines)) /\ (HasHeader(lines') => HasHeader(lines))
      BY <1>1, <2>4, <2>6, <2>9, <2>10, AheadRest
    <2>8. HttpType' /\ (Whole => Whole') /\ (Unanswered => Unanswered')
      BY <1>1, <1>4, <2>4 DEF Mhttp!Overflow, HttpType, Whole, Unanswered, Mhttp!fields,
         Mhttp!content, Mhttp!history
    <2> QED BY <1>1, <1>4, <2>7, <2>8 DEF Mhttp!Overflow, HttpInv, Mhttp!fields,
               Mhttp!content, Mhttp!history
  <1>5. CASE Mhttp!Open
    <2>1. Mhttp!Create(Mhttp!Own) \in HttpLines /\ Mhttp!Create(Mhttp!Own).kind = "create" /\ Mhttp!Create(Mhttp!Own).id = Mhttp!Own
      BY HttpLineIs DEF Mhttp!Create, HttpKinds
    <2>2. CASE lines' = Append(lines, Mhttp!Create(Mhttp!Own))
      <3>1. /\ lines' \in Seq(HttpLines) /\ Len(lines') = Len(lines) + 1 /\ lines'[Len(lines) + 1] = Mhttp!Create(Mhttp!Own)
            /\ \A k \in 1 .. Len(lines) : lines'[k] = lines[k]
        BY <1>1, <2>1, <2>2 DEF HttpType
      <3>2. \A k \in 1 .. Len(lines') : \/ lines'[k].kind = "create" /\ lines'[k].id = Mhttp!Own
                                        \/ k + 0 \in 1 .. Len(lines) /\ lines'[k] = lines[k + 0]
        <4>1. TAKE k \in 1 .. Len(lines')
        <4>2. Len(lines) \in Nat /\ k \in Int
          BY <1>1, <3>1 DEF HttpType
        <4>3. k + 0 = k
          BY <4>2
        <4>4. CASE k = Len(lines) + 1
          BY <2>1, <3>1, <4>4
        <4>5. CASE k \in 1 .. Len(lines)
          BY <3>1, <4>3, <4>5
        <4> QED BY <3>1, <4>2, <4>4, <4>5
      <3>3. Ahead(lines', body_offset) /\ (HasAnswer(lines') => HasAnswer(lines)) /\ (HasHeader(lines') => HasHeader(lines))
        <4>1. 0 \in Int /\ lines \in Seq(HttpLines) /\ body_offset \in Nat
          BY <1>1 DEF HttpType
        <4> QED BY <1>1, <3>1, <3>2, <4>1, AheadRest
      <3> QED BY <1>1, <1>5, <3>1, <3>3 DEF Mhttp!Open, Mhttp!Goto, Mhttp!Rest, HttpInv,
                 HttpType, Whole, Unanswered, Mhttp!fields, Mhttp!content, Mhttp!history
    <2>3. CASE UNCHANGED lines
      BY <1>1, <1>5, <2>3 DEF Mhttp!Open, Mhttp!Goto, Mhttp!Rest, HttpInv, HttpType,
         Whole, Unanswered, Mhttp!fields, Mhttp!content, Mhttp!history
    <2> QED BY <1>5, <2>2, <2>3 DEF Mhttp!Open
  <1>6. CASE Mhttp!Request
    <2>1. CASE UNCHANGED lines
      BY <1>1, <1>6, <2>1 DEF Mhttp!Request, Mhttp!Goto, Mhttp!Rest, HttpInv, HttpType,
         Whole, Unanswered, Mhttp!fields, Mhttp!content, Mhttp!history
    <2>2. CASE ~UNCHANGED lines
      <3>1. PICK a \in Mhttp!Answers : lines' = lines \o a
        BY <1>6, <2>2 DEF Mhttp!Request
      <3>2. http_id = Mhttp!Own /\ mhttpAt = "request" /\ mhttpAt' = "status"
        BY <1>6, <2>2 DEF Mhttp!Request, Mhttp!Goto
      <3>3. body_offset = 0 /\ \A k \in 1 .. Len(lines) : ~Answer(lines[k])
        BY <1>1, <3>2 DEF Unanswered, HasAnswer
      <3>4. lines' \in Seq(HttpLines) /\ Ahead(lines', body_offset)
        BY <1>1, <3>1, <3>3, AheadAnswer DEF HttpType
      <3>5. mhttp_instance_active
        BY <1>1, <3>2 DEF Mhttp!NoId, Mhttp!Own
      <3> QED BY <1>1, <1>6, <3>2, <3>4, <3>5 DEF Mhttp!Request, Mhttp!Rest, HttpInv,
                 HttpType, Whole, Unanswered, Mhttp!fields, Mhttp!content, Mhttp!history
    <2> QED BY <2>1, <2>2
  <1>7. CASE Mhttp!Created
    BY <1>1, <1>7 DEF Mhttp!Created, HttpInv, HttpType, Whole, Unanswered, Mhttp!fields,
       Mhttp!content, Mhttp!history, Mhttp!Rest
  <1>8. CASE Mhttp!FetchHeaders
    BY <1>1, <1>8 DEF Mhttp!FetchHeaders, HttpInv, HttpType, Whole, Unanswered,
       Mhttp!fields, Mhttp!content, Mhttp!history, Mhttp!Rest
  <1>9. CASE Mhttp!Read
    <2>0. Whole
      BY <1>1, <1>9 DEF Mhttp!Read
    <2>1. CASE UNCHANGED <<readBytes, body>>
      BY <1>1, <1>9, <2>1 DEF Mhttp!Read, HttpInv, HttpType, Whole, Unanswered, Mhttp!fields
    <2>2. CASE ~UNCHANGED <<readBytes, body>>
      <3>1. PICK n \in 1 .. Len(body) : /\ readBytes' = readBytes \o SubSeq(body, 1, n)
                                        /\ body' = SubSeq(body, n + 1, Len(body))
        BY <1>9, <2>2 DEF Mhttp!Read
      <3>2. /\ mhttpAt = "read" /\ mhttpAt' = "read"
            /\ UNCHANGED <<Mhttp!fields, eof, body_offset, mhttpBits, mhttpRx, bodyMutex, lines, mhttpLosses, without, crossed>>
        BY <1>9, <2>2 DEF Mhttp!Read
      <3>3. body \in Seq(Nat) /\ readBytes \in Seq(Nat) /\ body_offset \in Nat
        BY <1>1 DEF HttpType
      <3>4. readBytes' \in Seq(Nat) /\ body' \in Seq(Nat) /\ readBytes' \o body' = readBytes \o body
        BY <3>1, <3>3, TakenFromFront, Zenon
      <3>5. Whole' /\ InOrder(readBytes', without')
        BY <2>0, <3>2, <3>3, <3>4, CompletePrefix DEF Whole
      <3> QED BY <1>1, <3>2, <3>4, <3>5 DEF HttpInv, HttpType, Mhttp!fields
    <2> QED BY <2>1, <2>2
  <1>10. CASE Mhttp!ReadAll
    <2>0. Whole /\ ~HasHeader(lines)
      BY <1>1, <1>10 DEF Mhttp!ReadAll, Mhttp!Goto
    <2>1. body \in Seq(Nat) /\ readBytes \in Seq(Nat) /\ body_offset \in Nat
      BY <1>1 DEF HttpType
    <2>2. readBytes' = readBytes \o body /\ readBytes' \in Seq(Nat)
      BY <1>10, <2>1 DEF Mhttp!ReadAll
    <2>3. InOrder(readBytes', without)
      BY <2>0, <2>1, <2>2, CompletePrefix DEF Whole
    <2> QED BY <1>1, <1>10, <2>0, <2>2, <2>3 DEF Mhttp!ReadAll, Mhttp!Goto, Mhttp!Rest,
               HttpInv, HttpType, Mhttp!fields, Mhttp!content
  <1>11. CASE Mhttp!Close
    <2>1. HttpType' /\ (Unanswered => Unanswered')
      BY <1>1, <1>11 DEF Mhttp!Close, Mhttp!Goto, Mhttp!history, HttpType, Unanswered
    <2> QED BY <1>1, <1>11, <2>1 DEF Mhttp!Close, Mhttp!Goto, Mhttp!history, HttpInv
  <1>12. CASE Mhttp!HandleUrc
    <2>0. /\ lines # <<>> /\ lines' = Tail(lines)
          /\ UNCHANGED <<mhttpAt, readBytes, status_code, crossed>> \/ Mhttp!UrcHeader
          /\ UNCHANGED <<mhttpAt, readBytes, crossed>>
      BY <1>12 DEF Mhttp!HandleUrc, Mhttp!Handle, Mhttp!UrcCreate, Mhttp!UrcHeader,
         Mhttp!UrcContent, Mhttp!UrcErr, Mhttp!UrcOverflow, Mhttp!UrcOfOther, Mhttp!fields
    <2>1. CASE Mhttp!UrcCreate
      <3>1. http_id' = Mhttp!Own /\ mhttp_instance_active'
        BY <1>2, <2>0, <2>1 DEF Mhttp!UrcCreate, Mhttp!Handle
      <3> QED BY <1>1, <1>2, <1>12, <2>0, <2>1, <3>1 DEF Mhttp!HandleUrc, Mhttp!UrcCreate,
                 Mhttp!Bits, HttpInv, HttpType, Whole, Unanswered, Mhttp!content, Mhttp!history
    <2>2. CASE Mhttp!UrcHeader
      <3>1. Head(lines).kind = "header"
        BY <2>2 DEF Mhttp!UrcHeader, Mhttp!Handle
      <3>2. HasHeader(lines) /\ HasAnswer(lines) /\ ~HasHeader(lines')
        BY <1>2, <2>0, <3>1 DEF Answer
      <3>3. Unanswered /\ mhttpAt \notin {"idle", "create", "request"}
        BY <1>1, <3>2
      <3>4. body' = <<>> /\ body_offset' = 0 /\ body_offset = 0 /\ readBytes' = <<>>
        BY <2>0, <2>2, <3>3 DEF Mhttp!UrcHeader, Unanswered
      <3>5. Whole' /\ InOrder(readBytes', without')
        BY <3>4 DEF Whole, Complete, InOrder
      <3>6. HttpType'
        BY <1>1, <1>2, <1>12, <2>0, <2>2, <3>4 DEF Mhttp!HandleUrc, Mhttp!UrcHeader,
           Mhttp!Bits, HttpType
      <3> QED BY <1>1, <1>2, <1>12, <2>0, <2>2, <3>2, <3>3, <3>4, <3>5, <3>6 DEF
                 Mhttp!HandleUrc, Mhttp!UrcHeader, HttpInv
    <2>3. CASE Mhttp!UrcContent
      <3>1. Head(lines).kind = "content" /\ HasAnswer(lines) /\ ~HasHeader(lines') /\ UNCHANGED <<Mhttp!fields, mhttpBits, mhttpAt, readBytes, crossed>>
        BY <1>2, <1>12, <2>0, <2>3 DEF Mhttp!HandleUrc, Mhttp!UrcContent, Mhttp!Handle,
           Answer
      <3>2. mhttpAt \notin {"idle", "create", "request"} /\ (mhttpAt # "done" => mhttp_instance_active)
        BY <1>1, <3>1
      <3> DEFINE bytes == Head(lines).cur
                 sum == Head(lines).sum
      <3>3. bytes \in {0, 1} /\ sum \in Nat
        BY <1>2, <2>0 DEF HttpLines
      <3> DEFINE data == Mhttp!Data
      <3>4. /\ body' = body \o data /\ body_offset' = body_offset + bytes
            /\ without' = IF bytes = 1 /\ data = <<>> THEN without \cup {sum} ELSE without
            /\ ~bodyMutex /\ bodyMutex' \in BOOLEAN
            /\ sum > body_offset' /\ mhttp_instance_active => bodyMutex'
        BY <1>1, <2>3 DEF Mhttp!UrcContent, Mhttp!Gap, HttpType
      <3>8. data = <<>> \/ (bytes = 1 /\ data = <<sum>>)
        BY <3>3 DEF Mhttp!Data
      <3> HIDE DEF bytes, sum, data
      <3>5. Ahead(lines', body_offset') /\ (bytes = 1 => sum > body_offset)
        <4>1. CASE bytes = 0
          BY <1>1, <1>2, <2>0, <3>4, <4>1 DEF HttpType
        <4>2. CASE bytes = 1
          <5>1. Bytes(Head(lines))
            BY <3>1, <4>2 DEF Bytes, bytes
          <5> QED BY <1>1, <2>0, <3>4, <4>2, <5>1, AheadByte DEF HttpType, sum
        <4> QED BY <3>3, <4>1, <4>2
      <3>9. body \in Seq(Nat) /\ readBytes \in Seq(Nat) /\ body_offset \in Nat
        BY <1>1 DEF HttpType
      <3>6. HttpType'
        <4>1. body_offset' \in Nat
          BY <3>3, <3>4, <3>9
        <4>2. body' \in Seq(Nat)
          <5>1. data \in Seq(Nat)
            <6>1. <<>> \in Seq(Nat) /\ <<sum>> \in Seq(Nat)
              BY <3>3
            <6> QED BY <3>8, <6>1, Zenon
          <5> QED BY <3>4, <3>9, <5>1
        <4> QED BY <1>1, <1>2, <2>0, <3>1, <3>4, <4>1, <4>2 DEF HttpType, Mhttp!fields
      <3>7. ASSUME ~bodyMutex', mhttpAt \notin {"close", "done"} PROVE Whole'
        <4> DEFINE j == readBytes \o body
        <4>1. Complete(j, body_offset, without) /\ j \in Seq(Nat)
          BY <1>1, <3>4, <3>7, <3>9 DEF Whole
        <4>2. CASE bytes = 0
          <5>1. data = <<>> /\ body' = body /\ body_offset' = body_offset /\ without' = without
            BY <3>4, <3>8, <3>9, <4>2
          <5> QED BY <3>1, <4>1, <5>1 DEF Whole
        <4>3. CASE bytes = 1
          <5>1. sum = body_offset + 1 /\ body_offset' = body_offset + 1
            BY <3>2, <3>3, <3>4, <3>5, <3>7, <3>9, <4>3
          <5>2. CASE data = <<>>
            <6>1. body' = body /\ without' = without \cup {body_offset + 1}
              BY <3>4, <3>9, <4>3, <5>1, <5>2
            <6> QED BY <3>1, <3>9, <4>1, <5>1, <6>1, CompleteByte DEF Whole
          <5>3. CASE data = <<sum>>
            <6>1. without' = without
              BY <3>4, <5>3
            <6>2. readBytes' \o body' = Append(j, sum)
              BY <3>1, <3>3, <3>4, <3>9, <5>3, AppendedLast
            <6> HIDE DEF j
            <6> QED BY <3>9, <4>1, <5>1, <6>1, <6>2, CompleteByte DEF Whole
          <5> QED BY <3>8, <5>2, <5>3
        <4> QED BY <3>3, <4>2, <4>3
      <3>10. InOrder(readBytes', without')
        <4>1. without \subseteq without' /\ InOrder(readBytes, without)
          BY <1>1, <3>4
        <4> QED BY <3>1, <4>1 DEF InOrder
      <3> QED BY <1>1, <1>2, <2>0, <3>1, <3>2, <3>5, <3>6, <3>7, <3>10 DEF HttpInv, Mhttp!fields
    <2>4. CASE Mhttp!UrcErr \/ Mhttp!UrcOverflow \/ Mhttp!UrcOfOther
      <3>1. UNCHANGED <<Mhttp!fields, Mhttp!content, bodyMutex, mhttpAt, readBytes, without, crossed>>
            /\ mhttpBits' \in {mhttpBits, mhttpBits \cup {"ERROR"}}
        BY <1>12, <2>4 DEF Mhttp!HandleUrc, Mhttp!UrcErr, Mhttp!UrcOverflow,
           Mhttp!UrcOfOther, Mhttp!Bits
      <3>2. HttpType' /\ (Whole => Whole') /\ (Unanswered => Unanswered')
        BY <1>1, <1>2, <2>0, <3>1 DEF HttpType, Whole, Unanswered, Mhttp!fields,
           Mhttp!content, Mhttp!history
      <3> QED BY <1>1, <1>2, <2>0, <3>1, <3>2 DEF HttpInv, Mhttp!fields, Mhttp!content, Mhttp!history
    <2> QED BY <1>12, <2>1, <2>2, <2>3, <2>4 DEF Mhttp!HandleUrc
  <1>13. CASE UNCHANGED Mhttp!vars
    BY <1>1, <1>13 DEF Mhttp!vars, HttpInv, HttpType, Whole, Unanswered, Mhttp!fields,
       Mhttp!content, Mhttp!history
  <1> QED BY <1>3, <1>4, <1>5, <1>6, <1>7, <1>8, <1>9, <1>10, <1>11, <1>12, <1>13, <1>14 DEF
             Mhttp!Next, Mhttp!Task

\* BodyWithoutGap of MCModem: what Read has given is the body from its first byte on, in
\* order, and only bytes whose line came without its data are left out, whatever lines
\* are lost between the modem and the driver, unless another object has created an
\* instance with the same answers.
THEOREM HttpBodyWithoutGap ==
    ASSUME BodyLines \in Nat
    PROVE  Mhttp!Spec => []BodyWithoutGap
  <1>1. HttpInv => BodyWithoutGap
    BY DEF HttpInv, InOrder, BodyWithoutGap, Mhttp!BodyWithoutGap
  <1>2. HttpInv /\ [Mhttp!Next]_(Mhttp!vars) => HttpInv'
    BY HttpNext
  <1> QED BY <1>1, <1>2, HttpInit, PTL DEF Mhttp!Spec

-----------------------------------------------------------------------------
(* The sockets of the EC801E: ec801e_tcp.cc, ec801e_ssl.cc and ec801e_udp.cc *)

\* SEND_COMPLETE stands for a confirmation that Send has not counted.
QsocketInv ==
    /\ taken \in Nat /\ acked \in Nat
    /\ taken <= acked
    /\ "SEND_COMPLETE" \in qBits => taken < acked

LEMMA QsocketInitInv == Qsocket!Init => QsocketInv
  BY DEF Qsocket!Init, QsocketInv

LEMMA QsocketNextInv == ASSUME QsocketInv, [Qsocket!Next]_(Qsocket!vars) PROVE QsocketInv'
  <1> USE DEF QsocketInv
  <1>1. CASE Qsocket!Caller
    <2>1. CASE Qsocket!ChunkSent
      BY <2>1 DEF Qsocket!ChunkSent, Qsocket!Consumed
    <2>2. CASE Qsocket!ConnectCall \/ Qsocket!CloseOld \/ Qsocket!OldClosed \/ Qsocket!Open \/ Qsocket!Opened
      BY <2>2 DEF Qsocket!ConnectCall, Qsocket!CloseOld, Qsocket!OldClosed, Qsocket!Open,
         Qsocket!Opened, Qsocket!history
    <2>3. CASE Qsocket!SendCall \/ Qsocket!SendChunk \/ Qsocket!DisconnectCall \/ Qsocket!Disconnect
      BY <2>3 DEF Qsocket!SendCall, Qsocket!SendChunk, Qsocket!DisconnectCall,
         Qsocket!Disconnect, Qsocket!history
    <2> QED BY <1>1, <2>1, <2>2, <2>3 DEF Qsocket!Caller, Qsocket!Connect
  <1>2. CASE Qsocket!HandleUrc
    <2>0. taken' = taken
      BY <1>2 DEF Qsocket!HandleUrc
    <2>1. CASE Qsocket!SendComplete
      BY <2>0, <2>1 DEF Qsocket!SendComplete, Qsocket!Set
    <2>2. CASE Qsocket!TcpOpen \/ Qsocket!UdpOpen \/ Qsocket!SslOpen \/ Qsocket!SocketState
      BY <2>0, <2>2 DEF Qsocket!TcpOpen, Qsocket!UdpOpen, Qsocket!SslOpen,
         Qsocket!SocketState, Qsocket!Set, Qsocket!OpenBits
    <2>3. CASE Qsocket!SslClose \/ Qsocket!TcpSendFailed \/ Qsocket!SslSendFailed \/ Qsocket!TcpClosed \/ Qsocket!UdpClosed
      BY <2>0, <2>3 DEF Qsocket!SslClose, Qsocket!TcpSendFailed, Qsocket!SslSendFailed,
         Qsocket!TcpClosed, Qsocket!UdpClosed, Qsocket!Set
    <2> QED BY <1>2, <2>1, <2>2, <2>3 DEF Qsocket!HandleUrc
  <1>3. CASE Qsocket!PeerCloses \/ UNCHANGED Qsocket!vars
    BY <1>3 DEF Qsocket!PeerCloses, Qsocket!vars, Qsocket!history
  <1> QED BY <1>1, <1>2, <1>3 DEF Qsocket!Next

\* AckedOnce of MCModem: Send takes no confirmation for two chunks, over the tries that
\* the EC801E asks for when its buffer is full.
THEOREM QsocketAckedOnce == Qsocket!Spec => []AckedOnce
  <1>1. QsocketInv => AckedOnce
    BY DEF QsocketInv, AckedOnce, Qsocket!AckedOnce
  <1> QED BY <1>1, QsocketInitInv, QsocketNextInv, PTL DEF Qsocket!Spec

-----------------------------------------------------------------------------
(* The sockets of the Wi-Fi build: esp_tcp.cc, esp_ssl.cc and esp_udp.cc *)

\* What the property is about: SSL and UDP, no wait given up, none raced by a Connect.
EspWaited == espKind # "tcp" /\ ~gaveUp /\ ~raced

\* The only task that may run is that of the latest connection. The field holds its
\* connection, or a wait for it is under way; the bit is set when it has ended.
EspInv ==
    /\ espKind \in {"tcp", "ssl", "udp"} /\ connects \in Nat /\ fd \in Nat
    /\ exitBit \in BOOLEAN /\ gaveUp \in BOOLEAN /\ raced \in BOOLEAN /\ group \in BOOLEAN
    /\ rxTask \in [Esp!Ids -> {"none", "check", "recv", "drop", "exit"}]
    /\ ~group => espAt = "dead"
    /\ EspWaited =>
         /\ espAt = "start" => fd # 0
         /\ \A c \in Esp!Ids : rxTask[c] # "none" => c = connects /\ rxTask[c] # "drop"
         /\ exitBit \/ espAt \in {"start", "dead"} => \A c \in Esp!Ids : rxTask[c] = "none"
         /\ fd = 0 /\ espAt \notin Esp!Waits => \A c \in Esp!Ids : rxTask[c] = "none"

\* GroupOutlivesTask of MCModem: the event group of an EspSsl or EspUdp is deleted only
\* when its receive task has used it for the last time, unless a wait for that task gave
\* up or a UDP socket was connected again while one still ran.
THEOREM GroupOutlives == Esp!Spec => []GroupOutlivesTask
<1> USE DEF Esp!Ids, Esp!Running, Esp!Waits
<1>1. Esp!Init => EspInv
  <2> SUFFICES ASSUME Esp!Init PROVE EspInv
    OBVIOUS
  <2>1. rxTask \in [Esp!Ids -> {"none", "check", "recv", "drop", "exit"}] /\ \A c \in Esp!Ids : rxTask[c] = "none"
    BY DEF Esp!Init
  <2>2. /\ espKind \in {"tcp", "ssl", "udp"} /\ connects \in Nat /\ fd \in Nat
        /\ exitBit \in BOOLEAN /\ gaveUp \in BOOLEAN /\ raced \in BOOLEAN /\ group \in BOOLEAN
    BY DEF Esp!Init
  <2>3. group /\ espAt = "idle"
    BY DEF Esp!Init
  <2> QED BY <2>1, <2>2, <2>3, Zenon DEF EspInv
<1>2. EspInv /\ [Esp!Next]_(Esp!vars) => EspInv'
  <2> SUFFICES ASSUME EspInv, [Esp!Next]_(Esp!vars) PROVE EspInv'
    OBVIOUS
  <2> USE DEF EspInv, EspWaited
  <2>0. ASSUME espAt \in {"closing", "dying", "reconnect"}
        PROVE Esp!WaitOf(espAt) \in Esp!Waits /\ Esp!After(espAt) # "start"
    BY <2>0, Zenon DEF Esp!WaitOf, Esp!After
  <2>1. CASE Esp!Connect
    BY <2>1 DEF Esp!Connect, Esp!Goto
  <2>2. CASE Esp!Connected
    BY <2>2 DEF Esp!Connected, Esp!Goto
  <2>3. CASE Esp!ConnectFails
    BY <2>3 DEF Esp!ConnectFails, Esp!Goto
  <2>4. CASE Esp!StartTask
    BY <2>4 DEF Esp!StartTask, Esp!ClearExit, Esp!Goto
  <2>5. CASE Esp!DisconnectCall
    BY <2>5 DEF Esp!DisconnectCall
  <2>6. CASE Esp!TcpDisconnect
    BY <2>6 DEF Esp!TcpDisconnect, Esp!Kept
  <2>7. CASE Esp!UdpDisconnect
    BY <2>7, <2>0 DEF Esp!UdpDisconnect, Esp!Kept
  <2>8. CASE Esp!SslDisconnect
    BY <2>8, <2>0 DEF Esp!SslDisconnect, Esp!Kept
  <2>9. CASE Esp!ExitWaited
    <3>1. Esp!AfterWait(espAt) # "start"
      BY <2>9, Zenon DEF Esp!ExitWaited, Esp!AfterWait
    <3> QED BY <2>9, <3>1 DEF Esp!ExitWaited, Esp!Kept
  <2>10. CASE Esp!Destroy
    BY <2>10 DEF Esp!Destroy
  <2>11. ASSUME NEW c \in Esp!Ids, Esp!ReceiveTask(c) PROVE EspInv'
    <3> USE DEF Esp!RxGoto, Esp!RxUnchanged
    <3>1. CASE Esp!RxCheck(c)
      BY <3>1 DEF Esp!RxCheck
    <3>2. CASE Esp!RxData(c)
      BY <3>2 DEF Esp!RxData
    <3>3. CASE Esp!RxFails(c)
      BY <3>3 DEF Esp!RxFails
    <3>4. CASE Esp!RxDrops(c)
      BY <3>4 DEF Esp!RxDrops
    <3>5. CASE Esp!RxExits(c)
      BY <3>5 DEF Esp!RxExits
    <3> QED BY <2>11, <3>1, <3>2, <3>3, <3>4, <3>5 DEF Esp!ReceiveTask
  <2>12. CASE UNCHANGED Esp!vars
    BY <2>12 DEF Esp!vars
  <2> QED BY <2>1, <2>2, <2>3, <2>4, <2>5, <2>6, <2>7, <2>8, <2>9, <2>10, <2>11, <2>12 DEF
             Esp!Next
<1>3. EspInv => GroupOutlivesTask
  BY DEF EspInv, GroupOutlivesTask, Esp!GroupOutlivesTask, EspWaited
<1> QED BY <1>1, <1>2, <1>3, PTL DEF Esp!Spec

-----------------------------------------------------------------------------
(* The upgrade: otaupgrade.cpp *)

OtaFlags == {TRUE, FALSE}
Contexts == [exists : OtaFlags, http_id : 0 .. 1, total_received : Nat, content_length : {0, ImageSize}, open : OtaFlags]

\* The header has been handled and no other one can come before the next request.
Headed == http \notin {"asked", "created", "requested"} /\ callback.what # "header"

OtaType == ctx \in Contexts /\ stated \in {0, ImageSize} /\ packet_no \in 0 .. ImageSize

\* What the partition holds, of what has come
OtaHeld ==
    ctx.open => /\ http # "asked"
                /\ written \in SUBSET (1 .. packet_no) /\ ctx.total_received = Cardinality(written)
                /\ callback.what = "content" => packet_no \in 1 .. ImageSize /\ packet_no \notin written

\* The steps of the task, and what may still come
Turns ==
    /\ callback = Upgrade!NoUrc \/ callback.what # "none"
    /\ otaAt = "create" =>
          /\ ~ctx.open /\ ctx.total_received = 0
          /\ \/ http = "asked" /\ callback = Upgrade!NoUrc /\ otaBits = {}
             \/ http = "created" /\ packet_no = 0 /\ callback.what \in {"none", "create"} /\ "HEADER" \notin otaBits
    /\ otaAt = "request" => http = "created" /\ callback.what \in {"none", "create"} /\ "HEADER" \notin otaBits
    /\ otaAt = "header" => \/ http \in {"created", "requested"} /\ "HEADER" \notin otaBits /\ callback.what # "header"
                           \/ http \in {"answered", "ended"} /\ ("HEADER" \in otaBits => callback.what # "header")
    /\ otaAt \in {"download", "check", "end", "booted"} => Headed
    /\ otaAt \in {"request", "header", "download", "check", "end"} => ctx.open

\* The size was compared, and there is nothing more to come that would change it.
Compared == otaAt = "end" /\ ctx.content_length > 0 => ctx.total_received = ctx.content_length

\* The handle is given back: what comes now is not written.
Booted == otaAt = "booted" => ~ctx.open /\ (ctx.content_length > 0 => written = 1 .. ImageSize)

OtaInv == OtaType /\ OtaHeld /\ Turns /\ Compared /\ Booted


LEMMA ContextFields ==
    ASSUME ImageSize \in Nat
    PROVE  /\ Upgrade!NoContext \in Contexts /\ ~Upgrade!NoContext.open /\ Upgrade!NoContext.total_received = 0 /\ Upgrade!NoContext.content_length = 0
           /\ Upgrade!NewContext \in Contexts /\ ~Upgrade!NewContext.open /\ Upgrade!NewContext.total_received = 0 /\ Upgrade!NewContext.content_length = 0
  <1>1. Upgrade!NoContext \in Contexts /\ ~Upgrade!NoContext.open /\ Upgrade!NoContext.total_received = 0 /\ Upgrade!NoContext.content_length = 0
    BY DEF Upgrade!NoContext, Contexts, OtaFlags
  <1>2. \A c \in Contexts : \A d : d = [c EXCEPT !.exists = TRUE] =>
            d \in Contexts /\ d.open = c.open /\ d.total_received = c.total_received /\ d.content_length = c.content_length
    BY DEF Contexts, OtaFlags
  <1>3. /\ Upgrade!NewContext \in Contexts /\ Upgrade!NewContext.open = Upgrade!NoContext.open
        /\ Upgrade!NewContext.total_received = Upgrade!NoContext.total_received /\ Upgrade!NewContext.content_length = Upgrade!NoContext.content_length
    BY <1>1, <1>2, Zenon DEF Upgrade!NewContext
  <1> QED BY <1>1, <1>3

\* What each URC does to the context
LEMMA ContextSteps ==
    ASSUME NEW c \in Contexts, NEW d
    PROVE  /\ d = [c EXCEPT !.open = TRUE] =>
                d \in Contexts /\ d.open /\ d.total_received = c.total_received /\ d.content_length = c.content_length
           /\ d = [c EXCEPT !.open = FALSE] => d \in Contexts /\ ~d.open /\ d.content_length = c.content_length
           /\ d = [c EXCEPT !.http_id = 1] =>
                d \in Contexts /\ d.open = c.open /\ d.total_received = c.total_received /\ d.content_length = c.content_length
           /\ stated \in {0, ImageSize} /\ d = [c EXCEPT !.content_length = stated] =>
                d \in Contexts /\ d.open = c.open /\ d.total_received = c.total_received /\ d.content_length = stated
           /\ d = [c EXCEPT !.total_received = @ + 1] =>
                d \in Contexts /\ d.open = c.open /\ d.total_received = c.total_received + 1 /\ d.content_length = c.content_length
           /\ c.total_received \in Nat /\ c.content_length \in {0, ImageSize}
  <1>1. TRUE \in OtaFlags /\ FALSE \in OtaFlags
    BY DEF OtaFlags
  <1>2. d = [c EXCEPT !.open = TRUE] =>
           d \in Contexts /\ d.open /\ d.total_received = c.total_received /\ d.content_length = c.content_length
    BY <1>1 DEF Contexts
  <1>3. d = [c EXCEPT !.http_id = 1] =>
           d \in Contexts /\ d.open = c.open /\ d.total_received = c.total_received /\ d.content_length = c.content_length
    BY DEF Contexts
  <1>4. stated \in {0, ImageSize} /\ d = [c EXCEPT !.content_length = stated] =>
           d \in Contexts /\ d.open = c.open /\ d.total_received = c.total_received /\ d.content_length = stated
    BY DEF Contexts
  <1>5. d = [c EXCEPT !.total_received = @ + 1] =>
           d \in Contexts /\ d.open = c.open /\ d.total_received = c.total_received + 1 /\ d.content_length = c.content_length
    BY DEF Contexts
  <1>6. c.total_received \in Nat /\ c.content_length \in {0, ImageSize}
    BY DEF Contexts
  <1>7. d = [c EXCEPT !.open = FALSE] => d \in Contexts /\ ~d.open /\ d.content_length = c.content_length
    BY <1>1 DEF Contexts
  <1> QED BY <1>2, <1>3, <1>4, <1>5, <1>6, <1>7

\* As many packets as the image has, and none but its own: all of them.
LEMMA AllWritten ==
    ASSUME ImageSize \in Nat, packet_no \in 0 .. ImageSize, written \in SUBSET (1 .. packet_no), Cardinality(written) = ImageSize
    PROVE  written = 1 .. ImageSize
  <1>1. written \in SUBSET (1 .. ImageSize)
    BY SMT
  <1>2. IsFiniteSet(1 .. ImageSize) /\ Cardinality(1 .. ImageSize) = ImageSize
    BY FS_Interval
  <1> QED BY <1>1, <1>2, FS_Subset

LEMMA OtaInitInv == ASSUME ImageSize \in Nat, Upgrade!Init PROVE OtaInv
  BY ContextFields DEF Upgrade!Init, OtaInv, OtaType, OtaHeld, Turns, Compared, Booted, Booted,
     Upgrade!NoUrc

\* A packet more in the partition, which was not there
LEMMA OneMore ==
    ASSUME ImageSize \in Nat, packet_no \in 1 .. ImageSize, written \in SUBSET (1 .. packet_no), packet_no \notin written
    PROVE  /\ Cardinality(written \cup {packet_no}) = Cardinality(written) + 1
           /\ Cardinality(written) \in Nat /\ Cardinality(written) < ImageSize
  <1>1. IsFiniteSet(1 .. ImageSize) /\ Cardinality(1 .. ImageSize) = ImageSize
    BY FS_Interval
  <1>2. written \in SUBSET (1 .. ImageSize)
    BY SMT
  <1>3. IsFiniteSet(written) /\ Cardinality(written) <= ImageSize /\ (Cardinality(written) = ImageSize => written = 1 .. ImageSize)
    BY <1>1, <1>2, FS_Subset
  <1>4. Cardinality(written) \in Nat
    BY <1>3, FS_CardinalityType
  <1>5. Cardinality(written \cup {packet_no}) = Cardinality(written) + 1
    BY <1>3, FS_AddElement
  <1> QED BY <1>3, <1>4, <1>5

LEMMA OtaNextInv ==
    ASSUME ImageSize \in Nat, OtaInv, [Upgrade!Next]_(Upgrade!vars)
    PROVE  OtaInv'
  <1> USE DEF OtaInv, OtaType
  <1>1. ctx \in Contexts /\ Upgrade!NoContext \in Contexts /\ Upgrade!NewContext \in Contexts /\ ctx.total_received \in Nat
    BY ContextFields, ContextSteps
  <1>2. CASE Upgrade!CheckFlag \/ Upgrade!ota_start_upgrade \/ UNCHANGED Upgrade!vars
    BY <1>2 DEF Upgrade!CheckFlag, Upgrade!ota_start_upgrade, Upgrade!vars, Upgrade!task, Upgrade!modem,
       Upgrade!flash, Upgrade!start, OtaHeld, Turns, Compared, Booted, Headed
  <1>3. CASE Upgrade!GiveUpEarly
    BY <1>3 DEF Upgrade!GiveUpEarly, Upgrade!Goto, Upgrade!modem, Upgrade!flash, OtaHeld,
       Turns, Compared, Booted, Headed
  <1>4. CASE Upgrade!CreateHttp
    <2>1. /\ ctx' = Upgrade!NewContext /\ otaAt = "start" /\ callback' = Upgrade!NoUrc /\ otaBits' = {}
          /\ UNCHANGED <<packet_no, stated, written, boot>>
          /\ \/ otaAt' = "create" /\ http' = "asked"
             \/ otaAt' = "cleanup" /\ http' = http
      BY <1>4 DEF Upgrade!CreateHttp, Upgrade!Step, Upgrade!MutexFree, Upgrade!Goto,
         Upgrade!flash
    <2>2. OtaType' /\ OtaHeld' /\ Compared' /\ Booted'
      BY <1>1, <2>1, ContextFields DEF OtaHeld, Compared, Booted
    <2>3. Turns'
      BY <2>1, ContextFields DEF Turns, Headed, Upgrade!NoUrc
    <2> QED BY <2>2, <2>3
  <1>5. CASE Upgrade!HttpCreated
    <2>1. otaAt = "create" /\ otaBits' = otaBits \ {"CREATED"} /\ UNCHANGED <<registered, callback, http, packet_no, stated, boot>>
      BY <1>5 DEF Upgrade!HttpCreated, Upgrade!Wait, Upgrade!Step, Upgrade!modem
    <2>2. CASE otaAt' = "request"
      <3>1. "CREATED" \in otaBits /\ ctx' = [ctx EXCEPT !.open = TRUE] /\ written' = {}
        BY <1>5, <2>2 DEF Upgrade!HttpCreated, Upgrade!Goto
      <3>2. ctx' \in Contexts /\ ctx'.open /\ ctx'.total_received = 0
        BY <1>1, <2>1, <3>1, ContextSteps DEF Turns, OtaHeld
      <3>3. http = "created" /\ packet_no = 0 /\ callback.what \in {"none", "create"} /\ "HEADER" \notin otaBits
        BY <2>1, <3>1 DEF Turns
      <3>4. written' \in SUBSET (1 .. packet_no') /\ Cardinality(written') = 0
        BY <3>1, FS_EmptySet
      <3>5. OtaType' /\ OtaHeld'
        BY <2>1, <3>2, <3>3, <3>4 DEF OtaHeld
      <3> QED BY <2>1, <2>2, <3>2, <3>3, <3>5 DEF Turns, Compared, Booted
    <2>3. CASE otaAt' = "cleanup"
      <3>1. UNCHANGED <<ctx, written>>
        BY <1>5, <2>1, <2>3 DEF Upgrade!HttpCreated, Upgrade!Goto, Turns
      <3> QED BY <2>1, <2>3, <3>1 DEF OtaHeld, Turns, Compared, Booted
    <2> QED BY <1>5, <2>2, <2>3 DEF Upgrade!HttpCreated, Upgrade!Goto
  <1>6. CASE Upgrade!Request \/ Upgrade!HeaderWaited \/ Upgrade!DownloadWaited
    <2>1. /\ UNCHANGED <<ctx, packet_no, stated, written, boot, callback>> /\ otaAt \in {"request", "header", "download"}
          /\ otaAt' \in {"header", "download", "check", "cleanup"}
      BY <1>6 DEF Upgrade!Request, Upgrade!HeaderWaited, Upgrade!DownloadWaited,
         Upgrade!Wait, Upgrade!Step, Upgrade!Goto, Upgrade!kept, Upgrade!modem,
         Upgrade!flash
    <2>2. OtaType' /\ OtaHeld' /\ Compared' /\ Booted'
      <3>1. http' # "asked" \/ ~ctx.open
        BY <1>6 DEF Upgrade!Request, Upgrade!HeaderWaited, Upgrade!DownloadWaited,
           Upgrade!Wait, Upgrade!Step, Upgrade!Goto, Upgrade!kept, Upgrade!modem,
           Upgrade!flash, Turns, OtaHeld
      <3> QED BY <2>1, <3>1 DEF OtaHeld, Turns, Compared, Booted
    <2>3. Turns'
      <3>1. CASE Upgrade!Request
        BY <2>1, <3>1 DEF Upgrade!Request, Upgrade!Step, Upgrade!Goto, Upgrade!kept, Turns
      <3>2. CASE Upgrade!HeaderWaited \/ Upgrade!DownloadWaited
        BY <2>1, <3>2 DEF Upgrade!HeaderWaited, Upgrade!DownloadWaited, Upgrade!Wait,
           Upgrade!Step, Upgrade!Goto, Upgrade!kept, Upgrade!modem, Turns, Headed
      <3> QED BY <1>6, <3>1, <3>2
    <2> QED BY <2>2, <2>3
  <1>7. CASE Upgrade!CheckSize \/ Upgrade!EndAndBoot
    <2>1. UNCHANGED <<otaBits, packet_no, stated, written, callback, http>>
      BY <1>7 DEF Upgrade!CheckSize, Upgrade!EndAndBoot, Upgrade!Step, Upgrade!Goto,
         Upgrade!kept, Upgrade!modem, Upgrade!flash
    <2>3. CASE Upgrade!CheckSize
      <3>1. /\ ctx' = ctx /\ otaAt' \in {"end", "cleanup"} /\ otaAt = "check"
            /\ otaAt' = "end" /\ ctx.content_length > 0 => ctx.total_received = ctx.content_length
        BY <2>1, <2>3 DEF Upgrade!CheckSize, Upgrade!Step, Upgrade!Goto, Upgrade!kept,
           Upgrade!flash, Upgrade!SizeMatches, Turns
      <3> QED BY <2>1, <3>1 DEF OtaHeld, Turns, Compared, Booted, Headed
    <2>4. CASE Upgrade!EndAndBoot
      <3>1. otaAt = "end" /\ otaAt' \in {"booted", "cleanup"} /\ ctx' = [ctx EXCEPT !.open = FALSE]
        BY <2>4 DEF Upgrade!EndAndBoot, Upgrade!Goto
      <3>2. ctx' \in Contexts /\ ~ctx'.open /\ ctx'.content_length = ctx.content_length
        BY <1>1, <3>1, ContextSteps
      <3>3. ctx.content_length > 0 => written = 1 .. ImageSize
        <4>1. ASSUME ctx.content_length > 0 PROVE ctx.content_length = ImageSize /\ ctx.total_received = ImageSize
          BY <1>1, <3>1, <4>1, ContextSteps DEF Compared
        <4>2. ctx.open /\ packet_no \in 0 .. ImageSize
          BY <3>1 DEF Turns
        <4>3. written \in SUBSET (1 .. packet_no) /\ ctx.total_received = Cardinality(written)
          BY <4>2 DEF OtaHeld
        <4> QED BY <4>1, <4>2, <4>3, AllWritten
      <3> QED BY <2>1, <3>1, <3>2, <3>3 DEF OtaHeld, Turns, Compared, Booted, Headed
    <2> QED BY <1>7, <2>3, <2>4
  <1>8. CASE Upgrade!DeleteHttp \/ Upgrade!Unregister
    <2>1. /\ UNCHANGED <<ctx, otaBits, packet_no, stated, written, boot, callback>>
          /\ otaAt \in {"cleanup", "booted", "unregister"} /\ otaAt' \in {"unregister", "delete"} /\ http' \in {http, "none"}
          /\ (otaAt = "cleanup" => otaAt' = "unregister")
      BY <1>8 DEF Upgrade!DeleteHttp, Upgrade!Unregister, Upgrade!Step, Upgrade!Goto,
         Upgrade!kept, Upgrade!modem, Upgrade!flash
    <2>2. OtaType' /\ OtaHeld' /\ Compared' /\ Booted'
      BY <2>1 DEF OtaHeld, Compared, Booted
    <2>3. Turns'
      BY <2>1 DEF Turns, Headed
    <2> QED BY <2>2, <2>3
  <1>9. CASE Upgrade!DeleteContext \/ Upgrade!Restart
    <2>1. /\ ctx' = Upgrade!NoContext /\ otaAt' = "none" /\ UNCHANGED <<packet_no, stated, http>>
          /\ callback' \in {callback, Upgrade!NoUrc}
      BY <1>9 DEF Upgrade!DeleteContext, Upgrade!Restart, Upgrade!Goto, Upgrade!modem, Upgrade!flash
    <2>2. OtaType' /\ OtaHeld' /\ Compared' /\ Booted'
      BY <1>1, <2>1, ContextFields DEF OtaHeld, Compared, Booted
    <2>3. Turns'
      BY <2>1, ContextFields DEF Turns, Headed
    <2> QED BY <2>2, <2>3
  <1>10. CASE Upgrade!Server
    <2>1. UNCHANGED <<otaAt, ctx, otaBits, written>> /\ callback = Upgrade!NoUrc
      BY <1>10 DEF Upgrade!Server, Upgrade!Created, Upgrade!Header, Upgrade!Answers,
         Upgrade!Packet, Upgrade!PacketLost, Upgrade!EndOfContent, Upgrade!HttpFails,
         Upgrade!Comes, Upgrade!task, Upgrade!flash, Upgrade!MutexFree
    <2>2. CASE Upgrade!Created
      <3>1. /\ http = "asked" /\ http' = "created" /\ packet_no' = 0 /\ stated' \in {0, ImageSize}
            /\ callback' \in {Upgrade!Urc("create", FALSE), Upgrade!NoUrc}
        BY <2>2 DEF Upgrade!Created, Upgrade!Comes
      <3>2. ~ctx.open /\ otaAt \notin {"request", "header", "download", "check", "end", "booted"}
        BY <3>1 DEF OtaHeld, Turns, Headed
      <3>3. callback'.what \in {"none", "create"} /\ (callback' = Upgrade!NoUrc \/ callback'.what # "none")
        BY <3>1 DEF Upgrade!Urc, Upgrade!NoUrc
      <3>4. OtaType' /\ OtaHeld' /\ Compared' /\ Booted'
        BY <2>1, <3>1, <3>2 DEF OtaHeld, Compared, Booted
      <3> QED BY <2>1, <3>1, <3>2, <3>3, <3>4 DEF Turns, Headed
    <2>3. CASE Upgrade!Header \/ Upgrade!EndOfContent \/ Upgrade!HttpFails
      <3>1. /\ UNCHANGED <<packet_no, stated>>
            /\ \/ http = "requested" /\ http' = "answered"
                    /\ callback' \in {Upgrade!Urc("header", FALSE), Upgrade!Urc("bad_status", FALSE), Upgrade!NoUrc}
               \/ http \in {"requested", "answered"} /\ http' = "ended" /\ callback' \in {Upgrade!Urc("end", TRUE), Upgrade!Urc("err", FALSE), Upgrade!NoUrc}
        BY <2>3 DEF Upgrade!Header, Upgrade!EndOfContent, Upgrade!HttpFails,
           Upgrade!Answers, Upgrade!Comes
      <3>2. /\ callback' = Upgrade!NoUrc \/ callback'.what # "none"
            /\ callback'.what # "content"
            /\ callback'.what = "header" => http = "requested" /\ http' = "answered"
        BY <3>1 DEF Upgrade!Urc, Upgrade!NoUrc
      <3>3. OtaType' /\ OtaHeld' /\ Compared' /\ Booted'
        BY <2>1, <3>1, <3>2 DEF OtaHeld, Compared, Booted
      <3> QED BY <2>1, <3>1, <3>2, <3>3 DEF Turns, Headed
    <2>4. CASE Upgrade!Packet \/ Upgrade!PacketLost
      <3>1. /\ UNCHANGED <<http, stated>> /\ http = "answered" /\ packet_no < ImageSize /\ packet_no' = packet_no + 1
            /\ callback' = Upgrade!NoUrc \/ callback'.what = "content"
        BY <2>1, <2>4 DEF Upgrade!Packet, Upgrade!PacketLost, Upgrade!Comes, Upgrade!Urc
      <3>2. packet_no' \in 1 .. ImageSize /\ packet_no' \notin 1 .. packet_no /\ 1 .. packet_no \subseteq 1 .. packet_no'
        BY <3>1
      <3>3. OtaType' /\ OtaHeld' /\ Compared' /\ Booted'
        BY <2>1, <3>1, <3>2 DEF OtaHeld, Compared, Booted
      <3>4. Upgrade!NoUrc.what = "none"
        BY DEF Upgrade!NoUrc
      <3> QED BY <2>1, <3>1, <3>3, <3>4 DEF Turns, Headed
    <2> QED BY <1>10, <2>2, <2>3, <2>4 DEF Upgrade!Server
  <1>11. CASE Upgrade!http_urc_callback
    <2>1. UNCHANGED <<otaAt, http, packet_no, stated>> /\ callback' = Upgrade!NoUrc
      BY <1>11 DEF Upgrade!http_urc_callback, Upgrade!UrcCreate, Upgrade!UrcHeader,
         Upgrade!UrcError, Upgrade!UrcContent, Upgrade!UrcEnd, Upgrade!Handles,
         Upgrade!task, Upgrade!modem
    <2>2. Upgrade!NoUrc.what = "none"
      BY DEF Upgrade!NoUrc
    <2>3. CASE Upgrade!UrcCreate
      <3>1. /\ callback.what = "create" /\ otaBits' = otaBits \cup {"CREATED"} /\ written' = written
            /\ ctx' \in Contexts /\ ctx'.open = ctx.open /\ ctx'.total_received = ctx.total_received
            /\ ctx'.content_length = ctx.content_length
        BY <1>1, <2>3, ContextSteps DEF Upgrade!UrcCreate, Upgrade!Handles, Upgrade!Set
      <3>2. OtaType' /\ OtaHeld' /\ Compared' /\ Booted'
        BY <2>1, <2>2, <3>1 DEF OtaHeld, Compared, Booted
      <3>3. Turns'
        BY <2>1, <2>2, <3>1 DEF Turns, Headed
      <3> QED BY <3>2, <3>3
    <2>4. CASE Upgrade!UrcHeader
      <3>1. /\ callback.what = "header" /\ otaBits' = otaBits \cup {"HEADER"} /\ written' = written
            /\ ctx' \in Contexts /\ ctx'.open = ctx.open /\ ctx'.total_received = ctx.total_received
        BY <1>1, <2>4, ContextSteps DEF Upgrade!UrcHeader, Upgrade!Handles, Upgrade!Set
      <3>2. otaAt \notin {"create", "request", "download", "check", "end", "booted"} /\ callback # Upgrade!NoUrc
        BY <2>2, <3>1 DEF Turns, Headed
      <3>3. OtaType' /\ OtaHeld' /\ Compared' /\ Booted'
        BY <2>1, <2>2, <3>1, <3>2 DEF OtaHeld, Compared, Booted
      <3>4. Turns'
        BY <2>1, <2>2, <3>1, <3>2 DEF Turns, Headed
      <3> QED BY <3>3, <3>4
    <2>5. CASE Upgrade!UrcError \/ Upgrade!UrcEnd
      <3>1. UNCHANGED <<ctx, written>> /\ callback.what \in {"bad_status", "err", "end"} /\ otaBits' \subseteq otaBits \cup {"ERROR", "COMPLETE"}
        BY <2>5 DEF Upgrade!UrcError, Upgrade!UrcEnd, Upgrade!Handles, Upgrade!Set
      <3>2. OtaType' /\ OtaHeld' /\ Compared' /\ Booted'
        BY <2>1, <2>2, <3>1 DEF OtaHeld, Compared, Booted
      <3>3. Turns'
        BY <2>1, <2>2, <3>1 DEF Turns, Headed
      <3> QED BY <3>2, <3>3
    <2>6. CASE Upgrade!UrcContent
      <3>1. callback.what = "content" /\ otaBits' \subseteq otaBits \cup {"ERROR", "COMPLETE"}
        BY <2>6 DEF Upgrade!UrcContent, Upgrade!Handles, Upgrade!Set
      <3>2. CASE UNCHANGED <<ctx, written>>
        <4>1. OtaType' /\ OtaHeld' /\ Compared' /\ Booted'
          BY <2>1, <2>2, <3>1, <3>2 DEF OtaHeld, Compared, Booted
        <4>2. Turns'
          BY <2>1, <2>2, <3>1, <3>2 DEF Turns, Headed
        <4> QED BY <4>1, <4>2
      <3>3. CASE ctx.open /\ ctx' = [ctx EXCEPT !.total_received = @ + 1] /\ written' = written \cup {packet_no}
        <4>1. /\ ctx' \in Contexts /\ ctx'.open /\ ctx'.total_received = ctx.total_received + 1
              /\ ctx'.content_length = ctx.content_length /\ ctx.content_length \in {0, ImageSize}
          BY <1>1, <3>3, ContextSteps
        <4>2. /\ packet_no \in 1 .. ImageSize /\ packet_no \notin written /\ written \in SUBSET (1 .. packet_no)
              /\ ctx.total_received = Cardinality(written) /\ http # "asked"
          BY <3>1, <3>3 DEF OtaHeld
        <4>3. Cardinality(written') = Cardinality(written) + 1 /\ Cardinality(written) < ImageSize
          BY <3>3, <4>2, OneMore
        <4>4. OtaType' /\ OtaHeld'
          BY <2>1, <2>2, <3>3, <4>1, <4>2, <4>3 DEF OtaHeld
        <4>5. ~(otaAt = "end" /\ ctx.content_length > 0) /\ otaAt # "booted"
          BY <1>1, <3>3, <4>1, <4>2, <4>3 DEF Compared, Booted
        <4>6. Compared' /\ Booted'
          BY <2>1, <4>1, <4>5 DEF Compared, Booted
        <4>7. Turns'
          BY <2>1, <2>2, <3>1, <3>3, <4>1 DEF Turns, Headed
        <4> QED BY <4>4, <4>6, <4>7
      <3> QED BY <2>6, <3>2, <3>3 DEF Upgrade!UrcContent
    <2> QED BY <1>11, <2>3, <2>4, <2>5, <2>6 DEF Upgrade!http_urc_callback
  <1> QED BY <1>2, <1>3, <1>4, <1>5, <1>6, <1>7, <1>8, <1>9, <1>10, <1>11 DEF
             Upgrade!Next, Upgrade!ota_task

\* BootsWhole of MCModem: the partition is set to boot only with an image of which
\* every packet was written, when its length is known: the packets received are counted
\* once each, those not written are not counted, and the partition is erased with the
\* count at 0, in every upgrade, those that run before a restart included.
THEOREM OtaBootsWhole ==
    ASSUME ImageSize \in Nat
    PROVE  Upgrade!Spec => []BootsWhole
  <1>1. Upgrade!Init => OtaInv
    BY OtaInitInv
  <1>2. OtaInv /\ [Upgrade!Next]_(Upgrade!vars) => OtaInv'
    BY OtaNextInv
  <1>3. OtaInv => BootsWhole
    BY DEF OtaInv, Booted, BootsWhole, Upgrade!BootsWhole
  <1> QED BY <1>1, <1>2, <1>3, PTL DEF Upgrade!Spec

-----------------------------------------------------------------------------
(* The three MQTT classes together *)

\* ConnectIsFresh of MCModem: Connect of each MQTT class returns TRUE only for a
\* connection made since the call; an answer to an earlier attempt does not count.
THEOREM MqttClientsConnectFresh ==
    Mqtt!Spec /\ Qmqtt!Spec /\ EspM!Spec => ConnectIsFresh
  BY MqttConnectIsFresh, QmqttConnectIsFresh, EspMqttConnectIsFresh DEF ConnectIsFresh

-----------------------------------------------------------------------------
(* The run *)

\* In a behaviour of the run one part moves and the others keep still, so that each part
\* behaves as its own specification says.
LEMMA PartsOfTheRun ==
    MCSpec => /\ At!Spec
              /\ Network!Spec
              /\ Tcp!Spec
              /\ Udp!Spec
              /\ Mqtt!Spec
              /\ Mhttp!Spec
              /\ Qsocket!Spec
              /\ Qmqtt!Spec
              /\ Esp!Spec
              /\ EspM!Spec
              /\ Http!Spec
              /\ Ws!Spec
              /\ Upgrade!Spec
  <1>1. MCInit => /\ At!Init
                  /\ Network!Init
                  /\ Tcp!Init
                  /\ Udp!Init
                  /\ Mqtt!Init
                  /\ Mhttp!Init
                  /\ Qsocket!Init
                  /\ Qmqtt!Init
                  /\ Esp!Init
                  /\ EspM!Init
                  /\ Http!Init
                  /\ Ws!Init
                  /\ Upgrade!Init
    BY DEF MCInit
  <1>2. [MCNext]_mcvars => [At!Next]_(At!vars)
    BY DEF MCNext, mcvars, atVars, At!vars, At!host, At!modem
  <1>3. [MCNext]_mcvars => [Network!Next]_(Network!vars)
    BY DEF MCNext, mcvars, networkVars, Network!vars, Network!call
  <1>4. [MCNext]_mcvars => [Tcp!Next]_(Tcp!vars)
    BY DEF MCNext, mcvars, tcpVars, Tcp!vars, Tcp!history
  <1>5. [MCNext]_mcvars => [Udp!Next]_(Udp!vars)
    BY DEF MCNext, mcvars, udpVars, Udp!vars, Udp!map, Udp!caller, Udp!modem
  <1>6. [MCNext]_mcvars => [Mqtt!Next]_(Mqtt!vars)
    BY DEF MCNext, mcvars, mqttVars, Mqtt!vars, Mqtt!caller, Mqtt!modem
  <1>7. [MCNext]_mcvars => [Mhttp!Next]_(Mhttp!vars)
    BY DEF MCNext, mcvars, mhttpVars, Mhttp!vars, Mhttp!fields, Mhttp!content, Mhttp!history
  <1>8. [MCNext]_mcvars => [Qsocket!Next]_(Qsocket!vars)
    BY DEF MCNext, mcvars, qsocketVars, Qsocket!vars, Qsocket!fields, Qsocket!history
  <1>9. [MCNext]_mcvars => [Qmqtt!Next]_(Qmqtt!vars)
    BY DEF MCNext, mcvars, qmqttVars, Qmqtt!vars
  <1>10. [MCNext]_mcvars => [Esp!Next]_(Esp!vars)
    BY DEF MCNext, mcvars, espVars, Esp!vars
  <1>11. [MCNext]_mcvars => [EspM!Next]_(EspM!vars)
    BY DEF MCNext, mcvars, espMVars, EspM!vars
  <1>12. [MCNext]_mcvars => [Upgrade!Next]_(Upgrade!vars)
    BY DEF MCNext, mcvars, upgradeVars, Upgrade!vars, Upgrade!start, Upgrade!task, Upgrade!modem,
           Upgrade!flash
  <1>13. [MCNext]_mcvars => [Ws!Next]_(Ws!vars)
    BY DEF MCNext, mcvars, wsVars, Ws!vars, Ws!parser, Ws!server
  <1>14. [MCNext]_mcvars => [Http!Next]_(Http!vars)
    BY DEF MCNext, mcvars, httpVars, Http!vars, Http!caller, Http!stream
  <1> QED BY <1>1, <1>2, <1>3, <1>4, <1>5, <1>6, <1>7, <1>8, <1>9, <1>10, <1>11, <1>12, <1>13, <1>14, PTL
             DEF MCSpec, At!Spec, Network!Spec, Tcp!Spec, Udp!Spec, Mqtt!Spec, Mhttp!Spec,
             Qsocket!Spec, Qmqtt!Spec, Esp!Spec, EspM!Spec, Http!Spec, Ws!Spec, Upgrade!Spec

\* The safety properties of all parts hold together in what the run checks, for every
\* value of the bounds and whatever part moves.
THEOREM ModemRunCorrect ==
    ASSUME None \notin Tasks, MAX_CONN \in Nat \ {0}, BodyLines \in Nat, ImageSize \in Nat,
           BodyLength \in Nat \ {0}
    PROVE  MCSpec => /\ OkIsOwn /\ ReadyIsFresh /\ ConnectIsFresh
                     /\ [](/\ ConfirmedOnce /\ AckedOnce /\ HandedInOrder /\ BodyWithoutGap
                           /\ GroupOutlivesTask /\ BodyInOrder /\ MessagesWhole /\ BootsWhole)
  <1> QED BY PartsOfTheRun, AtOkIsOwn, NetworkReadyIsFresh, MqttClientsConnectFresh, TcpConfirmedOnce,
             QsocketAckedOnce, UdpHandedInOrder, HttpBodyWithoutGap, GroupOutlives, HttpBodyInOrder,
             WsMessagesWhole, OtaBootsWhole, PTL
=============================================================================
