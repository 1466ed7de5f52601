------------------------------- MODULE AtUart -------------------------------
(***************************************************************************)
(* The AT engine of components/esp-ml307, src/at_uart.cc: tasks that send  *)
(* commands one at a time (command_mutex_), the receive task that parses   *)
(* the modem's lines and runs the URC callbacks with mutex_ held, and the  *)
(* event group between them.                                               *)
(*                                                                         *)
(* The modem is external: it answers commands in the order they came, late *)
(* or not at all, and reports events of its own (URCs).  A command that    *)
(* carries data is answered by the prompt ">" first.  A line is known by   *)
(* its kind and by the command it answers; what it says is left out.       *)
(***************************************************************************)
EXTENDS Naturals, Sequences, FiniteSets

CONSTANTS Tasks,      \* tasks that send commands
          None,
          MaxCommands,  \* bound: commands of a behaviour
          MaxUrcs       \* bound: URCs of a behaviour

VARIABLES
    at,        \* where each task is in SendCommandWithData
    cur,       \* the command it is about: [id, data]
    ok,        \* what its last command returned
    command_mutex, mutex,   \* the holder of command_mutex_ and of mutex_
    bits,      \* AT_EVENT_COMMAND_DONE and AT_EVENT_COMMAND_ERROR
    wait_for_response,
    response,  \* the command whose text response_ holds, 0 when it is empty
    prompt,    \* a ">" that nobody waits for is left in rx_buffer_
    rx,        \* the receive task
    owed,      \* the modem: commands it has still to answer
    expects,   \* the modem: the command whose data it expects, or 0
    wire,      \* lines on their way to the receive task
    issued, urcs,   \* counters for the bounds
    doneBy, clean   \* history: the commands whose answers set DONE; was nothing
                    \* owed when the task's command was sent

modem == <<owed, expects>>
host  == <<at, cur, ok, command_mutex, wait_for_response, issued, clean>>
vars  == <<host, mutex, bits, response, prompt, rx, modem, wire, urcs, doneBy>>

rxTask == "rx"
NoCommand == [id |-> 0, data |-> FALSE]

Init ==
    /\ at = [t \in Tasks |-> "idle"] /\ cur = [t \in Tasks |-> NoCommand]
    /\ ok = [t \in Tasks |-> FALSE] /\ clean = [t \in Tasks |-> FALSE]
    /\ command_mutex = None /\ mutex = None
    /\ bits = {} /\ wait_for_response = FALSE /\ response = 0
    /\ prompt = FALSE /\ rx = "parse"
    /\ owed = <<>> /\ expects = 0 /\ wire = <<>>
    /\ issued = 0 /\ urcs = 0 /\ doneBy = {}

Goto(t, p) == at' = [at EXCEPT ![t] = p]

-----------------------------------------------------------------------------
(* SendCommandWithData *)

\* A caller comes and waits for command_mutex_.
Call(t) ==
    /\ at[t] = "idle" /\ issued < MaxCommands
    /\ Goto(t, "lock")
    /\ issued' = issued + 1
    /\ \E d \in BOOLEAN : cur' = [cur EXCEPT ![t] = [id |-> issued + 1, data |-> d]]
    /\ UNCHANGED <<ok, command_mutex, wait_for_response, clean, mutex, bits, response,
                   prompt, rx, modem, wire, urcs, doneBy>>

\* Mutant: what an earlier command left is still there.
ClearBitsNot == UNCHANGED <<bits, doneBy>>

ClearBits == bits' = {} /\ doneBy' = {}

Begin(t) ==
    /\ at[t] = "lock" /\ command_mutex = None
    /\ command_mutex' = t
    /\ ClearBits
    /\ wait_for_response' = TRUE
    /\ clean' = [clean EXCEPT ![t] = owed = <<>> /\ expects = 0 /\ ~prompt
                                     /\ \A i \in 1 .. Len(wire) : wire[i].kind = "urc"]
    /\ Goto(t, "clear")
    /\ UNCHANGED <<cur, ok, issued, mutex, response, prompt, rx, modem, wire, urcs>>

\* response_.clear() under mutex_, then SendData
Send(t) ==
    /\ at[t] = "clear" /\ mutex = None
    /\ response' = 0
    /\ owed' = Append(owed, cur[t])
    /\ Goto(t, "wait")
    /\ UNCHANGED <<cur, ok, command_mutex, wait_for_response, issued, clean, mutex, bits, prompt,
                   rx, expects, wire, urcs, doneBy>>

Return(t, result) ==
    /\ Goto(t, "idle") /\ command_mutex' = None
    /\ ok' = [ok EXCEPT ![t] = result]

\* The bits have come, or the time is over: both bits are cleared in one go.
Waited(t) ==
    /\ at[t] = "wait"
    /\ wait_for_response' = FALSE
    /\ bits' = {}
    /\ IF "DONE" \in bits /\ cur[t].data
       THEN Goto(t, "data") /\ UNCHANGED <<ok, command_mutex>>
       ELSE Return(t, "DONE" \in bits)
    /\ UNCHANGED <<cur, issued, clean, mutex, response, prompt, rx, modem, wire, urcs, doneBy>>

SendPayload(t) ==
    /\ at[t] = "data"
    /\ wait_for_response' = TRUE
    /\ owed' = Append(owed, [id |-> cur[t].id, data |-> FALSE])
    /\ doneBy' = {}
    /\ Goto(t, "wait_data")
    /\ UNCHANGED <<cur, ok, command_mutex, issued, clean, mutex, bits, response, prompt, rx,
                   expects, wire, urcs>>

WaitedData(t) ==
    /\ at[t] = "wait_data"
    /\ wait_for_response' = FALSE /\ bits' = {}
    /\ Return(t, "DONE" \in bits)
    /\ UNCHANGED <<cur, issued, clean, mutex, response, prompt, rx, modem, wire, urcs, doneBy>>

SendCommandWithData(t) ==
    Begin(t) \/ Send(t) \/ Waited(t) \/ SendPayload(t) \/ WaitedData(t)

-----------------------------------------------------------------------------
(* The modem: it takes what was sent in order.  When it expects data, whatever *)
(* comes next is that data.                                                    *)

Line(k, id) == [kind |-> k, of |-> id]

ModemAnswers ==
    /\ owed # <<>> /\ owed' = Tail(owed)
    /\ LET c == Head(owed)
       IN  IF expects # 0
           THEN /\ expects' = 0
                /\ \E k \in {"ok", "error"} : wire' = Append(wire, Line(k, expects))
           ELSE \/ /\ c.data /\ expects' = c.id
                   /\ wire' = Append(wire, Line("prompt", c.id))
                \/ /\ ~c.data /\ expects' = 0
                   /\ wire' \in {Append(wire, Line("ok", c.id)),
                                 wire \o <<Line("text", c.id), Line("ok", c.id)>>}
                \/ /\ expects' = 0
                   /\ \E k \in {"error", "cme"} : wire' = Append(wire, Line(k, c.id))
    /\ UNCHANGED <<host, mutex, bits, response, prompt, rx, urcs, doneBy>>

ModemReports ==
    /\ urcs < MaxUrcs /\ urcs' = urcs + 1
    /\ wire' = Append(wire, Line("urc", 0))
    /\ UNCHANGED <<host, mutex, bits, response, prompt, rx, modem, doneBy>>

Modem == ModemAnswers \/ ModemReports

-----------------------------------------------------------------------------
(* ReceiveTask, ParseResponse and HandleUrc *)

Parsing(k) == rx = "parse" /\ wire # <<>> /\ Head(wire).kind \in k
\* A ">" left in the buffer stands before the line and spoils it.
Clear(k) == Parsing(k) /\ ~prompt
Taken == wire' = Tail(wire)
Done(id) == bits' = bits \cup {"DONE"} /\ doneBy' = doneBy \cup {id}

ParsePrompt ==
    /\ Parsing({"prompt"}) /\ Taken
    /\ IF wait_for_response THEN Done(Head(wire).of) /\ UNCHANGED prompt
                            ELSE prompt' = TRUE /\ UNCHANGED <<bits, doneBy>>
    /\ UNCHANGED <<host, mutex, response, rx, modem, urcs>>

\* The old ">" is taken as the answer of the command that waits now.
ParseOldPrompt ==
    /\ rx = "parse" /\ wire # <<>> /\ prompt /\ wait_for_response
    /\ prompt' = FALSE /\ Done(0)
    /\ UNCHANGED <<host, mutex, response, rx, modem, wire, urcs>>

ParseOk ==
    /\ Clear({"ok"}) /\ Taken /\ Done(Head(wire).of)
    /\ UNCHANGED <<host, mutex, response, prompt, rx, modem, urcs>>

\* "ERROR" and "+CME ERROR", which HandleUrc treats alike
ParseError ==
    /\ Clear({"error", "cme"}) /\ Taken
    /\ bits' = bits \cup {"ERROR"}
    /\ UNCHANGED <<host, mutex, response, prompt, rx, modem, urcs, doneBy>>

ParseText ==
    /\ \/ Clear({"text"})
       \/ Parsing({"ok", "error", "cme", "text", "urc"}) /\ prompt /\ ~wait_for_response
    /\ mutex = None
    /\ Taken /\ prompt' = FALSE
    /\ response' = Head(wire).of
    /\ UNCHANGED <<host, mutex, bits, rx, modem, urcs, doneBy>>

\* The callbacks run with mutex_ held.
ParseUrc ==
    /\ Clear({"urc"}) /\ Taken /\ mutex = None
    /\ mutex' = rxTask /\ rx' = "callback"
    /\ UNCHANGED <<host, bits, response, prompt, modem, urcs, doneBy>>

\* Mutant: a callback returns and mutex_ stays taken.
CallbackReturnsNot ==
    /\ rx = "callback" /\ rx' = "parse"
    /\ UNCHANGED <<host, mutex, bits, response, prompt, modem, wire, urcs, doneBy>>

CallbackReturns ==
    /\ rx = "callback" /\ rx' = "parse" /\ mutex' = None
    /\ UNCHANGED <<host, bits, response, prompt, modem, wire, urcs, doneBy>>

\* A callback that sends a command (OnConnected of the MQTT client subscribes, and
\* a FIFO overflow disconnects) needs mutex_, which its own task holds.
CallbackSends ==
    /\ rx = "callback" /\ rx' = "stuck"
    /\ UNCHANGED <<host, mutex, bits, response, prompt, modem, wire, urcs, doneBy>>

ReceiveTask == \/ ParsePrompt \/ ParseOldPrompt \/ ParseOk \/ ParseError \/ ParseText
               \/ ParseUrc \/ CallbackReturns

Sending == \E t \in Tasks : SendCommandWithData(t)
Calling == \E t \in Tasks : Call(t)

Next == Calling \/ Sending \/ Modem \/ ReceiveTask \/ CallbackSends

Spec == Init /\ [][Next]_vars

\* Time passes, the tasks and the receive task run; the modem need not answer.
Fairness == WF_vars(ReceiveTask) /\ \A t \in Tasks : WF_vars(SendCommandWithData(t))
FairSpec == Spec /\ Fairness

-----------------------------------------------------------------------------
(* Properties *)

TypeOK ==
    /\ at \in [Tasks -> {"idle", "lock", "clear", "wait", "data", "wait_data"}]
    /\ command_mutex \in Tasks \cup {None} /\ mutex \in {rxTask, None}
    /\ bits \subseteq {"DONE", "ERROR"} /\ rx \in {"parse", "callback", "stuck"}
    /\ prompt \in BOOLEAN /\ wait_for_response \in BOOLEAN

\* A command sent when nothing of an earlier one was on its way succeeds only when
\* the modem has answered that command: the answers of a command that has timed
\* out do not count for it unless they were still to come when it was sent.
OkIsOwn == [][\A t \in Tasks : at[t] # "idle" /\ at'[t] = "idle" /\ ok'[t] /\ clean[t]
                                  => cur[t].id \in doneBy]_vars

\* SendCommand returns, however late the modem and however many callbacks run, as
\* long as no URC callback sends a command itself.
CommandReturns ==
    \A t \in Tasks : at[t] = "lock" ~> at[t] = "idle" \/ rx = "stuck"
=============================================================================
