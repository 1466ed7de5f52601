------------------------------ MODULE Doorbell ------------------------------
(***************************************************************************)
(* The doorbell application: main/webrtc_mqtt.c (commands, state, the call *)
(* timer) on main/mqtt_signaling.cpp (the pending offer, the messages of   *)
(* the down topic), with the recovery of main/network_4g.cpp.              *)
(*                                                                         *)
(* Tasks share everything without a lock: the console ("con", also the key *)
(* monitor), the task of a leave ("leave"), one task per incoming message  *)
(* ("msg"), pc_task's callbacks ("pc"), the network recovery ("net") and   *)
(* the timer tasks.  pending_sdp is freed in one step and overwritten in   *)
(* the next, whoever does it; in between it dangles for all the others.    *)
(* What esp_webrtc does inside a call is EspWebrtc's subject: here each of *)
(* its functions is one step on the record rtc, and a call that waits for  *)
(* pc_task is enabled when no callback runs.  Of the message tasks at most *)
(* one is in the middle of its handler at a time.                          *)
(***************************************************************************)
EXTENDS Naturals, Sequences, FiniteSets

CONSTANTS Offers,       \* the offers pages may make
          None,
          Timers,       \* identities for timer tasks
          MaxPending,   \* the size of pending_candidates (10 in the code)
          Commands,     \* what the console and the key issue
          PageTypes,    \* the types of message the pages send
          MaxInputs     \* bound: commands, messages and drops of a behaviour

ASSUME DoorbellAssumption == /\ MaxPending \in Nat /\ MaxInputs \in Nat
                             /\ None \notin Offers \cup Timers

VARIABLES
    sg,       \* mqtt_sig_t behind g_mqtt_sig_handle
    rtc,      \* webrtc_t behind webrtc and g_webrtc_handle
    state,    \* door_bell_state
    at, then, \* where each task is, and where it goes after stop_call_timeout
    timer,    \* the timer tasks
    handle,   \* call_timeout_handle
    net,      \* the MQTT connection: is it up, does it listen to the down topic
    inbox,    \* messages whose task has not run yet
    left,     \* how many inputs may still come
    text,     \* the offer the console has copied, the one a message brought
    freed,    \* the offer a task has freed and has not cleared yet
    sent, withdrawn, newest,   \* history: the offers the pages have made, those
                               \* turned down, the last one stored
    answered, taken            \* history: has the callee answered; was a timer
                               \* deleted since the ring

app  == <<state, timer, handle>>
hist == <<sent, withdrawn, newest, answered, taken>>
offer == <<text, freed>>
vars == <<sg, rtc, state, at, then, timer, handle, net, inbox, left, offer, hist>>

Tasks == {"con", "leave", "msg", "pc", "net"}

\* pending_sdp is sdp, of which dangling says that its memory is freed.
NoSignaling == [open |-> FALSE, init |-> FALSE, sdp |-> None, dangling |-> FALSE,
                waiting |-> FALSE, cands |-> <<>>, ice |-> FALSE]
NoText == [con |-> None, msg |-> None]

Init ==
    /\ sg = NoSignaling
    /\ rtc = [open |-> FALSE, pending |-> FALSE, ice |-> FALSE, iceInit |-> FALSE,
              connected |-> FALSE, pc |-> "none", role |-> "none", paused |-> FALSE]
    /\ state = "NONE"
    /\ at = [t \in Tasks |-> "idle"] /\ then = [t \in Tasks |-> "idle"]
    /\ timer = [i \in Timers |-> "none"] /\ handle = None
    /\ net = [up |-> TRUE, listens |-> FALSE]
    /\ inbox = {} /\ left = MaxInputs
    /\ text = NoText /\ freed = [t \in Tasks \cup Timers |-> None]
    /\ sent = {} /\ withdrawn = {} /\ newest = None
    /\ answered = FALSE /\ taken = FALSE

Goto(t, p) == at' = [at EXCEPT ![t] = p]
Idle(t) == at[t] = "idle"
Input == left > 0 /\ left' = left - 1

-----------------------------------------------------------------------------
(* esp_webrtc.c, as the application sees it *)

NewConnection(r) == [r EXCEPT !.pc = "connecting"]
StartPc(r) == [r EXCEPT !.pc = "new", !.paused = FALSE,
                        !.role = IF r.iceInit THEN "controlling" ELSE "controlled"]

Enabled(r) ==
    LET on == [r EXCEPT !.pending = FALSE]
        pc == IF r.pc = "none" THEN StartPc(on) ELSE on
    IN  CASE r.pc = "none" /\ ~r.ice -> on
          [] r.connected /\ ~(r.pc = "none" /\ ~r.ice) ->
                 [NewConnection(pc) EXCEPT !.paused = FALSE]
          [] OTHER -> pc

Disabled(r) == [r EXCEPT !.pending = TRUE, !.pc = "none", !.paused = FALSE]

IceReceived(r, initiator) ==
    LET i == [r EXCEPT !.ice = TRUE, !.iceInit = initiator]
        pc == IF i.pc = "none" THEN StartPc(i) ELSE i
    IN  IF i.pending THEN i ELSE IF i.connected THEN NewConnection(pc) ELSE pc

SignalConnected(r) ==
    LET c == [r EXCEPT !.connected = TRUE]
    IN  IF c.pending \/ c.pc = "none" THEN c ELSE NewConnection(c)

Bye(r) == IF r.pc = "none" THEN r ELSE [r EXCEPT !.pc = "new", !.paused = TRUE]

Closed(r) == [Disabled(r) EXCEPT !.open = FALSE, !.connected = FALSE, !.ice = FALSE]

\* A call that pauses or ends pc_task waits for the callback it is in.
PcTaskFree == at["pc"] = "idle"

-----------------------------------------------------------------------------
(* stop_call_timeout, run by the console, by message tasks and by pc_task.   *)
(* The timer may end, or another task may stop it, between the test and the  *)
(* deletion; vTaskDelete(NULL) then ends the caller.                         *)

StopTimer(t, next) == at' = [at EXCEPT ![t] = "stop"] /\ then' = [then EXCEPT ![t] = next]

StopTest(t) ==
    /\ at[t] = "stop"
    /\ Goto(t, IF handle = None THEN then[t] ELSE "delete")
    /\ UNCHANGED <<sg, rtc, app, then, net, inbox, left, offer, hist>>

StopDelete(t) ==
    /\ at[t] = "delete"
    /\ timer' = IF handle = None THEN timer ELSE [timer EXCEPT ![handle] = "none"]
    /\ Goto(t, IF handle = None THEN IF t = "msg" THEN "idle" ELSE "dead" ELSE "clear")
    /\ taken' = TRUE
    /\ UNCHANGED <<sg, rtc, state, handle, then, net, inbox, left, offer, sent, withdrawn,
                   newest, answered>>

StopClear(t) ==
    /\ at[t] = "clear"
    /\ handle' = None
    /\ Goto(t, then[t])
    /\ UNCHANGED <<sg, rtc, state, timer, then, net, inbox, left, offer, hist>>

stop_call_timeout(t) == StopTest(t) \/ StopDelete(t) \/ StopClear(t)

-----------------------------------------------------------------------------
(* The pending offer *)

\* if (sg->pending_sdp) free(sg->pending_sdp).  The second free of an offer does
\* nothing here, or it is HeapPanics.
Found == IF sg.open THEN sg.sdp ELSE None
FreePending(t) ==
    /\ sg' = [sg EXCEPT !.dangling = @ \/ Found # None]
    /\ freed' = [freed EXCEPT ![t] = Found]

\* What follows the free: the task that found an offer sets pending_sdp to NULL, also
\* when another was stored meanwhile.
Cleared(t) ==
    IF ~sg.open THEN sg
    ELSE [sg EXCEPT !.sdp = IF freed[t] = None THEN @ ELSE None,
                    !.dangling = @ /\ freed[t] = None,
                    !.waiting = FALSE, !.cands = <<>>]

\* Mutant: the message goes out and the offer stays pending.
TurnDownKept(t) ==
    /\ sg' = sg
    /\ withdrawn' = withdrawn \cup ({freed[t]} \ {None})
    /\ freed' = [freed EXCEPT ![t] = None]

\* mqtt_sig_reject_call, mqtt_sig_close_call and mqtt_sig_send_timeout after their
\* free; what they publish is lost when the MQTT connection is down.
TurnDown(t) ==
    /\ sg' = Cleared(t)
    /\ withdrawn' = withdrawn \cup ({freed[t]} \ {None})
    /\ freed' = [freed EXCEPT ![t] = None]

-----------------------------------------------------------------------------
(* The call timer *)

TimerStarts(i) ==
    /\ timer[i] = "created"
    /\ timer' = [timer EXCEPT ![i] = "waiting"] /\ handle' = i
    /\ UNCHANGED <<sg, rtc, state, at, then, net, inbox, left, offer, hist>>

\* Mutant: it forgets to go back to the state NONE.
TimerResetsNot(i) ==
    /\ timer[i] = "fired"
    /\ timer' = [timer EXCEPT ![i] = "ending"]
    /\ UNCHANGED <<sg, rtc, state, handle, at, then, net, inbox, left, offer, hist>>

\* vTaskDelay(10 s) is over: mqtt_sig_send_timeout.
TimerFires(i) ==
    /\ timer[i] = "waiting"
    /\ timer' = [timer EXCEPT ![i] = "freeing"]
    /\ FreePending(i)
    /\ UNCHANGED <<rtc, state, handle, at, then, net, inbox, left, text, hist>>

TimerClears(i) ==
    /\ timer[i] = "freeing"
    /\ timer' = [timer EXCEPT ![i] = "fired"]
    /\ TurnDown(i)
    /\ UNCHANGED <<rtc, state, handle, at, then, net, inbox, left, text, sent, newest,
                   answered, taken>>

TimerResets(i) ==
    /\ timer[i] = "fired"
    /\ timer' = [timer EXCEPT ![i] = "ending"] /\ state' = "NONE"
    /\ UNCHANGED <<sg, rtc, handle, at, then, net, inbox, left, offer, hist>>

TimerEnds(i) ==
    /\ timer[i] = "ending"
    /\ timer' = [timer EXCEPT ![i] = "none"] /\ handle' = None
    /\ UNCHANGED <<sg, rtc, state, at, then, net, inbox, left, offer, hist>>

call_timeout_task(i) == TimerStarts(i) \/ TimerFires(i) \/ TimerClears(i)
                        \/ TimerResets(i) \/ TimerEnds(i)

-----------------------------------------------------------------------------
(* The console: join, and send_cmd("ring" | "answer" | "reject" | "close") *)

Issue(c) == Idle("con") /\ c \in Commands /\ Input

\* start_webrtc; an open webrtc is closed first.  The answer to its ice_request
\* is dropped when it is handled before mqtt_signal_start sets the handle.
Join ==
    /\ Issue("join") /\ PcTaskFree /\ Idle("leave")
    /\ rtc' = [rtc EXCEPT !.open = TRUE, !.pending = TRUE, !.ice = FALSE,
                          !.iceInit = FALSE, !.connected = net.up, !.pc = "none",
                          !.role = "none", !.paused = FALSE]
    /\ sg' = [NoSignaling EXCEPT !.init = TRUE]
    /\ net' = [net EXCEPT !.listens = @ \/ net.up]
    /\ inbox' = IF net.up THEN inbox \cup {[type |-> "ice_response", of |-> None]} ELSE inbox
    /\ Goto("con", "joined")
    /\ UNCHANGED <<app, then, offer, hist>>

JoinReturns ==
    /\ at["con"] = "joined"
    /\ sg' = [sg EXCEPT !.open = TRUE] /\ Goto("con", "idle")
    /\ UNCHANGED <<rtc, app, then, net, inbox, left, offer, hist>>

\* RING goes through esp_webrtc_send_custom_data, which sends nothing over MQTT;
\* mqtt_sig_send_ring feeds ACCEPT_CALL to the device itself.
Ring ==
    /\ Issue("ring")
    /\ IF state \in {"NONE", "RINGING"}
       THEN /\ state' = "RINGING" /\ answered' = FALSE /\ taken' = FALSE
            /\ sg' = IF sg.open THEN [sg EXCEPT !.init = TRUE] ELSE sg
            /\ StopTimer("con", IF sg.open /\ rtc.open THEN "ring_enable" ELSE "ring_timer")
       ELSE UNCHANGED <<state, answered, taken, sg, at, then>>
    /\ UNCHANGED <<rtc, timer, handle, net, inbox, offer, sent, withdrawn, newest>>

RingEnables ==
    /\ at["con"] = "ring_enable"
    /\ rtc' = IF rtc.open THEN Enabled(rtc) ELSE rtc
    /\ StopTimer("con", "ring_timer")     \* start_call_timeout deletes an old one
    /\ UNCHANGED <<sg, app, net, inbox, left, offer, hist>>

RingStartsTimer ==
    /\ at["con"] = "ring_timer"
    /\ \E i \in Timers : timer[i] = "none" /\ timer' = [timer EXCEPT ![i] = "created"]
    /\ Goto("con", "idle")
    /\ UNCHANGED <<sg, rtc, state, handle, then, net, inbox, left, offer, hist>>

\* mqtt_sig_answer_call, up to its vTaskDelay of 200 ms
Answer ==
    /\ Issue("answer") /\ PcTaskFree
    /\ IF sg.open /\ sg.sdp # None
       THEN /\ sg' = [sg EXCEPT !.init = FALSE] /\ rtc' = Disabled(rtc)
            /\ Goto("con", "answer") /\ UNCHANGED then
       ELSE StopTimer("con", "idle") /\ UNCHANGED <<sg, rtc>>
    /\ UNCHANGED <<app, net, inbox, offer, hist>>

AnswerEnables ==
    /\ at["con"] = "answer"
    /\ rtc' = Enabled(IF sg.ice THEN IceReceived(rtc, FALSE) ELSE rtc)
    /\ Goto("con", "answer_sdp")
    /\ UNCHANGED <<sg, app, then, net, inbox, left, offer, hist>>

\* It reads pending_sdp again: strdup copies it.  Freed memory may still hold the text.
AnswerCopies ==
    /\ at["con"] = "answer_sdp" /\ sg.open /\ sg.sdp # None
    /\ \E o \in IF sg.dangling THEN {sg.sdp, None} ELSE {sg.sdp} :
          text' = [text EXCEPT !.con = o]
    /\ Goto("con", "answer_give")
    /\ UNCHANGED <<sg, rtc, app, then, net, inbox, left, freed, hist>>

\* strlen reads it a third time; the copy is given to the peer library.
AnswerGivesSdp ==
    /\ at["con"] = "answer_give" /\ sg.open /\ sg.sdp # None
    /\ text' = [text EXCEPT !.con = None]
    /\ Goto("con", "answer_cands")
    /\ UNCHANGED <<sg, rtc, app, then, net, inbox, left, freed, hist>>

AnswerGivesCandidate ==
    /\ at["con"] = "answer_cands"
    /\ IF sg.cands # <<>>
       THEN sg' = [sg EXCEPT !.cands = Tail(@)] /\ UNCHANGED <<rtc, at>>
       ELSE /\ rtc' = SignalConnected(rtc) /\ UNCHANGED sg
            /\ Goto("con", "answer_end")
    /\ UNCHANGED <<app, then, net, inbox, left, offer, hist>>

AnswerFrees ==
    /\ at["con"] = "answer_end"
    /\ FreePending("con") /\ Goto("con", "answer_null")
    /\ UNCHANGED <<rtc, app, then, net, inbox, left, text, hist>>

\* Without a test, before the free as after it.
AnswerEnds ==
    /\ at["con"] = "answer_null"
    /\ sg' = IF sg.open THEN [sg EXCEPT !.sdp = None, !.dangling = FALSE, !.waiting = FALSE]
             ELSE sg
    /\ freed' = [freed EXCEPT !["con"] = None]
    /\ StopTimer("con", "idle")
    /\ UNCHANGED <<rtc, app, net, inbox, left, text, hist>>

\* The device starts again.
Panic ==
    /\ sg' = NoSignaling /\ rtc' = Closed(rtc)
    /\ state' = "NONE" /\ timer' = [i \in Timers |-> "none"] /\ handle' = None
    /\ at' = [t \in Tasks |-> "idle"] /\ inbox' = {}
    /\ net' = [net EXCEPT !.listens = FALSE]
    /\ text' = NoText /\ freed' = [t \in Tasks \cup Timers |-> None]
    /\ UNCHANGED <<then, left, hist>>

\* strdup(NULL), or the use of an sg that was freed.
AnswerPanics ==
    /\ at["con"] \in {"answer_sdp", "answer_give"} /\ (~sg.open \/ sg.sdp = None)
    /\ Panic

Reject ==
    /\ Issue("reject")
    /\ FreePending("con") /\ Goto("con", "reject_free")
    /\ UNCHANGED <<rtc, app, then, net, inbox, text, hist>>

Close ==
    /\ Issue("close")
    /\ FreePending("con") /\ Goto("con", "close_free")
    /\ UNCHANGED <<rtc, app, then, net, inbox, text, hist>>

TurnDownEnds ==
    /\ \/ at["con"] = "reject_free" /\ StopTimer("con", "reject")
       \/ at["con"] = "close_free"  /\ StopTimer("con", "close")
    /\ TurnDown("con")
    /\ UNCHANGED <<rtc, app, net, inbox, left, text, sent, newest, answered, taken>>

RejectEnds ==
    /\ at["con"] = "reject"
    /\ state' = "NONE" /\ Goto("con", "idle")
    /\ UNCHANGED <<sg, rtc, timer, handle, then, net, inbox, left, offer, hist>>

\* The signaling is freed with all it has pending.
mqtt_signal_stop == [NoSignaling EXCEPT !.init = sg.init]

CloseEnds ==
    /\ at["con"] = "close" /\ PcTaskFree
    /\ IF rtc.open
       THEN rtc' = Closed(rtc) /\ sg' = mqtt_signal_stop
       ELSE UNCHANGED <<rtc, sg>>
    /\ state' = "NONE" /\ Goto("con", "idle")
    /\ UNCHANGED <<timer, handle, then, net, inbox, left, offer, hist>>

\* The heap notices that an offer is freed which another task has freed already.
Freeing ==
    \/ \E i \in Timers : timer[i] = "waiting"
    \/ at["con"] \in {"answer_end", "close"} \/ at["leave"] = "closing"
    \/ Idle("con") /\ left > 0 /\ Commands \cap {"reject", "close"} # {}
    \/ Idle("msg") /\ \E m \in inbox : m.type = "offer"
HeapPanics == sg.open /\ sg.dangling /\ Freeing /\ Panic

Console == \/ Join \/ JoinReturns \/ Ring \/ RingEnables \/ RingStartsTimer
           \/ Answer \/ AnswerEnables \/ AnswerCopies \/ AnswerGivesSdp \/ AnswerPanics
           \/ AnswerGivesCandidate \/ AnswerFrees \/ AnswerEnds
           \/ Reject \/ Close \/ TurnDownEnds \/ RejectEnds \/ CloseEnds

\* run_async_leave: stop_webrtc in a task of its own; the signaling is freed last.
Leave ==
    /\ "leave" \in Commands /\ Idle("leave") /\ rtc.open /\ Input
    /\ at["con"] # "joined" /\ Goto("leave", "closing")
    /\ UNCHANGED <<sg, rtc, app, then, net, inbox, offer, hist>>

LeaveEnds ==
    /\ at["leave"] = "closing" /\ PcTaskFree
    /\ rtc' = Closed(rtc)
    /\ sg' = mqtt_signal_stop
    /\ Goto("leave", "idle")
    /\ UNCHANGED <<app, then, net, inbox, left, offer, hist>>

-----------------------------------------------------------------------------
(* mqtt_message_handler, in a task for each message *)

\* A page sends an offer once, its candidates after it, and an answer to what the
\* device offered.  Messages whose tasks are alive together run in any order.
PageSends ==
    /\ net.up /\ net.listens /\ Input
    /\ \E y \in PageTypes, o \in Offers \cup {None} :
          /\ y \in {"offer", "candidate"} <=> o # None
          /\ [type |-> y, of |-> o] \notin inbox
          /\ y = "offer" => o \notin sent
          /\ sent' = IF y = "offer" THEN sent \cup {o} ELSE sent
          /\ y = "answer" => rtc.pc = "offered"
          /\ inbox' = inbox \cup {[type |-> y, of |-> o]}
    /\ UNCHANGED <<sg, rtc, app, at, then, net, offer, withdrawn, newest, answered, taken>>

Take(y) == Idle("msg") /\ \E m \in inbox : m.type = y /\ inbox' = inbox \ {m}

\* The pending offer is freed, and the new one stored in its place.
ReceiveOffer ==
    \E o \in Offers :
        /\ Idle("msg") /\ [type |-> "offer", of |-> o] \in inbox
        /\ inbox' = inbox \ {[type |-> "offer", of |-> o]}
        /\ IF sg.open
           THEN /\ sg' = [sg EXCEPT !.init = FALSE, !.dangling = @ \/ Found # None]
                /\ freed' = [freed EXCEPT !["msg"] = Found]
                /\ text' = [text EXCEPT !.msg = o] /\ Goto("msg", "store")
           ELSE UNCHANGED <<sg, offer, at>>
        /\ UNCHANGED <<rtc, app, then, net, left, hist>>

\* Mutant: the first offer stays when a second one comes.
StoreOfferKept ==
    /\ at["msg"] = "store"
    /\ sg' = IF sg.open /\ sg.sdp = None
             THEN [sg EXCEPT !.sdp = text.msg, !.waiting = TRUE, !.cands = <<>>] ELSE sg
    /\ newest' = IF sg.open THEN text.msg ELSE newest
    /\ text' = [text EXCEPT !.msg = None] /\ freed' = [freed EXCEPT !["msg"] = None]
    /\ Goto("msg", "idle")
    /\ UNCHANGED <<rtc, app, then, net, inbox, left, sent, withdrawn, answered, taken>>

StoreOffer ==
    /\ at["msg"] = "store"
    /\ sg' = IF sg.open
             THEN [sg EXCEPT !.sdp = text.msg, !.dangling = FALSE, !.waiting = TRUE,
                             !.cands = <<>>]
             ELSE sg
    /\ newest' = IF sg.open THEN text.msg ELSE newest
    /\ text' = [text EXCEPT !.msg = None] /\ freed' = [freed EXCEPT !["msg"] = None]
    /\ Goto("msg", "idle")
    /\ UNCHANGED <<rtc, app, then, net, inbox, left, sent, withdrawn, answered, taken>>

\* A candidate is kept while an offer is pending and there is room for it;
\* otherwise it goes to the peer connection at once.
ReceiveCandidate ==
    /\ \E o \in Offers :
          /\ Idle("msg") /\ [type |-> "candidate", of |-> o] \in inbox
          /\ inbox' = inbox \ {[type |-> "candidate", of |-> o]}
          /\ sg' = IF sg.open /\ sg.waiting /\ Len(sg.cands) < MaxPending
                   THEN [sg EXCEPT !.cands = Append(@, o)] ELSE sg
    /\ UNCHANGED <<rtc, app, at, then, net, left, offer, hist>>

ReceiveAnswer ==
    /\ Take("answer")
    /\ sg' = IF sg.open THEN [sg EXCEPT !.init = FALSE] ELSE sg
    /\ answered' = (answered \/ (sg.open /\ rtc.pc = "offered"))
    /\ rtc' = IF sg.open /\ rtc.pc = "offered" THEN [rtc EXCEPT !.pc = "described"] ELSE rtc
    /\ UNCHANGED <<app, at, then, net, left, offer, sent, withdrawn, newest, taken>>

ReceiveIce ==
    /\ Take("ice_response")
    /\ IF sg.open THEN /\ sg' = [sg EXCEPT !.ice = TRUE]
                       /\ rtc' = IceReceived(rtc, sg.init)
       ELSE UNCHANGED <<sg, rtc>>
    /\ UNCHANGED <<app, at, then, net, left, offer, hist>>

\* "bye" and "reject" alike: the pending offer stays.
ReceiveBye ==
    /\ Take("bye") /\ PcTaskFree
    /\ IF sg.open THEN rtc' = Bye(rtc) /\ answered' = FALSE ELSE UNCHANGED <<rtc, answered>>
    /\ UNCHANGED <<sg, app, at, then, net, left, offer, sent, withdrawn, newest, taken>>

\* door_bell_on_cmd
ReceiveRing ==
    /\ Take("RING")
    /\ IF sg.open /\ rtc.open /\ state \in {"NONE", "RINGING"}
       THEN state' = "CONNECTING" /\ rtc' = Enabled(rtc) ELSE UNCHANGED <<state, rtc>>
    /\ UNCHANGED <<sg, timer, handle, at, then, net, left, offer, hist>>

ReceiveAccept ==
    /\ Take("ACCEPT_CALL")
    /\ IF sg.open /\ rtc.open THEN StopTimer("msg", "accept") ELSE UNCHANGED <<at, then>>
    /\ UNCHANGED <<sg, rtc, app, net, left, offer, hist>>

ReceiveDeny ==      \* DENY_CALL and REJECT_CALL
    /\ Take("DENY_CALL")
    /\ IF sg.open /\ rtc.open THEN StopTimer("msg", "deny") ELSE UNCHANGED <<at, then>>
    /\ UNCHANGED <<sg, rtc, app, net, left, offer, hist>>

AcceptEnds ==
    /\ at["msg"] = "accept"
    /\ rtc' = IF rtc.open THEN Enabled(rtc) ELSE rtc
    /\ Goto("msg", "idle")
    /\ UNCHANGED <<sg, app, then, net, inbox, left, offer, hist>>

DenyEnds ==
    /\ at["msg"] = "deny" /\ PcTaskFree
    /\ rtc' = IF rtc.open THEN Disabled(rtc) ELSE rtc
    /\ state' = "NONE" /\ Goto("msg", "idle")
    /\ UNCHANGED <<sg, timer, handle, then, net, inbox, left, offer, hist>>

mqtt_message_handler ==
    \/ ReceiveOffer \/ StoreOffer \/ ReceiveCandidate \/ ReceiveAnswer \/ ReceiveIce \/ ReceiveBye
    \/ ReceiveRing \/ ReceiveAccept \/ ReceiveDeny \/ AcceptEnds \/ DenyEnds

-----------------------------------------------------------------------------
(* webrtc_event_handler and mqtt_signal_send_msg, called by pc_task.  What the *)
(* peer library does is external: an attempt gathers, makes its SDP, comes up  *)
(* or fails, and a connection that is up may be lost.                          *)

PeerMay(p) == rtc.open /\ rtc.pc = p /\ ~rtc.paused /\ PcTaskFree

PeerGathers ==
    /\ PeerMay("connecting")
    /\ rtc' = [rtc EXCEPT !.pc = "gathering"] /\ state' = "CONNECTING"
    /\ UNCHANGED <<sg, timer, handle, at, then, net, inbox, left, offer, hist>>

\* The SDP goes out as an offer or an answer by what is_initiator says now.
PeerMakesSdp ==
    /\ PeerMay("gathering")
    /\ rtc' = [rtc EXCEPT !.pc = CASE ~sg.init -> "described"
                                    [] net.up -> "offered" [] OTHER -> "unheard"]
    /\ UNCHANGED <<sg, app, at, then, net, inbox, left, offer, hist>>

PeerUp ==
    /\ PeerMay("described")
    /\ rtc' = [rtc EXCEPT !.pc = "up"] /\ state' = "CONNECTED"
    /\ UNCHANGED <<sg, timer, handle, at, then, net, inbox, left, offer, hist>>

\* CONNECT_FAILED, DISCONNECTED
PeerDown ==
    /\ \E p \in {"gathering", "offered", "unheard", "described", "up"} : PeerMay(p)
    /\ rtc' = [rtc EXCEPT !.pc = "new"]
    /\ StopTimer("pc", "down")
    /\ UNCHANGED <<sg, app, net, inbox, left, offer, hist>>

DownEnds ==
    /\ at["pc"] = "down"
    /\ state' = "NONE" /\ Goto("pc", "idle")
    /\ UNCHANGED <<sg, rtc, timer, handle, then, net, inbox, left, offer, hist>>

Peer == PeerGathers \/ PeerMakesSdp \/ PeerUp \/ PeerDown \/ DownEnds

-----------------------------------------------------------------------------
(* network_4g.cpp: on recovery a task waits 2 s, makes a new client, connects  *)
(* it and calls mqtt_sig_restart.  Messages on their way are lost.             *)

NetDrops ==
    /\ net.up /\ Input
    /\ net' = [up |-> FALSE, listens |-> FALSE]
    /\ UNCHANGED <<sg, rtc, app, at, then, inbox, offer, hist>>

InitMqtt ==
    /\ ~net.up /\ Idle("net")
    /\ net' = [net EXCEPT !.up = TRUE] /\ Goto("net", "restart")
    /\ UNCHANGED <<sg, rtc, app, then, inbox, left, offer, hist>>

mqtt_sig_restart ==
    /\ at["net"] = "restart"
    /\ net' = [net EXCEPT !.listens = net.up /\ (@ \/ sg.open)]
    /\ inbox' = IF net.up /\ sg.open THEN inbox \cup {[type |-> "ice_response", of |-> None]}
                ELSE inbox
    /\ Goto("net", "idle")
    /\ UNCHANGED <<sg, rtc, app, then, left, offer, hist>>

Network == NetDrops \/ InitMqtt \/ mqtt_sig_restart

Stopping == \E t \in {"con", "msg", "pc"} : stop_call_timeout(t)
TimerTasks == \E i \in Timers : call_timeout_task(i)
Ends == RejectEnds \/ CloseEnds \/ JoinReturns \/ RingEnables \/ RingStartsTimer
        \/ AnswerEnables \/ AnswerCopies \/ AnswerGivesSdp \/ AnswerPanics
        \/ AnswerGivesCandidate \/ AnswerFrees \/ AnswerEnds \/ TurnDownEnds

Next == Console \/ HeapPanics \/ Leave \/ LeaveEnds \/ PageSends \/ mqtt_message_handler \/ Peer
        \/ Network \/ Stopping \/ TimerTasks

Spec == Init /\ [][Next]_vars
FairSpec ==
    /\ Spec
    /\ WF_vars(Ends) /\ WF_vars(LeaveEnds) /\ WF_vars(mqtt_message_handler)
    /\ WF_vars(PeerGathers) /\ WF_vars(DownEnds) /\ WF_vars(TimerTasks)
    /\ \A t \in {"con", "msg", "pc"} : WF_vars(stop_call_timeout(t))

-----------------------------------------------------------------------------
(* Properties *)

\* The offer mqtt_sig_answer_call copies after its delay, when it reads pending_sdp
\* again, is not one the device has turned down meanwhile (reject, close, the timeout),
\* however the frees, the clearing and the stores of the other tasks fall.  One that is
\* turned down after the copy is still given to the peer library.
WithdrawnNotCopied ==
    [][text'.con # text.con => text'.con = None \/ text'.con \notin withdrawn]_vars

\* What it copies is the offer that was stored last, or memory that is already free:
\* an offer that came during its delay is the one the user answers.
NewestCopied == [][text'.con # text.con => text'.con \in {newest, None}]_vars

\* A device that rings does not ring for ever, unless some task takes the timer of
\* the ring away: whatever the network, the peer and the pages do, the timer is
\* started, is not lost and ends the state.
RingEnds == state = "RINGING" ~> state # "RINGING" \/ taken

\* The timeout is sent when no answer has come (remark.md:55).
TimeoutUnanswered ==
    [][\A i \in Timers : timer[i] = "waiting" /\ timer'[i] = "freeing" => ~answered]_vars
=============================================================================
