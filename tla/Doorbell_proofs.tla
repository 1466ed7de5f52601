-------------------------- MODULE Doorbell_proofs --------------------------
(***************************************************************************)
(* The pending offer of the doorbell under every interleaving of the       *)
(* console, the message tasks, the timers, the peer and the network, for   *)
(* any numbers of offers, timers and inputs: pending_sdp is freed in one   *)
(* step and cleared or overwritten in a later one, without a lock.         *)
(***************************************************************************)
EXTENDS Doorbell, TLAPS, SequenceTheorems

SigType == [open : BOOLEAN, init : BOOLEAN, sdp : Offers \cup {None}, dangling : BOOLEAN,
            waiting : BOOLEAN, cands : Seq(Offers), ice : BOOLEAN]
RtcType == [open : BOOLEAN, pending : BOOLEAN, ice : BOOLEAN, iceInit : BOOLEAN,
            connected : BOOLEAN,
            pc : {"none", "new", "connecting", "gathering", "offered", "unheard",
                  "described", "up"},
            role : {"none", "controlling", "controlled"}, paused : BOOLEAN]
Nexts == {"idle", "ring_enable", "ring_timer", "reject", "close", "accept", "deny", "down"}
Places == Nexts \cup {"stop", "delete", "clear", "dead", "joined", "answer", "answer_sdp",
                      "answer_give", "answer_cands", "answer_end", "answer_null",
                      "reject_free", "close_free", "store", "closing", "restart"}

\* The candidates kept for a pending offer stay in their array.
SigOK  == sg \in SigType /\ Len(sg.cands) <= MaxPending
RtcOK  == rtc \in RtcType /\ state \in {"NONE", "RINGING", "CONNECTING", "CONNECTED"}
TaskOK == /\ at \in [Tasks -> Places] /\ then \in [Tasks -> Nexts]
          /\ timer \in [Timers -> {"none", "created", "waiting", "freeing", "fired", "ending"}]
          /\ handle \in Timers \cup {None}
NetOK  == /\ net \in [up : BOOLEAN, listens : BOOLEAN]
          /\ inbox \subseteq [type : PageTypes \cup {"ice_response"}, of : Offers \cup {None}]
          /\ left \in 0 .. MaxInputs
HistOK == /\ text \in [con : Offers \cup {None}, msg : Offers \cup {None}]
          /\ freed \in [Tasks \cup Timers -> Offers \cup {None}]
          /\ sent \subseteq Offers /\ withdrawn \subseteq Offers
          /\ newest \in Offers \cup {None}
          /\ answered \in BOOLEAN /\ taken \in BOOLEAN

TypeOK == SigOK /\ RtcOK /\ TaskOK /\ NetOK /\ HistOK

\* The offers still to be stored, and those that are or were in pending_sdp and that a
\* free may yet turn down.
OfferInbox == {o \in Offers : [type |-> "offer", of |-> o] \in inbox}
Storing == {o \in Offers : at["msg"] = "store" /\ o = text.msg}
Freed == {freed[t] : t \in Tasks \cup Timers}
Used == withdrawn \cup {sg.sdp} \cup Freed

\* What is pending is the newest offer and was not turned down; an offer still to be
\* stored was never pending, so no free that is under way can turn it down; without the
\* signaling nothing is pending.
PendingInv ==
    /\ ~sg.open => sg.sdp = None
    /\ sg.sdp # None => sg.sdp = newest /\ sg.sdp \notin withdrawn
    /\ at["msg"] = "store" => text.msg \in Offers \ OfferInbox
    /\ (OfferInbox \cup Storing) \cap Used = {}
    /\ OfferInbox \cup Storing \cup (Used \ {None}) \subseteq sent

IInv == TypeOK /\ PendingInv

\* What a step does that stores no offer and sends none.
PendingFrame ==
    /\ \/ sg'.sdp = None
       \/ /\ sg'.sdp = sg.sdp /\ (sg.open => sg'.open)
          /\ newest' = newest /\ withdrawn' = withdrawn
    /\ withdrawn' \cup Freed' \subseteq Used \cup {None}
    /\ OfferInbox' \subseteq OfferInbox
    /\ at'["msg"] = "store" => at["msg"] = "store" /\ text'.msg = text.msg
    /\ sent' = sent

LEMMA PendingKept ==
    ASSUME IInv, PendingFrame
    PROVE  PendingInv'
  <1>1. None \notin Offers /\ None \notin OfferInbox \cup Storing
    BY DoorbellAssumption DEF OfferInbox, Storing
  <1>2. Storing' \subseteq Storing
    BY DEF Storing, PendingFrame
  <1>3. Used' \subseteq Used \cup {None}
    BY DEF Used, PendingFrame
  <1>4. /\ (~sg.open => sg.sdp = None)'
        /\ (sg.sdp # None => sg.sdp = newest /\ sg.sdp \notin withdrawn)'
    BY DEF IInv, PendingInv, PendingFrame
  <1>5. (at["msg"] = "store" => text.msg \in Offers \ OfferInbox)'
    BY DEF IInv, PendingInv, PendingFrame
  <1>6. ((OfferInbox \cup Storing) \cap Used = {})'
    BY <1>1, <1>2, <1>3 DEF IInv, PendingInv, PendingFrame
  <1>7. (OfferInbox \cup Storing \cup (Used \ {None}) \subseteq sent)'
    BY <1>2, <1>3 DEF IInv, PendingInv, PendingFrame
  <1> QED BY <1>4, <1>5, <1>6, <1>7 DEF PendingInv

\* What the functions of esp_webrtc make of the record keeps its type.
LEMMA WebrtcTypes ==
    ASSUME NEW r \in RtcType, NEW b \in BOOLEAN
    PROVE  Enabled(r) \in RtcType /\ IceReceived(r, b) \in RtcType
  <1> USE DEF RtcType, NewConnection, StartPc
  <1>1. Enabled(r) \in RtcType
    BY DEF Enabled
  <1>2. IceReceived(r, b) \in RtcType
    BY ZenonT(30) DEF IceReceived
  <1> QED BY <1>1, <1>2

LEMMA ClosedType == ASSUME NEW r \in RtcType PROVE Closed(r) \in RtcType
  <1>1. Disabled(r) \in RtcType
    BY DEF RtcType, Disabled
  <1> QED BY <1>1 DEF RtcType, Closed

\* What the code does to mqtt_sig_t keeps its type: the array of candidates is emptied
\* with the pending offer and by a new one, a candidate is added while there is room, an
\* answer takes the first.
LEMMA SigTypes ==
    ASSUME SigOK, NEW b \in BOOLEAN, NEW o \in Offers \cup {None}, NEW d \in BOOLEAN,
           NEW w \in BOOLEAN
    PROVE  /\ [NoSignaling EXCEPT !.init = b] \in SigType
           /\ [sg EXCEPT !.sdp = o, !.dangling = d, !.waiting = w, !.cands = <<>>] \in SigType
  <1>1. <<>> \in Seq(Offers)
    OBVIOUS
  <1>2. [NoSignaling EXCEPT !.init = b] \in SigType
    BY <1>1 DEF NoSignaling, SigType
  <1>3. [sg EXCEPT !.sdp = o, !.dangling = d, !.waiting = w, !.cands = <<>>] \in SigType
    BY <1>1 DEF SigOK, SigType
  <1> QED BY <1>2, <1>3

CandidateIn(o) == [sg EXCEPT !.cands = Append(@, o)]

LEMMA CandidateTypes ==
    ASSUME SigOK, NEW o \in Offers
    PROVE  CandidateIn(o) \in SigType /\ Len(CandidateIn(o).cands) = Len(sg.cands) + 1
  <1>1. Append(sg.cands, o) \in Seq(Offers) /\ Len(Append(sg.cands, o)) = Len(sg.cands) + 1
    BY DEF SigOK, SigType
  <1> QED BY <1>1 DEF SigOK, SigType, CandidateIn

LEMMA TailTypes ==
    ASSUME SigOK, sg.cands # <<>>
    PROVE  /\ [sg EXCEPT !.cands = Tail(@)] \in SigType
           /\ Len([sg EXCEPT !.cands = Tail(@)].cands) = Len(sg.cands) - 1
  <1>1. Tail(sg.cands) \in Seq(Offers) /\ Len(Tail(sg.cands)) = Len(sg.cands) - 1
    BY HeadTailProperties DEF SigOK, SigType
  <1>2. [sg EXCEPT !.cands = Tail(@)] \in SigType
    BY <1>1 DEF SigOK, SigType
  <1>3. [sg EXCEPT !.cands = Tail(@)].cands = Tail(sg.cands)
    BY DEF SigOK, SigType
  <1>4. Len([sg EXCEPT !.cands = Tail(@)].cands) = Len(sg.cands) - 1
    BY <1>1, <1>3
  <1> QED BY <1>2, <1>4

\* Reject, close and the timeout after their free.
LEMMA TurnDownTypes ==
    ASSUME IInv, NEW t \in Tasks \cup Timers, TurnDown(t)
    PROVE  /\ SigOK' /\ freed' \in [Tasks \cup Timers -> Offers \cup {None}]
           /\ withdrawn' \subseteq Offers
           /\ \/ sg'.sdp = None
              \/ withdrawn' = withdrawn /\ sg'.sdp = sg.sdp /\ (sg.open => sg'.open)
           /\ withdrawn' \cup Freed' \subseteq Used \cup {None}
  <1>1. freed[t] \in Offers \cup {None} /\ sg \in SigType
    BY DEF IInv, TypeOK, HistOK, SigOK
  <1>2. sg' = IF ~sg.open THEN sg
              ELSE [sg EXCEPT !.sdp = IF freed[t] = None THEN sg.sdp ELSE None,
                              !.dangling = sg.dangling /\ freed[t] = None,
                              !.waiting = FALSE, !.cands = <<>>]
    BY Zenon DEF TurnDown, Cleared
  <1>3. (IF freed[t] = None THEN sg.sdp ELSE None) \in Offers \cup {None}
        /\ (sg.dangling /\ freed[t] = None) \in BOOLEAN
    BY <1>1 DEF SigType
  <1>4. SigOK'
    <2>1. sg' \in SigType
      BY <1>1, <1>2, <1>3, SigTypes DEF IInv, TypeOK
    <2>2. Len(sg'.cands) <= MaxPending
      <3>1. CASE sg.open
        <4>1. sg'.cands = <<>>
          BY <1>1, <1>2, <3>1 DEF SigType
        <4> QED BY <4>1, DoorbellAssumption
      <3>2. CASE ~sg.open
        BY <1>2, <3>2 DEF IInv, TypeOK, SigOK
      <3> QED BY <3>1, <3>2
    <2> QED BY <2>1, <2>2 DEF SigOK
  <1>5. freed' \in [Tasks \cup Timers -> Offers \cup {None}] /\ withdrawn' \subseteq Offers
    BY <1>1 DEF TurnDown, IInv, TypeOK, HistOK
  <1>6. \/ sg'.sdp = None
        \/ withdrawn' = withdrawn /\ sg'.sdp = sg.sdp /\ (sg.open => sg'.open)
    <2>1. CASE freed[t] = None
      BY <2>1, <1>1, <1>2 DEF TurnDown, SigType
    <2>2. CASE freed[t] # None
      <3>1. CASE sg.open
        BY <2>2, <3>1, <1>1, <1>2 DEF SigType
      <3>2. CASE ~sg.open
        BY <3>2, <1>2 DEF IInv, PendingInv
      <3> QED BY <3>1, <3>2
    <2> QED BY <2>1, <2>2
  <1>7. withdrawn' \cup Freed' \subseteq Used \cup {None}
    <2>1. withdrawn' \subseteq Used \cup {None}
      BY DEF TurnDown, Used, Freed
    <2>2. Freed' \subseteq Freed \cup {None}
      BY DEF TurnDown, Freed, IInv, TypeOK, HistOK
    <2> QED BY <2>1, <2>2 DEF Used
  <1> QED BY <1>4, <1>5, <1>6, <1>7

\* Their free, with the flag is_initiator left alone.
LEMMA FreeTypes ==
    ASSUME IInv, NEW t \in Tasks \cup Timers, FreePending(t)
    PROVE  /\ SigOK' /\ freed' \in [Tasks \cup Timers -> Offers \cup {None}]
           /\ sg'.sdp = sg.sdp /\ sg'.open = sg.open
           /\ Freed' \subseteq Used \cup {None}
  <1>1. sg \in SigType /\ Found \in Offers \cup {None} /\ Found \in {sg.sdp, None}
    BY DEF IInv, TypeOK, SigOK, SigType, Found
  <1>2. (sg.dangling \/ Found # None) \in BOOLEAN
    OBVIOUS
  <1>3. sg' = [sg EXCEPT !.dangling = sg.dangling \/ Found # None]
    BY Zenon DEF FreePending
  <1>4. SigOK' /\ sg'.sdp = sg.sdp /\ sg'.open = sg.open
    BY <1>1, <1>2, <1>3 DEF IInv, TypeOK, SigOK, SigType
  <1>5. freed' \in [Tasks \cup Timers -> Offers \cup {None}]
    BY <1>1 DEF FreePending, IInv, TypeOK, HistOK
  <1>6. Freed' \subseteq Freed \cup {sg.sdp, None}
    BY <1>1 DEF FreePending, Freed, IInv, TypeOK, HistOK
  <1> QED BY <1>4, <1>5, <1>6 DEF Used

\* A panic: the device starts again, and the pages know what they have sent.
LEMMA PanicStep ==
    ASSUME IInv, Panic
    PROVE  IInv'
  <1>1. SigOK'
    <2>1. NoSignaling \in SigType /\ NoSignaling.cands = <<>>
      <3>1. <<>> \in Seq(Offers)
        OBVIOUS
      <3> QED BY <3>1 DEF NoSignaling, SigType
    <2> QED BY <2>1, DoorbellAssumption DEF SigOK, Panic
  <1>2. RtcOK'
    BY ClosedType DEF Panic, IInv, TypeOK, RtcOK
  <1>3. TaskOK'
    BY DEF Panic, IInv, TypeOK, TaskOK, Places, Nexts
  <1>4. NetOK'
    BY DEF Panic, IInv, TypeOK, NetOK
  <1>5. HistOK'
    BY DEF Panic, NoText, hist, IInv, TypeOK, HistOK
  <1>6. PendingFrame
    <2>1. Freed' \subseteq {None}
      BY DEF Freed, Panic
    <2> QED BY <2>1 DEF Panic, NoSignaling, PendingFrame, OfferInbox, Used, hist, Tasks
  <1> QED BY <1>1, <1>2, <1>3, <1>4, <1>5, <1>6, PendingKept DEF IInv, TypeOK

\* stop_call_timeout.
LEMMA StopStep ==
    ASSUME IInv, NEW t \in {"con", "msg", "pc"}, stop_call_timeout(t)
    PROVE  IInv'
  <1>1. CASE StopTest(t)
    <2>1. SigOK'
      BY <1>1 DEF IInv, TypeOK, SigOK, SigType, app, offer, hist, StopTest, Goto
    <2>2. RtcOK'
      BY <1>1 DEF IInv, TypeOK, RtcOK, RtcType, app, offer, hist, StopTest, Goto
    <2>3. TaskOK'
      BY <1>1 DEF IInv, TypeOK, TaskOK, Tasks, Places, Nexts, app, offer, hist, StopTest, Goto
    <2>4. NetOK'
      BY <1>1, DoorbellAssumption DEF IInv, TypeOK, SigOK, SigType, NetOK, app, offer, hist,
         StopTest, Goto
    <2>5. HistOK'
      BY <1>1 DEF IInv, TypeOK, SigOK, SigType, HistOK, app, offer, hist, StopTest, Goto
    <2>6. PendingInv'
      <3>1. PendingFrame
        BY <1>1 DEF PendingFrame, OfferInbox, Used, Freed, Tasks, Nexts, IInv, TypeOK, TaskOK,
           HistOK, app, offer, hist, StopTest, Goto
      <3> QED BY <3>1, PendingKept
    <2> QED
      BY <2>1, <2>2, <2>3, <2>4, <2>5, <2>6 DEF IInv, TypeOK
  <1>2. CASE StopDelete(t)
    <2>1. SigOK'
      BY <1>2 DEF IInv, TypeOK, SigOK, SigType, app, offer, hist, StopDelete, Goto
    <2>2. RtcOK'
      BY <1>2 DEF IInv, TypeOK, RtcOK, RtcType, app, offer, hist, StopDelete, Goto
    <2>3. TaskOK'
      BY <1>2 DEF IInv, TypeOK, TaskOK, Tasks, Places, Nexts, app, offer, hist, StopDelete,
         Goto
    <2>4. NetOK'
      BY <1>2, DoorbellAssumption DEF IInv, TypeOK, SigOK, SigType, NetOK, app, offer, hist,
         StopDelete, Goto
    <2>5. HistOK'
      BY <1>2 DEF IInv, TypeOK, SigOK, SigType, HistOK, app, offer, hist, StopDelete, Goto
    <2>6. PendingInv'
      <3>1. PendingFrame
        BY <1>2 DEF PendingFrame, OfferInbox, Used, Freed, Tasks, Nexts, IInv, TypeOK, TaskOK,
           HistOK, app, offer, hist, StopDelete, Goto
      <3> QED BY <3>1, PendingKept
    <2> QED
      BY <2>1, <2>2, <2>3, <2>4, <2>5, <2>6 DEF IInv, TypeOK
  <1>3. CASE StopClear(t)
    <2>1. SigOK'
      BY <1>3 DEF IInv, TypeOK, SigOK, SigType, app, offer, hist, StopClear, Goto
    <2>2. RtcOK'
      BY <1>3 DEF IInv, TypeOK, RtcOK, RtcType, app, offer, hist, StopClear, Goto
    <2>3. TaskOK'
      BY <1>3 DEF IInv, TypeOK, TaskOK, Tasks, Places, Nexts, app, offer, hist, StopClear,
         Goto
    <2>4. NetOK'
      BY <1>3, DoorbellAssumption DEF IInv, TypeOK, SigOK, SigType, NetOK, app, offer, hist,
         StopClear, Goto
    <2>5. HistOK'
      BY <1>3 DEF IInv, TypeOK, SigOK, SigType, HistOK, app, offer, hist, StopClear, Goto
    <2>6. PendingInv'
      <3>1. PendingFrame
        BY <1>3 DEF PendingFrame, OfferInbox, Used, Freed, Tasks, Nexts, IInv, TypeOK, TaskOK,
           HistOK, app, offer, hist, StopClear, Goto
      <3> QED BY <3>1, PendingKept
    <2> QED
      BY <2>1, <2>2, <2>3, <2>4, <2>5, <2>6 DEF IInv, TypeOK
  <1> QED
    BY <1>1, <1>2, <1>3 DEF stop_call_timeout

\* A timer task; when it fires it turns the pending offer down, in two steps.
LEMMA TimerStep ==
    ASSUME IInv, NEW i \in Timers, call_timeout_task(i)
    PROVE  IInv'
  <1>1. CASE TimerStarts(i)
    <2>1. SigOK'
      BY <1>1 DEF IInv, TypeOK, SigOK, SigType, app, offer, hist, TimerStarts
    <2>2. RtcOK'
      BY <1>1 DEF IInv, TypeOK, RtcOK, RtcType, app, offer, hist, TimerStarts
    <2>3. TaskOK'
      BY <1>1 DEF IInv, TypeOK, TaskOK, Tasks, Places, Nexts, app, offer, hist, TimerStarts
    <2>4. NetOK'
      BY <1>1, DoorbellAssumption DEF IInv, TypeOK, SigOK, SigType, NetOK, app, offer, hist,
         TimerStarts
    <2>5. HistOK'
      BY <1>1 DEF IInv, TypeOK, SigOK, SigType, HistOK, app, offer, hist, TimerStarts
    <2>6. PendingInv'
      <3>1. PendingFrame
        BY <1>1 DEF PendingFrame, OfferInbox, Used, Freed, Tasks, Nexts, IInv, TypeOK, TaskOK,
           HistOK, app, offer, hist, TimerStarts
      <3> QED BY <3>1, PendingKept
    <2> QED
      BY <2>1, <2>2, <2>3, <2>4, <2>5, <2>6 DEF IInv, TypeOK
  <1>2. CASE TimerFires(i)
    <2>1. SigOK'
      <3>1. FreePending(i)
        BY <1>2 DEF TimerFires
      <3> QED BY <3>1, FreeTypes DEF Tasks
    <2>2. RtcOK'
      BY <1>2 DEF IInv, TypeOK, RtcOK, RtcType, app, offer, hist, TimerFires
    <2>3. TaskOK'
      BY <1>2 DEF IInv, TypeOK, TaskOK, Tasks, Places, Nexts, app, offer, hist, TimerFires
    <2>4. NetOK'
      BY <1>2, DoorbellAssumption DEF IInv, TypeOK, SigOK, SigType, NetOK, app, offer, hist,
         TimerFires
    <2>5. HistOK'
      <3>1. FreePending(i)
        BY <1>2 DEF TimerFires
      <3> QED BY <1>2, <3>1, FreeTypes DEF Tasks, IInv, TypeOK, HistOK, hist, TimerFires
    <2>6. PendingInv'
      <3>1. FreePending(i)
        BY <1>2 DEF TimerFires
      <3>2. PendingFrame
        <4>1. sg'.sdp = sg.sdp /\ sg'.open = sg.open /\ Freed' \subseteq Used \cup {None}
          BY <3>1, FreeTypes DEF Tasks
        <4> QED BY <1>2, <4>1 DEF PendingFrame, OfferInbox, Used, Tasks, IInv, TypeOK, TaskOK, hist,
               TimerFires
      <3> QED BY <3>2, PendingKept
    <2> QED
      BY <2>1, <2>2, <2>3, <2>4, <2>5, <2>6 DEF IInv, TypeOK
  <1>3. CASE TimerClears(i)
    <2>1. SigOK'
      <3>1. TurnDown(i)
        BY <1>3 DEF TimerClears
      <3> QED BY <3>1, TurnDownTypes DEF Tasks
    <2>2. RtcOK'
      BY <1>3 DEF IInv, TypeOK, RtcOK, RtcType, app, offer, hist, TimerClears
    <2>3. TaskOK'
      BY <1>3 DEF IInv, TypeOK, TaskOK, Tasks, Places, Nexts, app, offer, hist, TimerClears
    <2>4. NetOK'
      BY <1>3, DoorbellAssumption DEF IInv, TypeOK, SigOK, SigType, NetOK, app, offer, hist,
         TimerClears
    <2>5. HistOK'
      <3>1. TurnDown(i)
        BY <1>3 DEF TimerClears
      <3>2. /\ freed' \in [Tasks \cup Timers -> Offers \cup {None}]
            /\ withdrawn' \subseteq Offers
        BY <3>1, TurnDownTypes DEF Tasks
      <3> QED BY <1>3, <3>2 DEF IInv, TypeOK, HistOK, TimerClears
    <2>6. PendingInv'
      <3>1. TurnDown(i)
        BY <1>3 DEF TimerClears
      <3>2. PendingFrame
        <4>1. /\ \/ sg'.sdp = None
                 \/ withdrawn' = withdrawn /\ sg'.sdp = sg.sdp /\ (sg.open => sg'.open)
              /\ withdrawn' \cup Freed' \subseteq Used \cup {None}
          BY <3>1, TurnDownTypes DEF Tasks
        <4> QED BY <1>3, <4>1 DEF PendingFrame, OfferInbox, Tasks, Nexts, IInv, TypeOK,
             TaskOK, TimerClears
      <3> QED BY <3>2, PendingKept
    <2> QED
      BY <2>1, <2>2, <2>3, <2>4, <2>5, <2>6 DEF IInv, TypeOK
  <1>4. CASE TimerResets(i)
    <2>1. SigOK'
      BY <1>4 DEF IInv, TypeOK, SigOK, SigType, app, offer, hist, TimerResets
    <2>2. RtcOK'
      BY <1>4 DEF IInv, TypeOK, RtcOK, RtcType, app, offer, hist, TimerResets
    <2>3. TaskOK'
      BY <1>4 DEF IInv, TypeOK, TaskOK, Tasks, Places, Nexts, app, offer, hist, TimerResets
    <2>4. NetOK'
      BY <1>4, DoorbellAssumption DEF IInv, TypeOK, SigOK, SigType, NetOK, app, offer, hist,
         TimerResets
    <2>5. HistOK'
      BY <1>4 DEF IInv, TypeOK, SigOK, SigType, HistOK, app, offer, hist, TimerResets
    <2>6. PendingInv'
      <3>1. PendingFrame
        BY <1>4 DEF PendingFrame, OfferInbox, Used, Freed, Tasks, Nexts, IInv, TypeOK, TaskOK,
           HistOK, app, offer, hist, TimerResets
      <3> QED BY <3>1, PendingKept
    <2> QED
      BY <2>1, <2>2, <2>3, <2>4, <2>5, <2>6 DEF IInv, TypeOK
  <1>5. CASE TimerEnds(i)
    <2>1. SigOK'
      BY <1>5 DEF IInv, TypeOK, SigOK, SigType, app, offer, hist, TimerEnds
    <2>2. RtcOK'
      BY <1>5 DEF IInv, TypeOK, RtcOK, RtcType, app, offer, hist, TimerEnds
    <2>3. TaskOK'
      BY <1>5 DEF IInv, TypeOK, TaskOK, Tasks, Places, Nexts, app, offer, hist, TimerEnds
    <2>4. NetOK'
      BY <1>5, DoorbellAssumption DEF IInv, TypeOK, SigOK, SigType, NetOK, app, offer, hist,
         TimerEnds
    <2>5. HistOK'
      BY <1>5 DEF IInv, TypeOK, SigOK, SigType, HistOK, app, offer, hist, TimerEnds
    <2>6. PendingInv'
      <3>1. PendingFrame
        BY <1>5 DEF PendingFrame, OfferInbox, Used, Freed, Tasks, Nexts, IInv, TypeOK, TaskOK,
           HistOK, app, offer, hist, TimerEnds
      <3> QED BY <3>1, PendingKept
    <2> QED
      BY <2>1, <2>2, <2>3, <2>4, <2>5, <2>6 DEF IInv, TypeOK
  <1> QED
    BY <1>1, <1>2, <1>3, <1>4, <1>5 DEF call_timeout_task

\* The console.
LEMMA ConsoleStep ==
    ASSUME IInv, Console
    PROVE  IInv'
  <1>1. CASE Join
    <2>1. SigOK'
      <3>1. sg' = [NoSignaling EXCEPT !.init = TRUE]
        BY <1>1 DEF Join
      <3>2. sg' \in SigType
        BY <3>1, SigTypes DEF IInv, TypeOK
      <3>3. sg'.cands = <<>>
        BY <3>1 DEF NoSignaling
      <3> QED BY <3>2, <3>3, DoorbellAssumption DEF SigOK
    <2>2. RtcOK'
      BY <1>1 DEF IInv, TypeOK, RtcOK, RtcType, NetOK, app, Join
    <2>3. TaskOK'
      BY <1>1 DEF IInv, TypeOK, TaskOK, Tasks, Places, Nexts, app, offer, hist, Join, Goto,
         Issue, Idle, Input, PcTaskFree, NoSignaling
    <2>4. NetOK'
      BY <1>1, DoorbellAssumption DEF IInv, TypeOK, SigOK, SigType, NetOK, app, offer, hist,
         Join, Goto, Issue, Idle, Input, PcTaskFree, NoSignaling
    <2>5. HistOK'
      BY <1>1 DEF IInv, TypeOK, SigOK, SigType, HistOK, app, offer, hist, Join, Goto, Issue,
         Idle, Input, PcTaskFree, NoSignaling
    <2>6. PendingInv'
      <3>1. PendingFrame
        BY <1>1 DEF PendingFrame, OfferInbox, Used, Freed, Tasks, Nexts, IInv, TypeOK, TaskOK,
           HistOK, app, offer, hist, Join, Goto, Issue, Idle, Input, PcTaskFree, NoSignaling
      <3> QED BY <3>1, PendingKept
    <2> QED
      BY <2>1, <2>2, <2>3, <2>4, <2>5, <2>6 DEF IInv, TypeOK
  <1>2. CASE JoinReturns
    <2>1. SigOK'
      BY <1>2 DEF IInv, TypeOK, SigOK, SigType, app, offer, hist, JoinReturns, Goto
    <2>2. RtcOK'
      BY <1>2 DEF IInv, TypeOK, RtcOK, RtcType, app, offer, hist, JoinReturns, Goto
    <2>3. TaskOK'
      BY <1>2 DEF IInv, TypeOK, TaskOK, Tasks, Places, Nexts, app, offer, hist, JoinReturns,
         Goto
    <2>4. NetOK'
      BY <1>2, DoorbellAssumption DEF IInv, TypeOK, SigOK, SigType, NetOK, app, offer, hist,
         JoinReturns, Goto
    <2>5. HistOK'
      BY <1>2 DEF IInv, TypeOK, SigOK, SigType, HistOK, app, offer, hist, JoinReturns, Goto
    <2>6. PendingInv'
      <3>1. PendingFrame
        BY <1>2 DEF PendingFrame, OfferInbox, Used, Freed, Tasks, Nexts, IInv, TypeOK, TaskOK,
           HistOK, app, offer, hist, JoinReturns, Goto
      <3> QED BY <3>1, PendingKept
    <2> QED
      BY <2>1, <2>2, <2>3, <2>4, <2>5, <2>6 DEF IInv, TypeOK
  <1>3. CASE Ring
    <2>1. SigOK'
      BY <1>3 DEF IInv, TypeOK, SigOK, SigType, app, offer, hist, Ring, Issue, Idle, Input,
         StopTimer
    <2>2. RtcOK'
      BY <1>3 DEF IInv, TypeOK, RtcOK, RtcType, app, offer, hist, Ring, Issue, Idle, Input,
         StopTimer
    <2>3. TaskOK'
      BY <1>3 DEF IInv, TypeOK, TaskOK, Tasks, Places, Nexts, app, offer, hist, Ring, Issue,
         Idle, Input, StopTimer
    <2>4. NetOK'
      BY <1>3, DoorbellAssumption DEF IInv, TypeOK, SigOK, SigType, NetOK, app, offer, hist,
         Ring, Issue, Idle, Input, StopTimer
    <2>5. HistOK'
      BY <1>3 DEF IInv, TypeOK, SigOK, SigType, HistOK, app, offer, hist, Ring, Issue, Idle,
         Input, StopTimer
    <2>6. PendingInv'
      <3>1. PendingFrame
        BY <1>3 DEF PendingFrame, OfferInbox, Used, Freed, Tasks, Nexts, IInv, TypeOK, TaskOK,
           HistOK, app, offer, hist, SigOK, SigType, Ring, Issue, Idle, Input, StopTimer
      <3> QED BY <3>1, PendingKept
    <2> QED
      BY <2>1, <2>2, <2>3, <2>4, <2>5, <2>6 DEF IInv, TypeOK
  <1>4. CASE RingEnables
    <2>1. SigOK'
      BY <1>4 DEF IInv, TypeOK, SigOK, SigType, app, offer, hist, RingEnables, StopTimer
    <2>2. RtcOK'
      BY <1>4, WebrtcTypes DEF IInv, TypeOK, SigOK, SigType, RtcOK, RtcType, app, offer, hist,
         RingEnables
    <2>3. TaskOK'
      BY <1>4 DEF IInv, TypeOK, TaskOK, Tasks, Places, Nexts, app, offer, hist, RingEnables,
         StopTimer
    <2>4. NetOK'
      BY <1>4, DoorbellAssumption DEF IInv, TypeOK, SigOK, SigType, NetOK, app, offer, hist,
         RingEnables, StopTimer
    <2>5. HistOK'
      BY <1>4 DEF IInv, TypeOK, SigOK, SigType, HistOK, app, offer, hist, RingEnables,
         StopTimer
    <2>6. PendingInv'
      <3>1. PendingFrame
        BY <1>4 DEF PendingFrame, OfferInbox, Used, Freed, Tasks, Nexts, IInv, TypeOK, TaskOK,
           HistOK, app, offer, hist, RingEnables, StopTimer
      <3> QED BY <3>1, PendingKept
    <2> QED
      BY <2>1, <2>2, <2>3, <2>4, <2>5, <2>6 DEF IInv, TypeOK
  <1>5. CASE RingStartsTimer
    <2>1. SigOK'
      BY <1>5 DEF IInv, TypeOK, SigOK, SigType, app, offer, hist, RingStartsTimer, Goto
    <2>2. RtcOK'
      BY <1>5 DEF IInv, TypeOK, RtcOK, RtcType, app, offer, hist, RingStartsTimer, Goto
    <2>3. TaskOK'
      BY <1>5 DEF IInv, TypeOK, TaskOK, Tasks, Places, Nexts, app, offer, hist,
         RingStartsTimer, Goto
    <2>4. NetOK'
      BY <1>5, DoorbellAssumption DEF IInv, TypeOK, SigOK, SigType, NetOK, app, offer, hist,
         RingStartsTimer, Goto
    <2>5. HistOK'
      BY <1>5 DEF IInv, TypeOK, SigOK, SigType, HistOK, app, offer, hist, RingStartsTimer,
         Goto
    <2>6. PendingInv'
      <3>1. PendingFrame
        BY <1>5 DEF PendingFrame, OfferInbox, Used, Freed, Tasks, Nexts, IInv, TypeOK, TaskOK,
           HistOK, app, offer, hist, RingStartsTimer, Goto
      <3> QED BY <3>1, PendingKept
    <2> QED
      BY <2>1, <2>2, <2>3, <2>4, <2>5, <2>6 DEF IInv, TypeOK
  <1>6. CASE Answer
    <2>1. SigOK'
      BY <1>6 DEF IInv, TypeOK, SigOK, SigType, app, offer, hist, Answer, Goto, Issue, Idle,
         Input, StopTimer, Disabled
    <2>2. RtcOK'
      BY <1>6 DEF IInv, TypeOK, RtcOK, RtcType, app, offer, hist, Answer, Goto, Issue, Idle,
         Input, StopTimer, Disabled
    <2>3. TaskOK'
      BY <1>6 DEF IInv, TypeOK, TaskOK, Tasks, Places, Nexts, app, offer, hist, Answer, Goto,
         Issue, Idle, Input, StopTimer, Disabled
    <2>4. NetOK'
      BY <1>6, DoorbellAssumption DEF IInv, TypeOK, SigOK, SigType, NetOK, app, offer, hist,
         Answer, Goto, Issue, Idle, Input, StopTimer, Disabled
    <2>5. HistOK'
      BY <1>6 DEF IInv, TypeOK, SigOK, SigType, HistOK, app, offer, hist, Answer, Goto, Issue,
         Idle, Input, StopTimer, Disabled
    <2>6. PendingInv'
      <3>1. PendingFrame
        BY <1>6 DEF PendingFrame, OfferInbox, Used, Freed, Tasks, Nexts, IInv, TypeOK, TaskOK,
           HistOK, app, offer, hist, SigOK, SigType, Answer, Goto, Issue, Idle, Input,
           StopTimer, Disabled
      <3> QED BY <3>1, PendingKept
    <2> QED
      BY <2>1, <2>2, <2>3, <2>4, <2>5, <2>6 DEF IInv, TypeOK
  <1>7. CASE AnswerEnables
    <2>1. SigOK'
      BY <1>7 DEF IInv, TypeOK, SigOK, SigType, app, offer, hist, AnswerEnables, Goto
    <2>2. RtcOK'
      BY <1>7, WebrtcTypes DEF IInv, TypeOK, SigOK, SigType, RtcOK, RtcType, app, offer, hist,
         AnswerEnables
    <2>3. TaskOK'
      BY <1>7 DEF IInv, TypeOK, TaskOK, Tasks, Places, Nexts, app, offer, hist, AnswerEnables,
         Goto
    <2>4. NetOK'
      BY <1>7, DoorbellAssumption DEF IInv, TypeOK, SigOK, SigType, NetOK, app, offer, hist,
         AnswerEnables, Goto
    <2>5. HistOK'
      BY <1>7 DEF IInv, TypeOK, SigOK, SigType, HistOK, app, offer, hist, AnswerEnables, Goto
    <2>6. PendingInv'
      <3>1. PendingFrame
        BY <1>7 DEF PendingFrame, OfferInbox, Used, Freed, Tasks, Nexts, IInv, TypeOK, TaskOK,
           HistOK, app, offer, hist, AnswerEnables, Goto
      <3> QED BY <3>1, PendingKept
    <2> QED
      BY <2>1, <2>2, <2>3, <2>4, <2>5, <2>6 DEF IInv, TypeOK
  <1>8. CASE AnswerCopies
    <2>1. SigOK'
      BY <1>8 DEF IInv, TypeOK, SigOK, SigType, app, offer, hist, AnswerCopies, Goto
    <2>2. RtcOK'
      BY <1>8 DEF IInv, TypeOK, RtcOK, RtcType, app, offer, hist, AnswerCopies, Goto
    <2>3. TaskOK'
      BY <1>8 DEF IInv, TypeOK, TaskOK, Tasks, Places, Nexts, app, offer, hist, AnswerCopies,
         Goto
    <2>4. NetOK'
      BY <1>8, DoorbellAssumption DEF IInv, TypeOK, SigOK, SigType, NetOK, app, offer, hist,
         AnswerCopies, Goto
    <2>5. HistOK'
      BY <1>8 DEF IInv, TypeOK, SigOK, SigType, HistOK, app, offer, hist, AnswerCopies, Goto
    <2>6. PendingInv'
      <3>1. PendingFrame
        BY <1>8 DEF PendingFrame, OfferInbox, Used, Freed, Tasks, Nexts, IInv, TypeOK, TaskOK,
           HistOK, app, offer, hist, AnswerCopies, Goto
      <3> QED BY <3>1, PendingKept
    <2> QED
      BY <2>1, <2>2, <2>3, <2>4, <2>5, <2>6 DEF IInv, TypeOK
  <1>9. CASE AnswerGivesSdp
    <2>1. SigOK'
      BY <1>9 DEF IInv, TypeOK, SigOK, SigType, app, offer, hist, AnswerGivesSdp, Goto
    <2>2. RtcOK'
      BY <1>9 DEF IInv, TypeOK, RtcOK, RtcType, app, offer, hist, AnswerGivesSdp, Goto
    <2>3. TaskOK'
      BY <1>9 DEF IInv, TypeOK, TaskOK, Tasks, Places, Nexts, app, offer, hist,
         AnswerGivesSdp, Goto
    <2>4. NetOK'
      BY <1>9, DoorbellAssumption DEF IInv, TypeOK, SigOK, SigType, NetOK, app, offer, hist,
         AnswerGivesSdp, Goto
    <2>5. HistOK'
      BY <1>9 DEF IInv, TypeOK, SigOK, SigType, HistOK, app, offer, hist, AnswerGivesSdp, Goto
    <2>6. PendingInv'
      <3>1. PendingFrame
        BY <1>9 DEF PendingFrame, OfferInbox, Used, Freed, Tasks, Nexts, IInv, TypeOK, TaskOK,
           HistOK, app, offer, hist, AnswerGivesSdp, Goto
      <3> QED BY <3>1, PendingKept
    <2> QED
      BY <2>1, <2>2, <2>3, <2>4, <2>5, <2>6 DEF IInv, TypeOK
  <1>10. CASE AnswerPanics
    BY <1>10, PanicStep DEF AnswerPanics
  <1>11. CASE AnswerGivesCandidate
    <2>1. SigOK'
      <3>1. sg' = IF sg.cands # <<>> THEN [sg EXCEPT !.cands = Tail(@)] ELSE sg
        BY <1>11 DEF AnswerGivesCandidate
      <3>2. sg \in SigType
        BY DEF IInv, TypeOK, SigOK
      <3>3. Len(sg.cands) \in Nat
        BY <3>2, LenProperties DEF SigType
      <3> QED BY <3>1, <3>2, <3>3, TailTypes, DoorbellAssumption DEF IInv, TypeOK, SigOK
    <2>2. RtcOK'
      BY <1>11 DEF IInv, TypeOK, RtcOK, RtcType, app, offer, hist, AnswerGivesCandidate, Goto,
         SignalConnected, NewConnection
    <2>3. TaskOK'
      BY <1>11 DEF IInv, TypeOK, TaskOK, Tasks, Places, Nexts, app, offer, hist,
         AnswerGivesCandidate, Goto, SignalConnected, NewConnection
    <2>4. NetOK'
      BY <1>11, DoorbellAssumption DEF IInv, TypeOK, SigOK, SigType, NetOK, app, offer, hist,
         AnswerGivesCandidate, Goto, SignalConnected, NewConnection
    <2>5. HistOK'
      BY <1>11 DEF IInv, TypeOK, SigOK, SigType, HistOK, app, offer, hist,
         AnswerGivesCandidate, Goto, SignalConnected, NewConnection
    <2>6. PendingInv'
      <3>1. PendingFrame
        BY <1>11 DEF PendingFrame, OfferInbox, Used, Freed, Tasks, Nexts, IInv, TypeOK,
           TaskOK, HistOK, app, offer, hist, SigOK, SigType, AnswerGivesCandidate, Goto,
           SignalConnected, NewConnection
      <3> QED BY <3>1, PendingKept
    <2> QED
      BY <2>1, <2>2, <2>3, <2>4, <2>5, <2>6 DEF IInv, TypeOK
  <1>12. CASE AnswerFrees
    <2>1. SigOK'
      <3>1. FreePending("con")
        BY <1>12 DEF AnswerFrees
      <3> QED BY <3>1, FreeTypes DEF Tasks
    <2>2. RtcOK'
      BY <1>12 DEF IInv, TypeOK, RtcOK, RtcType, app, offer, hist, AnswerFrees, Goto
    <2>3. TaskOK'
      BY <1>12 DEF IInv, TypeOK, TaskOK, Tasks, Places, Nexts, app, offer, hist, AnswerFrees,
         Goto
    <2>4. NetOK'
      BY <1>12, DoorbellAssumption DEF IInv, TypeOK, SigOK, SigType, NetOK, app, offer, hist,
         AnswerFrees, Goto
    <2>5. HistOK'
      <3>1. FreePending("con")
        BY <1>12 DEF AnswerFrees
      <3> QED BY <1>12, <3>1, FreeTypes DEF Tasks, IInv, TypeOK, HistOK, hist, AnswerFrees
    <2>6. PendingInv'
      <3>1. FreePending("con")
        BY <1>12 DEF AnswerFrees
      <3>2. PendingFrame
        <4>1. sg'.sdp = sg.sdp /\ sg'.open = sg.open /\ Freed' \subseteq Used \cup {None}
          BY <3>1, FreeTypes DEF Tasks
        <4> QED BY <1>12, <4>1 DEF PendingFrame, OfferInbox, Used, Tasks, IInv, TypeOK,
             TaskOK, hist,
               AnswerFrees, Goto
      <3> QED BY <3>2, PendingKept
    <2> QED
      BY <2>1, <2>2, <2>3, <2>4, <2>5, <2>6 DEF IInv, TypeOK
  <1>13. CASE AnswerEnds
    <2>1. SigOK'
      BY <1>13 DEF IInv, TypeOK, SigOK, SigType, app, offer, hist, AnswerEnds, StopTimer
    <2>2. RtcOK'
      BY <1>13 DEF IInv, TypeOK, RtcOK, RtcType, app, offer, hist, AnswerEnds, StopTimer
    <2>3. TaskOK'
      BY <1>13 DEF IInv, TypeOK, TaskOK, Tasks, Places, Nexts, app, offer, hist, AnswerEnds,
         StopTimer
    <2>4. NetOK'
      BY <1>13, DoorbellAssumption DEF IInv, TypeOK, SigOK, SigType, NetOK, app, offer, hist,
         AnswerEnds, StopTimer
    <2>5. HistOK'
      BY <1>13 DEF IInv, TypeOK, SigOK, SigType, HistOK, app, offer, hist, AnswerEnds,
         StopTimer
    <2>6. PendingInv'
      <3>1. PendingFrame
        BY <1>13 DEF PendingFrame, OfferInbox, Used, Freed, Tasks, Nexts, IInv, TypeOK,
           TaskOK, HistOK, app, offer, hist, AnswerEnds, StopTimer
      <3> QED BY <3>1, PendingKept
    <2> QED
      BY <2>1, <2>2, <2>3, <2>4, <2>5, <2>6 DEF IInv, TypeOK
  <1>14. CASE Reject
    <2>1. SigOK'
      <3>1. FreePending("con")
        BY <1>14 DEF Reject
      <3> QED BY <3>1, FreeTypes DEF Tasks
    <2>2. RtcOK'
      BY <1>14 DEF IInv, TypeOK, RtcOK, RtcType, app, offer, hist, Reject, Goto, Issue, Idle,
         Input
    <2>3. TaskOK'
      BY <1>14 DEF IInv, TypeOK, TaskOK, Tasks, Places, Nexts, app, offer, hist, Reject, Goto,
         Issue, Idle, Input
    <2>4. NetOK'
      BY <1>14, DoorbellAssumption DEF IInv, TypeOK, SigOK, SigType, NetOK, app, offer, hist,
         Reject, Goto, Issue, Idle, Input
    <2>5. HistOK'
      <3>1. FreePending("con")
        BY <1>14 DEF Reject
      <3> QED BY <1>14, <3>1, FreeTypes DEF Tasks, IInv, TypeOK, HistOK, hist, Reject
    <2>6. PendingInv'
      <3>1. FreePending("con")
        BY <1>14 DEF Reject
      <3>2. PendingFrame
        <4>1. sg'.sdp = sg.sdp /\ sg'.open = sg.open /\ Freed' \subseteq Used \cup {None}
          BY <3>1, FreeTypes DEF Tasks
        <4> QED BY <1>14, <4>1 DEF PendingFrame, OfferInbox, Used, Tasks, IInv, TypeOK,
             TaskOK, hist,
               Reject, Goto, Issue, Idle, Input
      <3> QED BY <3>2, PendingKept
    <2> QED
      BY <2>1, <2>2, <2>3, <2>4, <2>5, <2>6 DEF IInv, TypeOK
  <1>15. CASE Close
    <2>1. SigOK'
      <3>1. FreePending("con")
        BY <1>15 DEF Close
      <3> QED BY <3>1, FreeTypes DEF Tasks
    <2>2. RtcOK'
      BY <1>15 DEF IInv, TypeOK, RtcOK, RtcType, app, offer, hist, Close, Goto, Issue, Idle,
         Input
    <2>3. TaskOK'
      BY <1>15 DEF IInv, TypeOK, TaskOK, Tasks, Places, Nexts, app, offer, hist, Close, Goto,
         Issue, Idle, Input
    <2>4. NetOK'
      BY <1>15, DoorbellAssumption DEF IInv, TypeOK, SigOK, SigType, NetOK, app, offer, hist,
         Close, Goto, Issue, Idle, Input
    <2>5. HistOK'
      <3>1. FreePending("con")
        BY <1>15 DEF Close
      <3> QED BY <1>15, <3>1, FreeTypes DEF Tasks, IInv, TypeOK, HistOK, hist, Close
    <2>6. PendingInv'
      <3>1. FreePending("con")
        BY <1>15 DEF Close
      <3>2. PendingFrame
        <4>1. sg'.sdp = sg.sdp /\ sg'.open = sg.open /\ Freed' \subseteq Used \cup {None}
          BY <3>1, FreeTypes DEF Tasks
        <4> QED BY <1>15, <4>1 DEF PendingFrame, OfferInbox, Used, Tasks, IInv, TypeOK,
             TaskOK, hist,
               Close, Goto, Issue, Idle, Input
      <3> QED BY <3>2, PendingKept
    <2> QED
      BY <2>1, <2>2, <2>3, <2>4, <2>5, <2>6 DEF IInv, TypeOK
  <1>16. CASE TurnDownEnds
    <2>1. SigOK'
      <3>1. TurnDown("con")
        BY <1>16 DEF TurnDownEnds
      <3> QED BY <3>1, TurnDownTypes DEF Tasks
    <2>2. RtcOK'
      BY <1>16 DEF IInv, TypeOK, RtcOK, RtcType, app, offer, hist, TurnDownEnds, StopTimer
    <2>3. TaskOK'
      BY <1>16 DEF IInv, TypeOK, TaskOK, Tasks, Places, Nexts, app, offer, hist, TurnDownEnds,
         StopTimer
    <2>4. NetOK'
      BY <1>16, DoorbellAssumption DEF IInv, TypeOK, SigOK, SigType, NetOK, app, offer, hist,
         TurnDownEnds, StopTimer
    <2>5. HistOK'
      <3>1. TurnDown("con")
        BY <1>16 DEF TurnDownEnds
      <3>2. /\ freed' \in [Tasks \cup Timers -> Offers \cup {None}]
            /\ withdrawn' \subseteq Offers
        BY <3>1, TurnDownTypes DEF Tasks
      <3> QED BY <1>16, <3>2 DEF IInv, TypeOK, HistOK, TurnDownEnds
    <2>6. PendingInv'
      <3>1. TurnDown("con")
        BY <1>16 DEF TurnDownEnds
      <3>2. PendingFrame
        <4>1. /\ \/ sg'.sdp = None
                 \/ withdrawn' = withdrawn /\ sg'.sdp = sg.sdp /\ (sg.open => sg'.open)
              /\ withdrawn' \cup Freed' \subseteq Used \cup {None}
          BY <3>1, TurnDownTypes DEF Tasks
        <4> QED BY <1>16, <4>1 DEF PendingFrame, OfferInbox, Tasks, Nexts, IInv, TypeOK,
             TaskOK, TurnDownEnds, StopTimer
      <3> QED BY <3>2, PendingKept
    <2> QED
      BY <2>1, <2>2, <2>3, <2>4, <2>5, <2>6 DEF IInv, TypeOK
  <1>17. CASE RejectEnds
    <2>1. SigOK'
      BY <1>17 DEF IInv, TypeOK, SigOK, SigType, app, offer, hist, RejectEnds, Goto
    <2>2. RtcOK'
      BY <1>17 DEF IInv, TypeOK, RtcOK, RtcType, app, offer, hist, RejectEnds, Goto
    <2>3. TaskOK'
      BY <1>17 DEF IInv, TypeOK, TaskOK, Tasks, Places, Nexts, app, offer, hist, RejectEnds,
         Goto
    <2>4. NetOK'
      BY <1>17, DoorbellAssumption DEF IInv, TypeOK, SigOK, SigType, NetOK, app, offer, hist,
         RejectEnds, Goto
    <2>5. HistOK'
      BY <1>17 DEF IInv, TypeOK, SigOK, SigType, HistOK, app, offer, hist, RejectEnds, Goto
    <2>6. PendingInv'
      <3>1. PendingFrame
        BY <1>17 DEF PendingFrame, OfferInbox, Used, Freed, Tasks, Nexts, IInv, TypeOK,
           TaskOK, HistOK, app, offer, hist, RejectEnds, Goto
      <3> QED BY <3>1, PendingKept
    <2> QED
      BY <2>1, <2>2, <2>3, <2>4, <2>5, <2>6 DEF IInv, TypeOK
  <1>18. CASE CloseEnds
    <2>1. SigOK'
      <3>1. sg' = IF rtc.open THEN [NoSignaling EXCEPT !.init = sg.init] ELSE sg
        BY <1>18 DEF CloseEnds, mqtt_signal_stop
      <3>2. sg.init \in BOOLEAN
        BY DEF IInv, TypeOK, SigOK, SigType
      <3>3. [NoSignaling EXCEPT !.init = sg.init] \in SigType
        BY <3>2, SigTypes DEF IInv, TypeOK
      <3>4. [NoSignaling EXCEPT !.init = sg.init].cands = <<>>
        BY DEF NoSignaling
      <3> QED BY <3>1, <3>3, <3>4, DoorbellAssumption DEF IInv, TypeOK, SigOK
    <2>2. RtcOK'
      <3>1. rtc' = (IF rtc.open THEN Closed(rtc) ELSE rtc) /\ state' = "NONE"
        BY <1>18 DEF CloseEnds, app
      <3> QED BY <3>1, ClosedType DEF IInv, TypeOK, RtcOK
    <2>3. TaskOK'
      BY <1>18 DEF IInv, TypeOK, TaskOK, Tasks, Places, Nexts, app, offer, hist, CloseEnds,
         Goto, mqtt_signal_stop, NoSignaling
    <2>4. NetOK'
      BY <1>18, DoorbellAssumption DEF IInv, TypeOK, SigOK, SigType, NetOK, app, offer, hist,
         CloseEnds, Goto, mqtt_signal_stop, NoSignaling
    <2>5. HistOK'
      BY <1>18 DEF IInv, TypeOK, SigOK, SigType, HistOK, app, offer, hist, CloseEnds, Goto,
         mqtt_signal_stop, NoSignaling
    <2>6. PendingInv'
      <3>1. PendingFrame
        BY <1>18 DEF PendingFrame, OfferInbox, Used, Freed, Tasks, Nexts, IInv, TypeOK,
           TaskOK, HistOK, app, offer, hist, CloseEnds, Goto, mqtt_signal_stop, NoSignaling
      <3> QED BY <3>1, PendingKept
    <2> QED
      BY <2>1, <2>2, <2>3, <2>4, <2>5, <2>6 DEF IInv, TypeOK
  <1> QED
    BY <1>1, <1>2, <1>3, <1>4, <1>5, <1>6, <1>7, <1>8, <1>9, <1>10, <1>11, <1>12, <1>13,
       <1>14, <1>15, <1>16, <1>17, <1>18 DEF Console

\* A leave frees the signaling with what it has pending.
LEMMA LeaveStep ==
    ASSUME IInv, Leave \/ LeaveEnds
    PROVE  IInv'
  <1>1. CASE Leave
    <2>1. SigOK'
      BY <1>1 DEF IInv, TypeOK, SigOK, SigType, app, offer, hist, Leave, Goto, Input, Idle
    <2>2. RtcOK'
      BY <1>1 DEF IInv, TypeOK, RtcOK, RtcType, app, offer, hist, Leave, Goto, Input, Idle
    <2>3. TaskOK'
      BY <1>1 DEF IInv, TypeOK, TaskOK, Tasks, Places, Nexts, app, offer, hist, Leave, Goto,
         Input, Idle
    <2>4. NetOK'
      BY <1>1, DoorbellAssumption DEF IInv, TypeOK, SigOK, SigType, NetOK, app, offer, hist,
         Leave, Goto, Input, Idle
    <2>5. HistOK'
      BY <1>1 DEF IInv, TypeOK, SigOK, SigType, HistOK, app, offer, hist, Leave, Goto, Input,
         Idle
    <2>6. PendingInv'
      <3>1. PendingFrame
        BY <1>1 DEF PendingFrame, OfferInbox, Used, Freed, Tasks, Nexts, IInv, TypeOK, TaskOK,
           HistOK, app, offer, hist, Leave, Goto, Input, Idle
      <3> QED BY <3>1, PendingKept
    <2> QED
      BY <2>1, <2>2, <2>3, <2>4, <2>5, <2>6 DEF IInv, TypeOK
  <1>2. CASE LeaveEnds
    <2>1. SigOK'
      <3>1. sg' = [NoSignaling EXCEPT !.init = sg.init]
        BY <1>2 DEF LeaveEnds, mqtt_signal_stop
      <3>2. sg.init \in BOOLEAN
        BY DEF IInv, TypeOK, SigOK, SigType
      <3>3. [NoSignaling EXCEPT !.init = sg.init] \in SigType
        BY <3>2, SigTypes DEF IInv, TypeOK
      <3>4. [NoSignaling EXCEPT !.init = sg.init].cands = <<>>
        BY DEF NoSignaling
      <3> QED BY <3>1, <3>3, <3>4, DoorbellAssumption DEF IInv, TypeOK, SigOK
    <2>2. RtcOK'
      <3>1. rtc' = Closed(rtc) /\ state' = state
        BY <1>2 DEF LeaveEnds, app
      <3> QED BY <3>1, ClosedType DEF IInv, TypeOK, RtcOK
    <2>3. TaskOK'
      BY <1>2 DEF IInv, TypeOK, TaskOK, Tasks, Places, Nexts, app, offer, hist, LeaveEnds,
         Goto, Closed, Disabled, mqtt_signal_stop, NoSignaling
    <2>4. NetOK'
      BY <1>2, DoorbellAssumption DEF IInv, TypeOK, SigOK, SigType, NetOK, app, offer, hist,
         LeaveEnds, Goto, Closed, Disabled, mqtt_signal_stop, NoSignaling
    <2>5. HistOK'
      BY <1>2 DEF IInv, TypeOK, SigOK, SigType, HistOK, app, offer, hist, LeaveEnds, Goto,
         Closed, Disabled, mqtt_signal_stop, NoSignaling
    <2>6. PendingInv'
      <3>1. PendingFrame
        BY <1>2 DEF PendingFrame, OfferInbox, Used, Freed, Tasks, Nexts, IInv, TypeOK, TaskOK,
           HistOK, app, offer, hist, LeaveEnds, Goto, Closed, Disabled, mqtt_signal_stop,
           NoSignaling
      <3> QED BY <3>1, PendingKept
    <2> QED
      BY <2>1, <2>2, <2>3, <2>4, <2>5, <2>6 DEF IInv, TypeOK
  <1> QED
    BY <1>1, <1>2

\* mqtt_message_handler: a new offer takes the place of the pending one.
LEMMA MessageStep ==
    ASSUME IInv, mqtt_message_handler
    PROVE  IInv'
  <1>1. CASE ReceiveOffer
    <2>1. SigOK'
      <3>1. (sg.dangling \/ Found # None) \in BOOLEAN
        OBVIOUS
      <3>2. sg' \in {sg, [sg EXCEPT !.init = FALSE, !.dangling = sg.dangling \/ Found # None]}
        BY <1>1 DEF ReceiveOffer
      <3> QED BY <3>1, <3>2 DEF IInv, TypeOK, SigOK, SigType
    <2>2. RtcOK'
      BY <1>1 DEF IInv, TypeOK, RtcOK, RtcType, app, offer, hist, ReceiveOffer, Goto, Idle
    <2>3. TaskOK'
      BY <1>1 DEF IInv, TypeOK, TaskOK, Tasks, Places, Nexts, app, offer, hist, ReceiveOffer,
         Goto, Idle
    <2>4. NetOK'
      BY <1>1, DoorbellAssumption DEF IInv, TypeOK, SigOK, SigType, NetOK, app, offer, hist,
         ReceiveOffer, Goto, Idle
    <2>5. HistOK'
      <3>1. Found \in Offers \cup {None}
        BY DEF IInv, TypeOK, SigOK, SigType, Found
      <3> QED BY <1>1, <3>1 DEF IInv, TypeOK, HistOK, ReceiveOffer, offer, hist
    <2>6. PendingInv'
      <3>1. PICK o \in Offers : ReceiveOffer!(o)
        BY <1>1 DEF ReceiveOffer
      <3>2. CASE sg.open
        <4>1. sg'.sdp = sg.sdp /\ sg'.open = sg.open
          BY <3>1, <3>2 DEF IInv, TypeOK, SigOK, SigType
        <4>2. OfferInbox' = OfferInbox \ {o} /\ o \in OfferInbox
          BY <3>1 DEF OfferInbox
        <4>3. text'.msg = o /\ Storing' \subseteq {o}
          BY <3>1, <3>2 DEF IInv, TypeOK, HistOK, Storing
        <4>4. Freed' \subseteq Freed \cup {sg.sdp}
          BY <3>1, <3>2 DEF IInv, TypeOK, HistOK, Freed, Found
        <4>5. withdrawn' = withdrawn /\ newest' = newest /\ sent' = sent
          BY <3>1 DEF hist
        <4> QED BY <3>2, <4>1, <4>2, <4>3, <4>4, <4>5 DEF IInv, PendingInv, Used
      <3>3. CASE ~sg.open
        <4>1. PendingFrame
          BY <3>1, <3>3 DEF PendingFrame, OfferInbox, Used, Freed, hist, offer
        <4> QED BY <4>1, PendingKept
      <3> QED BY <3>2, <3>3
    <2> QED
      BY <2>1, <2>2, <2>3, <2>4, <2>5, <2>6 DEF IInv, TypeOK
  <1>2. CASE StoreOffer
    <2>1. SigOK'
      <3>1. text.msg \in Offers
        BY <1>2 DEF StoreOffer, IInv, PendingInv
      <3>2. sg' = IF sg.open THEN [sg EXCEPT !.sdp = text.msg, !.dangling = FALSE, !.waiting = TRUE,
                                             !.cands = <<>>] ELSE sg
        BY <1>2 DEF StoreOffer
      <3>3. sg' \in SigType
        BY <3>1, <3>2, SigTypes DEF IInv, TypeOK, SigOK
      <3>4. sg'.cands = sg.cands \/ sg'.cands = <<>>
        BY <3>2 DEF IInv, TypeOK, SigOK, SigType
      <3> QED BY <3>3, <3>4, DoorbellAssumption DEF IInv, TypeOK, SigOK
    <2>2. RtcOK'
      BY <1>2 DEF IInv, TypeOK, RtcOK, RtcType, app, offer, hist, StoreOffer, Goto
    <2>3. TaskOK'
      BY <1>2 DEF IInv, TypeOK, TaskOK, Tasks, Places, Nexts, app, offer, hist, StoreOffer,
         Goto
    <2>4. NetOK'
      BY <1>2, DoorbellAssumption DEF IInv, TypeOK, SigOK, SigType, NetOK, app, offer, hist,
         StoreOffer, Goto
    <2>5. HistOK'
      BY <1>2 DEF IInv, TypeOK, SigOK, SigType, HistOK, app, offer, hist, StoreOffer, Goto
    <2>6. PendingInv'
      <3>1. text.msg \in Offers \ OfferInbox /\ at["msg"] = "store" /\ text.msg \in Storing
        BY <1>2 DEF StoreOffer, IInv, PendingInv, Storing
      <3>2. /\ sg'.open = sg.open /\ withdrawn' = withdrawn /\ sent' = sent
            /\ sg'.sdp = (IF sg.open THEN text.msg ELSE sg.sdp)
            /\ newest' = (IF sg.open THEN text.msg ELSE newest)
        BY <1>2 DEF StoreOffer, IInv, TypeOK, SigOK, SigType
      <3>3. at'["msg"] # "store" /\ OfferInbox' = OfferInbox /\ Storing' = {}
        BY <1>2 DEF StoreOffer, Goto, IInv, TypeOK, TaskOK, Tasks, OfferInbox, Storing
      <3>4. Freed' \subseteq Freed \cup {None}
        BY <1>2 DEF StoreOffer, Freed, IInv, TypeOK, HistOK
      <3>5. text.msg \notin Used /\ text.msg \in sent /\ None \notin OfferInbox
        BY <3>1, DoorbellAssumption DEF IInv, PendingInv, OfferInbox
      <3> QED BY <3>1, <3>2, <3>3, <3>4, <3>5 DEF IInv, PendingInv, Used
    <2> QED
      BY <2>1, <2>2, <2>3, <2>4, <2>5, <2>6 DEF IInv, TypeOK
  <1>3. CASE ReceiveCandidate
    <2>1. SigOK'
      <3>1. PICK o \in Offers : sg' = IF sg.open /\ sg.waiting /\ Len(sg.cands) < MaxPending
                                       THEN CandidateIn(o) ELSE sg
        BY <1>3 DEF ReceiveCandidate, CandidateIn
      <3>2. sg \in SigType
        BY DEF IInv, TypeOK, SigOK
      <3>3. Len(sg.cands) \in Nat
        BY <3>2, LenProperties DEF SigType
      <3> QED BY <3>1, <3>2, <3>3, CandidateTypes, DoorbellAssumption DEF IInv, TypeOK, SigOK
    <2>2. RtcOK'
      BY <1>3 DEF IInv, TypeOK, RtcOK, RtcType, app, offer, hist, ReceiveCandidate
    <2>3. TaskOK'
      BY <1>3 DEF IInv, TypeOK, TaskOK, Tasks, Places, Nexts, app, offer, hist,
         ReceiveCandidate
    <2>4. NetOK'
      BY <1>3, DoorbellAssumption DEF IInv, TypeOK, SigOK, SigType, NetOK, app, offer, hist,
         ReceiveCandidate
    <2>5. HistOK'
      BY <1>3 DEF IInv, TypeOK, SigOK, SigType, HistOK, app, offer, hist, ReceiveCandidate
    <2>6. PendingInv'
      <3>1. PendingFrame
        BY <1>3 DEF PendingFrame, OfferInbox, Used, Freed, Tasks, Nexts, IInv, TypeOK, TaskOK,
           HistOK, app, offer, hist, ReceiveCandidate
      <3> QED BY <3>1, PendingKept
    <2> QED
      BY <2>1, <2>2, <2>3, <2>4, <2>5, <2>6 DEF IInv, TypeOK
  <1>4. CASE ReceiveAnswer
    <2>1. SigOK'
      BY <1>4 DEF IInv, TypeOK, SigOK, SigType, app, offer, hist, ReceiveAnswer, Take
    <2>2. RtcOK'
      BY <1>4 DEF IInv, TypeOK, RtcOK, RtcType, app, offer, hist, ReceiveAnswer, Take
    <2>3. TaskOK'
      BY <1>4 DEF IInv, TypeOK, TaskOK, Tasks, Places, Nexts, app, offer, hist, ReceiveAnswer,
         Take
    <2>4. NetOK'
      BY <1>4, DoorbellAssumption DEF IInv, TypeOK, SigOK, SigType, NetOK, app, offer, hist,
         ReceiveAnswer, Take
    <2>5. HistOK'
      BY <1>4 DEF IInv, TypeOK, SigOK, SigType, HistOK, app, offer, hist, ReceiveAnswer, Take
    <2>6. PendingInv'
      <3>1. PendingFrame
        BY <1>4 DEF PendingFrame, OfferInbox, Used, Freed, Tasks, Nexts, IInv, TypeOK, TaskOK,
           HistOK, app, offer, hist, ReceiveAnswer, Take
      <3> QED BY <3>1, PendingKept
    <2> QED
      BY <2>1, <2>2, <2>3, <2>4, <2>5, <2>6 DEF IInv, TypeOK
  <1>5. CASE ReceiveIce
    <2>1. SigOK'
      BY <1>5 DEF IInv, TypeOK, SigOK, SigType, app, offer, hist, ReceiveIce, Take
    <2>2. RtcOK'
      BY <1>5, WebrtcTypes DEF IInv, TypeOK, SigOK, SigType, RtcOK, RtcType, app, offer, hist,
         Take, ReceiveIce
    <2>3. TaskOK'
      BY <1>5 DEF IInv, TypeOK, TaskOK, Tasks, Places, Nexts, app, offer, hist, ReceiveIce,
         Take
    <2>4. NetOK'
      BY <1>5, DoorbellAssumption DEF IInv, TypeOK, SigOK, SigType, NetOK, app, offer, hist,
         ReceiveIce, Take
    <2>5. HistOK'
      BY <1>5 DEF IInv, TypeOK, SigOK, SigType, HistOK, app, offer, hist, ReceiveIce, Take
    <2>6. PendingInv'
      <3>1. PendingFrame
        BY <1>5 DEF PendingFrame, OfferInbox, Used, Freed, Tasks, Nexts, IInv, TypeOK, TaskOK,
           HistOK, app, offer, hist, SigOK, SigType, ReceiveIce, Take
      <3> QED BY <3>1, PendingKept
    <2> QED
      BY <2>1, <2>2, <2>3, <2>4, <2>5, <2>6 DEF IInv, TypeOK
  <1>6. CASE ReceiveBye
    <2>1. SigOK'
      BY <1>6 DEF IInv, TypeOK, SigOK, SigType, app, offer, hist, ReceiveBye, Take, Bye
    <2>2. RtcOK'
      BY <1>6 DEF IInv, TypeOK, RtcOK, RtcType, app, offer, hist, ReceiveBye, Take, Bye
    <2>3. TaskOK'
      BY <1>6 DEF IInv, TypeOK, TaskOK, Tasks, Places, Nexts, app, offer, hist, ReceiveBye,
         Take, Bye
    <2>4. NetOK'
      BY <1>6, DoorbellAssumption DEF IInv, TypeOK, SigOK, SigType, NetOK, app, offer, hist,
         ReceiveBye, Take, Bye
    <2>5. HistOK'
      BY <1>6 DEF IInv, TypeOK, SigOK, SigType, HistOK, app, offer, hist, ReceiveBye, Take,
         Bye
    <2>6. PendingInv'
      <3>1. PendingFrame
        BY <1>6 DEF PendingFrame, OfferInbox, Used, Freed, Tasks, Nexts, IInv, TypeOK, TaskOK,
           HistOK, app, offer, hist, ReceiveBye, Take, Bye
      <3> QED BY <3>1, PendingKept
    <2> QED
      BY <2>1, <2>2, <2>3, <2>4, <2>5, <2>6 DEF IInv, TypeOK
  <1>7. CASE ReceiveRing
    <2>1. SigOK'
      BY <1>7 DEF IInv, TypeOK, SigOK, SigType, app, offer, hist, ReceiveRing, Take
    <2>2. RtcOK'
      BY <1>7, WebrtcTypes DEF IInv, TypeOK, RtcOK, ReceiveRing
    <2>3. TaskOK'
      BY <1>7 DEF IInv, TypeOK, TaskOK, Tasks, Places, Nexts, app, offer, hist, ReceiveRing,
         Take
    <2>4. NetOK'
      BY <1>7, DoorbellAssumption DEF IInv, TypeOK, SigOK, SigType, NetOK, app, offer, hist,
         ReceiveRing, Take
    <2>5. HistOK'
      BY <1>7 DEF IInv, TypeOK, SigOK, SigType, HistOK, app, offer, hist, ReceiveRing, Take
    <2>6. PendingInv'
      <3>1. PendingFrame
        BY <1>7 DEF PendingFrame, OfferInbox, Used, Freed, Tasks, Nexts, IInv, TypeOK, TaskOK,
           HistOK, app, offer, hist, ReceiveRing, Take
      <3> QED BY <3>1, PendingKept
    <2> QED
      BY <2>1, <2>2, <2>3, <2>4, <2>5, <2>6 DEF IInv, TypeOK
  <1>8. CASE ReceiveAccept
    <2>1. SigOK'
      BY <1>8 DEF IInv, TypeOK, SigOK, SigType, app, offer, hist, ReceiveAccept, Take,
         StopTimer
    <2>2. RtcOK'
      BY <1>8 DEF IInv, TypeOK, RtcOK, RtcType, app, offer, hist, ReceiveAccept, Take,
         StopTimer
    <2>3. TaskOK'
      BY <1>8 DEF IInv, TypeOK, TaskOK, Tasks, Places, Nexts, app, offer, hist, ReceiveAccept,
         Take, StopTimer
    <2>4. NetOK'
      BY <1>8, DoorbellAssumption DEF IInv, TypeOK, SigOK, SigType, NetOK, app, offer, hist,
         ReceiveAccept, Take, StopTimer
    <2>5. HistOK'
      BY <1>8 DEF IInv, TypeOK, SigOK, SigType, HistOK, app, offer, hist, ReceiveAccept, Take,
         StopTimer
    <2>6. PendingInv'
      <3>1. PendingFrame
        BY <1>8 DEF PendingFrame, OfferInbox, Used, Freed, Tasks, Nexts, IInv, TypeOK, TaskOK,
           HistOK, app, offer, hist, ReceiveAccept, Take, StopTimer
      <3> QED BY <3>1, PendingKept
    <2> QED
      BY <2>1, <2>2, <2>3, <2>4, <2>5, <2>6 DEF IInv, TypeOK
  <1>9. CASE ReceiveDeny
    <2>1. SigOK'
      BY <1>9 DEF IInv, TypeOK, SigOK, SigType, app, offer, hist, ReceiveDeny, Take, StopTimer
    <2>2. RtcOK'
      BY <1>9 DEF IInv, TypeOK, RtcOK, RtcType, app, offer, hist, ReceiveDeny, Take, StopTimer
    <2>3. TaskOK'
      BY <1>9 DEF IInv, TypeOK, TaskOK, Tasks, Places, Nexts, app, offer, hist, ReceiveDeny,
         Take, StopTimer
    <2>4. NetOK'
      BY <1>9, DoorbellAssumption DEF IInv, TypeOK, SigOK, SigType, NetOK, app, offer, hist,
         ReceiveDeny, Take, StopTimer
    <2>5. HistOK'
      BY <1>9 DEF IInv, TypeOK, SigOK, SigType, HistOK, app, offer, hist, ReceiveDeny, Take,
         StopTimer
    <2>6. PendingInv'
      <3>1. PendingFrame
        BY <1>9 DEF PendingFrame, OfferInbox, Used, Freed, Tasks, Nexts, IInv, TypeOK, TaskOK,
           HistOK, app, offer, hist, ReceiveDeny, Take, StopTimer
      <3> QED BY <3>1, PendingKept
    <2> QED
      BY <2>1, <2>2, <2>3, <2>4, <2>5, <2>6 DEF IInv, TypeOK
  <1>10. CASE AcceptEnds
    <2>1. SigOK'
      BY <1>10 DEF IInv, TypeOK, SigOK, SigType, app, offer, hist, AcceptEnds, Goto
    <2>2. RtcOK'
      BY <1>10, WebrtcTypes DEF IInv, TypeOK, SigOK, SigType, RtcOK, RtcType, app, offer,
         hist, AcceptEnds
    <2>3. TaskOK'
      BY <1>10 DEF IInv, TypeOK, TaskOK, Tasks, Places, Nexts, app, offer, hist, AcceptEnds,
         Goto
    <2>4. NetOK'
      BY <1>10, DoorbellAssumption DEF IInv, TypeOK, SigOK, SigType, NetOK, app, offer, hist,
         AcceptEnds, Goto
    <2>5. HistOK'
      BY <1>10 DEF IInv, TypeOK, SigOK, SigType, HistOK, app, offer, hist, AcceptEnds, Goto
    <2>6. PendingInv'
      <3>1. PendingFrame
        BY <1>10 DEF PendingFrame, OfferInbox, Used, Freed, Tasks, Nexts, IInv, TypeOK,
           TaskOK, HistOK, app, offer, hist, AcceptEnds, Goto
      <3> QED BY <3>1, PendingKept
    <2> QED
      BY <2>1, <2>2, <2>3, <2>4, <2>5, <2>6 DEF IInv, TypeOK
  <1>11. CASE DenyEnds
    <2>1. SigOK'
      BY <1>11 DEF IInv, TypeOK, SigOK, SigType, app, offer, hist, DenyEnds, Goto, Disabled
    <2>2. RtcOK'
      BY <1>11 DEF IInv, TypeOK, RtcOK, RtcType, app, offer, hist, DenyEnds, Goto, Disabled
    <2>3. TaskOK'
      BY <1>11 DEF IInv, TypeOK, TaskOK, Tasks, Places, Nexts, app, offer, hist, DenyEnds,
         Goto, Disabled
    <2>4. NetOK'
      BY <1>11, DoorbellAssumption DEF IInv, TypeOK, SigOK, SigType, NetOK, app, offer, hist,
         DenyEnds, Goto, Disabled
    <2>5. HistOK'
      BY <1>11 DEF IInv, TypeOK, SigOK, SigType, HistOK, app, offer, hist, DenyEnds, Goto,
         Disabled
    <2>6. PendingInv'
      <3>1. PendingFrame
        BY <1>11 DEF PendingFrame, OfferInbox, Used, Freed, Tasks, Nexts, IInv, TypeOK,
           TaskOK, HistOK, app, offer, hist, DenyEnds, Goto, Disabled
      <3> QED BY <3>1, PendingKept
    <2> QED
      BY <2>1, <2>2, <2>3, <2>4, <2>5, <2>6 DEF IInv, TypeOK
  <1> QED
    BY <1>1, <1>2, <1>3, <1>4, <1>5, <1>6, <1>7, <1>8, <1>9, <1>10, <1>11 DEF
       mqtt_message_handler

\* A page sends an offer once.
LEMMA PageStep ==
    ASSUME IInv, PageSends
    PROVE  IInv'
  <1>1. SigOK'
    BY DEF IInv, TypeOK, SigOK, SigType, app, offer, hist, PageSends, Input
  <1>2. RtcOK'
    BY DEF IInv, TypeOK, RtcOK, RtcType, app, offer, hist, PageSends, Input
  <1>3. TaskOK'
    BY DEF IInv, TypeOK, TaskOK, Tasks, Places, Nexts, app, offer, hist, PageSends, Input
  <1>4. NetOK'
    BY DoorbellAssumption DEF IInv, TypeOK, SigOK, SigType, NetOK, app, offer, hist,
       PageSends, Input
  <1>5. HistOK'
    BY DEF IInv, TypeOK, SigOK, SigType, HistOK, app, offer, hist, PageSends, Input
  <1>6. PendingInv'
    <2>7. PICK y \in PageTypes, o \in Offers \cup {None} :
              /\ y = "offer" => o \in Offers /\ o \notin sent
              /\ sent' = IF y = "offer" THEN sent \cup {o} ELSE sent
              /\ inbox' = inbox \cup {[type |-> y, of |-> o]}
      BY DEF PageSends
    <2>8. OfferInbox' \subseteq OfferInbox \cup (IF y = "offer" THEN {o} ELSE {})
      BY <2>7 DEF OfferInbox
    <2>9. sg' = sg /\ Used' = Used /\ Storing' = Storing /\ newest' = newest
          /\ withdrawn' = withdrawn
         /\ at' = at /\ text' = text
      BY DEF PageSends, Used, Freed, Storing, offer
    <2> QED BY <2>7, <2>8, <2>9, DoorbellAssumption DEF IInv, PendingInv, Storing
  <1> QED
    BY <1>1, <1>2, <1>3, <1>4, <1>5, <1>6 DEF IInv, TypeOK

\* The peer library and its callbacks.
LEMMA PeerStep ==
    ASSUME IInv, Peer
    PROVE  IInv'
  <1>1. CASE PeerGathers
    <2>1. SigOK'
      BY <1>1 DEF IInv, TypeOK, SigOK, SigType, app, offer, hist, PeerGathers
    <2>2. RtcOK'
      BY <1>1 DEF IInv, TypeOK, RtcOK, RtcType, app, offer, hist, PeerGathers
    <2>3. TaskOK'
      BY <1>1 DEF IInv, TypeOK, TaskOK, Tasks, Places, Nexts, app, offer, hist, PeerGathers
    <2>4. NetOK'
      BY <1>1, DoorbellAssumption DEF IInv, TypeOK, SigOK, SigType, NetOK, app, offer, hist,
         PeerGathers
    <2>5. HistOK'
      BY <1>1 DEF IInv, TypeOK, SigOK, SigType, HistOK, app, offer, hist, PeerGathers
    <2>6. PendingInv'
      <3>1. PendingFrame
        BY <1>1 DEF PendingFrame, OfferInbox, Used, Freed, Tasks, Nexts, IInv, TypeOK, TaskOK,
           HistOK, app, offer, hist, PeerGathers
      <3> QED BY <3>1, PendingKept
    <2> QED
      BY <2>1, <2>2, <2>3, <2>4, <2>5, <2>6 DEF IInv, TypeOK
  <1>2. CASE PeerMakesSdp
    <2>1. SigOK'
      BY <1>2 DEF IInv, TypeOK, SigOK, SigType, app, offer, hist, PeerMakesSdp
    <2>2. RtcOK'
      BY <1>2 DEF IInv, TypeOK, RtcOK, RtcType, app, offer, hist, PeerMakesSdp
    <2>3. TaskOK'
      BY <1>2 DEF IInv, TypeOK, TaskOK, Tasks, Places, Nexts, app, offer, hist, PeerMakesSdp
    <2>4. NetOK'
      BY <1>2, DoorbellAssumption DEF IInv, TypeOK, SigOK, SigType, NetOK, app, offer, hist,
         PeerMakesSdp
    <2>5. HistOK'
      BY <1>2 DEF IInv, TypeOK, SigOK, SigType, HistOK, app, offer, hist, PeerMakesSdp
    <2>6. PendingInv'
      <3>1. PendingFrame
        BY <1>2 DEF PendingFrame, OfferInbox, Used, Freed, Tasks, Nexts, IInv, TypeOK, TaskOK,
           HistOK, app, offer, hist, PeerMakesSdp
      <3> QED BY <3>1, PendingKept
    <2> QED
      BY <2>1, <2>2, <2>3, <2>4, <2>5, <2>6 DEF IInv, TypeOK
  <1>3. CASE PeerUp
    <2>1. SigOK'
      BY <1>3 DEF IInv, TypeOK, SigOK, SigType, app, offer, hist, PeerUp
    <2>2. RtcOK'
      BY <1>3 DEF IInv, TypeOK, RtcOK, RtcType, app, offer, hist, PeerUp
    <2>3. TaskOK'
      BY <1>3 DEF IInv, TypeOK, TaskOK, Tasks, Places, Nexts, app, offer, hist, PeerUp
    <2>4. NetOK'
      BY <1>3, DoorbellAssumption DEF IInv, TypeOK, SigOK, SigType, NetOK, app, offer, hist,
         PeerUp
    <2>5. HistOK'
      BY <1>3 DEF IInv, TypeOK, SigOK, SigType, HistOK, app, offer, hist, PeerUp
    <2>6. PendingInv'
      <3>1. PendingFrame
        BY <1>3 DEF PendingFrame, OfferInbox, Used, Freed, Tasks, Nexts, IInv, TypeOK, TaskOK,
           HistOK, app, offer, hist, PeerUp
      <3> QED BY <3>1, PendingKept
    <2> QED
      BY <2>1, <2>2, <2>3, <2>4, <2>5, <2>6 DEF IInv, TypeOK
  <1>4. CASE PeerDown
    <2>1. SigOK'
      BY <1>4 DEF IInv, TypeOK, SigOK, SigType, app, offer, hist, PeerDown, StopTimer
    <2>2. RtcOK'
      BY <1>4 DEF IInv, TypeOK, RtcOK, RtcType, app, offer, hist, PeerDown, StopTimer
    <2>3. TaskOK'
      BY <1>4 DEF IInv, TypeOK, TaskOK, Tasks, Places, Nexts, app, offer, hist, PeerDown,
         StopTimer
    <2>4. NetOK'
      BY <1>4, DoorbellAssumption DEF IInv, TypeOK, SigOK, SigType, NetOK, app, offer, hist,
         PeerDown, StopTimer
    <2>5. HistOK'
      BY <1>4 DEF IInv, TypeOK, SigOK, SigType, HistOK, app, offer, hist, PeerDown, StopTimer
    <2>6. PendingInv'
      <3>1. PendingFrame
        BY <1>4 DEF PendingFrame, OfferInbox, Used, Freed, Tasks, Nexts, IInv, TypeOK, TaskOK,
           HistOK, app, offer, hist, PeerDown, StopTimer
      <3> QED BY <3>1, PendingKept
    <2> QED
      BY <2>1, <2>2, <2>3, <2>4, <2>5, <2>6 DEF IInv, TypeOK
  <1>5. CASE DownEnds
    <2>1. SigOK'
      BY <1>5 DEF IInv, TypeOK, SigOK, SigType, app, offer, hist, DownEnds, Goto
    <2>2. RtcOK'
      BY <1>5 DEF IInv, TypeOK, RtcOK, RtcType, app, offer, hist, DownEnds, Goto
    <2>3. TaskOK'
      BY <1>5 DEF IInv, TypeOK, TaskOK, Tasks, Places, Nexts, app, offer, hist, DownEnds, Goto
    <2>4. NetOK'
      BY <1>5, DoorbellAssumption DEF IInv, TypeOK, SigOK, SigType, NetOK, app, offer, hist,
         DownEnds, Goto
    <2>5. HistOK'
      BY <1>5 DEF IInv, TypeOK, SigOK, SigType, HistOK, app, offer, hist, DownEnds, Goto
    <2>6. PendingInv'
      <3>1. PendingFrame
        BY <1>5 DEF PendingFrame, OfferInbox, Used, Freed, Tasks, Nexts, IInv, TypeOK, TaskOK,
           HistOK, app, offer, hist, DownEnds, Goto
      <3> QED BY <3>1, PendingKept
    <2> QED
      BY <2>1, <2>2, <2>3, <2>4, <2>5, <2>6 DEF IInv, TypeOK
  <1> QED
    BY <1>1, <1>2, <1>3, <1>4, <1>5 DEF Peer

\* The network is lost and recovered.
LEMMA NetworkStep ==
    ASSUME IInv, Network
    PROVE  IInv'
  <1>1. CASE NetDrops
    <2>1. SigOK'
      BY <1>1 DEF IInv, TypeOK, SigOK, SigType, app, offer, hist, NetDrops, Input
    <2>2. RtcOK'
      BY <1>1 DEF IInv, TypeOK, RtcOK, RtcType, app, offer, hist, NetDrops, Input
    <2>3. TaskOK'
      BY <1>1 DEF IInv, TypeOK, TaskOK, Tasks, Places, Nexts, app, offer, hist, NetDrops,
         Input
    <2>4. NetOK'
      BY <1>1, DoorbellAssumption DEF IInv, TypeOK, SigOK, SigType, NetOK, app, offer, hist,
         NetDrops, Input
    <2>5. HistOK'
      BY <1>1 DEF IInv, TypeOK, SigOK, SigType, HistOK, app, offer, hist, NetDrops, Input
    <2>6. PendingInv'
      <3>1. PendingFrame
        BY <1>1 DEF PendingFrame, OfferInbox, Used, Freed, Tasks, Nexts, IInv, TypeOK, TaskOK,
           HistOK, app, offer, hist, NetDrops, Input
      <3> QED BY <3>1, PendingKept
    <2> QED
      BY <2>1, <2>2, <2>3, <2>4, <2>5, <2>6 DEF IInv, TypeOK
  <1>2. CASE InitMqtt
    <2>1. SigOK'
      BY <1>2 DEF IInv, TypeOK, SigOK, SigType, app, offer, hist, InitMqtt, Goto
    <2>2. RtcOK'
      BY <1>2 DEF IInv, TypeOK, RtcOK, RtcType, app, offer, hist, InitMqtt, Goto
    <2>3. TaskOK'
      BY <1>2 DEF IInv, TypeOK, TaskOK, Tasks, Places, Nexts, app, offer, hist, InitMqtt, Goto
    <2>4. NetOK'
      BY <1>2, DoorbellAssumption DEF IInv, TypeOK, SigOK, SigType, NetOK, app, offer, hist,
         InitMqtt, Goto
    <2>5. HistOK'
      BY <1>2 DEF IInv, TypeOK, SigOK, SigType, HistOK, app, offer, hist, InitMqtt, Goto
    <2>6. PendingInv'
      <3>1. PendingFrame
        BY <1>2 DEF PendingFrame, OfferInbox, Used, Freed, Tasks, Nexts, IInv, TypeOK, TaskOK,
           HistOK, app, offer, hist, InitMqtt, Goto
      <3> QED BY <3>1, PendingKept
    <2> QED
      BY <2>1, <2>2, <2>3, <2>4, <2>5, <2>6 DEF IInv, TypeOK
  <1>3. CASE mqtt_sig_restart
    <2>1. SigOK'
      BY <1>3 DEF IInv, TypeOK, SigOK, SigType, app, offer, hist, mqtt_sig_restart, Goto
    <2>2. RtcOK'
      BY <1>3 DEF IInv, TypeOK, RtcOK, RtcType, app, offer, hist, mqtt_sig_restart, Goto
    <2>3. TaskOK'
      BY <1>3 DEF IInv, TypeOK, TaskOK, Tasks, Places, Nexts, app, offer, hist,
         mqtt_sig_restart, Goto
    <2>4. NetOK'
      BY <1>3, DoorbellAssumption DEF IInv, TypeOK, SigOK, SigType, NetOK, app, offer, hist,
         mqtt_sig_restart, Goto
    <2>5. HistOK'
      BY <1>3 DEF IInv, TypeOK, SigOK, SigType, HistOK, app, offer, hist, mqtt_sig_restart,
         Goto
    <2>6. PendingInv'
      <3>1. PendingFrame
        BY <1>3 DEF PendingFrame, OfferInbox, Used, Freed, Tasks, Nexts, IInv, TypeOK, TaskOK,
           HistOK, app, offer, hist, mqtt_sig_restart, Goto
      <3> QED BY <3>1, PendingKept
    <2> QED
      BY <2>1, <2>2, <2>3, <2>4, <2>5, <2>6 DEF IInv, TypeOK
  <1> QED
    BY <1>1, <1>2, <1>3 DEF Network

\* The inductive invariant of the call and its tasks holds in every state.
THEOREM Invariance == Spec => []IInv
  <1>1. Init => IInv
    <2> SUFFICES ASSUME Init PROVE IInv
      OBVIOUS
    <2>1. SigOK
      <3>1. <<>> \in Seq(Offers) /\ Len(<<>>) = 0
        OBVIOUS
      <3> QED BY <3>1, DoorbellAssumption DEF Init, NoSignaling, SigOK, SigType
    <2>2. RtcOK
      BY DEF Init, RtcOK, RtcType
    <2>3. TaskOK
      BY DEF Init, TaskOK, Tasks, Places, Nexts
    <2>4. NetOK
      BY DoorbellAssumption DEF Init, NetOK
    <2>5. HistOK
      BY DEF Init, NoText, HistOK
    <2>6. PendingInv
      BY DEF Init, NoSignaling, PendingInv, OfferInbox, Storing, Used, Freed, Tasks
    <2> QED BY <2>1, <2>2, <2>3, <2>4, <2>5, <2>6 DEF IInv, TypeOK
  <1>2. IInv /\ [Next]_vars => IInv'
    <2> SUFFICES ASSUME IInv, [Next]_vars PROVE IInv'
      OBVIOUS
    <2>1. CASE HeapPanics
      BY <2>1, PanicStep DEF HeapPanics
    <2>2. CASE Next /\ ~HeapPanics
      BY <2>2, StopStep, TimerStep, ConsoleStep, LeaveStep, MessageStep, PageStep, PeerStep,
         NetworkStep DEF Next, Stopping, TimerTasks
    <2>3. CASE UNCHANGED vars
      BY <2>3 DEF vars, app, offer, hist, IInv, TypeOK, SigOK, RtcOK, TaskOK, NetOK, HistOK,
         PendingInv, OfferInbox, Storing, Used, Freed
    <2> QED BY <2>1, <2>2, <2>3
  <1> QED BY <1>1, <1>2, PTL DEF Spec

\* Every variable keeps its type, and the candidates of a pending offer never outgrow
\* pending_candidates[10] of mqtt_sig_t.
THEOREM TypeCorrect == Spec => []TypeOK
  <1>1. IInv => TypeOK
    BY DEF IInv
  <1> QED BY <1>1, Invariance, PTL

\* Only mqtt_sig_answer_call copies an offer: the one it finds in pending_sdp after its
\* delay, or what freed memory holds.
LEMMA OnlyAnswerCopies ==
    ASSUME IInv, [Next]_vars
    PROVE  text'.con \in {text.con, sg.sdp, None}
  <1>1. text \in [con : Offers \cup {None}, msg : Offers \cup {None}]
    BY DEF IInv, TypeOK, HistOK
  <1>2. CASE AnswerCopies \/ AnswerGivesSdp
    BY <1>1, <1>2 DEF AnswerCopies, AnswerGivesSdp
  <1>3. CASE ReceiveOffer \/ StoreOffer
    BY <1>1, <1>3 DEF ReceiveOffer, StoreOffer, offer
  <1>4. CASE AnswerPanics \/ HeapPanics
    BY <1>4 DEF AnswerPanics, HeapPanics, Panic, NoText
  <1>5. CASE Next /\ ~(AnswerCopies \/ AnswerGivesSdp \/ ReceiveOffer \/ StoreOffer
                       \/ AnswerPanics \/ HeapPanics)
    <2>1. CASE Console \/ Leave \/ LeaveEnds
      BY <1>5, <2>1 DEF offer, Console, Join, JoinReturns, Ring, RingEnables, RingStartsTimer,
         Answer, AnswerEnables, AnswerGivesCandidate, AnswerFrees, AnswerEnds, Reject, Close,
         TurnDownEnds, RejectEnds, CloseEnds, Leave, LeaveEnds
    <2>2. CASE PageSends \/ mqtt_message_handler
      BY <1>5, <2>2 DEF offer, PageSends, mqtt_message_handler, ReceiveCandidate,
         ReceiveAnswer, ReceiveIce, ReceiveBye, ReceiveRing, ReceiveAccept, ReceiveDeny,
         AcceptEnds, DenyEnds
    <2>3. CASE Peer \/ Network
      BY <2>3 DEF offer, Peer, PeerGathers, PeerMakesSdp, PeerUp, PeerDown, DownEnds, Network,
         NetDrops, InitMqtt, mqtt_sig_restart
    <2>4. CASE Stopping \/ TimerTasks
      BY <2>4 DEF offer, Stopping, stop_call_timeout, StopTest, StopDelete, StopClear,
         TimerTasks, call_timeout_task, TimerStarts, TimerFires, TimerClears, TimerResets,
         TimerEnds
    <2> QED BY <1>5, <2>1, <2>2, <2>3, <2>4 DEF Next
  <1>6. CASE UNCHANGED vars
    BY <1>6 DEF vars, offer
  <1> QED BY <1>2, <1>3, <1>4, <1>5, <1>6

\* When mqtt_sig_answer_call reads pending_sdp again after its delay, the offer it copies
\* was not rejected, closed or timed out, although each of these frees and clears in two
\* steps between which an offer may be stored, freed again or lost.
THEOREM WithdrawnIsNotCopied == Spec => WithdrawnNotCopied
  <1>1. IInv /\ [Next]_vars =>
          [text'.con # text.con => text'.con = None \/ text'.con \notin withdrawn]_vars
    BY OnlyAnswerCopies DEF IInv, PendingInv
  <1> QED BY <1>1, Invariance, PTL DEF WithdrawnNotCopied, Spec

\* What it copies is the offer stored last, or freed memory.
THEOREM NewestIsCopied == Spec => NewestCopied
  <1>1. IInv /\ [Next]_vars => [text'.con # text.con => text'.con \in {newest, None}]_vars
    BY OnlyAnswerCopies DEF IInv, PendingInv
  <1> QED BY <1>1, Invariance, PTL DEF NewestCopied, Spec
=============================================================================
