------------------------------- MODULE AppRtc -------------------------------
(* AppRTC signaling (signal_default.c): a room is joined by POST, messages   *)
(* arrive over a websocket, and a task of its own renews the ICE credentials *)
(* before they expire.  Three tasks use wss_sig_t: the one that calls start  *)
(* and stop, the websocket client's and the renewing one.                    *)
(*                                                                           *)
(* The 50 ms a renewing task sleeps before it first looks at its stop flag   *)
(* are longer than the one statement its creator still has to run, and a     *)
(* TLS handshake is longer than the return of esp_websocket_client_start, so *)
(* neither overtakes wss_signal_start.  Messages are their types.            *)
EXTENDS Naturals, Sequences

CONSTANTS
    Messages,       \* the messages that arrive over the websocket
    MaxMessages,    \* bound: of them in a behaviour
    MaxStarts       \* bound: starts in a behaviour

VARIABLES
    sg,             \* wss_sig_t: its memory and the fields that change
    caller,         \* the step of the task that starts and stops
    room,           \* messages of the join response not handed yet
    ws,             \* the websocket client: none, connecting, open
    handler,        \* what its task is in
    reload,         \* the step of reload_ice_task
    told,           \* the role on_ice_info last told
    label,          \* the type the last SDP went out with
    starts, arrived

vars == <<sg, caller, room, ws, handler, reload, told, label, starts, arrived>>

NoSg == [live |-> FALSE, is_initiator |-> FALSE, ice_reloading |-> FALSE,
         ice_reload_stop |-> FALSE]

(* What the server holds for a room: an initiator finds it empty.            *)
RoomMessages(initiator) == IF initiator THEN {<<>>} ELSE {<<"offer">>, <<"offer", "candidate">>}

Init ==
    /\ sg = NoSg
    /\ caller = "out"
    /\ room = <<>>
    /\ ws = "none"
    /\ handler = "idle"
    /\ reload = "none"
    /\ told = FALSE
    /\ label = "none"
    /\ starts = 0 /\ arrived = 0

(*****************************************************************************)
(* start                                                                     *)
(*****************************************************************************)

(* The room is joined, the credentials are there, the role is told.  (A      *)
(* start that fails before this leaves nothing.)                             *)
Join ==
    /\ caller = "out" /\ starts < MaxStarts
    /\ starts' = starts + 1
    /\ \E initiator \in BOOLEAN :
        /\ sg' = [NoSg EXCEPT !.live = TRUE, !.is_initiator = initiator]
        /\ told' = initiator
        /\ room' \in RoomMessages(initiator)
    /\ caller' = "create"
    /\ UNCHANGED <<ws, handler, reload, label, arrived>>

(* create_wss and start_reload_ice_timer; a failure of the first goes the    *)
(* way of stop, one of the second is not noticed.                            *)
CreateWss ==
    /\ caller = "create"
    /\ \/ /\ ws' = "connecting"
          /\ caller' = "offer"
          /\ \/ sg' = [sg EXCEPT !.ice_reloading = TRUE] /\ reload' = "sleep"
             \/ UNCHANGED <<sg, reload>>
       \/ caller' = "stop_reload" /\ UNCHANGED <<sg, ws, reload>>
    /\ UNCHANGED <<room, handler, told, label, starts, arrived>>

(* wss_send_offer_msg hands the room's messages in the caller's own task.    *)
(* (on_text of a "bye" is not among them.)                                   *)
OfferMsg ==
    /\ caller = "offer"
    /\ IF room = <<>>
       THEN caller' = "in" /\ UNCHANGED room
       ELSE room' = Tail(room) /\ UNCHANGED caller
    /\ UNCHANGED <<sg, ws, handler, reload, told, label, starts, arrived>>

(*****************************************************************************)
(* The websocket client's task: on_connect, on_close, on_text.               *)
(*****************************************************************************)

Connected ==
    /\ ws = "connecting" /\ handler = "idle" /\ caller # "stop"
    /\ ws' = "open"
    /\ UNCHANGED <<sg, caller, room, handler, reload, told, label, starts, arrived>>

(* on_close; the client connects again by itself.                            *)
Disconnected ==
    /\ ws = "open" /\ handler = "idle"
    /\ ws' = "connecting"
    /\ UNCHANGED <<sg, caller, room, handler, reload, told, label, starts, arrived>>

(* on_text, up to the return of on_msg.                                      *)
OnText ==
    /\ ws = "open" /\ handler = "idle" /\ arrived < MaxMessages
    /\ arrived' = arrived + 1
    /\ handler' \in Messages
    /\ UNCHANGED <<sg, caller, room, ws, reload, told, label, starts>>

(* After a bye this side is the initiator; esp_webrtc is not told.           *)
TextDone ==
    /\ handler # "idle"
    /\ handler' = "idle"
    /\ sg' = IF handler = "bye" THEN [sg EXCEPT !.is_initiator = TRUE] ELSE sg
    /\ UNCHANGED <<caller, room, ws, reload, told, label, starts, arrived>>

(* wss_signal_send_msg of an SDP, from the peer connection's task.           *)
SendSdp ==
    /\ caller \in {"offer", "in"}
    /\ label' = IF sg.is_initiator THEN "offer" ELSE "answer"
    /\ UNCHANGED <<sg, caller, room, ws, handler, reload, told, starts, arrived>>

(*****************************************************************************)
(* reload_ice_task                                                           *)
(*****************************************************************************)

(* After a sleep: the stop flag is looked at, then the time.                 *)
ReloadWakes ==
    /\ reload = "sleep"
    /\ \/ sg.ice_reload_stop /\ reload' = "exit"
       \/ ~sg.ice_reload_stop /\ reload' = "post"
    /\ UNCHANGED <<sg, caller, room, ws, handler, told, label, starts, arrived>>

(* The credentials are renewed, or the task ends.                            *)
ReloadPosts ==
    /\ reload = "post"
    /\ reload' \in {"beat", "exit"}
    /\ UNCHANGED <<sg, caller, room, ws, handler, told, label, starts, arrived>>

(* The heart beat is sent on the websocket and the credentials are told.     *)
ReloadTells ==
    /\ reload = "beat"
    /\ reload' = "sleep"
    /\ told' = sg.is_initiator
    /\ UNCHANGED <<sg, caller, room, ws, handler, label, starts, arrived>>

(* A plausible slip: the flag the stopper waits for is cleared first.        *)
ReloadExitsNot ==
    /\ \/ reload = "exit" /\ reload' = "exited" /\ sg' = [sg EXCEPT !.ice_reloading = FALSE]
       \/ reload = "exited" /\ reload' = "none" /\ sg' = [sg EXCEPT !.ice_reload_stop = FALSE]
    /\ UNCHANGED <<caller, room, ws, handler, told, label, starts, arrived>>

(* The task's last two statements; it touches nothing of sg after them.      *)
ReloadExits ==
    /\ \/ reload = "exit" /\ reload' = "exited" /\ sg' = [sg EXCEPT !.ice_reload_stop = FALSE]
       \/ reload = "exited" /\ reload' = "none" /\ sg' = [sg EXCEPT !.ice_reloading = FALSE]
    /\ UNCHANGED <<caller, room, ws, handler, told, label, starts, arrived>>

(*****************************************************************************)
(* stop                                                                      *)
(*****************************************************************************)

(* wss_send_leave: the room is left, the peer is told, and 100 ms pass.      *)
Leave ==
    /\ caller = "in"
    /\ caller' = "stop"
    /\ UNCHANGED <<sg, room, ws, handler, reload, told, label, starts, arrived>>

(* destroy_wss: esp_websocket_client_stop waits for the client's task.       *)
DestroyWss ==
    /\ caller = "stop" /\ handler = "idle"
    /\ ws' = "none"
    /\ caller' = "stop_reload"
    /\ UNCHANGED <<sg, room, handler, reload, told, label, starts, arrived>>

StopReload ==
    /\ caller = "stop_reload"
    /\ sg' = [sg EXCEPT !.ice_reload_stop = TRUE]
    /\ caller' = "wait"
    /\ UNCHANGED <<room, ws, handler, reload, told, label, starts, arrived>>

(* stop_reload_ice_timer has seen the task's end: everything is freed.       *)
Free ==
    /\ caller = "wait" /\ ~sg.ice_reloading
    /\ sg' = NoSg
    /\ caller' = "out"
    /\ room' = <<>>
    /\ UNCHANGED <<ws, handler, reload, told, label, starts, arrived>>

-----------------------------------------------------------------------------

ReloadStep == ReloadWakes \/ ReloadPosts \/ ReloadTells \/ ReloadExits
StopStep == DestroyWss \/ StopReload \/ Free

Next ==
    \/ Join \/ CreateWss \/ OfferMsg
    \/ Connected \/ Disconnected \/ OnText \/ TextDone \/ SendSdp
    \/ ReloadStep
    \/ Leave \/ StopStep

Spec == Init /\ [][Next]_vars

(* The renewing task never uses wss_sig_t once stop has freed it, although   *)
(* stop only sets a flag and polls another, and the task may be in a request *)
(* or may already have ended by itself when it does.                         *)
AliveWhileUsed == reload # "none" \/ handler # "idle" => sg.live
=============================================================================
