--------------------------------- MODULE Ota ---------------------------------
(***************************************************************************)
(* The upgrade of the firmware over 4G: main/otaupgrade.cpp.  The tasks of *)
(* the incoming messages start it, ota_task asks the modem for the image   *)
(* and boots it, and the receive task of the AT engine writes the packets  *)
(* in the URC callback, with the engine's mutex_ held.  The modem and the  *)
(* server (external) send what they like, in order; packets may be lost.   *)
(* A task that has set the partition to boot gives everything back, waits  *)
(* two seconds and restarts the device; a message may start another task   *)
(* before that.                                                            *)
(***************************************************************************)
EXTENDS Naturals

CONSTANTS ImageSize,   \* packets of the image
          MaxStarts    \* bound: messages that ask for an upgrade

VARIABLES
    s_ota_in_progress, checked,    \* the flag; handlers that have found it clear
    otaAt,                         \* where ota_task is
    success,                       \* has it set the partition to boot
    restarting,                    \* a task that has ended waits to restart the device
    ctx,                           \* s_ota_context, or NoContext
    otaBits,                       \* its event group
    registered,                    \* is the URC callback registered
    callback,                      \* the URC the callback is handling, with mutex_ held
    http,                          \* the modem: has it an instance, and the request
    packet_no, stated,             \* the modem: packets sent, and the length it states
    written,                       \* the packets in the partition
    boot,                          \* the partition set to boot: the one that runs is the old one
    starts                         \* counter for the bound

modem == <<http, packet_no, stated>>
flash == <<written, boot>>
start == <<s_ota_in_progress, checked, starts, restarting>>
task == <<otaAt, success>>
vars == <<start, task, ctx, otaBits, registered, callback, modem, flash>>

NoContext == [exists |-> FALSE, http_id |-> 0, total_received |-> 0, content_length |-> 0, open |-> FALSE]
NewContext == [NoContext EXCEPT !.exists = TRUE]
NoUrc == [what |-> "none", last |-> FALSE]
Urc(w, l) == [what |-> w, last |-> l]

Init ==
    /\ s_ota_in_progress = FALSE /\ checked = 0 /\ otaAt = "none" /\ ctx = NoContext
    /\ success = FALSE /\ restarting = FALSE
    /\ otaBits = {} /\ registered = FALSE /\ callback = NoUrc
    /\ http = "none" /\ packet_no = 0 /\ stated = 0 /\ written = {} /\ boot = "old" /\ starts = 0

-----------------------------------------------------------------------------
(* ota_start_upgrade, in the task of each message *)

CheckFlag ==
    /\ starts < MaxStarts /\ ~s_ota_in_progress /\ otaAt # "clash"
    /\ starts' = starts + 1 /\ checked' = checked + 1
    /\ UNCHANGED <<s_ota_in_progress, restarting, task, ctx, otaBits>>
    /\ UNCHANGED <<registered, callback, modem, flash>>

\* Two handlers may both have found the flag clear: then two tasks share the context,
\* and the model goes no further.
ota_start_upgrade ==
    /\ checked > 0 /\ checked' = checked - 1 /\ s_ota_in_progress' = TRUE
    /\ otaAt' = (IF otaAt = "none" THEN "start" ELSE "clash") /\ success' = FALSE
    /\ UNCHANGED <<starts, restarting, ctx, otaBits, registered, callback, modem, flash>>

-----------------------------------------------------------------------------
(* ota_task *)

MutexFree == callback = NoUrc
Goto(p) == otaAt' = p
Step(from) == otaAt = from /\ UNCHANGED <<start, success>>

\* No modem, no network or no memory
GiveUpEarly ==
    /\ otaAt = "start" /\ Goto("none") /\ s_ota_in_progress' = FALSE
    /\ UNCHANGED <<checked, starts, restarting, success, ctx, otaBits>>
    /\ UNCHANGED <<registered, callback, modem, flash>>

\* The context, the callback, and MHTTPCREATE; http_id is 0 until the modem names one.
CreateHttp ==
    /\ Step("start") /\ MutexFree
    /\ ctx' = NewContext /\ otaBits' = {} /\ registered' = TRUE
    /\ \/ Goto("create") /\ http' = "asked"
       \/ Goto("cleanup") /\ UNCHANGED http
    /\ UNCHANGED <<callback, packet_no, stated, flash>>

Wait(from, bits) == Step(from) /\ otaBits' = otaBits \ bits
kept == <<registered, callback, flash>>

\* Five settings, whose answers are not looked at, and esp_ota_begin, which erases the
\* partition that does not run, be it set to boot or not.
HttpCreated ==
    /\ Wait("create", {"CREATED"})
    /\ \/ /\ "CREATED" \in otaBits /\ Goto("request")
          /\ ctx' = [ctx EXCEPT !.open = TRUE] /\ written' = {}
       \/ Goto("cleanup") /\ UNCHANGED <<ctx, written>>
    /\ UNCHANGED <<registered, callback, modem, boot>>

\* MHTTPREQUEST, sent or not
Request ==
    /\ Step("request") /\ Goto("header")
    /\ http' \in {http, "requested"}
    /\ UNCHANGED <<ctx, otaBits, packet_no, stated, kept>>

HeaderWaited ==
    /\ Wait("header", {"HEADER", "ERROR"})
    /\ Goto(IF "HEADER" \in otaBits /\ "ERROR" \notin otaBits THEN "download" ELSE "cleanup")
    /\ UNCHANGED <<ctx, modem, kept>>

DownloadWaited ==
    /\ Wait("download", {"COMPLETE", "ERROR"})
    /\ Goto(IF "COMPLETE" \in otaBits /\ "ERROR" \notin otaBits THEN "check" ELSE "cleanup")
    /\ UNCHANGED <<ctx, modem, kept>>

\* Mutant: the length is not compared.
SizeMatchesNot == TRUE

SizeMatches == ctx.content_length > 0 => ctx.total_received = ctx.content_length

CheckSize ==
    /\ Step("check") /\ Goto(IF SizeMatches THEN "end" ELSE "cleanup")
    /\ UNCHANGED <<ctx, otaBits, modem, kept>>

\* esp_ota_end finds the image valid or not, and the boot partition is set or not.
EndAndBoot ==
    /\ otaAt = "end" /\ ctx' = [ctx EXCEPT !.open = FALSE]
    /\ \/ boot' = "new" /\ success' = TRUE /\ Goto("booted")
       \/ UNCHANGED <<boot, success>> /\ Goto("cleanup")
    /\ UNCHANGED <<start, otaBits, modem, registered, callback, written>>

\* MHTTPDEL is sent even when there is no instance.
DeleteHttp ==
    /\ \/ Step("cleanup") /\ Goto("unregister")
       \/ Step("booted") /\ Goto("unregister")
    /\ http' \in {http, "none"}
    /\ UNCHANGED <<ctx, otaBits, packet_no, stated, kept>>

\* UnregisterUrcCallback takes mutex_: no callback is running then.
Unregister ==
    /\ Step("unregister") /\ MutexFree /\ registered' = FALSE /\ Goto("delete")
    /\ UNCHANGED <<ctx, otaBits, callback, modem, flash>>

\* The flag is clear from here on, with the restart still to come.
DeleteContext ==
    /\ otaAt = "delete" /\ Goto("none")
    /\ ctx' = NoContext /\ s_ota_in_progress' = FALSE
    /\ restarting' = (restarting \/ success)
    /\ UNCHANGED <<checked, starts, success, otaBits, registered, callback, modem, flash>>

\* esp_restart, whatever another task is doing: the partition that is set to boot runs,
\* and the next image is written to the other one.
Restart ==
    /\ restarting /\ restarting' = FALSE /\ otaAt # "clash"
    /\ s_ota_in_progress' = FALSE /\ checked' = 0 /\ otaAt' = "none" /\ success' = FALSE
    /\ ctx' = NoContext /\ otaBits' = {} /\ registered' = FALSE /\ callback' = NoUrc
    /\ boot' = "old" /\ written' = {}
    /\ UNCHANGED <<starts, modem>>

ota_task == \/ GiveUpEarly \/ CreateHttp \/ HttpCreated \/ Request \/ HeaderWaited \/ DownloadWaited
            \/ CheckSize \/ EndAndBoot \/ DeleteHttp \/ Unregister \/ DeleteContext \/ Restart

-----------------------------------------------------------------------------
(* The modem and the server.  A URC is handled when the engine takes it; one that *)
(* comes when no callback is registered is gone.                                  *)

Comes(u) ==
    /\ MutexFree /\ otaAt # "clash"
    /\ callback' = IF registered THEN u ELSE NoUrc
    /\ UNCHANGED <<start, task, ctx, otaBits, registered, flash>>

Created ==
    /\ http = "asked" /\ http' = "created" /\ packet_no' = 0
    /\ stated' \in {0, ImageSize}
    /\ Comes(Urc("create", FALSE))

Answers == http = "requested" /\ http' = "answered" /\ UNCHANGED <<packet_no, stated>>
Header == Answers /\ \E w \in {"header", "bad_status"} : Comes(Urc(w, FALSE))

\* The last packet is told by the length, or by an empty packet after it.
Packet ==
    /\ http = "answered" /\ packet_no < ImageSize /\ packet_no' = packet_no + 1
    /\ Comes(Urc("content", stated > 0 /\ packet_no + 1 = ImageSize))
    /\ UNCHANGED <<http, stated>>

PacketLost ==
    /\ MutexFree /\ http = "answered" /\ packet_no < ImageSize /\ packet_no' = packet_no + 1
    /\ UNCHANGED <<start, task, ctx, otaBits, registered, callback, http, stated, flash>>

EndOfContent ==
    /\ http = "answered" /\ packet_no = ImageSize /\ http' = "ended"
    /\ Comes(Urc("end", TRUE)) /\ UNCHANGED <<packet_no, stated>>

HttpFails ==
    /\ http \in {"requested", "answered"} /\ http' = "ended"
    /\ Comes(Urc("err", FALSE)) /\ UNCHANGED <<packet_no, stated>>

Server == Created \/ Header \/ Packet \/ PacketLost \/ EndOfContent \/ HttpFails

-----------------------------------------------------------------------------
(* http_urc_callback *)

Handles(w) == callback.what = w /\ callback' = NoUrc /\ UNCHANGED <<start, task, registered, modem, boot>>
Set(b) == otaBits' = otaBits \cup b

UrcCreate ==
    /\ Handles("create") /\ Set({"CREATED"})
    /\ ctx' = [ctx EXCEPT !.http_id = 1] /\ UNCHANGED written

\* It reads Content-Length when the header has it.
UrcHeader ==
    /\ Handles("header") /\ Set({"HEADER"})
    /\ ctx' = [ctx EXCEPT !.content_length = stated] /\ UNCHANGED written

UrcError ==
    /\ Handles("bad_status") \/ Handles("err")
    /\ Set({"ERROR"}) /\ UNCHANGED <<ctx, written>>

\* esp_ota_write writes the bytes where the last ones ended, or fails.
UrcContent ==
    /\ Handles("content")
    /\ \/ /\ ctx.open
          /\ ctx' = [ctx EXCEPT !.total_received = @ + 1] /\ written' = written \cup {packet_no}
          /\ Set(IF callback.last THEN {"COMPLETE"} ELSE {})
       \/ UNCHANGED <<ctx, written>> /\ Set({"ERROR"} \cup (IF callback.last THEN {"COMPLETE"} ELSE {}))

UrcEnd ==
    /\ Handles("end") /\ Set({"COMPLETE"}) /\ UNCHANGED <<ctx, written>>

http_urc_callback == UrcCreate \/ UrcHeader \/ UrcError \/ UrcContent \/ UrcEnd

Next == CheckFlag \/ ota_start_upgrade \/ ota_task \/ Server \/ http_urc_callback
Spec == Init /\ [][Next]_vars

-----------------------------------------------------------------------------
(* Properties *)

\* The partition is set to boot only with an image of which every packet was written,
\* when the server has told its length, whatever was lost on the way and however many
\* upgrades ran before.
BootsWhole == otaAt = "booted" /\ ctx.content_length > 0 => written = 1 .. ImageSize
=============================================================================
