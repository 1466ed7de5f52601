----------------------------- MODULE EspSocket -----------------------------
(***************************************************************************)
(* The sockets of the Wi-Fi variant: esp-ml307, esp/esp_tcp.cc, esp_ssl.cc *)
(* and esp_udp.cc; "kind" is the class.  A task connects, disconnects and  *)
(* destroys the object; each connection has a receive task, which ends     *)
(* when recv fails or connected_ is FALSE, and then sets a bit of the      *)
(* event group.  lwIP and mbedTLS are external: recv returns data, or      *)
(* fails, and fails at once on a socket that was closed.                   *)
(***************************************************************************)
EXTENDS Naturals, FiniteSets

CONSTANTS MaxConnects   \* bound: connections of a behaviour

VARIABLES
    kind,
    espConnected,   \* connected_
    fd,             \* the connection tcp_fd_, udp_fd_ or tls_client_ is of; 0: none
    exitBit,        \* RECEIVE_TASK_EXIT in the event group
    group,          \* does the event group exist
    espAt,          \* where the task is
    rxTask,         \* the receive task of each connection
    openFds,        \* sockets of connections that are open
    connects,       \* counter for the bound
    callbacks,      \* history: disconnect_callback_ calls
    gaveUp,         \* history: a wait for the receive task took ten seconds
    raced           \* history: Connect went on while an older receive task ran

vars == <<kind, espConnected, fd, exitBit, group, espAt, rxTask, openFds, connects, callbacks, gaveUp, raced>>

Ids == 1 .. MaxConnects
Running == {c \in Ids : rxTask[c] # "none"}

Init ==
    /\ kind \in {"tcp", "ssl", "udp"}
    /\ espConnected = FALSE /\ fd = 0 /\ exitBit = FALSE /\ group = TRUE /\ espAt = "idle"
    /\ rxTask = [c \in Ids |-> "none"] /\ openFds = {} /\ connects = 0
    /\ callbacks = 0 /\ gaveUp = FALSE /\ raced = FALSE

Goto(from, to) == espAt = from /\ espAt' = to
RxGoto(c, from, to) == rxTask[c] = from /\ rxTask' = [rxTask EXCEPT ![c] = to]

-----------------------------------------------------------------------------
(* Connect *)

\* TCP and UDP close what is connected first; SSL refuses while it has a client.
Connect ==
    /\ connects < MaxConnects
    /\ Goto("idle", IF kind = "ssl" THEN (IF fd = 0 THEN "connect" ELSE "idle")
                    ELSE IF espConnected THEN "reconnect" ELSE "connect")
    /\ UNCHANGED <<kind, espConnected, fd, exitBit, group, rxTask, openFds, connects, callbacks, gaveUp, raced>>

\* The connection is made: the field is overwritten, whatever it held.
Connected ==
    /\ Goto("connect", "start")
    /\ connects' = connects + 1 /\ fd' = connects + 1 /\ openFds' = openFds \cup {connects + 1}
    /\ espConnected' = TRUE
    /\ raced' = (raced \/ Running # {})
    /\ UNCHANGED <<kind, exitBit, group, rxTask, callbacks, gaveUp>>

\* A name that is unknown leaves the field alone; a refused connection clears it.
ConnectFails ==
    /\ Goto("connect", "idle") /\ fd' \in {fd, 0}
    /\ raced' = (raced \/ Running # {})
    /\ UNCHANGED <<kind, espConnected, exitBit, group, rxTask, openFds, connects, callbacks, gaveUp>>

\* Mutant: the bit an earlier receive task has set stays.
ClearExitNot == UNCHANGED exitBit

ClearExit == exitBit' = FALSE

StartTask ==
    /\ Goto("start", "idle") /\ ClearExit
    /\ rxTask' = [rxTask EXCEPT ![connects] = "check"]
    /\ UNCHANGED <<kind, espConnected, fd, group, openFds, connects, callbacks, gaveUp, raced>>

-----------------------------------------------------------------------------
(* Disconnect, of the application or of the destructor.  The suffix of espAt says *)
(* what goes on afterwards.                                                       *)

Kept == UNCHANGED <<kind, group, connects, raced>>
After(p) == CASE p = "closing" -> "idle" [] p = "dying" -> "dead" [] p = "reconnect" -> "connect"
WaitOf(p) == CASE p = "closing" -> "wait" [] p = "dying" -> "wait_dead" [] p = "reconnect" -> "wait_connect"
Waits == {"wait", "wait_dead", "wait_connect"}
AfterWait(p) == CASE p = "wait" -> "idle" [] p = "wait_dead" -> "dead" [] p = "wait_connect" -> "connect"

DisconnectCall ==
    /\ espAt = "idle" /\ espAt' \in {"closing", "dying"}
    /\ UNCHANGED <<kind, espConnected, fd, exitBit, group, rxTask, openFds, connects, callbacks, gaveUp, raced>>

\* TCP: nothing is done, and nobody waited for, when connected_ is FALSE already.
TcpDisconnect ==
    /\ kind = "tcp" /\ espAt \in {"closing", "dying", "reconnect"}
    /\ IF espConnected
       THEN /\ espConnected' = FALSE
            /\ espAt' = (IF fd # 0 THEN WaitOf(espAt) ELSE After(espAt))
            /\ openFds' = openFds \ {fd} /\ fd' = 0
            /\ callbacks' = IF fd # 0 THEN callbacks ELSE callbacks + 1
       ELSE espAt' = After(espAt) /\ UNCHANGED <<espConnected, fd, openFds, callbacks>>
    /\ UNCHANGED <<exitBit, rxTask, gaveUp>> /\ Kept

UdpDisconnect ==
    /\ kind = "udp" /\ espAt \in {"closing", "dying", "reconnect"}
    /\ espConnected' = FALSE
    /\ espAt' = (IF fd # 0 THEN WaitOf(espAt) ELSE After(espAt))
    /\ openFds' = openFds \ {fd} /\ fd' = 0
    /\ UNCHANGED <<exitBit, rxTask, callbacks, gaveUp>> /\ Kept

\* The client itself is destroyed after the wait.
SslDisconnect ==
    /\ kind = "ssl" /\ espAt \in {"closing", "dying"}
    /\ espConnected' = FALSE
    /\ espAt' = (IF fd # 0 THEN WaitOf(espAt) ELSE After(espAt))
    /\ openFds' = openFds \ {fd}
    /\ UNCHANGED <<fd, exitBit, rxTask, callbacks, gaveUp>> /\ Kept

\* The bit has come, or ten seconds are over.  TCP tells the application here, and
\* its receive task has done so too.
ExitWaited ==
    /\ espAt \in Waits /\ espAt' = AfterWait(espAt)
    /\ gaveUp' = (gaveUp \/ ~exitBit)
    /\ fd' = (IF kind = "ssl" THEN 0 ELSE fd)
    /\ callbacks' = IF kind = "tcp" THEN callbacks + 1 ELSE callbacks
    /\ UNCHANGED <<espConnected, exitBit, rxTask, openFds>> /\ Kept

\* vEventGroupDelete
Destroy ==
    /\ espAt = "dead" /\ group /\ group' = FALSE
    /\ UNCHANGED <<kind, espConnected, fd, exitBit, espAt, rxTask, openFds, connects, callbacks, gaveUp, raced>>

-----------------------------------------------------------------------------
(* ReceiveTask of connection c.  It reads the field, not a socket of its own. *)

RxUnchanged == UNCHANGED <<kind, group, espAt, connects, gaveUp, raced>>

RxCheck(c) ==
    /\ RxGoto(c, "check", IF espConnected THEN "recv" ELSE "exit")
    /\ UNCHANGED <<espConnected, fd, exitBit, openFds, callbacks>> /\ RxUnchanged

RxData(c) ==
    /\ fd \in openFds /\ RxGoto(c, "recv", "check")
    /\ UNCHANGED <<espConnected, fd, exitBit, openFds, callbacks>> /\ RxUnchanged

RxFails(c) ==
    /\ RxGoto(c, "recv", IF kind = "tcp" THEN "drop" ELSE "exit")
    /\ espConnected' = FALSE
    /\ callbacks' = IF kind = "ssl" THEN callbacks + 1 ELSE callbacks
    /\ UNCHANGED <<fd, exitBit, openFds>> /\ RxUnchanged

\* DoDisconnect(false): it closes whatever the field holds by now.
RxDrops(c) ==
    /\ RxGoto(c, "drop", "exit")
    /\ openFds' = openFds \ {fd} /\ fd' = 0 /\ callbacks' = callbacks + 1
    /\ UNCHANGED <<espConnected, exitBit>> /\ RxUnchanged

RxExits(c) ==
    /\ RxGoto(c, "exit", "none") /\ exitBit' = TRUE
    /\ UNCHANGED <<espConnected, fd, openFds, callbacks>> /\ RxUnchanged

ReceiveTask(c) == RxCheck(c) \/ RxData(c) \/ RxFails(c) \/ RxDrops(c) \/ RxExits(c)

Next == \/ Connect \/ Connected \/ ConnectFails \/ StartTask
        \/ DisconnectCall \/ TcpDisconnect \/ UdpDisconnect \/ SslDisconnect \/ ExitWaited \/ Destroy
        \/ \E c \in Ids : ReceiveTask(c)
Spec == Init /\ [][Next]_vars

-----------------------------------------------------------------------------
(* Properties *)

\* When the object is gone so is every receive task that still has to set a bit of
\* its event group: for SSL and UDP, unless a wait gave up, or UDP was connected
\* again while the receive task of a lost connection still ran.  The TCP socket does
\* not have the property: after a loss its destructor waits for nobody.
GroupOutlivesTask == kind # "tcp" /\ ~gaveUp /\ ~raced /\ ~group => Running = {}
=============================================================================
