----------------------------- MODULE AtNetwork -----------------------------
(***************************************************************************)
(* The registration of the modem in the network: esp-ml307, at_modem.cc    *)
(* and ml307/ml307_at_modem.cc, with the C interface of at_modem_c.cpp.    *)
(* One task calls WaitForNetworkReady and SetFlightMode; the URCs, handled *)
(* by the receive task, come at any time.  What the modem does (external)  *)
(* is the URCs it sends and how it answers commands.                       *)
(***************************************************************************)
EXTENDS Naturals

CONSTANTS None,
          PinTries, IpTries,   \* the rounds of the two loops (10 in the code)
          MaxEvents            \* bound: URCs of a behaviour

VARIABLES
    network_ready, stat, pin_ready,   \* fields of AtModem; stat of cereg_state_
    netBits,     \* NETWORK_READY and NETWORK_ERROR in the event group
    step, tries, \* where WaitForNetworkReady is
    status,      \* what it returned
    told,        \* the last value on_network_state_changed_ was given
    events,      \* counter for the bound
    fresh        \* history: a report of a ready network since the call began

call == <<step, tries, status>>
vars == <<network_ready, stat, pin_ready, netBits, call, told, events, fresh>>

Registered == {1, 5}
Denied == 3

Init ==
    /\ network_ready = FALSE /\ stat = 0 /\ pin_ready = FALSE
    /\ netBits = {} /\ step = "idle" /\ tries = 0 /\ status = None
    /\ told = None /\ events = 0 /\ fresh = FALSE

-----------------------------------------------------------------------------
(* HandleUrc *)

Event == events < MaxEvents /\ events' = events + 1

Tell(ready) ==
    /\ network_ready' = ready
    /\ told' = IF ready # network_ready THEN ready ELSE told

UrcCereg ==
    /\ Event
    /\ \E s \in {0, 1, 2, Denied, 5} :
          /\ stat' = s
          /\ Tell(s \in Registered)
          /\ netBits' = netBits \cup (IF s \in Registered THEN {"READY"}
                                      ELSE IF s = Denied THEN {"ERROR"} ELSE {})
          /\ fresh' = (fresh \/ s \in Registered)
    /\ UNCHANGED <<pin_ready, call>>

UrcCpin ==
    /\ Event /\ \E b \in BOOLEAN : pin_ready' = b
    /\ UNCHANGED <<network_ready, stat, netBits, call, told, fresh>>

\* +MIPCALL with an address: the network is ready, and nobody is told.
UrcMipcall ==
    /\ Event
    /\ network_ready' = TRUE /\ netBits' = netBits \cup {"READY"} /\ fresh' = TRUE
    /\ UNCHANGED <<stat, pin_ready, call, told>>

\* +MATREADY: the modem has started again.
UrcMatready ==
    /\ Event /\ network_ready
    /\ Tell(FALSE)
    /\ UNCHANGED <<stat, pin_ready, netBits, call, fresh>>

HandleUrc == UrcCereg \/ UrcCpin \/ UrcMipcall \/ UrcMatready

-----------------------------------------------------------------------------
(* WaitForNetworkReady *)

\* Mutant: the bits of an earlier call stay.
BeginNot ==
    /\ step = "idle" /\ step' = "pin" /\ tries' = PinTries
    /\ network_ready' = FALSE /\ stat' = 0 /\ fresh' = FALSE
    /\ UNCHANGED <<pin_ready, netBits, status, told, events>>

Begin ==
    /\ step = "idle" /\ step' = "pin" /\ tries' = PinTries
    /\ network_ready' = FALSE /\ stat' = 0 /\ fresh' = FALSE
    /\ netBits' = {}
    /\ UNCHANGED <<pin_ready, status, told, events>>

Return(s) == step' = "idle" /\ status' = s /\ UNCHANGED tries

\* AT+CPIN? is answered, or CME error 10 (no SIM), or anything else and again;
\* after the last round it goes on in any case.
QueryPin ==
    /\ step = "pin"
    /\ \/ pin_ready' = TRUE /\ step' = "cereg" /\ UNCHANGED <<tries, status>>
       \/ pin_ready' = FALSE /\ Return("ErrorInsertPin")
       \/ /\ tries' = tries - 1 /\ UNCHANGED <<pin_ready, status>>
          /\ step' = IF tries = 1 THEN "cereg" ELSE "pin"
    /\ UNCHANGED <<network_ready, stat, netBits, told, events, fresh>>

\* AT+CEREG=2 and AT+CEREG?, whose answer is a URC
QueryCereg ==
    /\ step = "cereg"
    /\ \/ step' = "wait" /\ UNCHANGED <<tries, status>>
       \/ Return("Error")
    /\ UNCHANGED <<network_ready, stat, pin_ready, netBits, told, events, fresh>>

\* A bit has come or the time is over; both bits are cleared.
WaitRegistered ==
    /\ step = "wait"
    /\ netBits' = {}
    /\ IF "READY" \in netBits THEN step' = "ip" /\ tries' = IpTries /\ UNCHANGED status
       ELSE Return(IF "ERROR" \notin netBits THEN "ErrorTimeout"
                   ELSE IF stat = Denied THEN "ErrorRegistrationDenied"
                   ELSE IF ~pin_ready THEN "ErrorInsertPin" ELSE "Error")
    /\ UNCHANGED <<network_ready, stat, pin_ready, told, events, fresh>>

\* Ml307AtModem: AT+MIPCALL? up to ten times; Ready is returned even when no
\* address has come.  The bit is not cleared.
PollIp ==
    /\ step = "ip"
    /\ IF "READY" \in netBits \/ tries = 0 THEN Return("Ready")
       ELSE tries' = tries - 1 /\ UNCHANGED <<step, status>>
    /\ UNCHANGED <<network_ready, stat, pin_ready, netBits, told, events, fresh>>

WaitForNetworkReady == Begin \/ QueryPin \/ QueryCereg \/ WaitRegistered \/ PollIp

\* The application is not told of a network that flight mode turns off.
SetFlightMode ==
    /\ step = "idle" /\ network_ready' = FALSE
    /\ UNCHANGED <<stat, pin_ready, netBits, call, told, events, fresh>>

Next == HandleUrc \/ WaitForNetworkReady \/ SetFlightMode
Spec == Init /\ [][Next]_vars

-----------------------------------------------------------------------------
(* Properties *)

\* WaitForNetworkReady returns Ready only when the modem has reported a network
\* while it ran: a report left from before does not count.
ReadyIsFresh == [][step # "idle" /\ step' = "idle" /\ status' = "Ready" => fresh]_vars
=============================================================================
