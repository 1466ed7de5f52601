------------------------- MODULE MCSessionManager -------------------------
(***************************************************************************)
(* The signaling server: the maps that bind a page to its session, and the *)
(* bridge between the pages and the devices, for which a page has a        *)
(* session or has none. One run checks them in turn: the value of the      *)
(* variable "on" says which one moves in this behaviour.                   *)
(***************************************************************************)
EXTENDS SessionManager

CONSTANTS Cameras, Webs,   \* the bridge's devices and its pages' identifiers
          Default, MaxUps, MaxDowns, MaxDrops

VARIABLES
    on,   \* the part that is checked in this behaviour: it alone moves
    inbound, publisher, up, handling, callSessions, page, bound, got,
    down, ups, downs, drops

\* MqttSignalingService and the page's handler.
Bridges == INSTANCE Bridge WITH Devices <- Cameras, Pages <- Webs

bridgesVars == <<inbound, publisher, up, handling, callSessions, page,
    bound, got, down, ups, downs, drops>>

MCInit ==
    /\ on \in {"sessions", "bridge"}
    /\ Init
    /\ Bridges!Init

MCNext ==
    /\ UNCHANGED on
    /\ IF on = "sessions" THEN Next ELSE UNCHANGED vars
    /\ IF on = "bridge"   THEN Bridges!Next ELSE UNCHANGED bridgesVars

mcvars == <<on, vars, bridgesVars>>

MCSpec == MCInit /\ [][MCNext]_mcvars

-----------------------------------------------------------------------------
\* OrderKept of Bridge: what one sender sends arrives in order and once,
\* through whichever of the server's threads.
OrderKept == Bridges!OrderKept
=============================================================================
