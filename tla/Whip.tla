-------------------------------- MODULE Whip --------------------------------
(* WHIP signaling (whip_signaling.c) over the HTTPS client (https_client.c). *)
(* The first SDP of a call is POSTed to the signaling URL and the body of    *)
(* the response is the peer's answer; later SDPs are PATCHed to the resource *)
(* the Location header named, and stop DELETEs it.  One request is any       *)
(* number of exchanges: redirects are followed by hand, with the body, the   *)
(* headers and the callbacks of every exchange going through the same        *)
(* http_info_t.                                                              *)
(*                                                                           *)
(* A body is the sequence of its pieces, each the number of the response it  *)
(* belongs to and its place in it.  Nothing is kept of a response without a  *)
(* Content-Length: neither of a "chunked" one, nor of one that ends with the *)
(* connection ("close"), for whose length of -1 no buffer can be allocated.  *)
(* Statuses other than a redirect are one value, "final": the code does not  *)
(* tell a 201 from a 404.                                                    *)
EXTENDS Naturals, Sequences

CONSTANTS
    Redirects,      \* DEFAULT_HTTPS_MAX_REDIRECTS
    Pieces,         \* most pieces in a body
    MaxResponses    \* bound: responses of the server in a behaviour

VARIABLES
    sig,        \* whip_signaling_t: NULL or its fields
    request,    \* the request being performed, "none" between requests
    info,       \* http_info_t and the locals of https_request_advance
    resp,       \* the response on the wire
    responses,  \* responses so far
    answers     \* remote SDPs handed to on_msg

vars == <<sig, request, info, resp, responses, answers>>

NoSig == [live |-> FALSE, sent |-> FALSE, location |-> FALSE, servers |-> 0, remote |-> <<>>]
NoInfo == [at |-> "idle", post |-> FALSE, location |-> FALSE, data |-> <<>>,
           size |-> 0, redirects |-> 0, err |-> FALSE]
NoResp == [n |-> 0, status |-> "final", location |-> FALSE, links |-> 0,
           body |-> "chunked", length |-> 0, given |-> 0]

MAX_SERVER_SUPPORT == 4

Init ==
    /\ sig = NoSig
    /\ request = "none"
    /\ info = NoInfo
    /\ resp = NoResp
    /\ responses = 0
    /\ answers = <<>>

(* whip_sdp_answer keeps a body for the POST alone: the other requests have  *)
(* no callbacks, so their Location is not kept either.                       *)
HasCallbacks == request = "POST"

(*****************************************************************************)
(* The signaling implementation.                                             *)
(*****************************************************************************)

Start ==
    /\ ~sig.live /\ request = "none" /\ responses < MaxResponses
    /\ sig' = [NoSig EXCEPT !.live = TRUE]
    /\ UNCHANGED <<request, info, resp, responses, answers>>

Request(method, body) ==
    /\ request' = method
    /\ info' = [NoInfo EXCEPT !.at = "perform", !.post = body]

(* whip_signaling_send_msg of an SDP; a second one is not sent when there is *)
(* no resource to PATCH or the SDP names no bundle.                          *)
SendSdp ==
    /\ sig.live /\ request = "none" /\ responses < MaxResponses
    /\ \/ ~sig.sent /\ Request("POST", TRUE)
       \/ sig.sent /\ sig.location /\ Request("PATCH", TRUE)
    /\ UNCHANGED <<sig, resp, responses, answers>>

(* whip_signaling_stop: the resource is deleted before the state is freed.   *)
Stop ==
    /\ sig.live /\ request = "none"
    /\ IF sig.location
       THEN Request("DELETE", FALSE) /\ UNCHANGED sig
       ELSE sig' = NoSig /\ UNCHANGED <<request, info>>
    /\ UNCHANGED <<resp, responses, answers>>

(* The request has returned to its caller.                                   *)
Returned ==
    /\ info.at = "returned"
    /\ LET answered == request = "POST" /\ ~info.err /\ sig.remote # <<>> IN
        /\ answers' = IF answered THEN Append(answers, sig.remote) ELSE answers
        /\ sig' = CASE answered -> [sig EXCEPT !.sent = TRUE, !.remote = <<>>]
                    [] request = "DELETE" -> NoSig
                    [] OTHER -> sig
    /\ request' = "none"
    /\ info' = NoInfo
    /\ UNCHANGED <<resp, responses>>

(*****************************************************************************)
(* https_request_advance and its event handler.                              *)
(*****************************************************************************)

(* A plausible slip: the buffer is kept for the next exchange.               *)
ResetExchangeNot(i) == [i EXCEPT !.location = FALSE]

(* RETRY_PERFORM: what an earlier exchange left is dropped, all but the size *)
(* of its buffer, which stays until another buffer is allocated.             *)
ResetExchange(i) == [i EXCEPT !.data = <<>>, !.location = FALSE]

Perform ==
    /\ info.at = "perform"
    /\ info' = [ResetExchange(info) EXCEPT !.at = "headers"]
    /\ responses < MaxResponses
    /\ responses' = responses + 1
    /\ \E status \in {"final", "see_other", "same_method"}, location \in BOOLEAN,
          body \in {"sized", "chunked", "close"}, links \in 0..1, length \in 0..Pieces :
        resp' = [n |-> responses + 1, status |-> status, location |-> location,
                 links |-> links, body |-> body, length |-> length, given |-> 0]
    /\ UNCHANGED <<sig, request, answers>>

(* HTTP_EVENT_ON_HEADER, for the headers of a response: a Location is kept   *)
(* for the redirect and, whatever the status, as the resource of the call.   *)
OnHeader ==
    /\ info.at = "headers"
    /\ info' = [info EXCEPT !.at = "data", !.location = HasCallbacks /\ resp.location]
    /\ sig' = IF HasCallbacks
              THEN [sig EXCEPT !.location = @ \/ resp.location,
                               !.servers = IF @ > MAX_SERVER_SUPPORT THEN @ ELSE @ + resp.links]
              ELSE sig
    /\ UNCHANGED <<request, resp, responses, answers>>

(* A piece is copied behind what is there when it fits, and dropped when not. *)
Keep(i) == IF Len(i.data) < i.size
           THEN [i EXCEPT !.data = Append(@, <<resp.n, resp.given + 1>>)] ELSE i

(* HTTP_EVENT_ON_DATA: the first piece allocates the buffer, for the whole   *)
(* length; when that fails the next piece tries again.                       *)
OnData ==
    /\ info.at = "data" /\ resp.given < resp.length
    /\ \/ resp.body # "chunked" /\ info.data # <<>> /\ info' = Keep(info)
       \/ resp.body = "sized" /\ info.data = <<>> /\ info' = Keep([info EXCEPT !.size = resp.length])
       \/ info.data = <<>> /\ info' = info
    /\ resp' = [resp EXCEPT !.given = @ + 1]
    /\ UNCHANGED <<sig, request, responses, answers>>

(* There is no buffer, but the size of an earlier exchange's still says that *)
(* the piece fits: it is copied to NULL, and the device starts again.        *)
CopyToNull ==
    /\ info.at = "data" /\ resp.given < resp.length
    /\ resp.body # "chunked" /\ info.data = <<>> /\ info.size > 0
    /\ sig' = NoSig /\ request' = "none" /\ info' = NoInfo
    /\ UNCHANGED <<resp, responses, answers>>

(* HTTP_EVENT_ON_FINISH, which comes too when the connection closes before   *)
(* the whole length: what was kept is the body, however much is missing.     *)
OnFinish ==
    /\ info.at = "data"
    /\ info' = [info EXCEPT !.at = "performed"]
    /\ sig' = IF HasCallbacks /\ info.data # <<>> THEN [sig EXCEPT !.remote = info.data] ELSE sig
    /\ UNCHANGED <<request, resp, responses, answers>>

(* The connection fails, or cannot be made, or times out.                    *)
PerformFails ==
    /\ info.at \in {"perform", "headers", "data"}
    /\ info' = [(IF info.at = "perform" THEN ResetExchange(info) ELSE info)
                EXCEPT !.at = "returned", !.err = TRUE]
    /\ UNCHANGED <<sig, request, resp, responses, answers>>

(* esp_http_client_perform returned: a redirect is followed with the same    *)
(* client, as a GET without a body unless the status keeps the method.       *)
Performed ==
    /\ info.at = "performed"
    /\ info' = CASE resp.status = "final" -> [info EXCEPT !.at = "returned"]
                 [] resp.status # "final" /\ (info.redirects >= Redirects \/ ~info.location) ->
                        [info EXCEPT !.at = "returned", !.err = TRUE]
                 [] OTHER -> [info EXCEPT !.at = "perform", !.redirects = @ + 1,
                                          !.post = @ /\ resp.status = "same_method"]
    /\ UNCHANGED <<sig, request, resp, responses, answers>>

Next ==
    \/ Start
    \/ SendSdp
    \/ Stop
    \/ Returned
    \/ Perform
    \/ OnHeader
    \/ OnData
    \/ CopyToNull
    \/ OnFinish
    \/ PerformFails
    \/ Performed

Spec == Init /\ [][Next]_vars

-----------------------------------------------------------------------------

(* The SDP handed to the peer connection is of one response: however many    *)
(* redirects, lost connections, failed POSTs and failed allocations came     *)
(* before it, it never joins the pieces of two, and has every piece between  *)
(* its first and its last.  It may lack the end of the body (the connection  *)
(* closed early) and its beginning (the buffer could not be allocated yet).  *)
AnswerOfOneResponse ==
    \A k \in 1..Len(answers) :
        \A i \in 1..Len(answers[k]) :
            answers[k][i] = <<answers[k][1][1], answers[k][1][2] + i - 1>>

TypeOK ==
    /\ request \in {"none", "POST", "PATCH", "DELETE"}
    /\ info.at \in {"idle", "perform", "headers", "data", "performed", "returned"}
    /\ info.redirects \in 0..Redirects
    /\ sig.servers \in 0..MAX_SERVER_SUPPORT + 1
=============================================================================
