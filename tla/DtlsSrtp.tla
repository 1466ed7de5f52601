----------------------------- MODULE DtlsSrtp -----------------------------
(***************************************************************************)
(* dtls_srtp.c: the DTLS session of the peer connection and the two SRTP   *)
(* contexts made from its keys.  The session is opened, reset and closed   *)
(* by the closed library of esp_peer; the certificate and the count of     *)
(* users of libsrtp are static and outlive it.  esp_webrtc.c has one peer  *)
(* connection, so one session is open at a time.                           *)
(*                                                                         *)
(* External: the library resets a connected session before it makes the    *)
(* next handshake, and generates certificates in advance while no session  *)
(* is open.  mbedTLS exports the keys before the last flight, so that a    *)
(* handshake may fail after key_derivation has run.                        *)
(***************************************************************************)
EXTENDS Naturals

CONSTANTS
    MaxOpens,      \* calls of dtls_srtp_init
    MaxCerts,      \* certificates made
    MaxRounds      \* handshakes begun

VARIABLES
    dtls,             \* the session
    init_count, up,   \* users counted by check_srtp; libsrtp is initialised
    already_signed,
    signed_cert,      \* the certificate the sessions share
    freed,            \* certificates whose memory has been given back
    certs, opens, rounds

shared == <<already_signed, signed_cert, freed, certs>>
users  == <<init_count, up>>
vars   == <<dtls, users, shared, opens, rounds>>

Roles    == {"CLIENT", "SERVER"}
Other(r) == CHOOSE x \in Roles : x # r
NoKey    == [of |-> 0, by |-> "CLIENT"]
\* role is the field of dtls_srtp_t, endpoint what conf was set up for.
Closed   == [state |-> "NONE", role |-> "CLIENT", endpoint |-> "CLIENT", verify |-> FALSE, cert |-> 0,
             srtp_in |-> NoKey, srtp_out |-> NoKey]

Init ==
    /\ dtls = Closed /\ init_count = 0 /\ up = FALSE
    /\ already_signed = FALSE /\ signed_cert = 0 /\ freed = {}
    /\ certs = 0 /\ opens = 0 /\ rounds = 0

-----------------------------------------------------------------------------
(* What the sessions share *)

\* check_srtp(true): the first user counts for two.
CountIn ==
    IF init_count = 0 THEN init_count' = 2 /\ up' = TRUE
                      ELSE UNCHANGED users
\* check_srtp(false), after any users counted in by the same call.
CountOut(n) ==
    /\ init_count' = IF n = 0 THEN 0 ELSE n - 1
    /\ up' = (n > 1)
AfterCountIn == IF init_count = 0 THEN 2 ELSE init_count

\* A certificate of its own: RSA key and self-signed certificate, or a failure.
dtls_srtp_selfsign_cert(c) == certs < MaxCerts /\ c = certs + 1 /\ certs' = c

\* The shared certificate, made by the first that needs it.
dtls_srtp_try_gen_cert(c) ==
    \/ already_signed /\ c = signed_cert /\ UNCHANGED shared
    \/ /\ ~already_signed
       /\ dtls_srtp_selfsign_cert(c)
       /\ already_signed' = TRUE /\ signed_cert' = c
       /\ UNCHANGED freed

\* In advance: a new certificate replaces the shared one.  dtls_srtp_deinit does
\* nothing to the session this call makes, whose state is NONE.
dtls_srtp_gen_cert ==
    /\ dtls.state = "NONE"
    /\ freed' = freed \cup (IF already_signed THEN {signed_cert} ELSE {})
    /\ already_signed' \in BOOLEAN   \* whether signing worked
    /\ \E c \in 1 .. MaxCerts :
          /\ dtls_srtp_selfsign_cert(c)
          /\ signed_cert' = IF already_signed' THEN c ELSE signed_cert
    /\ UNCHANGED <<dtls, users, opens, rounds>>

-----------------------------------------------------------------------------
(* The life of a session *)

Opens == dtls.state = "NONE" /\ opens < MaxOpens /\ opens' = opens + 1 /\ UNCHANGED rounds

dtls_srtp_init(r) ==
    /\ Opens
    /\ CountIn
    /\ \E c \in 1 .. MaxCerts :
          /\ dtls_srtp_try_gen_cert(c)
          /\ dtls' = [Closed EXCEPT !.state = "INIT", !.role = r, !.endpoint = r, !.cert = c,
                                    !.verify = (r = "CLIENT")]

\* srtp_init fails, the certificate cannot be signed, or mbedTLS refuses the set-up:
\* dtls_srtp_deinit undoes what was reached.
InitFails ==
    /\ Opens /\ UNCHANGED dtls
    /\ \/ init_count = 0 /\ UNCHANGED <<users, shared>>
       \/ /\ ~already_signed
          /\ \E c \in 1 .. MaxCerts : dtls_srtp_selfsign_cert(c) /\ freed' = freed \cup {c}
          /\ CountOut(AfterCountIn) /\ UNCHANGED <<already_signed, signed_cert>>
       \/ (\E c \in 1 .. MaxCerts : dtls_srtp_try_gen_cert(c)) /\ CountOut(AfterCountIn)

\* Mutant: the certificate is freed with the session, as before version 1.2.4.
DeinitFrees ==
    /\ dtls.state # "NONE"
    /\ dtls' = [dtls EXCEPT !.state = "NONE", !.srtp_in = NoKey, !.srtp_out = NoKey]
    /\ freed' = freed \cup {dtls.cert}
    /\ CountOut(init_count)
    /\ UNCHANGED <<already_signed, signed_cert, certs, opens, rounds>>

dtls_srtp_deinit ==
    /\ dtls.state # "NONE"
    /\ dtls' = [dtls EXCEPT !.state = "NONE", !.srtp_in = NoKey, !.srtp_out = NoKey]
    /\ freed' = IF already_signed THEN freed ELSE freed \cup {dtls.cert}
    /\ CountOut(init_count)
    /\ UNCHANGED <<already_signed, signed_cert, certs, opens, rounds>>

\* The export of the keys: a context for what this end writes and one for what it
\* reads, chosen by role.  Making either may fail; only both are CONNECTED.
dtls_srtp_key_derivation ==
    LET key(by)  == [of |-> rounds', by |-> by]
        first(d) == IF d.role = "SERVER" THEN [d EXCEPT !.srtp_in = key("CLIENT")]
                                         ELSE [d EXCEPT !.srtp_out = key("CLIENT")]
        both(d)  == IF d.role = "SERVER" THEN [first(d) EXCEPT !.srtp_out = key("SERVER")]
                                         ELSE [first(d) EXCEPT !.srtp_in = key("SERVER")]
    IN  dtls' \in {dtls, first(dtls), [both(dtls) EXCEPT !.state = "CONNECTED"]}

\* A handshake may end before the keys are exported; it does when the client insists
\* on a certificate that its own one has signed.
dtls_srtp_handshake ==
    /\ dtls.state = "INIT" /\ rounds < MaxRounds /\ rounds' = rounds + 1
    /\ \/ UNCHANGED dtls
       \/ ~dtls.verify /\ dtls_srtp_key_derivation
    /\ UNCHANGED <<users, shared, opens>>

\* Mutant: mbedTLS is set up for the other role, the session is not told.
ResetForgetsRole(r) ==
    /\ dtls.state # "NONE"
    /\ dtls' = [dtls EXCEPT !.state = "INIT", !.endpoint = r,
                    !.verify = IF r = dtls.role THEN @ ELSE FALSE,
                    !.srtp_in = IF dtls.state = "CONNECTED" THEN NoKey ELSE @,
                    !.srtp_out = IF dtls.state = "CONNECTED" THEN NoKey ELSE @]
    /\ UNCHANGED <<users, shared, opens, rounds>>

\* Only a connected session gives its contexts back.  A change of role sets conf up
\* again, for a client without the check of the certificate.
dtls_srtp_reset_session(r) ==
    /\ dtls.state # "NONE"
    /\ dtls' = [dtls EXCEPT !.state = "INIT", !.role = r,
                    !.endpoint = IF r = dtls.role THEN @ ELSE r,
                    !.verify = IF r = dtls.role THEN @ ELSE FALSE,
                    !.srtp_in = IF dtls.state = "CONNECTED" THEN NoKey ELSE @,
                    !.srtp_out = IF dtls.state = "CONNECTED" THEN NoKey ELSE @]
    /\ UNCHANGED <<users, shared, opens, rounds>>

Next ==
    \/ dtls_srtp_gen_cert
    \/ \E r \in Roles : dtls_srtp_init(r) \/ dtls_srtp_reset_session(r)
    \/ InitFails
    \/ dtls_srtp_handshake
    \/ dtls_srtp_deinit

Spec == Init /\ [][Next]_vars

-----------------------------------------------------------------------------
(* Properties *)

\* Whatever failed, was reset or changed its role before: a connected session writes
\* with the key of the end it is set up as and reads with that of the other, both of
\* the last handshake.
KeysAsNegotiated ==
    dtls.state = "CONNECTED" =>
        /\ dtls.srtp_out = [of |-> rounds, by |-> dtls.endpoint]
        /\ dtls.srtp_in  = [of |-> rounds, by |-> Other(dtls.endpoint)]

\* What the sessions share is there as long as one is open: libsrtp is initialised
\* and the certificate has not been freed, neither by an earlier session nor by a
\* failure, nor replaced under it.
SharedAlive == dtls.state # "NONE" => up /\ dtls.cert \notin freed
=============================================================================
