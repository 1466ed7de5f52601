---------------------------- MODULE Webrtc_proofs ----------------------------
(***************************************************************************)
(* What is proved of the parts of the call that MCWebrtc checks in turn,   *)
(* for every value of the constants that its .cfg gives a value. Each      *)
(* section has the invariant of one part, one lemma or step per action,    *)
(* and its theorem.                                                        *)
(***************************************************************************)
EXTENDS MCWebrtc, Integers, Sequences, SequenceTheorems, TLAPS

-----------------------------------------------------------------------------
(* The frames that are sent: media_send_task and stop_stream of esp_webrtc.c *)

\* Where stop_stream and media_send_task can be.  A task that sends runs while it is
\* wanted, or while stop_stream waits for its end.
MediaTypes ==
    /\ mcfg \in Media!Settings
    /\ mediaConn \in BOOLEAN /\ capture \in BOOLEAN /\ sink \in BOOLEAN
    /\ media_send_going \in BOOLEAN /\ quit \in BOOLEAN
    /\ sender \in {"none", "loop", "audio", "video"}
    /\ frame \in {"none", "audio", "video"}
    /\ stop \in {"none", "test", "wait", "capture", "player"}
    /\ stopper \in {"none", "pc", "sig"}

MediaPlaces ==
    /\ stopper = "none" <=> stop = "none"
    /\ frame # "none" => sender = frame /\ capture /\ sink
    /\ sender # "none" => media_send_going \/ stop = "wait"
    /\ media_send_going => sender # "none" /\ stop \in {"none", "test"}
    /\ media_send_going /\ stop = "none" => mediaConn
    /\ quit => sender = "none" /\ stop = "wait"

MediaInv == MediaTypes /\ MediaPlaces

LEMMA MediaInitInv == Media!Init => MediaInv
  BY DEF Media!Init, MediaInv, MediaTypes, MediaPlaces, Media!Settings

LEMMA MediaNextInv == ASSUME MediaInv, [Media!Next]_(Media!vars) PROVE MediaInv'
  <1> USE DEF MediaInv
  <1>1. CASE Media!media_send_task
    <2>1. MediaTypes'
      BY <1>1 DEF MediaTypes, Media!media_send_task, Media!TestGoing, Media!Acquire,
         Media!SendAndRelease, Media!stopping
    <2>2. MediaPlaces'
      BY <1>1 DEF MediaTypes, MediaPlaces, Media!media_send_task, Media!TestGoing,
         Media!Acquire, Media!SendAndRelease, Media!stopping
    <2> QED BY <2>1, <2>2
  <1>2. CASE Media!stop_stream
    <2>1. MediaTypes'
      BY <1>2 DEF MediaTypes, Media!stop_stream, Media!StopSending, Media!WaitQuit,
         Media!StopCapture, Media!ResetPlayer, Media!sending
    <2>2. MediaPlaces'
      BY <1>2 DEF MediaTypes, MediaPlaces, Media!stop_stream, Media!StopSending,
         Media!WaitQuit, Media!StopCapture, Media!ResetPlayer, Media!sending
    <2> QED BY <2>1, <2>2
  <1>3. CASE Media!Connected
    <2>1. MediaTypes'
      BY <1>3 DEF MediaTypes, Media!Connected, Media!LoopRuns, Media!stopping
    <2>2. MediaPlaces'
      BY <1>3 DEF MediaTypes, MediaPlaces, Media!Connected, Media!LoopRuns, Media!stopping
    <2> QED BY <2>1, <2>2
  <1>4. CASE Media!VideoAsData \/ \E s \in {"audio", "video"} : Media!StreamInfo(s)
    <2>1. MediaTypes'
      BY <1>4 DEF MediaTypes, Media!VideoAsData, Media!StreamInfo, Media!LoopRuns,
         Media!sending, Media!stopping
    <2>2. MediaPlaces'
      BY <1>4 DEF MediaTypes, MediaPlaces, Media!VideoAsData, Media!StreamInfo,
         Media!LoopRuns, Media!sending, Media!stopping
    <2> QED BY <2>1, <2>2
  <1>5. CASE \E who \in {"pc", "sig"} : Media!Lost(who)
    <2>1. MediaTypes'
      BY <1>5 DEF MediaTypes, Media!Lost, Media!LoopRuns, Media!sending
    <2>2. MediaPlaces'
      BY <1>5 DEF MediaTypes, MediaPlaces, Media!Lost, Media!LoopRuns, Media!sending
    <2> QED BY <2>1, <2>2
  <1>6. CASE UNCHANGED Media!vars
    <2>1. MediaTypes'
      BY <1>6 DEF MediaTypes, Media!vars
    <2>2. MediaPlaces'
      BY <1>6 DEF MediaTypes, MediaPlaces, Media!vars
    <2> QED BY <2>1, <2>2
  <1> QED BY <1>1, <1>2, <1>3, <1>4, <1>5, <1>6 DEF Media!Next

\* FramesReturned of MCWebrtc: whatever the order of the sender's steps and of
\* stop_stream, no frame of the capture is out when stop_stream has stopped it: the
\* send task is waited for before.
THEOREM MediaReturnsFrames == Media!Spec => []FramesReturned
  <1>1. MediaInv => FramesReturned
    BY DEF MediaInv, MediaTypes, MediaPlaces, FramesReturned, Media!FramesReturned
  <1> QED BY <1>1, MediaInitInv, MediaNextInv, PTL DEF Media!Spec

-----------------------------------------------------------------------------
(* The session that encrypts them: dtls_srtp.c *)

DtlsKeySets     == [of : Nat, by : Dtls!Roles]
DtlsSessions == [state : {"NONE", "INIT", "CONNECTED"}, role : Dtls!Roles, endpoint : Dtls!Roles,
             verify : BOOLEAN, cert : Nat, srtp_in : DtlsKeySets, srtp_out : DtlsKeySets]

DtlsTypeOK ==
    /\ dtls \in DtlsSessions
    /\ init_count \in Nat /\ up \in BOOLEAN /\ already_signed \in BOOLEAN
    /\ signed_cert \in 0 .. certs /\ freed \subseteq 0 .. certs
    /\ certs \in Nat /\ rounds \in Nat

\* libsrtp is up while it has users, and an open session is one; the shared
\* certificate has not been freed, and an open session has it.
DtlsShared ==
    /\ up <=> init_count > 0
    /\ already_signed => signed_cert \notin freed
    /\ dtls.state # "NONE" => init_count > 0 /\ already_signed /\ dtls.cert = signed_cert

\* What conf is set up for is the role that chooses the keys.
DtlsRoles == dtls.endpoint = dtls.role /\ Dtls!KeysAsNegotiated

DtlsInv == DtlsTypeOK /\ DtlsShared /\ DtlsRoles

LEMMA OtherRole == Dtls!Other("CLIENT") = "SERVER" /\ Dtls!Other("SERVER") = "CLIENT"
  BY DEF Dtls!Other, Dtls!Roles

LEMMA WithoutKeys ==
    ASSUME NEW d \in DtlsSessions,
           NEW e, e = [d EXCEPT !.state = "NONE", !.srtp_in = Dtls!NoKey, !.srtp_out = Dtls!NoKey]
    PROVE  e \in DtlsSessions /\ e.state = "NONE" /\ e.role = d.role /\ e.endpoint = d.endpoint
  <1> Dtls!NoKey \in DtlsKeySets
    BY DEF Dtls!NoKey, DtlsKeySets, Dtls!Roles
  <1> QED BY DEF DtlsSessions

LEMMA ClosedIsSession == Dtls!Closed \in DtlsSessions
  BY DEF Dtls!Closed, DtlsSessions, DtlsKeySets, Dtls!NoKey, Dtls!Roles

LEMMA DtlsInitInv == Dtls!Init => DtlsInv
  <1>1. Dtls!Init => DtlsTypeOK
    <2> SUFFICES ASSUME Dtls!Init PROVE DtlsTypeOK
      OBVIOUS
    <2>1. dtls \in DtlsSessions /\ init_count \in Nat /\ certs \in Nat /\ rounds \in Nat
      BY ClosedIsSession DEF Dtls!Init
    <2>2. up \in BOOLEAN /\ already_signed \in BOOLEAN
      BY DEF Dtls!Init
    <2>3. signed_cert \in 0 .. certs /\ freed \subseteq 0 .. certs
      BY DEF Dtls!Init
    <2> QED BY <2>1, <2>2, <2>3 DEF DtlsTypeOK
  <1>2. Dtls!Init => DtlsShared /\ DtlsRoles
    BY DEF Dtls!Init, DtlsShared, DtlsRoles, Dtls!Closed, Dtls!KeysAsNegotiated
  <1> QED BY <1>1, <1>2 DEF DtlsInv

LEMMA DtlsInitStep ==
    ASSUME DtlsInv, NEW r \in Dtls!Roles, Dtls!dtls_srtp_init(r) PROVE DtlsInv'
  <1> USE DEF DtlsInv, DtlsTypeOK, DtlsShared
  <1> PICK c \in 1 .. MaxCerts :
        /\ Dtls!dtls_srtp_try_gen_cert(c)
        /\ dtls' = [Dtls!Closed EXCEPT !.state = "INIT", !.role = r, !.endpoint = r, !.cert = c,
                                  !.verify = (r = "CLIENT")]
    BY DEF Dtls!dtls_srtp_init
  <1>1. c \in Nat /\ c \in 0 .. certs' /\ certs' \in Nat
    BY DEF Dtls!dtls_srtp_try_gen_cert, Dtls!dtls_srtp_selfsign_cert, Dtls!shared
  <1>2. /\ dtls'.state = "INIT" /\ dtls'.role = r /\ dtls'.endpoint = r /\ dtls'.cert = c
    BY DEF Dtls!Closed
  <1>3. dtls' \in DtlsSessions
    BY <1>1, ClosedIsSession DEF DtlsSessions
  <1>4. /\ init_count' \in Nat /\ init_count' > 0 /\ up'
        /\ rounds' = rounds
    BY DEF Dtls!dtls_srtp_init, Dtls!CountIn, Dtls!users, Dtls!Opens
  <1>5. /\ already_signed' /\ signed_cert' = c /\ freed' = freed /\ c \notin freed
    BY DEF Dtls!dtls_srtp_try_gen_cert, Dtls!dtls_srtp_selfsign_cert, Dtls!shared
  <1>6. up' \in BOOLEAN /\ already_signed' \in BOOLEAN
    BY DEF Dtls!dtls_srtp_init, Dtls!CountIn, Dtls!users, Dtls!dtls_srtp_try_gen_cert,
       Dtls!shared
  <1>7. freed' \subseteq 0 .. certs'
    <2>1. certs' >= certs /\ certs' \in Nat
      BY DEF Dtls!dtls_srtp_try_gen_cert, Dtls!dtls_srtp_selfsign_cert, Dtls!shared
    <2> QED BY <1>5, <2>1
  <1>8. DtlsTypeOK'
    BY <1>1, <1>3, <1>4, <1>5, <1>6, <1>7
  <1>9. DtlsShared'
    BY <1>2, <1>4, <1>5
  <1>10. DtlsRoles'
    BY <1>2 DEF DtlsRoles, Dtls!KeysAsNegotiated
  <1> QED BY <1>8, <1>9, <1>10

\* The keys are made with roles that are those of the ends.
LEMMA DtlsHandshakeStep == ASSUME DtlsInv, Dtls!dtls_srtp_handshake PROVE DtlsInv'
  <1> USE DEF DtlsInv, DtlsTypeOK, DtlsShared
  <1>1. CASE dtls' = dtls
    BY <1>1 DEF Dtls!dtls_srtp_handshake, DtlsRoles, Dtls!KeysAsNegotiated, Dtls!users,
       Dtls!shared
  <1> DEFINE key(by) == [of |-> rounds', by |-> by]
             first == IF dtls.role = "SERVER" THEN [dtls EXCEPT !.srtp_in = key("CLIENT")]
                                              ELSE [dtls EXCEPT !.srtp_out = key("CLIENT")]
             both == IF dtls.role = "SERVER" THEN [first EXCEPT !.srtp_out = key("SERVER")]
                                             ELSE [first EXCEPT !.srtp_in = key("SERVER")]
  <1>2. rounds' \in Nat /\ key("CLIENT") \in DtlsKeySets /\ key("SERVER") \in DtlsKeySets
    BY DEF Dtls!dtls_srtp_handshake, DtlsKeySets, Dtls!Roles
  <1>3. first \in DtlsSessions /\ first.state = dtls.state /\ first.role = dtls.role
        /\ first.endpoint = dtls.endpoint /\ first.cert = dtls.cert
    BY <1>2 DEF DtlsSessions
  <1>4. /\ both \in DtlsSessions /\ both.state = dtls.state /\ both.role = dtls.role
        /\ both.endpoint = dtls.endpoint /\ both.cert = dtls.cert
        /\ both.srtp_out = key(dtls.role) /\ both.srtp_in = key(Dtls!Other(dtls.role))
    BY <1>2, <1>3, OtherRole DEF DtlsSessions, Dtls!Roles
  <1>5. CASE dtls' = first
    BY <1>2, <1>3, <1>5 DEF Dtls!dtls_srtp_handshake, DtlsRoles, Dtls!KeysAsNegotiated,
       Dtls!users, Dtls!shared
  <1>6. CASE dtls' = [both EXCEPT !.state = "CONNECTED"]
    <2>1. /\ dtls' \in DtlsSessions /\ dtls'.state = "CONNECTED" /\ dtls'.role = dtls.role
          /\ dtls'.endpoint = dtls.endpoint /\ dtls'.cert = dtls.cert
          /\ dtls'.srtp_out = key(dtls.role) /\ dtls'.srtp_in = key(Dtls!Other(dtls.role))
      BY <1>4, <1>6 DEF DtlsSessions
    <2> QED BY <1>2, <2>1 DEF Dtls!dtls_srtp_handshake, DtlsRoles, Dtls!KeysAsNegotiated,
               Dtls!users, Dtls!shared
  <1> QED BY <1>1, <1>5, <1>6 DEF Dtls!dtls_srtp_handshake, Dtls!dtls_srtp_key_derivation

\* libsrtp is initialised as long as a user is left.
LEMMA CountedOut ==
    ASSUME NEW n \in Nat, n > 0, Dtls!CountOut(n)
    PROVE  init_count' \in Nat /\ up' \in BOOLEAN /\ (up' <=> init_count' > 0)
  <1>1. init_count' = n - 1
    BY DEF Dtls!CountOut
  <1>2. up' = (n > 1)
    BY DEF Dtls!CountOut
  <1>3. up' \in BOOLEAN
    BY <1>2
  <1>4. up' <=> init_count' > 0
    <2>1. init_count' > 0 <=> n > 1
      BY <1>1
    <2> QED BY <1>2, <2>1, Zenon
  <1> QED BY <1>1, <1>3, <1>4

LEMMA DtlsNextInv == ASSUME DtlsInv, [Dtls!Next]_(Dtls!vars) PROVE DtlsInv'
  <1> USE DEF DtlsInv, DtlsTypeOK, DtlsShared
  <1>1. CASE Dtls!dtls_srtp_gen_cert
    <2>1. DtlsTypeOK'
      BY <1>1 DEF Dtls!dtls_srtp_gen_cert, Dtls!dtls_srtp_selfsign_cert, Dtls!users
    <2>2. DtlsShared' /\ DtlsRoles'
      BY <1>1 DEF Dtls!dtls_srtp_gen_cert, Dtls!dtls_srtp_selfsign_cert, Dtls!users,
         DtlsRoles, Dtls!KeysAsNegotiated
    <2> QED BY <2>1, <2>2
  <1>2. ASSUME NEW r \in Dtls!Roles, Dtls!dtls_srtp_init(r) PROVE DtlsInv'
    BY <1>2, DtlsInitStep
  <1>3. CASE Dtls!InitFails
    <2>0. Dtls!AfterCountIn \in Nat /\ Dtls!AfterCountIn > 0
      BY DEF Dtls!AfterCountIn
    <2>1. CASE UNCHANGED <<Dtls!users, Dtls!shared>>
      BY <1>3, <2>1 DEF Dtls!InitFails, Dtls!Opens, Dtls!users, Dtls!shared, DtlsRoles,
         Dtls!KeysAsNegotiated
    <2>2. CASE Dtls!CountOut(Dtls!AfterCountIn) /\ UNCHANGED <<already_signed, signed_cert>>
               /\ \E c \in 1 .. MaxCerts : Dtls!dtls_srtp_selfsign_cert(c) /\ freed' = freed \cup {c}
      <3>1. init_count' \in Nat /\ up' \in BOOLEAN /\ (up' <=> init_count' > 0)
        BY <2>2, <2>0, CountedOut
      <3>2. /\ signed_cert' \in 0 .. certs' /\ certs' \in Nat
            /\ freed' \subseteq 0 .. certs' /\ (already_signed' => signed_cert' \notin freed')
        BY <2>2 DEF Dtls!dtls_srtp_selfsign_cert
      <3> QED BY <1>3, <2>2, <3>1, <3>2 DEF Dtls!InitFails, Dtls!Opens, DtlsRoles,
                 Dtls!KeysAsNegotiated
    <2>3. CASE Dtls!CountOut(Dtls!AfterCountIn) /\ \E c \in 1 .. MaxCerts : Dtls!dtls_srtp_try_gen_cert(c)
      <3>1. init_count' \in Nat /\ up' \in BOOLEAN /\ (up' <=> init_count' > 0)
        BY <2>3, <2>0, CountedOut
      <3>2. already_signed' \in BOOLEAN
        BY <2>3 DEF Dtls!dtls_srtp_try_gen_cert, Dtls!shared
      <3>3. /\ signed_cert' \in 0 .. certs' /\ certs' \in Nat /\ certs' >= certs
            /\ freed' = freed /\ (already_signed' => signed_cert' \notin freed)
        BY <2>3 DEF Dtls!dtls_srtp_try_gen_cert, Dtls!dtls_srtp_selfsign_cert, Dtls!shared
      <3>4. freed' \subseteq 0 .. certs'
        BY <3>3
      <3> QED BY <1>3, <3>1, <3>2, <3>3, <3>4 DEF Dtls!InitFails, Dtls!Opens, DtlsRoles,
                 Dtls!KeysAsNegotiated
    <2> QED BY <1>3, <2>1, <2>2, <2>3 DEF Dtls!InitFails
  <1>4. CASE Dtls!dtls_srtp_handshake
    BY <1>4, DtlsHandshakeStep
  <1>5. ASSUME NEW r \in Dtls!Roles, Dtls!dtls_srtp_reset_session(r) PROVE DtlsInv'
    <2>1. /\ dtls' \in DtlsSessions /\ dtls'.state = "INIT" /\ dtls'.cert = dtls.cert
          /\ dtls'.role = r /\ dtls'.endpoint = r
      BY <1>5 DEF Dtls!dtls_srtp_reset_session, DtlsRoles, DtlsSessions, DtlsKeySets,
         Dtls!NoKey, Dtls!Roles
    <2> QED BY <1>5, <2>1 DEF Dtls!dtls_srtp_reset_session, DtlsRoles,
               Dtls!KeysAsNegotiated, Dtls!users, Dtls!shared
  <1>6. CASE Dtls!dtls_srtp_deinit
    <2>1. /\ dtls' \in DtlsSessions /\ dtls'.state = "NONE" /\ dtls'.role = dtls.role
          /\ dtls'.endpoint = dtls.endpoint
      <3>1. dtls' = [dtls EXCEPT !.state = "NONE", !.srtp_in = Dtls!NoKey, !.srtp_out = Dtls!NoKey]
        BY <1>6, Zenon DEF Dtls!dtls_srtp_deinit
      <3>2. dtls \in DtlsSessions
        OBVIOUS
      <3> HIDE DEF DtlsInv
      <3> QED BY <3>1, <3>2, WithoutKeys
    <2>2. init_count' \in Nat /\ up' \in BOOLEAN /\ (up' <=> init_count' > 0)
      BY <1>6, CountedOut DEF Dtls!dtls_srtp_deinit
    <2> QED BY <1>6, <2>1, <2>2 DEF Dtls!dtls_srtp_deinit, DtlsRoles, Dtls!KeysAsNegotiated
  <1>7. CASE UNCHANGED Dtls!vars
    BY <1>7 DEF Dtls!vars, Dtls!users, Dtls!shared, DtlsRoles, Dtls!KeysAsNegotiated
  <1> QED BY <1>1, <1>2, <1>3, <1>4, <1>5, <1>6, <1>7 DEF Dtls!Next

\* KeysAsNegotiated of MCWebrtc: a session that is connected writes with the key of
\* its own end and reads with that of the other one, both of the latest handshake;
\* so it is after any number of resets, and when the role changes between them.
THEOREM DtlsKeys == Dtls!Spec => []KeysAsNegotiated
  <1>1. DtlsInv => KeysAsNegotiated
    BY DEF DtlsInv, DtlsRoles, KeysAsNegotiated
  <1> QED BY <1>1, DtlsInitInv, DtlsNextInv, PTL DEF Dtls!Spec

\* SharedAlive of MCWebrtc: libsrtp is up and the certificate is not freed while a
\* session is open; dtls_srtp_init and dtls_srtp_deinit count the sessions of the
\* program and share the certificate among them.
THEOREM DtlsSharedAlive == Dtls!Spec => []SharedAlive
  <1>1. DtlsInv => SharedAlive
    BY DEF DtlsInv, DtlsShared, SharedAlive, Dtls!SharedAlive
  <1> QED BY <1>1, DtlsInitInv, DtlsNextInv, PTL DEF Dtls!Spec

-----------------------------------------------------------------------------
(* The pictures on the display: video_render.c and lcd_render.c *)

Renders == [alloc : BOOLEAN, is_open : BOOLEAN, ref_count : 0 .. 2]

LcdTypes ==
    /\ p4 \in BOOLEAN /\ framed \in BOOLEAN /\ lcdInfo \in BOOLEAN
    /\ sel \in {0, 1} /\ held \in {0, 1, Lcd!NoBuffer} /\ drawn \in {0, 1, Lcd!NoBuffer}
    /\ render \in Renders
    /\ writing \in {"none", "wait"}

\* The owners are counted.
LcdOwners ==
    /\ render.is_open => render.alloc /\ lcdInfo
    /\ render.ref_count = IF render.is_open THEN 2 ELSE IF render.alloc THEN 1 ELSE 0

\* With frame buffers the decoder fills the selected one, and a picture is drawn from
\* the other; without, neither.  A display that is closed was cleared.
LcdPlaces ==
    /\ writing = "wait" => render.is_open /\ (framed <=> held # Lcd!NoBuffer)
    /\ held # Lcd!NoBuffer => framed /\ held = sel /\ render.alloc
    /\ ~framed => drawn = Lcd!NoBuffer
    /\ drawn # Lcd!NoBuffer /\ ~blank => drawn = 1 - sel /\ render.alloc /\ lcdInfo

LcdInv == LcdTypes /\ LcdOwners /\ LcdPlaces

LEMMA GoneFields ==
    Lcd!Gone \in Renders /\ ~Lcd!Gone.alloc /\ ~Lcd!Gone.is_open /\ Lcd!Gone.ref_count = 0
  BY DEF Lcd!Gone, Renders

LEMMA LcdInitInv == Lcd!Init => LcdInv
  <1> SUFFICES ASSUME Lcd!Init PROVE LcdInv
    OBVIOUS
  <1>1. LcdTypes
    BY GoneFields DEF Lcd!Init, LcdTypes, Lcd!NoBuffer
  <1>2. LcdOwners /\ LcdPlaces
    BY GoneFields DEF Lcd!Init, LcdOwners, LcdPlaces
  <1> QED BY <1>1, <1>2 DEF LcdInv

LEMMA AllocFields ==
    ASSUME NEW r \in Renders, NEW e, e = [r EXCEPT !.alloc = TRUE, !.ref_count = 1]
    PROVE  e \in Renders /\ e.alloc /\ e.is_open = r.is_open /\ e.ref_count = 1
  <1>1. e = [alloc |-> TRUE, is_open |-> r.is_open, ref_count |-> 1]
    BY DEF Renders
  <1>2. r.is_open \in BOOLEAN /\ 1 \in 0 .. 2
    BY DEF Renders
  <1>3. e \in Renders
    BY <1>1, <1>2, Zenon DEF Renders
  <1> QED BY <1>1, <1>3

LEMMA OpenFields ==
    ASSUME NEW r \in Renders, NEW e, e = [r EXCEPT !.is_open = TRUE, !.ref_count = 2]
    PROVE  e \in Renders /\ e.is_open /\ e.alloc = r.alloc /\ e.ref_count = 2
  <1>1. e = [alloc |-> r.alloc, is_open |-> TRUE, ref_count |-> 2]
    BY DEF Renders
  <1>2. r.alloc \in BOOLEAN /\ 2 \in 0 .. 2
    BY DEF Renders
  <1>3. e \in Renders
    BY <1>1, <1>2, Zenon DEF Renders
  <1> QED BY <1>1, <1>3

LEMMA ShutFields ==
    ASSUME NEW r \in Renders, NEW e, e = [r EXCEPT !.is_open = FALSE, !.ref_count = 1]
    PROVE  e \in Renders /\ ~e.is_open /\ e.alloc = r.alloc /\ e.ref_count = 1
  <1>1. e = [alloc |-> r.alloc, is_open |-> FALSE, ref_count |-> 1]
    BY DEF Renders
  <1>2. r.alloc \in BOOLEAN /\ 1 \in 0 .. 2
    BY DEF Renders
  <1>3. e \in Renders
    BY <1>1, <1>2, Zenon DEF Renders
  <1> QED BY <1>1, <1>3

\* What an owner that goes leaves.
LEMMA FreedFields ==
    ASSUME NEW r \in Renders, NEW e,
           e = IF r.ref_count <= 1 THEN Lcd!Gone ELSE [r EXCEPT !.ref_count = r.ref_count - 1]
    PROVE  /\ e \in Renders
           /\ r.ref_count <= 1 => ~e.alloc /\ ~e.is_open /\ e.ref_count = 0
           /\ r.ref_count = 2 => e.alloc = r.alloc /\ e.is_open = r.is_open /\ e.ref_count = 1
  BY GoneFields DEF Renders

LEMMA LcdNextInv == ASSUME LcdInv, [Lcd!Next]_(Lcd!lcdvars) PROVE LcdInv'
  <1> USE DEF LcdInv, LcdTypes, LcdOwners, LcdPlaces
  <1>1. CASE Lcd!Alloc
    <2>0. render' \in Renders /\ render'.alloc /\ ~render'.is_open /\ render'.ref_count = 1
      <3>1. render' = [Lcd!Gone EXCEPT !.alloc = TRUE, !.ref_count = 1]
        BY <1>1 DEF Lcd!Alloc
      <3>2. /\ render' \in Renders /\ render'.alloc /\ render'.is_open = Lcd!Gone.is_open
            /\ render'.ref_count = 1
        BY <3>1, AllocFields, GoneFields, Zenon
      <3> QED BY <3>2, GoneFields
    <2>1. LcdTypes'
      BY <1>1, <2>0 DEF Lcd!Alloc, Lcd!panel
    <2>2. LcdOwners' /\ LcdPlaces'
      BY <1>1, <2>0 DEF Lcd!Alloc, Lcd!panel
    <2> QED BY <2>1, <2>2
  <1>2. CASE Lcd!FreeHandle
    <2>0. render' \in Renders /\ ~render'.alloc /\ ~render'.is_open /\ render'.ref_count = 0
      BY <1>2, FreedFields DEF Lcd!FreeHandle, Lcd!TryFree
    <2>1. LcdTypes'
      BY <1>2, <2>0 DEF Lcd!FreeHandle, Lcd!Clear, Lcd!lcd, Lcd!panel
    <2>2. LcdOwners' /\ LcdPlaces'
      BY <1>2, <2>0 DEF Lcd!FreeHandle, Lcd!Clear, Lcd!lcd, Lcd!panel
    <2> QED BY <2>1, <2>2
  <1>3. CASE Lcd!Open
    <2>0. render \in Renders /\ render.alloc
      BY <1>3 DEF Lcd!Open
    <2>1. CASE render' = [render EXCEPT !.is_open = TRUE, !.ref_count = 2] /\ lcdInfo' = TRUE
      <3>1. render' \in Renders /\ render'.alloc /\ render'.is_open /\ render'.ref_count = 2
        BY <2>0, <2>1, OpenFields, Zenon
      <3>2. LcdTypes'
        BY <1>3, <2>1, <3>1 DEF Lcd!Open, Lcd!Clear, Lcd!panel
      <3>3. LcdOwners' /\ LcdPlaces'
        BY <1>3, <2>1, <3>1 DEF Lcd!Open, Lcd!Clear, Lcd!panel
      <3> QED BY <3>2, <3>3
    <2>2. CASE render' = [render EXCEPT !.is_open = FALSE, !.ref_count = 1] /\ lcdInfo' = lcdInfo
      <3>1. render' \in Renders /\ render'.alloc /\ ~render'.is_open /\ render'.ref_count = 1
        BY <2>0, <2>2, ShutFields, Zenon
      <3>2. LcdTypes'
        BY <1>3, <2>2, <3>1 DEF Lcd!Open, Lcd!Clear, Lcd!panel
      <3>3. LcdOwners' /\ LcdPlaces'
        BY <1>3, <2>2, <3>1 DEF Lcd!Open, Lcd!Clear, Lcd!panel
      <3> QED BY <3>2, <3>3
    <2> QED
      <3>1. PICK supported \in BOOLEAN :
              /\ render' = [render EXCEPT !.is_open = supported,
                                          !.ref_count = IF supported THEN 2 ELSE 1]
              /\ lcdInfo' = (lcdInfo \/ supported)
        BY <1>3, Zenon DEF Lcd!Open
      <3>2. CASE supported = TRUE
        BY <2>1, <3>1, <3>2, Zenon
      <3>3. CASE supported = FALSE
        <4>1. lcdInfo' = lcdInfo
          BY <3>1, <3>3
        <4>2. render' = [render EXCEPT !.is_open = FALSE, !.ref_count = 1]
          BY <3>1, <3>3, Zenon
        <4> QED BY <2>2, <4>1, <4>2
      <3> QED BY <3>1, <3>2, <3>3
  <1>4. CASE Lcd!Close
    <2> DEFINE r == [render EXCEPT !.is_open = FALSE]
    <2>0. r \in Renders /\ r.alloc /\ ~r.is_open /\ r.ref_count = 2
      BY <1>4 DEF Lcd!Close, Renders
    <2>1. render' \in Renders /\ render'.alloc /\ ~render'.is_open /\ render'.ref_count = 1
      <3>1. render' = IF r.ref_count <= 1 THEN Lcd!Gone ELSE [r EXCEPT !.ref_count = r.ref_count - 1]
        BY <1>4 DEF Lcd!Close, Lcd!TryFree
      <3> HIDE DEF r
      <3> QED BY <2>0, <3>1, FreedFields
    <2>2. LcdTypes'
      BY <1>4, <2>1 DEF Lcd!Close, Lcd!Clear, Lcd!lcd, Lcd!panel
    <2>3. LcdOwners' /\ LcdPlaces'
      BY <1>4, <2>1 DEF Lcd!Close, Lcd!Clear, Lcd!lcd, Lcd!panel
    <2> QED BY <2>2, <2>3
  <1>5. CASE Lcd!GetFrameBuffer \/ Lcd!ReturnBuffer
    <2>1. LcdTypes'
      BY <1>5 DEF Lcd!GetFrameBuffer, Lcd!ReturnBuffer, Lcd!lcd, Lcd!panel
    <2>2. LcdOwners' /\ LcdPlaces'
      BY <1>5 DEF Lcd!GetFrameBuffer, Lcd!ReturnBuffer, Lcd!lcd, Lcd!panel
    <2> QED BY <2>1, <2>2
  <1>6. CASE Lcd!Write
    <2>1. LcdTypes'
      BY <1>6 DEF Lcd!Write, Lcd!lcd, Lcd!panel
    <2>2. LcdOwners' /\ LcdPlaces'
      BY <1>6 DEF Lcd!Write, Lcd!lcd, Lcd!panel
    <2> QED BY <2>1, <2>2
  <1>7. CASE Lcd!Refuse \/ Lcd!Draw
    <2>1. LcdTypes'
      BY <1>7 DEF Lcd!Refuse, Lcd!Draw, Lcd!Waits, Lcd!panel, Lcd!NoBuffer
    <2>2. LcdOwners' /\ LcdPlaces'
      BY <1>7 DEF Lcd!Refuse, Lcd!Draw, Lcd!Waits, Lcd!panel, Lcd!NoBuffer
    <2> QED BY <2>1, <2>2
  <1>8. CASE Lcd!draw_finished
    BY <1>8 DEF Lcd!draw_finished
  <1>9. CASE UNCHANGED Lcd!lcdvars
    BY <1>9 DEF Lcd!lcdvars, Lcd!lcd, Lcd!panel
  <1> QED BY <1>1, <1>2, <1>3, <1>4, <1>5, <1>6, <1>7, <1>8, <1>9 DEF Lcd!Next

\* LastDrawnKept of MCWebrtc: the decoder never fills the buffer of the picture drawn
\* last, over dropped pictures and displays that are cleared, closed and opened while it
\* has a buffer, although lcd_render_write and lcd_render_get_frame_buffer each choose a
\* buffer by themselves.
THEOREM LcdKeepsLastDrawn == Lcd!Spec => []LastDrawnKept
  <1>1. LcdInv => LastDrawnKept
    BY DEF LcdInv, LcdTypes, LcdPlaces, LastDrawnKept, Lcd!LastDrawnKept, Lcd!NoBuffer
  <1> QED BY <1>1, LcdInitInv, LcdNextInv, PTL DEF Lcd!Spec

-----------------------------------------------------------------------------
(* The rooms of signal_default.c *)

Signalings == [live : {TRUE, FALSE}, is_initiator : {TRUE, FALSE}, ice_reloading : {TRUE, FALSE},
               ice_reload_stop : {TRUE, FALSE}]

\* The renewing task is counted by ice_reloading alone; it and the websocket are there
\* only between a start and the end of the stop.
RtcInv ==
    /\ sg \in Signalings
    /\ caller \in {"out", "create", "offer", "in", "stop", "stop_reload", "wait"}
    /\ caller = "out" \/ sg.live
    /\ reload # "none" <=> sg.ice_reloading
    /\ reload # "none" => caller \notin {"out", "create"}
    /\ handler # "idle" => ws = "open"
    /\ ws # "none" => caller \in {"offer", "in", "stop"}

LEMMA NoSgFields ==
    Rtc!NoSg \in Signalings /\ ~Rtc!NoSg.live /\ ~Rtc!NoSg.ice_reloading
  BY DEF Rtc!NoSg, Signalings

LEMMA RtcInitInv == Rtc!Init => RtcInv
  BY NoSgFields DEF Rtc!Init, RtcInv

LEMMA JoinedFields ==
    ASSUME NEW initiator \in BOOLEAN, NEW s \in Signalings, ~s.ice_reloading,
           NEW e, e = [s EXCEPT !.live = TRUE, !.is_initiator = initiator]
    PROVE  e \in Signalings /\ e.live /\ ~e.ice_reloading
  BY DEF Signalings

LEMMA RtcNextInv == ASSUME RtcInv, [Rtc!Next]_(Rtc!vars) PROVE RtcInv'
  <1> USE DEF RtcInv
  <1>1. CASE Rtc!Join
    <2>1. sg' \in Signalings /\ sg'.live /\ ~sg'.ice_reloading
      BY <1>1, NoSgFields, JoinedFields DEF Rtc!Join
    <2> QED BY <1>1, <2>1 DEF Rtc!Join
  <1>2. CASE Rtc!CreateWss
    BY <1>2 DEF Rtc!CreateWss, Signalings
  <1>3. CASE Rtc!OfferMsg
    BY <1>3 DEF Rtc!OfferMsg
  <1>4. CASE Rtc!Connected \/ Rtc!Disconnected \/ Rtc!OnText \/ Rtc!SendSdp
    BY <1>4 DEF Rtc!Connected, Rtc!Disconnected, Rtc!OnText, Rtc!SendSdp
  <1>5. CASE Rtc!TextDone
    <2>1. sg' \in Signalings /\ sg'.live = sg.live /\ sg'.ice_reloading = sg.ice_reloading
      BY <1>5 DEF Rtc!TextDone, Signalings
    <2> QED BY <1>5, <2>1 DEF Rtc!TextDone
  <1>6. CASE Rtc!ReloadWakes \/ Rtc!ReloadPosts \/ Rtc!ReloadTells
    BY <1>6 DEF Rtc!ReloadWakes, Rtc!ReloadPosts, Rtc!ReloadTells
  <1>7. CASE Rtc!ReloadExits
    BY <1>7 DEF Rtc!ReloadExits, Signalings
  <1>8. CASE Rtc!Leave \/ Rtc!DestroyWss
    BY <1>8 DEF Rtc!Leave, Rtc!DestroyWss
  <1>9. CASE Rtc!StopReload
    BY <1>9 DEF Rtc!StopReload, Signalings
  <1>10. CASE Rtc!Free
    BY <1>10, NoSgFields DEF Rtc!Free
  <1>11. CASE UNCHANGED Rtc!vars
    BY <1>11 DEF Rtc!vars
  <1> QED BY <1>1, <1>2, <1>3, <1>4, <1>5, <1>6, <1>7, <1>8, <1>9, <1>10, <1>11
           DEF Rtc!Next, Rtc!ReloadStep, Rtc!StopStep

\* AliveWhileUsed of MCWebrtc: signal_default.c's stop frees the signaling only when
\* neither the task that renews the ICE servers nor the handler of the websocket can
\* use it any more.
THEOREM RtcAliveWhileUsed == Rtc!Spec => []AliveWhileUsed
  <1>1. RtcInv => AliveWhileUsed
    BY DEF RtcInv, AliveWhileUsed, Rtc!AliveWhileUsed
  <1> QED BY <1>1, RtcInitInv, RtcNextInv, PTL DEF Rtc!Spec

-----------------------------------------------------------------------------
(* The answer of whip_signaling.c over https_client.c *)

Bits   == {TRUE, FALSE}
Bodies == Seq(Nat \X Nat)
Infos  == [at : {"idle", "perform", "headers", "data", "performed", "returned"}, post : Bits,
           location : Bits, data : Bodies, size : Nat, redirects : Nat, err : Bits]
Resps  == [n : Nat, status : {"final", "see_other", "same_method"}, location : Bits,
           links : Nat, body : {"sized", "chunked", "close"}, length : Nat, given : Nat]

\* b is the pieces of response n that end with number m.
PiecesOf(b, n, m) == Len(b) <= m /\ \A i \in 1 .. Len(b) : b[i] = <<n, m - Len(b) + i>>
OneRun(b) == \A i \in 1 .. Len(b) : b[i] = <<b[1][1], b[1][2] + i - 1>>

WhipTypes ==
    /\ sig \in [live : Bits, sent : Bits, location : Bits, servers : Nat, remote : Bodies]
    /\ info \in Infos /\ resp \in Resps /\ responses \in Nat
    /\ answers \in Seq(Bodies)

\* The buffer holds the last pieces of the response on the wire that came, or nothing,
\* and is as large as that response; it is empty when the headers come.
WhipBuffer ==
    /\ info.at = "headers" => info.data = <<>>
    /\ info.at = "data" /\ info.data # <<>> =>
          /\ resp.body = "sized" /\ info.size = resp.length /\ resp.given <= resp.length
          /\ PiecesOf(info.data, resp.n, resp.given)

WhipInv == WhipTypes /\ WhipBuffer /\ OneRun(sig.remote) /\ WhipSig!AnswerOfOneResponse

LEMMA EmptyBody == <<>> \in Bodies /\ Len(<<>>) = 0
  BY EmptySeq DEF Bodies

LEMMA NoFields ==
    /\ WhipSig!NoSig \in [live : Bits, sent : Bits, location : Bits, servers : Nat, remote : Bodies]
    /\ WhipSig!NoInfo \in Infos /\ WhipSig!NoResp \in Resps
    /\ WhipSig!NoSig.remote = <<>> /\ WhipSig!NoInfo.at = "idle"
  BY EmptyBody DEF WhipSig!NoSig, WhipSig!NoInfo, WhipSig!NoResp, Infos, Resps, Bits

LEMMA WhipInitInv == WhipSig!Init => WhipInv
  <1> SUFFICES ASSUME WhipSig!Init PROVE WhipInv
    OBVIOUS
  <1>1. WhipTypes
    BY NoFields, EmptySeq DEF WhipSig!Init, WhipTypes
  <1>2. WhipBuffer
    BY NoFields DEF WhipSig!Init, WhipBuffer
  <1>3. OneRun(sig.remote) /\ WhipSig!AnswerOfOneResponse
    BY NoFields, EmptyBody DEF WhipSig!Init, OneRun, WhipSig!AnswerOfOneResponse
  <1> QED BY <1>1, <1>2, <1>3 DEF WhipInv

\* What a piece that is kept adds to the buffer.
LEMMA KeepFields ==
    ASSUME NEW i \in Infos, resp \in Resps, i.at = "data", i.size = resp.length,
           resp.given < resp.length, PiecesOf(i.data, resp.n, resp.given)
    PROVE  /\ WhipSig!Keep(i) \in Infos /\ WhipSig!Keep(i).at = "data" /\ WhipSig!Keep(i).size = resp.length
           /\ PiecesOf(WhipSig!Keep(i).data, resp.n, resp.given + 1)
  <1> DEFINE piece == <<resp.n, resp.given + 1>>
             data  == Append(i.data, piece)
  <1>1. i.data \in Bodies /\ Len(i.data) \in Nat /\ Len(i.data) <= resp.given /\ resp.given \in Nat
    BY LenProperties DEF Infos, Bodies, Resps, PiecesOf
  <1>2. piece \in Nat \X Nat
    BY DEF Resps
  <1>3. Len(i.data) < i.size
    BY <1>1 DEF Resps
  <1>4. /\ data \in Bodies /\ Len(data) = Len(i.data) + 1
        /\ \A k \in 1 .. Len(i.data) : data[k] = i.data[k]
        /\ data[Len(i.data) + 1] = piece
    BY <1>1, <1>2, AppendProperties DEF Bodies
  <1>5. WhipSig!Keep(i) = [i EXCEPT !.data = data]
    BY <1>3 DEF WhipSig!Keep
  <1> HIDE DEF data
  <1>6. /\ WhipSig!Keep(i) \in Infos /\ WhipSig!Keep(i).at = "data" /\ WhipSig!Keep(i).size = resp.length
        /\ WhipSig!Keep(i).data = data
    BY <1>4, <1>5 DEF Infos
  <1>7. PiecesOf(data, resp.n, resp.given + 1)
    <2> DEFINE n == Len(i.data)
               m == resp.given
    <2>1. n \in Nat /\ m \in Nat /\ Len(data) = n + 1 /\ n + 1 <= m + 1
      BY <1>1, <1>4
    <2>2. ASSUME NEW k \in 1 .. n PROVE data[k] = <<resp.n, m - n + k>>
      BY <1>4, <2>2 DEF PiecesOf
    <2>3. data[n + 1] = <<resp.n, m + 1>>
      BY <1>4
    <2> HIDE DEF n, m
    <2>4. ASSUME NEW k \in 1 .. n + 1 PROVE data[k] = <<resp.n, (m + 1) - (n + 1) + k>>
      <3>1. (m + 1) - (n + 1) + k = m - n + k /\ (k = n + 1 => m - n + k = m + 1)
        BY <2>1
      <3>2. k \in 1 .. n \/ k = n + 1
        BY <2>1
      <3> QED BY <2>2, <2>3, <3>1, <3>2
    <2>5. PiecesOf(data, resp.n, m + 1)
      BY <2>1, <2>4 DEF PiecesOf
    <2> QED BY <2>5 DEF m
  <1> QED BY <1>6, <1>7

LEMMA RedirectFields ==
    ASSUME NEW i \in Infos, NEW b \in Bits, NEW e,
           e = [i EXCEPT !.at = "perform", !.redirects = i.redirects + 1, !.post = b]
    PROVE  e \in Infos /\ e.at \in {"returned", "perform"}
  <1>1. i.redirects + 1 \in Nat
    BY DEF Infos
  <1> DEFINE n == i.redirects + 1
  <1> HIDE DEF n
  <1>2. e = [i EXCEPT !.at = "perform", !.redirects = n, !.post = b] /\ n \in Nat
    BY <1>1 DEF n
  <1> QED BY <1>2 DEF Infos

LEMMA WhipNextInv ==
    ASSUME Pieces \in Nat, WhipInv, [WhipSig!Next]_(WhipSig!vars)
    PROVE  WhipInv'
  <1> USE DEF WhipInv, WhipTypes
  <1>1. CASE WhipSig!Start
    <2>1. sig' \in [live : Bits, sent : Bits, location : Bits, servers : Nat, remote : Bodies]
          /\ sig'.remote = <<>>
      BY <1>1, NoFields DEF WhipSig!Start, Bits
    <2>2. OneRun(sig'.remote)
      BY <2>1, EmptyBody DEF OneRun
    <2> QED BY <1>1, <2>1, <2>2 DEF WhipSig!Start, WhipBuffer, WhipSig!AnswerOfOneResponse
  <1>2. ASSUME NEW method, NEW body \in Bits, WhipSig!Request(method, body)
        PROVE  info' \in Infos /\ info'.at = "perform"
    BY <1>2, NoFields DEF WhipSig!Request, Infos, Bits
  <1>3. CASE WhipSig!SendSdp
    <2>1. info' \in Infos /\ info'.at = "perform"
      BY <1>2, <1>3 DEF WhipSig!SendSdp, Bits
    <2> QED BY <1>3, <2>1 DEF WhipSig!SendSdp, WhipBuffer, WhipSig!AnswerOfOneResponse,
               OneRun
  <1>4. CASE WhipSig!Stop
    <2>1. CASE sig.location
      <3>1. info' \in Infos /\ info'.at = "perform"
        BY <1>2, <1>4, <2>1 DEF WhipSig!Stop, Bits
      <3> QED BY <1>4, <2>1, <3>1 DEF WhipSig!Stop, WhipBuffer, WhipSig!AnswerOfOneResponse,
                 OneRun
    <2>2. CASE ~sig.location
      <3>1. OneRun(WhipSig!NoSig.remote)
        BY NoFields, EmptyBody DEF OneRun
      <3> QED BY <1>4, <2>2, <3>1, NoFields DEF WhipSig!Stop, WhipBuffer,
                 WhipSig!AnswerOfOneResponse
    <2> QED BY <2>1, <2>2
  <1>5. CASE WhipSig!Returned
    <2> DEFINE answered == request = "POST" /\ ~info.err /\ sig.remote # <<>>
    <2>1. OneRun(<<>>)
      BY EmptyBody DEF OneRun
    <2>2. sig' \in [live : Bits, sent : Bits, location : Bits, servers : Nat, remote : Bodies]
          /\ OneRun(sig'.remote)
      <3>1. CASE sig' = [sig EXCEPT !.sent = TRUE, !.remote = <<>>]
        BY <2>1, <3>1, EmptyBody DEF Bits
      <3>2. CASE sig' = WhipSig!NoSig
        BY <2>1, <3>2, NoFields
      <3>3. CASE sig' = sig
        BY <3>3
      <3> QED BY <1>5, <3>1, <3>2, <3>3, Zenon DEF WhipSig!Returned
    <2>3. answers' \in Seq(Bodies) /\ WhipSig!AnswerOfOneResponse'
      <3>1. CASE answers' = answers
        BY <3>1 DEF WhipSig!AnswerOfOneResponse
      <3>2. CASE answers' = Append(answers, sig.remote)
        <4>1. /\ answers' \in Seq(Bodies) /\ Len(answers') = Len(answers) + 1
              /\ \A k \in 1 .. Len(answers) : answers'[k] = answers[k]
              /\ answers'[Len(answers) + 1] = sig.remote
          BY <3>2, AppendProperties
        <4>2. \A k \in 1 .. Len(answers) : OneRun(answers[k])
          BY DEF WhipSig!AnswerOfOneResponse, OneRun
        <4>3. Len(answers) \in Nat
          BY LenProperties
        <4>4. \A k \in 1 .. Len(answers') : OneRun(answers'[k])
          BY <4>1, <4>2, <4>3
        <4> QED BY <4>1, <4>4 DEF WhipSig!AnswerOfOneResponse, OneRun
      <3> QED BY <1>5, <3>1, <3>2 DEF WhipSig!Returned
    <2> QED BY <1>5, <2>2, <2>3, NoFields DEF WhipSig!Returned, WhipBuffer
  <1>6. CASE WhipSig!Perform
    <2>1. WhipSig!ResetExchange(info) \in Infos /\ WhipSig!ResetExchange(info).data = <<>>
      BY EmptyBody DEF WhipSig!ResetExchange, Infos, Bits
    <2>2. info' \in Infos /\ info'.at = "headers" /\ info'.data = <<>>
      BY <1>6, <2>1 DEF WhipSig!Perform, Infos
    <2>3. resp' \in Resps
      <3>1. PICK status \in {"final", "see_other", "same_method"}, location \in BOOLEAN,
                 body \in {"sized", "chunked", "close"}, links \in 0 .. 1, length \in 0 .. Pieces :
              resp' = [n |-> responses + 1, status |-> status, location |-> location,
                       links |-> links, body |-> body, length |-> length, given |-> 0]
        BY <1>6 DEF WhipSig!Perform
      <3>2. responses + 1 \in Nat /\ links \in Nat /\ length \in Nat /\ 0 \in Nat
        OBVIOUS
      <3>3. location \in Bits
        BY DEF Bits
      <3>4. resp' \in Resps
        BY <3>1, <3>2, <3>3, Zenon DEF Resps
      <3> QED BY <3>1, <3>4
    <2> QED BY <1>6, <2>2, <2>3 DEF WhipSig!Perform, WhipBuffer, WhipSig!AnswerOfOneResponse
  <1>7. CASE WhipSig!OnHeader
    <2>1. /\ info' \in Infos /\ info'.at = "data" /\ info'.data = info.data
          /\ sig'.remote = sig.remote
          /\ sig' \in [live : Bits, sent : Bits, location : Bits, servers : Nat, remote : Bodies]
      <3> DEFINE b == WhipSig!HasCallbacks /\ resp.location
                 l == sig.location \/ resp.location
                 v == IF sig.servers > WhipSig!MAX_SERVER_SUPPORT THEN sig.servers
                                                          ELSE sig.servers + resp.links
      <3>1. b \in Bits /\ l \in Bits
        BY Zenon DEF Bits
      <3>2. v \in Nat
        BY DEF Resps, WhipSig!MAX_SERVER_SUPPORT
      <3>3. info' = [info EXCEPT !.at = "data", !.location = b]
        BY <1>7 DEF WhipSig!OnHeader
      <3>4. sig' = [sig EXCEPT !.location = l, !.servers = v] \/ sig' = sig
        BY <1>7, Zenon DEF WhipSig!OnHeader
      <3> HIDE DEF b, l, v
      <3>5. info' \in Infos /\ info'.at = "data" /\ info'.data = info.data
        BY <3>1, <3>3 DEF Infos
      <3>6. CASE sig' = [sig EXCEPT !.location = l, !.servers = v]
        BY <3>1, <3>2, <3>5, <3>6
      <3> QED BY <3>4, <3>5, <3>6
    <2> QED BY <1>7, <2>1 DEF WhipSig!OnHeader, WhipBuffer, WhipSig!AnswerOfOneResponse
  <1>8. CASE WhipSig!OnData
    <2>1. resp' \in Resps /\ resp'.given = resp.given + 1 /\ resp'.n = resp.n
          /\ resp'.body = resp.body /\ resp'.length = resp.length
      BY <1>8, SMTT(30) DEF WhipSig!OnData, Resps
    <2>2. resp.given < resp.length /\ resp.given \in Nat /\ resp.length \in Nat /\ info.at = "data"
      BY <1>8 DEF WhipSig!OnData, Resps
    <2>3. ASSUME NEW i \in Infos, i.at = "data", i.size = resp.length, resp.body = "sized",
                 PiecesOf(i.data, resp.n, resp.given), info' = WhipSig!Keep(i)
          PROVE  WhipInv'
      <3>1. /\ info' \in Infos /\ info'.at = "data" /\ info'.size = resp.length
            /\ PiecesOf(info'.data, resp.n, resp.given + 1)
        BY <2>2, <2>3, KeepFields
      <3> QED BY <1>8, <2>1, <2>2, <2>3, <3>1 DEF WhipSig!OnData, WhipBuffer,
                 WhipSig!AnswerOfOneResponse
    <2>4. CASE info.data # <<>> /\ info' = WhipSig!Keep(info)
      BY <2>2, <2>3, <2>4 DEF WhipBuffer
    <2>5. CASE resp.body = "sized" /\ info.data = <<>>
               /\ info' = WhipSig!Keep([info EXCEPT !.size = resp.length])
      <3> DEFINE i == [info EXCEPT !.size = resp.length]
      <3>1. i \in Infos /\ i.at = "data" /\ i.size = resp.length /\ i.data = <<>>
        BY <2>2, <2>5 DEF Infos
      <3>2. PiecesOf(i.data, resp.n, resp.given)
        BY <2>2, <3>1, EmptyBody DEF PiecesOf
      <3> HIDE DEF i
      <3>3. info' = WhipSig!Keep(i)
        BY <2>5 DEF i
      <3> QED BY <2>3, <2>5, <3>1, <3>2, <3>3
    <2>6. CASE info.data = <<>> /\ info' = info
      BY <1>8, <2>1, <2>6 DEF WhipSig!OnData, WhipBuffer, WhipSig!AnswerOfOneResponse
    <2> QED BY <1>8, <2>4, <2>5, <2>6 DEF WhipSig!OnData
  <1>9. CASE WhipSig!OnFinish
    <2>1. info' \in Infos /\ info'.at = "performed"
      BY <1>9 DEF WhipSig!OnFinish, Infos
    <2>2. info.data # <<>> => OneRun(info.data)
      <3> SUFFICES ASSUME info.data # <<>> PROVE OneRun(info.data)
        OBVIOUS
      <3>1. PiecesOf(info.data, resp.n, resp.given)
        BY <1>9 DEF WhipSig!OnFinish, WhipBuffer
      <3>2. 1 \in 1 .. Len(info.data) /\ Len(info.data) \in Nat /\ resp.given \in Nat
        BY DEF Infos, Bodies, Resps
      <3> DEFINE b == info.data
                 d == resp.given - Len(b)
      <3>3. d \in Int /\ \A i \in 1 .. Len(b) : b[i] = <<resp.n, d + i>>
        BY <3>1, <3>2 DEF PiecesOf
      <3> HIDE DEF b, d
      <3>4. 1 \in 1 .. Len(b) /\ Len(b) \in Nat
        BY <3>2 DEF b
      <3>5. b[1] = <<resp.n, d + 1>>
        BY <3>3, <3>4
      <3>6. b[1][1] = resp.n /\ b[1][2] = d + 1
        BY <3>5
      <3>7. ASSUME NEW i \in 1 .. Len(b) PROVE b[i] = <<b[1][1], b[1][2] + i - 1>>
        <4>1. d + 1 + i - 1 = d + i
          BY <3>3, <3>4
        <4> QED BY <3>3, <3>6, <4>1
      <3>8. OneRun(b)
        BY <3>7 DEF OneRun
      <3> QED BY <3>8 DEF b
    <2>3. sig' \in [live : Bits, sent : Bits, location : Bits, servers : Nat, remote : Bodies]
          /\ OneRun(sig'.remote)
      <3>1. CASE sig' = sig
        BY <3>1
      <3>2. CASE sig' = [sig EXCEPT !.remote = info.data] /\ info.data # <<>>
        BY <2>2, <3>2 DEF Infos
      <3> QED BY <1>9, <3>1, <3>2 DEF WhipSig!OnFinish
    <2> QED BY <1>9, <2>1, <2>3 DEF WhipSig!OnFinish, WhipBuffer, WhipSig!AnswerOfOneResponse
  <1>10. CASE WhipSig!PerformFails
    <2>1. WhipSig!ResetExchange(info) \in Infos
      BY EmptyBody DEF WhipSig!ResetExchange, Infos, Bits
    <2>2. info' \in Infos /\ info'.at = "returned"
      BY <1>10, <2>1 DEF WhipSig!PerformFails, Infos, Bits
    <2> QED BY <1>10, <2>2 DEF WhipSig!PerformFails, WhipBuffer, WhipSig!AnswerOfOneResponse
  <1>11. CASE WhipSig!Performed
    <2>1. info' \in Infos /\ info'.at \in {"returned", "perform"}
      <3>1. CASE info' = [info EXCEPT !.at = "returned"]
        BY <3>1 DEF Infos
      <3>2. CASE info' = [info EXCEPT !.at = "returned", !.err = TRUE]
        BY <3>2 DEF Infos, Bits
      <3>3. CASE info' = [info EXCEPT !.at = "perform", !.redirects = @ + 1,
                                      !.post = @ /\ resp.status = "same_method"]
        <4> DEFINE b == info.post /\ resp.status = "same_method"
        <4>1. b \in Bits
          BY Zenon DEF Bits
        <4>2. info' = [info EXCEPT !.at = "perform", !.redirects = info.redirects + 1, !.post = b]
          BY <3>3
        <4>3. info \in Infos
          OBVIOUS
        <4> HIDE DEF b
        <4> DEFINE e == info'
        <4>4. e = [info EXCEPT !.at = "perform", !.redirects = info.redirects + 1, !.post = b]
          BY <4>2
        <4> HIDE DEF e
        <4>5. e \in Infos /\ e.at \in {"returned", "perform"}
          BY <4>1, <4>3, <4>4, RedirectFields, Zenon
        <4> QED BY <4>5 DEF e
      <3> QED BY <1>11, <3>1, <3>2, <3>3, Zenon DEF WhipSig!Performed
    <2> QED BY <1>11, <2>1 DEF WhipSig!Performed, WhipBuffer, WhipSig!AnswerOfOneResponse
  <1>12. CASE WhipSig!CopyToNull
    <2>1. sig' \in [live : Bits, sent : Bits, location : Bits, servers : Nat, remote : Bodies]
          /\ OneRun(sig'.remote) /\ info' \in Infos /\ info'.at = "idle"
      BY <1>12, NoFields, EmptyBody DEF WhipSig!CopyToNull, OneRun
    <2> QED BY <1>12, <2>1 DEF WhipSig!CopyToNull, WhipBuffer, WhipSig!AnswerOfOneResponse
  <1>13. CASE UNCHANGED WhipSig!vars
    BY <1>13 DEF WhipSig!vars, WhipBuffer, WhipSig!AnswerOfOneResponse
  <1> QED BY <1>1, <1>3, <1>4, <1>5, <1>6, <1>7, <1>8, <1>9, <1>10, <1>11, <1>12, <1>13
             DEF WhipSig!Next

\* AnswerOfOneResponse of MCWebrtc: what is handed on as the SDP answer is a run of
\* pieces of one response, in order: nothing of two responses, nothing twice, no gap.
THEOREM WhipAnswerOfOneResponse ==
    ASSUME Pieces \in Nat
    PROVE  WhipSig!Spec => []AnswerOfOneResponse
  <1>1. WhipInv => AnswerOfOneResponse
    BY DEF WhipInv, AnswerOfOneResponse
  <1> QED BY <1>1, WhipInitInv, WhipNextInv, PTL DEF WhipSig!Spec

-----------------------------------------------------------------------------
(* The conversion of the sound: audio_resample.c *)

\* What the proofs assume: formats and lengths are numbers.
ResampleAssumption ==
    /\ Channels \subseteq Nat /\ Rates \subseteq Nat \ {0} /\ Bytes \subseteq Nat
    /\ FrameSamples \subseteq Nat

ResampleSteps == {"channel", "rate", "bytes"}

\* What is different from the output is converted by a step that is still to come.
Repairs(from, in) ==
    \A f \in ResampleSteps : in[f] # output_info[f] => \E j \in from .. Len(ops) : ops[j] = f

ResampleInv ==
    /\ input_info \in Samples!Formats /\ output_info \in Samples!Formats /\ cur_info \in Samples!Formats
    /\ ops \in Seq(ResampleSteps) /\ Repairs(1, input_info)
    /\ step \in 0 .. Len(ops) + 1
    /\ samples \in Nat
    /\ step = 0 => work_buf = {}
    /\ step = 1 => work_buf = {} /\ last = 0 /\ Len(ops) > 0
    /\ step > 1 => last \in {1, 2} /\ work_buf = {last} /\ need_size = samples * Samples!SampleSize(cur_info)
    /\ step > 0 => Repairs(step, cur_info)
    /\ given.info = output_info
    /\ given.bytes = given.samples * Samples!SampleSize(output_info)

Has(s, f) == \E j \in 1 .. Len(s) : s[j] = f

LEMMA HasConcat ==
    ASSUME NEW s \in Seq(ResampleSteps), NEW t \in Seq(ResampleSteps)
    PROVE  /\ s \o t \in Seq(ResampleSteps)
           /\ \A f : Has(s, f) \/ Has(t, f) => Has(s \o t, f)
  <1>1. s \o t \in Seq(ResampleSteps) /\ Len(s \o t) = Len(s) + Len(t)
    BY ConcatProperties
  <1>2. ASSUME NEW f, NEW j \in 1 .. Len(s), s[j] = f PROVE Has(s \o t, f)
    <2>1. (s \o t)[j] = f /\ j \in 1 .. Len(s \o t)
      BY <1>1, <1>2, ConcatProperties
    <2> QED BY <2>1 DEF Has
  <1>3. ASSUME NEW f, NEW j \in 1 .. Len(t), t[j] = f PROVE Has(s \o t, f)
    <2>1. (s \o t)[Len(s) + j] = f /\ Len(s) + j \in 1 .. Len(s \o t)
      BY <1>1, <1>3, ConcatProperties
    <2> QED BY <2>1 DEF Has
  <1> QED BY <1>1, <1>2, <1>3 DEF Has

LEMMA HasOne ==
    ASSUME NEW f \in ResampleSteps
    PROVE  <<f>> \in Seq(ResampleSteps) /\ Has(<<f>>, f)
  <1>1. <<f>> \in Seq(ResampleSteps) /\ Len(<<f>>) = 1 /\ <<f>>[1] = f
    OBVIOUS
  <1> QED BY <1>1 DEF Has

\* Every difference between two formats has its conversion.
LEMMA OpsRepair ==
    ASSUME ResampleAssumption, NEW in \in Samples!Formats, NEW out \in Samples!Formats,
           NEW s, s = Samples!sort_resample_ops(in, out)
    PROVE  s \in Seq(ResampleSteps) /\ \A f \in ResampleSteps : in[f] # out[f] => Has(s, f)
  <1> DEFINE a == IF in.channel > out.channel THEN <<"channel">> ELSE <<>>
             b == IF in.bytes > out.bytes THEN <<"bytes">> ELSE <<>>
             c == IF in.rate # out.rate THEN <<"rate">> ELSE <<>>
             d == IF in.bytes < out.bytes THEN <<"bytes">> ELSE <<>>
             e == IF in.channel < out.channel THEN <<"channel">> ELSE <<>>
  <1>1. {<<>>, <<"channel">>, <<"bytes">>, <<"rate">>} \subseteq Seq(ResampleSteps)
    BY HasOne, EmptySeq DEF ResampleSteps
  <1>2. /\ a \in Seq(ResampleSteps) /\ b \in Seq(ResampleSteps) /\ c \in Seq(ResampleSteps)
        /\ d \in Seq(ResampleSteps) /\ e \in Seq(ResampleSteps)
    BY <1>1
  <1>3. /\ in.channel # out.channel => Has(a, "channel") \/ Has(e, "channel")
        /\ in.bytes # out.bytes => Has(b, "bytes") \/ Has(d, "bytes")
        /\ in.rate # out.rate => Has(c, "rate")
    <2>1. {in.channel, out.channel, in.bytes, out.bytes} \subseteq Nat
      BY DEF Samples!Formats, ResampleAssumption
    <2>2. Has(<<"channel">>, "channel") /\ Has(<<"bytes">>, "bytes") /\ Has(<<"rate">>, "rate")
      BY HasOne DEF ResampleSteps
    <2> QED BY <2>1, <2>2
  <1>4. s = a \o b \o c \o d \o e
    BY DEF Samples!sort_resample_ops
  <1> HIDE DEF a, b, c, d, e
  <1>5. /\ a \o b \in Seq(ResampleSteps)
        /\ \A f : Has(a, f) \/ Has(b, f) => Has(a \o b, f)
    BY <1>2, HasConcat
  <1>6. /\ a \o b \o c \in Seq(ResampleSteps)
        /\ \A f : Has(a \o b, f) \/ Has(c, f) => Has(a \o b \o c, f)
    BY <1>2, <1>5, HasConcat
  <1>7. /\ a \o b \o c \o d \in Seq(ResampleSteps)
        /\ \A f : Has(a \o b \o c, f) \/ Has(d, f) => Has(a \o b \o c \o d, f)
    BY <1>2, <1>6, HasConcat
  <1>8. /\ a \o b \o c \o d \o e \in Seq(ResampleSteps)
        /\ \A f : Has(a \o b \o c \o d, f) \/ Has(e, f) => Has(a \o b \o c \o d \o e, f)
    BY <1>2, <1>7, HasConcat
  <1> QED BY <1>3, <1>4, <1>5, <1>6, <1>7, <1>8 DEF ResampleSteps

LEMMA SampleSizeNat ==
    ASSUME ResampleAssumption, NEW f \in Samples!Formats
    PROVE  Samples!SampleSize(f) \in Nat /\ 0 * Samples!SampleSize(f) = 0
  <1>1. f.channel \in Nat /\ f.bytes \in Nat
    BY DEF Samples!Formats, ResampleAssumption
  <1>2. ASSUME NEW a \in Nat, NEW b \in Nat PROVE a * b \in Nat /\ 0 * a = 0
    OBVIOUS
  <1>3. Samples!SampleSize(f) \in Nat
    BY <1>1, <1>2 DEF Samples!SampleSize
  <1> QED BY <1>2, <1>3

LEMMA ResampleInitInv == ASSUME ResampleAssumption, Samples!Init PROVE ResampleInv
  <1>1. ops \in Seq(ResampleSteps) /\ Repairs(1, input_info)
    <2>1. /\ input_info \in Samples!Formats /\ output_info \in Samples!Formats
          /\ ops = Samples!sort_resample_ops(input_info, output_info)
      BY DEF Samples!Init
    <2>2. ops \in Seq(ResampleSteps)
          /\ \A f \in ResampleSteps : input_info[f] # output_info[f] => Has(ops, f)
      BY <2>1, OpsRepair
    <2> QED BY <2>2 DEF Repairs, Has
  <1>2. Len(ops) \in Nat
    BY <1>1, LenProperties
  <1>3. 0 * Samples!SampleSize(output_info) = 0
    BY SampleSizeNat DEF Samples!Init
  <1> QED BY <1>1, <1>2, <1>3 DEF Samples!Init, ResampleInv

LEMMA OneStepRepairs ==
    ASSUME ResampleInv, NEW i \in 1 .. Len(ops), Repairs(i, cur_info), NEW op, op = ops[i],
           NEW e, e = [cur_info EXCEPT ![op] = output_info[op]]
    PROVE  e \in Samples!Formats /\ Repairs(i + 1, e)
  <1>1. op \in ResampleSteps
    BY DEF ResampleInv
  <1>2. e \in Samples!Formats /\ e[op] = output_info[op]
        /\ \A f \in ResampleSteps : f # op => e[f] = cur_info[f]
    BY <1>1 DEF ResampleInv, Samples!Formats, ResampleSteps
  <1>3. ASSUME NEW f \in ResampleSteps, e[f] # output_info[f]
        PROVE  \E j \in i + 1 .. Len(ops) : ops[j] = f
    <2>1. f # op /\ cur_info[f] # output_info[f]
      BY <1>2, <1>3
    <2>2. PICK j \in i .. Len(ops) : ops[j] = f
      BY <2>1 DEF Repairs
    <2>3. j # i /\ Len(ops) \in Nat
      BY <2>1, <2>2, LenProperties DEF ResampleInv
    <2> QED BY <2>2, <2>3
  <1>4. Repairs(i + 1, e)
    BY <1>3 DEF Repairs
  <1> QED BY <1>2, <1>4

LEMMA MulAssoc ==
    ASSUME NEW a \in Nat, NEW b \in Nat, NEW c \in Nat PROVE a * b * c = a * (b * c)
  OBVIOUS

\* A conversion leaves what its samples need.
LEMMA ConvertNeeds ==
    ASSUME ResampleAssumption, ResampleInv, Samples!Convert
    PROVE  need_size' = samples' * Samples!SampleSize(cur_info')
  <1> DEFINE i == cur_info
             o == output_info
             n == samples
             r == Samples!ConvertRate(samples)
  <1>1. /\ {i.channel, i.bytes, i.rate, o.channel, o.bytes, o.rate} \subseteq Nat
    BY DEF ResampleInv, Samples!Formats, ResampleAssumption
  <1>0. cur_info \in Samples!Formats
    BY DEF ResampleInv
  <1>2. ops[step] \in ResampleSteps /\ n \in Nat
    BY DEF Samples!Convert, ResampleInv
  <1>3. CASE ops[step] = "channel"
    <2>1. need_size' = n * o.channel * i.bytes /\ samples' = n
      BY <1>3 DEF Samples!Convert, Samples!get_need_size
    <2>3. cur_info' = [cur_info EXCEPT !.channel = o.channel]
      BY <1>3 DEF Samples!Convert
    <2>2. cur_info'.channel = o.channel /\ cur_info'.bytes = i.bytes
      BY <1>0, <2>3 DEF Samples!Formats
    <2>4. n * o.channel * i.bytes = n * (o.channel * i.bytes)
      BY <1>1, <1>2, MulAssoc
    <2> QED BY <2>1, <2>2, <2>4 DEF Samples!SampleSize
  <1>4. CASE ops[step] = "bytes"
    <2>1. need_size' = n * i.channel * o.bytes /\ samples' = n
      BY <1>4 DEF Samples!Convert, Samples!get_need_size
    <2>3. cur_info' = [cur_info EXCEPT !.bytes = o.bytes]
      BY <1>4 DEF Samples!Convert
    <2>2. cur_info'.channel = i.channel /\ cur_info'.bytes = o.bytes
      BY <1>0, <2>3 DEF Samples!Formats
    <2>4. n * i.channel * o.bytes = n * (i.channel * o.bytes)
      BY <1>1, <1>2, MulAssoc
    <2> QED BY <2>1, <2>2, <2>4 DEF Samples!SampleSize
  <1>5. CASE ops[step] = "rate"
    <2>1. /\ need_size' = r * Samples!SampleSize(cur_info) /\ samples' = r
          /\ cur_info' = [cur_info EXCEPT !.rate = o.rate]
      BY <1>5 DEF Samples!Convert, Samples!get_need_size
    <2>2. cur_info'.channel = i.channel /\ cur_info'.bytes = i.bytes
      BY <1>0, <2>1 DEF Samples!Formats
    <2> QED BY <2>1, <2>2 DEF Samples!SampleSize
  <1> QED BY <1>2, <1>3, <1>4, <1>5 DEF ResampleSteps

LEMMA AllRepaired ==
    ASSUME NEW in \in Samples!Formats, output_info \in Samples!Formats, Repairs(Len(ops) + 1, in),
           Len(ops) \in Nat
    PROVE  in = output_info
  <1>1. \A f \in ResampleSteps : in[f] = output_info[f]
    BY DEF Repairs
  <1>2. in.channel = output_info.channel /\ in.rate = output_info.rate
        /\ in.bytes = output_info.bytes
    BY <1>1 DEF ResampleSteps
  <1> QED BY <1>2 DEF Samples!Formats

LEMMA ResampleNextInv ==
    ASSUME ResampleAssumption, ResampleInv, [Samples!Next]_(Samples!vars)
    PROVE  ResampleInv'
  <1> USE DEF ResampleInv
  <1>0. Len(ops) \in Nat
    BY LenProperties
  <1>1. ASSUME NEW n \in FrameSamples, Samples!Bypass(n) PROVE ResampleInv'
    <2>1. n * Samples!SampleSize(input_info) = n * Samples!SampleSize(output_info)
      <3>1. CASE n = 0
        BY <3>1, SampleSizeNat
      <3>2. CASE ops = <<>>
        <4>1. Repairs(Len(ops) + 1, input_info)
          BY <3>2
        <4> QED BY <4>1, <1>0, AllRepaired
      <3> QED BY <1>1, <3>1, <3>2 DEF Samples!Bypass
    <2> QED BY <1>1, <2>1 DEF Samples!Bypass, Samples!fixed, Repairs
  <1>2. ASSUME NEW n \in FrameSamples, Samples!Begin(n) PROVE ResampleInv'
    <2>1. Len(ops) > 0
      BY <1>0, <1>2, EmptySeq DEF Samples!Begin
    <2>2. n \in Nat
      BY DEF ResampleAssumption
    <2> QED BY <1>0, <1>2, <2>1, <2>2 DEF Samples!Begin, Samples!fixed, Repairs
  <1>3. CASE Samples!Convert
    <2>1. cur_info' \in Samples!Formats /\ Repairs(step + 1, cur_info')
      <3>1. step \in 1 .. Len(ops) /\ Repairs(step, cur_info)
        BY <1>3 DEF Samples!Convert
      <3>2. cur_info' = [cur_info EXCEPT ![ops[step]] = output_info[ops[step]]]
        BY <1>3 DEF Samples!Convert
      <3>3. cur_info' \in Samples!Formats /\ Repairs(step + 1, cur_info')
        <4> HIDE DEF ResampleInv
        <4> QED BY <3>1, <3>2, OneStepRepairs
      <3> QED BY <3>3
    <2>2. Samples!FirstFree \in {1, 2} /\ Samples!FirstFree \notin work_buf
      BY <1>3 DEF Samples!Convert, Samples!FirstFree, Samples!Free
    <2>3. need_size' = samples' * Samples!SampleSize(cur_info')
      BY <1>3, ConvertNeeds
    <2>4. last' \in {1, 2} /\ work_buf' = {last'}
      BY <1>3, <2>2 DEF Samples!Convert
    <2>5. samples' \in Nat
      <3>1. Samples!ConvertRate(samples) \in Nat
        <4>1. output_info.rate \in Nat /\ cur_info.rate \in Nat \ {0}
          BY DEF Samples!Formats, ResampleAssumption
        <4>2. ASSUME NEW a \in Nat, NEW b \in Nat, NEW c \in Nat \ {0}
              PROVE  (a * b) \div c \in Nat
          BY <4>2
        <4> QED BY <4>1, <4>2 DEF Samples!ConvertRate
      <3>2. samples' = Samples!ConvertRate(samples) \/ samples' = samples
        BY <1>3 DEF Samples!Convert
      <3>3. samples \in Nat
        OBVIOUS
      <3> HIDE DEF ResampleInv
      <3> QED BY <3>1, <3>2, <3>3
    <2>6. /\ step \in 1 .. Len(ops) /\ step' = step + 1
          /\ UNCHANGED <<input_info, output_info, ops, given>>
      BY <1>3 DEF Samples!Convert, Samples!fixed
    <2>7. Repairs(1, input_info)' /\ Repairs(step, cur_info)'
      BY <2>1, <2>6 DEF Repairs
    <2> QED BY <1>0, <2>1, <2>3, <2>4, <2>5, <2>6, <2>7
  <1>4. CASE Samples!NoMemory
    BY <1>4 DEF Samples!NoMemory, Samples!fixed, Repairs
  <1>5. CASE Samples!Give
    <2>1. cur_info = output_info
      BY <1>0, <1>5, AllRepaired DEF Samples!Give
    <2> QED BY <1>0, <1>5, <2>1 DEF Samples!Give, Samples!fixed, Repairs
  <1>6. CASE UNCHANGED Samples!vars
    BY <1>6 DEF Samples!vars, Repairs
  <1> QED BY <1>1, <1>2, <1>3, <1>4, <1>5, <1>6 DEF Samples!Next

\* LeavesConverted of MCWebrtc: a frame leaves the resampler in the output's format and
\* with the bytes its samples need, and both work buffers are free for the next one,
\* whatever steps the two formats need and wherever an earlier frame was given up.
THEOREM ResampleLeavesConverted ==
    ASSUME ResampleAssumption
    PROVE  Samples!Spec => []LeavesConverted
  <1>1. ResampleInv => LeavesConverted
    BY DEF ResampleInv, LeavesConverted, Samples!LeavesConverted
  <1> QED BY <1>1, ResampleInitInv, ResampleNextInv, PTL DEF Samples!Spec

-----------------------------------------------------------------------------
(* The way of the sound: av_render.c, audio_decoder.c and i2s_render.c *)

AudioBits == {TRUE, FALSE}
AudioFrames    == [n : Nat, eos : AudioBits]

AudioTypes ==
    /\ adec \in [pc : {"idle", "decode", "reached", "done"}, left : Nat, eos : AudioBits]
    /\ a_render \in [audio_packet_reached : AudioBits, audio_rendered : AudioBits,
                     thread : AudioBits]
    /\ aren \in [pc : {"none", "loop", "body", "unlock"}, frame : Nat, eos : AudioBits]
    /\ aq \in Seq(AudioBits) /\ rq \in Seq(AudioFrames)
    /\ made \in Nat /\ next \in Nat
    /\ apaused \in BOOLEAN
    /\ adec.pc # "idle" => aq # <<>>

\* The number of the frame at the head of the renderer's queue: the renderer has
\* written it already when it is about to unlock it unpaused.
AudioFirst == IF aren.pc = "unlock" /\ ~apaused THEN next - 1 ELSE next

\* The frames that are made and not yet through are, in this order, those of the
\* renderer's queue and the one the decoder has in hand.
AudioFlow ==
    /\ adec.pc = "decode" => adec.left > 0
    /\ a_render.thread => a_render.audio_packet_reached
    /\ ~a_render.thread => aren.pc = "none" /\ rq = <<>>
    /\ aren.pc \in {"body", "unlock"} => rq # <<>>
    /\ aren.pc = "body" => aren.frame = next /\ ~apaused
    /\ \A i \in 1 .. Len(rq) : rq[i].n = AudioFirst + i - 1
    /\ AudioFirst + Len(rq) = IF adec.pc = "reached" THEN made ELSE made + 1

AudioInv == AudioTypes /\ AudioFlow /\ ~badOrder

LEMMA AudioInitInv == Audio!Init => AudioInv
  <1> SUFFICES ASSUME Audio!Init PROVE AudioInv
    OBVIOUS
  <1>1. Len(<<>>) = 0 /\ aq \in Seq(AudioBits) /\ rq \in Seq(AudioFrames)
    BY EmptySeq DEF Audio!Init
  <1>2. AudioTypes
    BY <1>1 DEF Audio!Init, AudioTypes, AudioBits
  <1>3. AudioFlow /\ ~badOrder
    BY <1>1 DEF Audio!Init, AudioFlow, AudioFirst
  <1> QED BY <1>2, <1>3 DEF AudioInv

LEMMA FrameIsFrame ==
    ASSUME AudioTypes PROVE Audio!Frame \in AudioFrames /\ Audio!Frame.n = made
  BY DEF AudioTypes, Audio!Frame, AudioFrames

\* What follows a frame leaves the decoder with none in hand.
LEMMA AfterFrameFields ==
    ASSUME AudioInv, adec.pc = "reached", Audio!AfterFrame
    PROVE  /\ adec' \in [pc : {"idle", "decode", "reached", "done"}, left : Nat, eos : AudioBits]
           /\ adec'.pc \in {"decode", "done"} /\ (adec'.pc = "decode" => adec'.left > 0) /\ aq' = aq
  BY DEF AudioInv, AudioTypes, Audio!AfterFrame

LEMMA EndBlockFields ==
    ASSUME AudioInv, Audio!EndBlock, aq # <<>>
    PROVE  /\ adec' \in [pc : {"idle", "decode", "reached", "done"}, left : Nat, eos : AudioBits]
           /\ adec'.pc = "idle" /\ aq' \in Seq(AudioBits)
  BY HeadTailProperties DEF AudioInv, AudioTypes, Audio!EndBlock

LEMMA AddDataStep ==
    ASSUME AudioInv, NEW eos \in BOOLEAN, Audio!AddData(eos) PROVE AudioInv'
  <1>0. aq \in Seq(AudioBits) /\ aq' = Append(aq, eos)
    BY DEF Audio!AddData, AudioInv, AudioTypes
  <1>a. eos \in AudioBits
    BY Zenon DEF AudioBits
  <1>1. aq' \in Seq(AudioBits) /\ aq' # <<>>
    BY <1>0, <1>a, AppendProperties
  <1>2. UNCHANGED <<adec, a_render, aren, rq, apaused, Audio!history>>
    BY DEF Audio!AddData
  <1>3. AudioTypes'
    BY <1>1, <1>2 DEF AudioInv, AudioTypes, Audio!history
  <1>4. AudioFlow' /\ ~badOrder'
    BY <1>2 DEF AudioInv, AudioFlow, AudioFirst, Audio!history
  <1> QED BY <1>3, <1>4 DEF AudioInv

\* What the decoder does leaves the queue of the renderer alone: First stays.
LEMMA DecoderStep ==
    ASSUME FramesPerBlock \in Nat, AudioInv, Audio!TakeBlock \/ Audio!DecodeFrame \/ Audio!DecodeFails \/ Audio!BlockDone
    PROVE  AudioInv'
  <1>1. UNCHANGED <<a_render, aren, rq, apaused, next, badOrder>>
    BY DEF Audio!TakeBlock, Audio!DecodeFrame, Audio!DecodeFails, Audio!BlockDone,
       Audio!history
  <1>a. AudioFirst' = AudioFirst
    BY <1>1 DEF AudioFirst
  <1>2. /\ adec' \in [pc : {"idle", "decode", "reached", "done"}, left : Nat, eos : AudioBits]
        /\ adec'.pc = "decode" => adec'.left > 0
        /\ aq' \in Seq(AudioBits) /\ (adec'.pc # "idle" => aq' # <<>>)
        /\ made' \in Nat /\ adec.pc # "reached"
        /\ made' = IF adec'.pc = "reached" THEN made + 1 ELSE made
    <2>1. CASE Audio!TakeBlock
      <3>1. CASE adec' = [pc |-> "reached", left |-> 0, eos |-> TRUE] /\ made' = made + 1
        <4>1. aq' = aq /\ aq # <<>> /\ adec.pc = "idle"
          BY <2>1 DEF Audio!TakeBlock
        <4>2. adec' \in [pc : {"idle", "decode", "reached", "done"}, left : Nat, eos : AudioBits]
          BY <3>1 DEF AudioBits
        <4>3. adec'.pc = "reached" /\ made' = made + 1
          BY <3>1, Zenon
        <4> QED BY <4>1, <4>2, <4>3 DEF AudioInv, AudioTypes
      <3>2. CASE \E n \in 1 .. FramesPerBlock :
                     adec' = [pc |-> "decode", left |-> n, eos |-> FALSE] /\ made' = made
        <4>1. aq' = aq /\ aq # <<>> /\ adec.pc = "idle"
          BY <2>1 DEF Audio!TakeBlock
        <4>2. PICK n \in 1 .. FramesPerBlock :
                  adec' = [pc |-> "decode", left |-> n, eos |-> FALSE] /\ made' = made
          BY <3>2
        <4>3. adec' \in [pc : {"idle", "decode", "reached", "done"}, left : Nat, eos : AudioBits]
          BY <4>2 DEF AudioBits
        <4>4. adec'.pc = "decode" /\ adec'.left = n /\ made' = made
          BY <4>2, Zenon
        <4> QED BY <4>1, <4>3, <4>4 DEF AudioInv, AudioTypes
      <3> QED BY <2>1, <3>1, <3>2 DEF Audio!TakeBlock
    <2>2. CASE Audio!DecodeFrame
      <3>1. /\ adec.pc = "decode" /\ aq' = aq /\ made' = made + 1
            /\ adec' = [adec EXCEPT !.pc = "reached", !.left = @ - 1]
        BY <2>2 DEF Audio!DecodeFrame
      <3>2. adec.left - 1 \in Nat
        BY <3>1 DEF AudioInv, AudioTypes, AudioFlow
      <3>3. /\ adec' \in [pc : {"idle", "decode", "reached", "done"}, left : Nat, eos : AudioBits]
            /\ adec'.pc = "reached"
        BY <3>1, <3>2 DEF AudioInv, AudioTypes
      <3> QED BY <3>1, <3>3 DEF AudioInv, AudioTypes
    <2>3. CASE Audio!DecodeFails \/ Audio!BlockDone
      <3>1. aq # <<>> /\ Audio!EndBlock /\ made' = made /\ adec.pc # "reached"
        BY <2>3 DEF Audio!DecodeFails, Audio!BlockDone, AudioInv, AudioTypes, Audio!history
      <3> QED BY <3>1, EndBlockFields DEF AudioInv, AudioTypes
    <2> QED BY <2>1, <2>2, <2>3
  <1>3. AudioTypes'
    BY <1>1, <1>2 DEF AudioInv, AudioTypes
  <1>4. AudioFirst + Len(rq) = made + 1
    BY <1>2 DEF AudioInv, AudioFlow
  <1>5. AudioFirst' + Len(rq') = IF adec'.pc = "reached" THEN made' ELSE made' + 1
    BY <1>1, <1>a, <1>2, <1>4
  <1>6. AudioFlow' /\ ~badOrder'
    BY <1>1, <1>a, <1>2, <1>5 DEF AudioInv, AudioFlow
  <1> QED BY <1>3, <1>6 DEF AudioInv

LEMMA OpenDeviceStep == ASSUME AudioInv, Audio!OpenDevice PROVE AudioInv'
  <1>1. UNCHANGED <<adec, aq, rq, apaused, made, next, badOrder>>
    BY DEF Audio!OpenDevice, Audio!source, Audio!history
  <1>2. /\ aren.pc = "none" /\ rq = <<>> /\ ~a_render.thread
    BY DEF Audio!OpenDevice, AudioInv, AudioTypes, AudioFlow, AudioBits
  <1>3. CASE acfg.render = "thread"
    <2>1. /\ aren' \in [pc : {"none", "loop", "body", "unlock"}, frame : Nat, eos : AudioBits]
          /\ aren'.pc = "loop"
      BY <1>3 DEF Audio!OpenDevice, AudioInv, AudioTypes
    <2>2. /\ a_render' \in [audio_packet_reached : AudioBits, audio_rendered : AudioBits,
                            thread : AudioBits]
          /\ a_render'.audio_packet_reached /\ a_render'.thread
      <3>1. a_render' = [a_render EXCEPT !.audio_packet_reached = TRUE, !.thread = TRUE]
        BY <1>3, Zenon DEF Audio!OpenDevice
      <3> QED BY <3>1 DEF AudioInv, AudioTypes, AudioBits
    <2> QED BY <1>1, <1>2, <2>1, <2>2 DEF AudioInv, AudioTypes, AudioFlow, AudioFirst
  <1>4. CASE acfg.render # "thread"
    <2>1. aren' = aren
      BY <1>4 DEF Audio!OpenDevice
    <2>2. /\ a_render' \in [audio_packet_reached : AudioBits, audio_rendered : AudioBits,
                            thread : AudioBits]
          /\ a_render'.audio_packet_reached /\ ~a_render'.thread
      <3> DEFINE t == a_render.thread \/ acfg.render = "thread"
      <3>1. t \in AudioBits /\ ~t
        BY <1>2, <1>4, Zenon DEF AudioBits
      <3>2. a_render' = [a_render EXCEPT !.audio_packet_reached = TRUE, !.thread = t]
        BY DEF Audio!OpenDevice
      <3> HIDE DEF t
      <3> QED BY <3>1, <3>2 DEF AudioInv, AudioTypes, AudioBits
    <2> QED BY <1>1, <1>2, <2>1, <2>2 DEF AudioInv, AudioTypes, AudioFlow, AudioFirst
  <1> QED BY <1>3, <1>4

\* A frame that is not to be put anywhere is passed over.
LEMMA OpenFailsStep == ASSUME AudioInv, Audio!OpenFails PROVE AudioInv'
  <1>1. /\ UNCHANGED <<a_render, aren, rq, apaused, made>>
        /\ aren.pc = "none" /\ rq = <<>> /\ adec.pc = "reached"
    BY DEF Audio!OpenFails, AudioInv, AudioTypes, AudioFlow, AudioBits
  <1>2. next' = made + 1 /\ ~badOrder'
    BY FrameIsFrame DEF Audio!OpenFails, Audio!Passed, AudioInv
  <1>3. /\ adec' \in [pc : {"idle", "decode", "reached", "done"}, left : Nat, eos : AudioBits]
        /\ adec'.pc \in {"decode", "done"} /\ (adec'.pc = "decode" => adec'.left > 0) /\ aq' = aq
    BY AfterFrameFields DEF Audio!OpenFails
  <1>4. AudioTypes'
    BY <1>1, <1>2, <1>3 DEF AudioInv, AudioTypes
  <1>5. AudioFlow'
    BY <1>1, <1>2, <1>3 DEF AudioInv, AudioTypes, AudioFlow, AudioFirst
  <1> QED BY <1>2, <1>4, <1>5 DEF AudioInv

LEMMA PutToRenderStep == ASSUME AudioInv, Audio!PutToRender PROVE AudioInv'
  <1>1. /\ UNCHANGED <<a_render, aren, apaused, made, next, badOrder>>
        /\ a_render.thread /\ adec.pc = "reached"
    BY DEF Audio!PutToRender, Audio!history
  <1>a. AudioFirst' = AudioFirst
    BY <1>1 DEF AudioFirst
  <1>2. /\ rq' \in Seq(AudioFrames) /\ Len(rq') = Len(rq) + 1 /\ rq' # <<>>
        /\ \A i \in 1 .. Len(rq) : rq'[i] = rq[i]
        /\ rq'[Len(rq) + 1].n = made
    BY FrameIsFrame, AppendProperties DEF Audio!PutToRender, AudioInv, AudioTypes
  <1>3. /\ adec' \in [pc : {"idle", "decode", "reached", "done"}, left : Nat, eos : AudioBits]
        /\ adec'.pc \in {"decode", "done"} /\ (adec'.pc = "decode" => adec'.left > 0) /\ aq' = aq
    BY AfterFrameFields DEF Audio!PutToRender
  <1>4. AudioTypes'
    BY <1>1, <1>2, <1>3 DEF AudioInv, AudioTypes
  <1>5. AudioFirst + Len(rq) = made /\ Len(rq) \in Nat /\ AudioFirst \in Int
    BY <1>1, LenProperties DEF AudioInv, AudioTypes, AudioFlow, AudioFirst
  <1>6. ASSUME NEW i \in 1 .. Len(rq') PROVE rq'[i].n = AudioFirst + i - 1
    <2>1. CASE i \in 1 .. Len(rq)
      BY <1>2, <2>1 DEF AudioInv, AudioFlow
    <2>2. CASE i = Len(rq) + 1
      BY <1>2, <1>5, <2>2
    <2> QED BY <1>2, <1>5, <2>1, <2>2
  <1>7. AudioFlow'
    BY <1>1, <1>a, <1>2, <1>3, <1>5, <1>6 DEF AudioInv, AudioFlow
  <1> QED BY <1>1, <1>4, <1>7 DEF AudioInv

LEMMA WriteFields ==
    ASSUME AudioInv, NEW f \in AudioFrames, Audio!Write(f)
    PROVE  /\ a_render' \in [audio_packet_reached : AudioBits, audio_rendered : AudioBits,
                             thread : AudioBits]
           /\ a_render'.audio_packet_reached = a_render.audio_packet_reached
           /\ a_render'.thread = a_render.thread
           /\ apaused' \in BOOLEAN
           /\ \/ apaused' /\ a_render.thread /\ UNCHANGED <<next, badOrder>>
              \/ /\ a_render.thread => ~apaused'
                 /\ next' = f.n + 1 /\ (f.n = next => ~badOrder')
  <1>1. /\ a_render' \in [audio_packet_reached : AudioBits, audio_rendered : AudioBits,
                          thread : AudioBits]
        /\ a_render'.audio_packet_reached = a_render.audio_packet_reached
        /\ a_render'.thread = a_render.thread
    BY DEF Audio!Write, AudioInv, AudioTypes, AudioBits
  <1>2. Audio!HeldBack \in BOOLEAN
    BY Zenon DEF Audio!HeldBack
  <1>3. apaused' = Audio!HeldBack
    BY DEF Audio!Write
  <1>4. CASE Audio!HeldBack /\ a_render.thread /\ UNCHANGED <<next, badOrder>>
    BY <1>1, <1>2, <1>3, <1>4
  <1>5. CASE \E written \in BOOLEAN :
               /\ Audio!HeldBack => ~written /\ ~a_render.thread
               /\ Audio!Passed(f, written)
    BY <1>1, <1>2, <1>3, <1>5 DEF Audio!Passed, AudioInv
  <1> QED BY <1>4, <1>5 DEF Audio!Write

LEMMA WriteInSyncStep == ASSUME AudioInv, Audio!WriteInSync PROVE AudioInv'
  <1>1. /\ UNCHANGED <<aren, rq, made>> /\ ~a_render.thread
        /\ aren.pc = "none" /\ rq = <<>> /\ adec.pc = "reached" /\ next = made
    BY DEF Audio!WriteInSync, AudioInv, AudioTypes, AudioFlow, AudioFirst
  <1>2. Audio!Frame \in AudioFrames /\ Audio!Frame.n = made /\ Audio!Write(Audio!Frame)
    BY FrameIsFrame DEF Audio!WriteInSync, AudioInv
  <1>3. /\ a_render' \in [audio_packet_reached : AudioBits, audio_rendered : AudioBits,
                          thread : AudioBits]
        /\ ~a_render'.thread /\ apaused' \in BOOLEAN
        /\ next' = made + 1 /\ ~badOrder'
    BY <1>1, <1>2, WriteFields
  <1>4. /\ adec' \in [pc : {"idle", "decode", "reached", "done"}, left : Nat, eos : AudioBits]
        /\ adec'.pc \in {"decode", "done"} /\ (adec'.pc = "decode" => adec'.left > 0) /\ aq' = aq
    BY AfterFrameFields DEF Audio!WriteInSync
  <1>5. AudioTypes'
    BY <1>1, <1>3, <1>4 DEF AudioInv, AudioTypes
  <1>6. AudioFlow'
    BY <1>1, <1>3, <1>4 DEF AudioInv, AudioTypes, AudioFlow, AudioFirst
  <1> QED BY <1>3, <1>5, <1>6 DEF AudioInv

\* The renderer's steps leave the decoder and its frame alone.
LEMMA RendererStep == ASSUME AudioInv, Audio!a_render_body PROVE AudioInv'
  <1> USE DEF AudioInv
  <1>0. /\ Len(rq) \in Nat /\ (rq # <<>> => Len(rq) > 0)
        /\ made \in Nat /\ next \in Nat
    BY LenProperties, EmptySeq DEF AudioTypes
  <1>1. CASE Audio!ReadFrame
    <2>1. /\ UNCHANGED <<aq, adec, a_render, rq, apaused, made, next, badOrder>>
          /\ aren.pc = "loop" /\ ~apaused /\ rq # <<>>
      BY <1>1 DEF Audio!ReadFrame, Audio!source, Audio!history
    <2>2. Head(rq) = rq[1] /\ rq[1] \in AudioFrames /\ rq[1].n = next
      BY <1>0, <2>1 DEF AudioTypes, AudioFlow, AudioFirst
    <2>3. /\ aren' \in [pc : {"none", "loop", "body", "unlock"}, frame : Nat, eos : AudioBits]
          /\ aren'.pc = "body" /\ aren'.frame = next
      BY <1>1, <2>2 DEF Audio!ReadFrame, AudioFrames
    <2>4. AudioTypes'
      BY <2>1, <2>3 DEF AudioTypes
    <2>5. AudioFlow'
      BY <2>1, <2>3 DEF AudioTypes, AudioFlow, AudioFirst
    <2> QED BY <2>1, <2>4, <2>5
  <1>2. CASE Audio!Threshold
    <2>1. /\ UNCHANGED <<aq, adec, rq, apaused, made, next, badOrder>> /\ aren.pc = "body"
      BY <1>2 DEF Audio!Threshold, Audio!source, Audio!history
    <2>2. /\ aren' \in [pc : {"none", "loop", "body", "unlock"}, frame : Nat, eos : AudioBits]
          /\ aren'.pc = "loop"
          /\ a_render' \in [audio_packet_reached : AudioBits, audio_rendered : AudioBits,
                            thread : AudioBits]
          /\ a_render'.audio_packet_reached = a_render.audio_packet_reached
          /\ a_render'.thread = a_render.thread
      BY <1>2 DEF Audio!Threshold, AudioTypes, AudioBits
    <2>3. AudioTypes'
      BY <2>1, <2>2 DEF AudioTypes
    <2>4. AudioFlow'
      BY <2>1, <2>2 DEF AudioTypes, AudioFlow, AudioFirst
    <2> QED BY <2>1, <2>3, <2>4
  <1>3. CASE Audio!DropFrame
    <2>1. /\ UNCHANGED <<aq, adec, a_render, rq, apaused, made>>
          /\ aren.pc = "body" /\ aren.frame = next /\ ~apaused
      BY <1>3 DEF Audio!DropFrame, Audio!Ready, AudioFlow, Audio!source
    <2>2. next' = next + 1 /\ ~badOrder'
      BY <1>3, <2>1 DEF Audio!DropFrame, Audio!Passed, Audio!Held
    <2>3. /\ aren' \in [pc : {"none", "loop", "body", "unlock"}, frame : Nat, eos : AudioBits]
          /\ aren'.pc = "unlock"
      BY <1>3 DEF Audio!DropFrame, AudioTypes
    <2>4. AudioTypes'
      BY <2>1, <2>2, <2>3 DEF AudioTypes
    <2>5. AudioFirst' = AudioFirst
      BY <1>0, <2>1, <2>2, <2>3 DEF AudioFirst
    <2>6. AudioFlow'
      BY <2>1, <2>3, <2>5 DEF AudioFlow
    <2> QED BY <2>2, <2>4, <2>6
  <1>4. CASE Audio!WriteFrame
    <2>1. /\ UNCHANGED <<aq, adec, rq, made>>
          /\ aren.pc = "body" /\ aren.frame = next /\ ~apaused /\ a_render.thread
      BY <1>4 DEF Audio!WriteFrame, Audio!Ready, AudioFlow, Audio!source
    <2>2. Audio!Held \in AudioFrames /\ Audio!Held.n = next /\ Audio!Write(Audio!Held)
      BY <1>4, <2>1 DEF Audio!WriteFrame, Audio!Held, AudioFrames, AudioTypes
    <2>3. /\ a_render' \in [audio_packet_reached : AudioBits, audio_rendered : AudioBits,
                            thread : AudioBits]
          /\ a_render'.audio_packet_reached = a_render.audio_packet_reached
          /\ a_render'.thread = a_render.thread
          /\ apaused' \in BOOLEAN
          /\ \/ apaused' /\ UNCHANGED <<next, badOrder>>
             \/ ~apaused' /\ next' = next + 1 /\ ~badOrder'
      BY <2>1, <2>2, WriteFields
    <2>4. /\ aren' \in [pc : {"none", "loop", "body", "unlock"}, frame : Nat, eos : AudioBits]
          /\ aren'.pc = "unlock"
      BY <1>4 DEF Audio!WriteFrame, AudioTypes
    <2>5. AudioTypes'
      BY <1>0, <2>1, <2>3, <2>4 DEF AudioTypes
    <2>6. AudioFirst' = AudioFirst
      BY <1>0, <2>1, <2>3, <2>4 DEF AudioFirst
    <2>7. AudioFlow'
      BY <2>1, <2>3, <2>4, <2>6 DEF AudioFlow
    <2> QED BY <2>3, <2>5, <2>7
  <1>5. CASE Audio!Unlock
    <2>1. /\ UNCHANGED <<aq, adec, a_render, apaused, made, next, badOrder>>
          /\ aren.pc = "unlock" /\ rq # <<>> /\ a_render.thread
      BY <1>5 DEF Audio!Unlock, AudioFlow, Audio!source, Audio!history
    <2>2. /\ aren' \in [pc : {"none", "loop", "body", "unlock"}, frame : Nat, eos : AudioBits]
          /\ aren'.pc = "loop"
      BY <1>5 DEF Audio!Unlock, AudioTypes
    <2>3. CASE apaused
      <3>1. rq' = rq /\ AudioFirst' = AudioFirst
        BY <1>5, <2>1, <2>2, <2>3 DEF Audio!Unlock, AudioFirst
      <3> QED BY <2>1, <2>2, <2>3, <3>1 DEF AudioTypes, AudioFlow
    <2>4. CASE ~apaused
      <3>1. AudioFirst = next - 1 /\ AudioFirst' = next
        BY <2>1, <2>2, <2>4 DEF AudioFirst
      <3>2. /\ rq' = Tail(rq) /\ rq' \in Seq(AudioFrames) /\ Len(rq') = Len(rq) - 1
            /\ \A i \in 1 .. Len(rq') : rq'[i] = rq[i + 1]
        BY <1>5, <2>1, <2>4, HeadTailProperties DEF Audio!Unlock, AudioTypes
      <3>3. \A i \in 1 .. Len(rq') : rq'[i].n = next + i - 1
        BY <1>0, <2>1, <3>1, <3>2 DEF AudioFlow
      <3>4. AudioTypes'
        BY <2>1, <2>2, <3>2 DEF AudioTypes
      <3>5. next + Len(rq') = IF adec.pc = "reached" THEN made ELSE made + 1
        BY <1>0, <2>1, <3>1, <3>2 DEF AudioFlow
      <3>6. AudioFlow'
        BY <2>1, <2>2, <3>1, <3>3, <3>5 DEF AudioFlow
      <3> QED BY <2>1, <3>4, <3>6
    <2> QED BY <2>3, <2>4
  <1>6. CASE Audio!PauseMsg
    <2>1. /\ UNCHANGED <<aq, adec, a_render, aren, rq, made, next, badOrder>> /\ aren.pc = "loop"
      BY <1>6 DEF Audio!PauseMsg, Audio!source, Audio!history
    <2>2. apaused' \in BOOLEAN
      BY <1>6 DEF Audio!PauseMsg
    <2>3. AudioTypes'
      BY <2>1, <2>2 DEF AudioTypes
    <2>4. AudioFlow'
      BY <2>1 DEF AudioFlow, AudioFirst
    <2> QED BY <2>1, <2>3, <2>4
  <1> QED BY <1>1, <1>2, <1>3, <1>4, <1>5, <1>6 DEF Audio!a_render_body

LEMMA AudioNextInv ==
    ASSUME FramesPerBlock \in Nat, AudioInv, [Audio!Next]_(Audio!vars)
    PROVE  AudioInv'
  <1>1. CASE UNCHANGED Audio!vars
    BY <1>1 DEF Audio!vars, Audio!source, Audio!history, AudioInv, AudioTypes, AudioFlow,
       AudioFirst
  <1> QED BY <1>1, AddDataStep, DecoderStep, OpenDeviceStep, OpenFailsStep,
             PutToRenderStep, WriteInSyncStep,
             RendererStep DEF Audio!Next, Audio!adec_body

\* PlaysInOrder of MCWebrtc: frames reach the device in the order they were decoded,
\* none twice and none left out but those whose loss is decided, over a pause in the
\* middle of a frame and a frame that the threshold sends back.
THEOREM AudioPlaysInOrder ==
    ASSUME FramesPerBlock \in Nat
    PROVE  Audio!Spec => []PlaysInOrder
  <1>1. AudioInv => PlaysInOrder
    BY DEF AudioInv, PlaysInOrder, Audio!PlaysInOrder
  <1> QED BY <1>1, AudioInitInv, AudioNextInv, PTL DEF Audio!Spec

-----------------------------------------------------------------------------
(* The way of a picture: av_render.c and video_decoder.c *)

PictureMsgs == {"PAUSE", "RESUME", "FLUSH", "CLOSE"}
PictureBits == {"vdec", "vren", "closed"}
Pictures == [kind : {"data", "eos", "zero", "none", "junk"}, era : Nat]
VideoFields == [open : BOOLEAN, vdec : BOOLEAN, sent : BOOLEAN, video_packet_reached : BOOLEAN,
                video_rendered : BOOLEAN, v_render_in_sync : BOOLEAN, flushing : BOOLEAN]
DecoderStates == [pc : {"none", "loop", "read", "decode", "process", "reached", "release", "unlock"},
                  blk : Pictures, msgs : Seq(PictureMsgs)]
RendererStates == [pc : {"none", "loop", "read", "show", "unlock"},
                   blk : Pictures, msgs : Seq(PictureMsgs)]
Letters == [to : {"vdec", "vren"}, msg : PictureMsgs]
VideoCalls == [op : {"idle", "add", "pause", "flush", "flushed"}, togo : Seq(Letters),
               bit : PictureBits \cup {"none"}]

VideoTypes ==
    /\ vcfg \in Video!Configs /\ v_render \in VideoFields
    /\ header_parsed \in BOOLEAN /\ use_fb \in BOOLEAN
    /\ vq \in Seq(Pictures) /\ fq \in Seq(Pictures) /\ fb \in Pictures
    /\ vdec \in DecoderStates /\ vren \in RendererStates
    /\ vpaused \in [vdec : BOOLEAN, vren : BOOLEAN] /\ vbits \subseteq PictureBits
    /\ vcall \in VideoCalls /\ seek \in Nat /\ stale = FALSE

\* The call sends messages to threads that are there, and the bit it waits for is the
\* only one that is ever set.
Only(t, m) == <<[to |-> t, msg |-> m]>>
VideoCalling ==
    /\ vbits \subseteq {vcall.bit} \ {"none"}
    /\ vcall.bit = "closed" => vcall.op = "add"
    /\ vcall.bit = "vdec" => vcall.op = "flush"
    /\ vcall.bit = "vren" => vcall.op = "flushed"
    /\ vcall.op = "idle" => vcall.togo = <<>>
    /\ vcall.op = "pause" => \A i \in 1 .. Len(vcall.togo) : vcall.togo[i].msg \in {"PAUSE", "RESUME"}
    /\ vcall.op = "add" /\ vcall.togo # <<>> => vcall.togo = Only("vdec", "CLOSE") /\ vcall.bit = "closed"
    /\ vcall.op = "flush" /\ vcall.togo # <<>> => vcall.togo = Only("vdec", "FLUSH") /\ vcall.bit = "vdec"
    /\ vcall.op = "flushed" /\ vcall.togo # <<>> => vcall.togo = Only("vren", "FLUSH") /\ vcall.bit = "vren"
    /\ vcall.togo # <<>> => vbits = {}
    /\ \A i \in 1 .. Len(vcall.togo) :
         IF vcall.togo[i].to = "vdec" THEN vcfg.decode = "thread" /\ vdec.pc # "none"
                                      ELSE vren.pc # "none"

\* A message that is answered is the last one, and its answer is waited for.
LastAnswered(s) == \A i \in 1 .. Len(s) - 1 : s[i] \in {"PAUSE", "RESUME"}
Awaited(bit) == vcall.togo = <<>> /\ vcall.bit = bit /\ vbits = {}
VideoMessages ==
    /\ LastAnswered(vdec.msgs) /\ LastAnswered(vren.msgs)
    /\ Has(vdec.msgs, "CLOSE") => Awaited("closed")
    /\ Has(vdec.msgs, "FLUSH") => Awaited("vdec")
    /\ Has(vren.msgs, "FLUSH") => Awaited("vren")
    /\ ~Has(vren.msgs, "CLOSE")

\* Where the decoder and its buffer are.  A decoder in a thread is gone when the bit of
\* its CLOSE has been set; one in the caller's task does not run during a call.
Holding == vdec.pc \in {"decode", "process", "reached", "release"}
VideoDecoder ==
    /\ vcfg.decode = "thread" =>
         /\ vcall.op = "add" /\ vcall.bit \in vbits \cup {"none"} => vdec.pc = "none"
         /\ vdec.pc = "none" => vq = <<>>
         /\ Holding \/ vdec.pc = "unlock" => vq # <<>>
    /\ vcfg.decode # "thread" =>
         /\ vcall.op # "idle" => vdec.pc = "none"
         /\ vdec.pc \notin {"loop", "read", "unlock"} /\ vq = <<>>
         /\ vcfg.decode # "raw" /\ use_fb /\ v_render.vdec => vren.pc # "none"
    /\ vcfg.decode = "raw" => vdec.pc \notin {"decode", "process"}
    /\ vcfg.decode # "raw" /\ use_fb /\ vdec.pc # "none" => vren.pc # "none"
    /\ Holding => vdec.blk.kind \notin {"zero", "none"}
    /\ fb # Video!None => /\ vdec.pc \in {"process", "reached", "release"}
                          /\ fb.kind \notin {"zero", "none"} /\ vren.pc # "none"

VideoRenderer ==
    /\ vren.pc = "none" => fq = <<>>
    /\ vren.pc = "show" => vren.blk.kind # "none"

\* What is in the pipeline was added after the latest flush that has returned.  A flush
\* that runs empties the decoder first, and then what it had given to the renderer.
Since(b, e) == b.kind \in {"zero", "none"} \/ b.era >= e
AllSince(s, e) == \A i \in 1 .. Len(s) : s[i].kind # "none" /\ Since(s[i], e)
DecoderSince(e) == AllSince(vq, e) /\ (Holding => Since(vdec.blk, e)) /\ Since(fb, e)
RendererSince(e) == AllSince(fq, e) /\ (vren.pc = "show" => Since(vren.blk, e))
DecoderFlushed == \/ vcall.op = "flushed"
                  \/ vcall.op = "flush" /\ vcall.bit \in vbits \cup {"none"}
RendererFlushed == vcall.op = "flushed" /\ vcall.bit \in vbits \cup {"none"}
VideoEras ==
    /\ DecoderSince(seek) /\ RendererSince(seek)
    /\ DecoderFlushed => DecoderSince(seek + 1)
    /\ RendererFlushed => RendererSince(seek + 1)

VideoInv == VideoTypes /\ VideoCalling /\ VideoMessages /\ VideoDecoder /\ VideoRenderer /\ VideoEras

-----------------------------------------------------------------------------

LEMMA PictureTaken ==
    ASSUME NEW s \in Seq(Pictures), s # <<>>
    PROVE  /\ Tail(s) \in Seq(Pictures) /\ Head(s) \in Pictures
           /\ \A e : AllSince(s, e) => AllSince(Tail(s), e) /\ Head(s).kind # "none" /\ Since(Head(s), e)
  <1>1. /\ Tail(s) \in Seq(Pictures) /\ Len(Tail(s)) = Len(s) - 1 /\ Len(s) \in Nat \ {0} /\ Head(s) \in Pictures
        /\ Head(s) = s[1] /\ \A i \in 1 .. Len(s) - 1 : Tail(s)[i] = s[i + 1]
    OBVIOUS
  <1> QED BY <1>1 DEF AllSince

LEMMA PicturePut ==
    ASSUME NEW s \in Seq(Pictures), NEW b \in Pictures, b.kind # "none"
    PROVE  /\ Append(s, b) \in Seq(Pictures) /\ Append(s, b) # <<>>
           /\ \A e : AllSince(s, e) /\ Since(b, e) => AllSince(Append(s, b), e)
  <1>1. /\ Append(s, b) \in Seq(Pictures) /\ Len(Append(s, b)) = Len(s) + 1 /\ Len(s) \in Nat
        /\ \A i \in 1 .. Len(s) : Append(s, b)[i] = s[i]
        /\ Append(s, b)[Len(s) + 1] = b
    OBVIOUS
  <1>2. Append(s, b) # <<>>
    BY <1>1
  <1> QED BY <1>1, <1>2 DEF AllSince

LEMMA NoPicture ==
    /\ <<>> \in Seq(Pictures) /\ \A e : AllSince(<<>>, e)
    /\ Video!None \in Pictures /\ Video!Zero \in Pictures
    /\ \A e : Since(Video!None, e) /\ Since(Video!Zero, e)
    /\ Video!None.kind = "none" /\ Video!Zero.kind = "zero"
    /\ <<Video!Zero>> \in Seq(Pictures) /\ <<Video!Zero>> # <<>>
    /\ \A e : AllSince(<<Video!Zero>>, e)
  BY DEF AllSince, Since, Pictures, Video!None, Video!Zero

LEMMA LetterTaken ==
    ASSUME NEW s \in Seq(PictureMsgs), s # <<>>, LastAnswered(s)
    PROVE  /\ Tail(s) \in Seq(PictureMsgs) /\ LastAnswered(Tail(s)) /\ Head(s) \in PictureMsgs
           /\ Has(s, Head(s)) /\ \A m : Has(Tail(s), m) => Has(s, m)
           /\ Head(s) \in {"CLOSE", "FLUSH"} => \A m : ~Has(Tail(s), m)
  <1>1. /\ Tail(s) \in Seq(PictureMsgs) /\ Len(Tail(s)) = Len(s) - 1 /\ Len(s) \in Nat \ {0}
        /\ Head(s) \in PictureMsgs
        /\ Head(s) = s[1] /\ \A i \in 1 .. Len(s) - 1 : Tail(s)[i] = s[i + 1]
    OBVIOUS
  <1>2. LastAnswered(Tail(s))
    BY <1>1 DEF LastAnswered
  <1>3. Head(s) \in {"CLOSE", "FLUSH"} => Len(s) = 1
    BY <1>1 DEF LastAnswered
  <1>4. Has(s, Head(s)) /\ \A m : Has(Tail(s), m) => Has(s, m)
    BY <1>1 DEF Has
  <1>5. Len(s) = 1 => \A m : ~Has(Tail(s), m)
    BY <1>1 DEF Has
  <1> QED BY <1>1, <1>2, <1>3, <1>4, <1>5

LEMMA LetterPut ==
    ASSUME NEW s \in Seq(PictureMsgs), NEW m \in PictureMsgs, ~Has(s, "CLOSE"), ~Has(s, "FLUSH")
    PROVE  /\ Append(s, m) \in Seq(PictureMsgs) /\ LastAnswered(Append(s, m))
           /\ \A x : Has(Append(s, m), x) => x = m \/ Has(s, x)
  <1>1. /\ Append(s, m) \in Seq(PictureMsgs) /\ Len(Append(s, m)) = Len(s) + 1 /\ Len(s) \in Nat
        /\ \A i \in 1 .. Len(s) : Append(s, m)[i] = s[i] /\ s[i] \in PictureMsgs
        /\ Append(s, m)[Len(s) + 1] = m
    OBVIOUS
  <1>2. \A i \in 1 .. Len(s) : s[i] \in {"PAUSE", "RESUME"}
    BY <1>1 DEF Has, PictureMsgs
  <1>3. LastAnswered(Append(s, m))
    BY <1>1, <1>2 DEF LastAnswered
  <1> QED BY <1>1, <1>3 DEF Has

LEMMA NoLetter ==
    /\ <<>> \in Seq(PictureMsgs) /\ LastAnswered(<<>>) /\ (\A m : ~Has(<<>>, m))
    /\ <<>> \in Seq(Letters) /\ Len(<<>>) = 0
  BY DEF LastAnswered, Has

LEMMA CallTaken ==
    ASSUME NEW s \in Seq(Letters), s # <<>>
    PROVE  /\ Tail(s) \in Seq(Letters) /\ Head(s) \in Letters /\ Head(s) = s[1]
           /\ Len(s) \in Nat \ {0} /\ Len(Tail(s)) = Len(s) - 1
           /\ \A i \in 1 .. Len(s) - 1 : Tail(s)[i] = s[i + 1]
  OBVIOUS

LEMMA OneCall ==
    ASSUME NEW t \in {"vdec", "vren"}, NEW m \in PictureMsgs
    PROVE  /\ Only(t, m) \in Seq(Letters) /\ Only(t, m) # <<>> /\ Len(Only(t, m)) = 1
           /\ Only(t, m)[1] = [to |-> t, msg |-> m] /\ Head(Only(t, m)) = [to |-> t, msg |-> m]
           /\ Tail(Only(t, m)) = <<>>
  <1>1. [to |-> t, msg |-> m] \in Letters
    BY DEF Letters
  <1> QED BY <1>1 DEF Only

LEMMA VideoInitInv == Video!Init => VideoInv
  <1> SUFFICES ASSUME Video!Init PROVE VideoInv
    OBVIOUS
  <1>1. VideoTypes
    BY NoPicture, NoLetter DEF Video!Init, VideoTypes, VideoFields, DecoderStates, RendererStates,
       VideoCalls, Video!Thread, Video!NoCall, PictureBits
  <1>2. VideoCalling
    BY NoLetter DEF Video!Init, VideoCalling, Video!NoCall
  <1>3. VideoMessages
    BY NoLetter DEF Video!Init, VideoMessages, Video!Thread
  <1>4. VideoDecoder /\ VideoRenderer
    BY DEF Video!Init, VideoDecoder, VideoRenderer, Video!Thread, Holding
  <1>5. VideoEras
    BY NoPicture DEF Video!Init, VideoEras, Video!Thread, Holding, DecoderSince, RendererSince,
       DecoderFlushed, RendererFlushed, Video!NoCall
  <1> QED BY <1>1, <1>2, <1>3, <1>4, <1>5 DEF VideoInv

LEMMA VdecRecvStep == ASSUME VideoInv, Video!VdecRecv PROVE VideoInv'
  <1> USE DEF VideoInv
  <1>0. /\ vcfg.decode = "thread" /\ vdec.pc = "loop" /\ ~Holding /\ fb = Video!None
        /\ UNCHANGED <<vcfg, v_render, header_parsed, use_fb, fq, fb, vren, vcall, seek, stale>>
    BY DEF Video!VdecRecv, Video!InThread, Video!streams, Video!vhist, VideoDecoder, Holding
  <1>1. CASE vdec.msgs = <<>>
    <2>1. /\ vdec' = [vdec EXCEPT !.pc = "read"] /\ UNCHANGED <<vq, vpaused, vbits>>
      BY <1>1 DEF Video!VdecRecv
    <2>2. VideoTypes'
      BY <1>0, <2>1 DEF VideoTypes, DecoderStates
    <2>3. vdec'.pc = "read" /\ vdec'.msgs = vdec.msgs /\ vdec'.blk = vdec.blk /\ ~Holding'
      BY <2>1 DEF VideoTypes, DecoderStates, Holding
    <2>4. VideoCalling' /\ VideoMessages' /\ VideoRenderer'
      BY <1>0, <2>1, <2>3 DEF VideoCalling, VideoMessages, VideoRenderer, Awaited
    <2>5. VideoDecoder'
      BY <1>0, <2>1, <2>3 DEF VideoDecoder
    <2>6. VideoEras'
      BY <1>0, <2>1, <2>3 DEF VideoEras, DecoderSince, RendererSince, DecoderFlushed, RendererFlushed
    <2> QED BY <2>2, <2>4, <2>5, <2>6
  <1>2. CASE vdec.msgs # <<>>
    <2> DEFINE m == Head(vdec.msgs)
               stays == m = "PAUSE" \/ (m # "RESUME" /\ vpaused.vdec)
    <2>1. /\ vdec' = [vdec EXCEPT !.msgs = Tail(@), !.pc = IF m = "CLOSE" THEN "none"
                                                           ELSE IF stays THEN "loop" ELSE "read"]
          /\ vpaused' = [vpaused EXCEPT !.vdec = (@ \/ m = "PAUSE") /\ m # "RESUME"]
          /\ vq' = IF m \in {"FLUSH", "CLOSE"} THEN <<>> ELSE vq
          /\ vbits' = IF m = "FLUSH" THEN vbits \cup {"vdec"}
                      ELSE IF m = "CLOSE" THEN vbits \cup {"closed"} ELSE vbits
      BY <1>2 DEF Video!VdecRecv
    <2>2. /\ vdec.msgs \in Seq(PictureMsgs) /\ LastAnswered(vdec.msgs)
          /\ vdec.pc \in {"none", "loop", "read"} /\ vdec.blk \in Pictures
      BY <1>0 DEF VideoTypes, DecoderStates, VideoMessages
    <2>3. /\ Tail(vdec.msgs) \in Seq(PictureMsgs) /\ LastAnswered(Tail(vdec.msgs)) /\ m \in PictureMsgs
          /\ Has(vdec.msgs, m) /\ \A x : Has(Tail(vdec.msgs), x) => Has(vdec.msgs, x)
          /\ m \in {"CLOSE", "FLUSH"} => \A x : ~Has(Tail(vdec.msgs), x)
      BY <1>2, <2>2, LetterTaken
    <2>4. /\ vdec'.msgs = Tail(vdec.msgs) /\ vdec'.blk = vdec.blk /\ vdec' \in DecoderStates
          /\ vdec'.pc \in {"none", "loop", "read"} /\ (vdec'.pc = "none" <=> m = "CLOSE")
      BY <2>1, <2>3 DEF VideoTypes, DecoderStates
    <2>5. m = "CLOSE" => Awaited("closed") /\ vcall.op = "add"
      BY <2>3 DEF VideoMessages, Awaited, VideoCalling
    <2>6. m = "FLUSH" => Awaited("vdec") /\ vcall.op = "flush"
      BY <2>3 DEF VideoMessages, Awaited, VideoCalling
    <2>7. /\ vpaused' \in [vdec : BOOLEAN, vren : BOOLEAN] /\ vq' \in Seq(Pictures)
          /\ m \notin {"FLUSH", "CLOSE"} => vq' = vq /\ vbits' = vbits
          /\ m = "FLUSH" => vq' = <<>> /\ vbits' = {"vdec"}
          /\ m = "CLOSE" => vq' = <<>> /\ vbits' = {"closed"}
      BY <2>1, <2>5, <2>6, NoPicture DEF VideoTypes, Awaited
    <2>8. ~Holding' /\ \A e : AllSince(vq, e) => AllSince(vq', e)
      BY <2>4, <2>7, NoPicture DEF Holding
    <2> HIDE DEF m, stays
    <2>11. VideoTypes'
      BY <1>0, <2>4, <2>7 DEF VideoTypes, PictureBits
    <2>12. VideoCalling'
      <3>1. Len(vcall.togo) = 0 \/ m \notin {"FLUSH", "CLOSE"}
        BY <2>3, <2>5, <2>6, NoLetter DEF Awaited
      <3> QED BY <1>0, <2>3, <2>4, <2>5, <2>6, <2>7, <3>1, NoLetter DEF VideoCalling, Awaited, PictureMsgs
    <2>13. VideoMessages'
      BY <1>0, <2>3, <2>4, <2>5, <2>6, <2>7 DEF VideoMessages, VideoCalling, Awaited, PictureMsgs
    <2>14. VideoDecoder' /\ VideoRenderer'
      BY <1>0, <2>3, <2>4, <2>5, <2>6, <2>7, <2>8 DEF VideoDecoder, VideoRenderer, Awaited, PictureMsgs
    <2>15. VideoEras'
      <3>1. m = "FLUSH" => DecoderSince(seek + 1)'
        BY <1>0, <2>7, <2>8, NoPicture DEF DecoderSince
      <3>2. \A e : DecoderSince(e) => AllSince(vq', e) /\ Since(fb, e)
        BY <2>8 DEF DecoderSince
      <3>3. DecoderSince(seek)'
        BY <1>0, <2>8, <3>2 DEF DecoderSince, VideoEras
      <3>4. DecoderFlushed => DecoderSince(seek + 1)'
        BY <1>0, <2>8, <3>2 DEF DecoderSince, VideoEras
      <3>5. RendererSince(seek)' /\ (RendererFlushed => RendererSince(seek + 1)')
        BY <1>0 DEF RendererSince, VideoEras
      <3>6. DecoderFlushed' => DecoderFlushed \/ m = "FLUSH"
        BY <1>0, <2>3, <2>5, <2>7 DEF DecoderFlushed, PictureMsgs
      <3>7. RendererFlushed' => RendererFlushed
        BY <1>0, <2>3, <2>5, <2>6, <2>7 DEF RendererFlushed, PictureMsgs
      <3> QED BY <1>0, <3>1, <3>3, <3>4, <3>5, <3>6, <3>7 DEF VideoEras
    <2> QED BY <2>11, <2>12, <2>13, <2>14, <2>15
  <1> QED BY <1>1, <1>2

\* A step of the decoder with its block, which says nothing to a call.
LEMMA DecodingKeeps ==
    ASSUME VideoInv, VideoTypes', VideoDecoder', VideoRenderer',
           UNCHANGED <<vcfg, vren, vcall, vbits, seek>>, vdec.pc # "none" \/ vcfg.decode # "thread",
           vdec'.msgs = vdec.msgs, vcfg.decode = "thread" => vdec'.pc # "none",
           \A e : DecoderSince(e) => DecoderSince(e)',
           \A e : DecoderSince(e) /\ AllSince(fq, e) => AllSince(fq', e)
    PROVE  VideoInv'
  <1> USE DEF VideoInv
  <1>1. VideoCalling'
    BY DEF VideoCalling
  <1>2. VideoMessages'
    BY DEF VideoMessages, Awaited
  <1>3. (DecoderFlushed' <=> DecoderFlushed) /\ (RendererFlushed' <=> RendererFlushed)
    BY DEF DecoderFlushed, RendererFlushed
  <1>4. \A e : DecoderSince(e) /\ RendererSince(e) => RendererSince(e)'
    BY DEF RendererSince
  <1>5. RendererFlushed => DecoderFlushed
    BY DEF RendererFlushed, DecoderFlushed
  <1>6. VideoEras'
    BY <1>3, <1>4, <1>5 DEF VideoEras
  <1> QED BY <1>1, <1>2, <1>6

LEMMA VdecTakeStep == ASSUME VideoInv, Video!VdecTake PROVE VideoInv'
  <1> USE DEF VideoInv
  <1>1. /\ vdec.pc = "read" /\ vq # <<>> /\ vcfg.decode = "thread"
        /\ UNCHANGED <<vcfg, v_render, header_parsed, use_fb, vq, fq, fb, vren, vpaused, vbits, vcall, seek, stale>>
    BY DEF Video!VdecTake, Video!streams, Video!vhist, VideoDecoder
  <1>2. Head(vq) \in Pictures /\ Head(vq).kind # "none" /\ \A e : AllSince(vq, e) => Since(Head(vq), e)
    BY <1>1, PictureTaken DEF VideoTypes, VideoEras, DecoderSince
  <1>3. PICK p \in {"decode", "unlock"} : /\ vdec' = [vdec EXCEPT !.blk = Head(vq), !.pc = p]
                                          /\ p = "decode" => Head(vq).kind # "zero"
    BY DEF Video!VdecTake
  <1>4. /\ vdec' \in DecoderStates /\ vdec'.msgs = vdec.msgs /\ vdec'.pc = p /\ vdec'.blk = Head(vq)
        /\ vcfg.decode # "raw"
    BY <1>1, <1>2, <1>3 DEF VideoTypes, DecoderStates
  <1>5. VideoTypes' /\ VideoRenderer'
    BY <1>1, <1>4 DEF VideoTypes, VideoRenderer
  <1>6. VideoDecoder'
    BY <1>1, <1>2, <1>3, <1>4 DEF VideoDecoder, Holding
  <1>7. \A e : DecoderSince(e) => DecoderSince(e)'
    BY <1>1, <1>2, <1>4 DEF DecoderSince
  <1> QED BY <1>1, <1>4, <1>5, <1>6, <1>7, DecodingKeeps

LEMMA FetchFbStep == ASSUME VideoInv, Video!FetchFb PROVE VideoInv'
  <1> USE DEF VideoInv
  <1>1. /\ vdec.pc = "decode" /\ Holding /\ vcfg.decode # "raw" /\ fb = Video!None
        /\ UNCHANGED <<vcfg, v_render, use_fb, vq, fq, vren, vpaused, vbits, vcall, seek, stale>>
    BY DEF Video!FetchFb, Video!vhist, VideoDecoder, Holding
  <1>2. PICK p \in {"unlock", "none", "process"} : /\ vdec' = [vdec EXCEPT !.pc = p]
                                                   /\ vcfg.decode = "thread" => p # "none"
                                                   /\ vcfg.decode # "thread" => p # "unlock"
                                                   /\ fb' # fb => p = "process"
    BY DEF Video!FetchFb, Video!BlockDone, Video!InThread
  <1>3. /\ vdec' \in DecoderStates /\ vdec'.msgs = vdec.msgs /\ vdec'.pc = p /\ vdec'.blk = vdec.blk
        /\ Holding' => p = "process"
    BY <1>2 DEF VideoTypes, DecoderStates, Holding
  <1>4. header_parsed' \in BOOLEAN
    BY DEF Video!FetchFb, VideoTypes
  <1>5. vdec.blk \in Pictures /\ vdec.blk.kind \notin {"zero", "none"} /\ \A e : DecoderSince(e) => Since(vdec.blk, e)
    BY <1>1 DEF VideoTypes, DecoderStates, VideoDecoder, DecoderSince
  <1>6. fb' = fb \/ (fb' = [vdec.blk EXCEPT !.kind = "junk"] /\ use_fb)
    BY DEF Video!FetchFb, Video!Reserve
  <1>7. /\ fb' \in Pictures /\ (fb' # fb => fb'.kind = "junk" /\ vren.pc # "none")
        /\ \A e : DecoderSince(e) => Since(fb', e)
    <2>1. [vdec.blk EXCEPT !.kind = "junk"] \in Pictures
      BY <1>5 DEF Pictures
    <2>2. [vdec.blk EXCEPT !.kind = "junk"].kind = "junk" /\ [vdec.blk EXCEPT !.kind = "junk"].era = vdec.blk.era
      BY <1>5 DEF Pictures
    <2>3. use_fb => vren.pc # "none"
      BY <1>1 DEF VideoDecoder
    <2>4. \A e : DecoderSince(e) => Since(fb, e) /\ vdec.blk.era >= e
      BY <1>5 DEF DecoderSince, Since
    <2> QED BY <1>6, <2>1, <2>2, <2>3, <2>4 DEF Since, VideoTypes
  <1>8. VideoTypes' /\ VideoRenderer'
    BY <1>1, <1>3, <1>4, <1>7 DEF VideoTypes, VideoRenderer
  <1>9. VideoDecoder'
    BY <1>1, <1>2, <1>3, <1>5, <1>7 DEF VideoDecoder, Holding
  <1>10. \A e : DecoderSince(e) => DecoderSince(e)'
    BY <1>1, <1>3, <1>5, <1>7 DEF DecoderSince
  <1> QED BY <1>1, <1>2, <1>3, <1>8, <1>9, <1>10, DecodingKeeps

LEMMA DecodeStep == ASSUME VideoInv, Video!DecodeFails \/ Video!Decoded PROVE VideoInv'
  <1> USE DEF VideoInv
  <1>1. /\ vdec.pc = "process" /\ Holding /\ vcfg.decode # "raw" /\ fb' \in {fb, Video!None}
        /\ UNCHANGED <<vcfg, v_render, header_parsed, use_fb, vq, fq, vren, vpaused, vbits, vcall, seek, stale>>
    BY DEF Video!DecodeFails, Video!Decoded, Video!vhist, Video!streams, VideoDecoder, Holding
  <1>2. PICK p \in {"unlock", "none", "reached"} : /\ vdec' = [vdec EXCEPT !.pc = p]
                                                   /\ vcfg.decode = "thread" => p # "none"
                                                   /\ vcfg.decode # "thread" => p # "unlock"
                                                   /\ fb' # Video!None => p = "reached"
    BY DEF Video!DecodeFails, Video!Decoded, Video!BlockDone, Video!InThread
  <1>3. /\ vdec' \in DecoderStates /\ vdec'.msgs = vdec.msgs /\ vdec'.pc = p /\ vdec'.blk = vdec.blk
    BY <1>2 DEF VideoTypes, DecoderStates
  <1>4. VideoTypes' /\ VideoRenderer'
    BY <1>1, <1>3, NoPicture DEF VideoTypes, VideoRenderer
  <1>5. VideoDecoder'
    BY <1>1, <1>2, <1>3 DEF VideoDecoder, Holding
  <1>6. \A e : DecoderSince(e) => DecoderSince(e)'
    BY <1>1, <1>3, NoPicture DEF DecoderSince
  <1> QED BY <1>1, <1>2, <1>3, <1>4, <1>5, <1>6, DecodingKeeps

LEMMA OpenDisplayStep == ASSUME VideoInv, Video!OpenDisplay PROVE VideoInv'
  <1> USE DEF VideoInv
  <1>1. /\ vdec.pc = "reached" /\ Holding
        /\ UNCHANGED <<vcfg, header_parsed, use_fb, vq, fq, fb, vren, vpaused, vbits, vcall, seek, stale>>
    BY DEF Video!OpenDisplay, Video!vhist, Holding
  <1>2. v_render' \in VideoFields /\ v_render'.vdec = v_render.vdec
    BY DEF Video!OpenDisplay, VideoTypes, VideoFields
  <1>3. vdec' = vdec \/ vdec' = [vdec EXCEPT !.pc = "release"]
    BY DEF Video!OpenDisplay
  <1>4. /\ vdec' \in DecoderStates /\ vdec'.msgs = vdec.msgs /\ vdec'.pc \in {"reached", "release"}
        /\ vdec'.blk = vdec.blk
    BY <1>1, <1>3 DEF VideoTypes, DecoderStates
  <1>5. VideoTypes' /\ VideoRenderer'
    BY <1>1, <1>2, <1>4 DEF VideoTypes, VideoRenderer
  <1>6. VideoDecoder'
    BY <1>1, <1>2, <1>4 DEF VideoDecoder, Holding
  <1>7. \A e : DecoderSince(e) => DecoderSince(e)'
    BY <1>1, <1>4 DEF DecoderSince
  <1> QED BY <1>1, <1>4, <1>5, <1>6, <1>7, DecodingKeeps

\* A picture that is not older than the latest flush is shown.
LEMMA WriteKeeps ==
    ASSUME VideoTypes, NEW f \in Pictures, Since(f, seek), f.kind \notin {"zero", "none"},
           NEW seen \in BOOLEAN, Video!Write(f, seen)
    PROVE  /\ v_render' \in VideoFields /\ v_render'.vdec = v_render.vdec
           /\ vpaused' \in [vdec : BOOLEAN, vren : BOOLEAN] /\ stale' = FALSE
  <1>1. ~(f.era < seek)
    BY DEF Since, Pictures, VideoTypes
  <1>2. stale' = FALSE
    BY <1>1 DEF Video!Write, VideoTypes
  <1>3. PICK a \in BOOLEAN, b \in BOOLEAN :
          v_render' = [v_render EXCEPT !.video_rendered = a, !.sent = b]
    BY DEF Video!Write, VideoTypes, VideoFields
  <1>4. v_render' \in VideoFields /\ v_render'.vdec = v_render.vdec
    BY <1>3 DEF VideoTypes, VideoFields
  <1>5. vpaused' \in [vdec : BOOLEAN, vren : BOOLEAN]
    BY DEF Video!Write, Video!FirstPauses, Video!InSync, VideoTypes, VideoFields
  <1> QED BY <1>2, <1>4, <1>5

LEMMA FrameReachedStep == ASSUME VideoInv, Video!FrameReached PROVE VideoInv'
  <1> USE DEF VideoInv
  <1>1. /\ vdec.pc = "reached" /\ Holding /\ vdec' = [vdec EXCEPT !.pc = "release"]
        /\ UNCHANGED <<vcfg, header_parsed, use_fb, vq, vren, vbits, vcall, seek>>
    BY DEF Video!FrameReached, Holding
  <1>2. /\ vdec' \in DecoderStates /\ vdec'.msgs = vdec.msgs /\ vdec'.pc = "release"
        /\ vdec'.blk = vdec.blk
    BY <1>1 DEF VideoTypes, DecoderStates
  <1>3. /\ vdec.blk \in Pictures /\ vdec.blk.kind \notin {"zero", "none"} /\ Since(vdec.blk, seek)
        /\ \A e : DecoderSince(e) => Since(vdec.blk, e)
    BY <1>1 DEF VideoTypes, DecoderStates, VideoDecoder, DecoderSince, VideoEras
  <1>4. /\ v_render' \in VideoFields /\ v_render'.vdec = v_render.vdec
        /\ vpaused' \in [vdec : BOOLEAN, vren : BOOLEAN] /\ stale' = FALSE
    <2>1. CASE UNCHANGED <<v_render, vpaused, stale>>
      BY <2>1 DEF VideoTypes
    <2>2. CASE \E seen \in BOOLEAN : Video!Write(vdec.blk, seen)
      BY <2>2, <1>3, WriteKeeps
    <2> QED BY <2>1, <2>2 DEF Video!FrameReached
  <1>5. /\ fb' = fb \/ (fb' = vdec.blk /\ vren.pc # "none" /\ fb # Video!None)
        /\ fq' = fq \/ (fq' = Append(fq, vdec.blk) /\ vren.pc # "none")
    BY DEF Video!FrameReached
  <1>6. /\ fq' \in Seq(Pictures) /\ (fq' # fq => vren.pc # "none")
        /\ \A e : DecoderSince(e) /\ AllSince(fq, e) => AllSince(fq', e)
    <2>1. /\ Append(fq, vdec.blk) \in Seq(Pictures)
          /\ \A e : AllSince(fq, e) /\ Since(vdec.blk, e) => AllSince(Append(fq, vdec.blk), e)
      BY <1>3, PicturePut DEF VideoTypes
    <2> QED BY <1>3, <1>5, <2>1 DEF VideoTypes
  <1>7. VideoTypes'
    BY <1>1, <1>2, <1>3, <1>4, <1>5, <1>6 DEF VideoTypes
  <1>8. VideoRenderer'
    BY <1>1, <1>6 DEF VideoRenderer
  <1>9. VideoDecoder'
    BY <1>1, <1>2, <1>3, <1>4, <1>5 DEF VideoDecoder, Holding
  <1>10. \A e : DecoderSince(e) => DecoderSince(e)'
    BY <1>1, <1>2, <1>3, <1>5 DEF DecoderSince
  <1> QED BY <1>1, <1>2, <1>6, <1>7, <1>8, <1>9, <1>10, DecodingKeeps

LEMMA ReleaseFbStep == ASSUME VideoInv, Video!ReleaseFb PROVE VideoInv'
  <1> USE DEF VideoInv
  <1>1. /\ vdec.pc = "release" /\ fb' = Video!None
        /\ fq' = IF fb = Video!None THEN fq ELSE Append(fq, fb)
        /\ UNCHANGED <<vcfg, v_render, header_parsed, use_fb, vq, vren, vpaused, vbits, vcall, seek, stale>>
    BY DEF Video!ReleaseFb, Video!vhist, Video!streams
  <1>2. PICK p \in {"unlock", "none"} : /\ vdec' = [vdec EXCEPT !.pc = p]
                                        /\ vcfg.decode = "thread" <=> p = "unlock"
    BY DEF Video!ReleaseFb, Video!BlockDone, Video!InThread
  <1>3. /\ vdec' \in DecoderStates /\ vdec'.msgs = vdec.msgs /\ vdec'.pc = p /\ vdec'.blk = vdec.blk
    BY <1>2 DEF VideoTypes, DecoderStates
  <1>4. /\ fq' \in Seq(Pictures) /\ (fq' # fq => vren.pc # "none")
        /\ \A e : DecoderSince(e) /\ AllSince(fq, e) => AllSince(fq', e)
    <2>1. fb # Video!None => fb.kind # "none" /\ vren.pc # "none"
      BY DEF VideoDecoder
    <2>2. fb # Video!None => /\ Append(fq, fb) \in Seq(Pictures)
                             /\ \A e : AllSince(fq, e) /\ Since(fb, e) => AllSince(Append(fq, fb), e)
      BY <2>1, PicturePut DEF VideoTypes
    <2> QED BY <1>1, <2>1, <2>2 DEF VideoTypes, DecoderSince
  <1>5. VideoTypes' /\ VideoRenderer'
    BY <1>1, <1>3, <1>4, NoPicture DEF VideoTypes, VideoRenderer
  <1>6. VideoDecoder'
    BY <1>1, <1>2, <1>3 DEF VideoDecoder, Holding
  <1>7. \A e : DecoderSince(e) => DecoderSince(e)'
    BY <1>1, <1>2, <1>3, NoPicture DEF DecoderSince, Holding
  <1> QED BY <1>1, <1>2, <1>3, <1>4, <1>5, <1>6, <1>7, DecodingKeeps

LEMMA VdecUnlockStep == ASSUME VideoInv, Video!VdecUnlock PROVE VideoInv'
  <1> USE DEF VideoInv
  <1>1. /\ vdec.pc = "unlock" /\ vdec' = [vdec EXCEPT !.pc = "loop", !.blk = Video!None]
        /\ vq' = Tail(vq)
        /\ UNCHANGED <<vcfg, v_render, header_parsed, use_fb, fq, fb, vren, vbits, vcall, seek, stale>>
    BY DEF Video!VdecUnlock, Video!vhist, Video!streams
  <1>2. vcfg.decode = "thread" /\ vq # <<>> /\ fb = Video!None
    BY <1>1 DEF VideoDecoder, Holding
  <1>3. /\ vdec' \in DecoderStates /\ vdec'.msgs = vdec.msgs /\ vdec'.pc = "loop"
    BY <1>1, NoPicture DEF VideoTypes, DecoderStates
  <1>4. vq' \in Seq(Pictures) /\ \A e : AllSince(vq, e) => AllSince(vq', e)
    BY <1>1, <1>2, PictureTaken DEF VideoTypes
  <1>5. vpaused' \in [vdec : BOOLEAN, vren : BOOLEAN]
    BY DEF Video!VdecUnlock, VideoTypes
  <1>6. VideoTypes' /\ VideoRenderer'
    BY <1>1, <1>3, <1>4, <1>5 DEF VideoTypes, VideoRenderer
  <1>7. VideoDecoder'
    BY <1>1, <1>2, <1>3 DEF VideoDecoder, Holding
  <1>8. \A e : DecoderSince(e) => DecoderSince(e)'
    BY <1>1, <1>3, <1>4 DEF DecoderSince, Holding
  <1> QED BY <1>1, <1>2, <1>3, <1>6, <1>7, <1>8, DecodingKeeps

\* A step of the renderer with its block.
LEMMA ShowingKeeps ==
    ASSUME VideoInv, VideoTypes', VideoRenderer',
           UNCHANGED <<vcfg, use_fb, vq, fb, vdec, vcall, vbits, seek>>, v_render'.vdec = v_render.vdec,
           vren'.msgs = vren.msgs, vren.pc # "none", vren'.pc # "none",
           \A e : RendererSince(e) => RendererSince(e)'
    PROVE  VideoInv'
  <1> USE DEF VideoInv
  <1>1. VideoCalling' /\ VideoMessages'
    BY DEF VideoCalling, VideoMessages, Awaited
  <1>2. VideoDecoder'
    BY DEF VideoDecoder, Holding
  <1>3. VideoEras'
    BY DEF VideoEras, DecoderSince, Holding, DecoderFlushed, RendererFlushed
  <1> QED BY <1>1, <1>2, <1>3

LEMMA VrenRecvStep == ASSUME VideoInv, Video!VrenRecv PROVE VideoInv'
  <1> USE DEF VideoInv
  <1>0. /\ vren.pc = "loop"
        /\ UNCHANGED <<vcfg, header_parsed, use_fb, vq, fb, vdec, vcall, seek, stale>>
    BY DEF Video!VrenRecv, Video!vhist
  <1>1. CASE vren.msgs = <<>>
    <2>1. /\ vren' = [vren EXCEPT !.pc = "read"] /\ UNCHANGED <<fq, vpaused, vbits, v_render>>
      BY <1>1 DEF Video!VrenRecv
    <2>2. VideoTypes'
      BY <1>0, <2>1 DEF VideoTypes, RendererStates
    <2>3. vren'.pc = "read" /\ vren'.msgs = vren.msgs
      BY <2>1 DEF VideoTypes, RendererStates
    <2>4. VideoRenderer'
      BY <1>0, <2>1, <2>3 DEF VideoRenderer
    <2>5. \A e : RendererSince(e) => RendererSince(e)'
      BY <2>1, <2>3 DEF RendererSince
    <2> QED BY <1>0, <2>1, <2>2, <2>3, <2>4, <2>5, ShowingKeeps
  <1>2. CASE vren.msgs # <<>>
    <2> DEFINE m == Head(vren.msgs)
               stays == m = "PAUSE" \/ (m # "RESUME" /\ vpaused.vren)
    <2>1. /\ vren' = [vren EXCEPT !.msgs = Tail(@), !.pc = IF stays THEN "loop" ELSE "read"]
          /\ vpaused' = [vpaused EXCEPT !.vren = (@ \/ m = "PAUSE") /\ m # "RESUME"]
          /\ fq' = IF m = "FLUSH" THEN <<>> ELSE fq
          /\ vbits' = IF m = "FLUSH" THEN vbits \cup {"vren"} ELSE vbits
          /\ v_render' = [v_render EXCEPT !.flushing = @ /\ m # "FLUSH"]
      BY <1>2 DEF Video!VrenRecv
    <2>2. vren.msgs \in Seq(PictureMsgs) /\ LastAnswered(vren.msgs)
      BY DEF VideoTypes, RendererStates, VideoMessages
    <2>3. /\ Tail(vren.msgs) \in Seq(PictureMsgs) /\ LastAnswered(Tail(vren.msgs)) /\ m \in PictureMsgs
          /\ Has(vren.msgs, m) /\ \A x : Has(Tail(vren.msgs), x) => Has(vren.msgs, x)
          /\ m \in {"CLOSE", "FLUSH"} => \A x : ~Has(Tail(vren.msgs), x)
      BY <1>2, <2>2, LetterTaken
    <2>4. /\ vren'.msgs = Tail(vren.msgs) /\ vren' \in RendererStates /\ vren'.pc \in {"loop", "read"}
      BY <2>1, <2>3 DEF VideoTypes, RendererStates
    <2>5. m = "FLUSH" => Awaited("vren") /\ vcall.op = "flushed"
      BY <2>3 DEF VideoMessages, Awaited, VideoCalling
    <2>6. m = "FLUSH" => fq' = <<>> /\ vbits' = {"vren"}
      BY <2>1, <2>5 DEF Awaited
    <2>7. m # "FLUSH" => fq' = fq /\ vbits' = vbits
      BY <2>1
    <2>8. /\ vpaused' \in [vdec : BOOLEAN, vren : BOOLEAN] /\ fq' \in Seq(Pictures)
          /\ v_render' \in VideoFields /\ v_render'.vdec = v_render.vdec
      BY <2>1, NoPicture DEF VideoTypes, VideoFields
    <2>9. \A e : AllSince(fq, e) => AllSince(fq', e)
      BY <2>6, <2>7, NoPicture
    <2> HIDE DEF m, stays
    <2>11. VideoTypes'
      BY <1>0, <2>4, <2>6, <2>7, <2>8 DEF VideoTypes, PictureBits
    <2>12. VideoCalling'
      <3>1. Len(vcall.togo) = 0 \/ m # "FLUSH"
        BY <2>5, NoLetter DEF Awaited
      <3> QED BY <1>0, <2>4, <2>5, <2>6, <2>7, <3>1, NoLetter DEF VideoCalling, Awaited
    <2>13. VideoMessages'
      BY <1>0, <2>3, <2>4, <2>5, <2>6, <2>7 DEF VideoMessages, VideoCalling, Awaited
    <2>14. VideoDecoder' /\ VideoRenderer'
      BY <1>0, <2>4, <2>5, <2>6, <2>7, <2>8 DEF VideoDecoder, VideoRenderer, Holding
    <2>15. VideoEras'
      <3>1. m = "FLUSH" => RendererSince(seek + 1)'
        BY <1>0, <2>4, <2>6, NoPicture DEF RendererSince
      <3>2. \A e : RendererSince(e) => RendererSince(e)'
        BY <2>4, <2>9 DEF RendererSince
      <3>3. \A e : DecoderSince(e)' <=> DecoderSince(e)
        BY <1>0 DEF DecoderSince, Holding
      <3>4. RendererFlushed' => RendererFlushed \/ m = "FLUSH"
        BY <1>0, <2>5, <2>7 DEF RendererFlushed
      <3>5. DecoderFlushed' => DecoderFlushed
        BY <1>0, <2>5, <2>7 DEF DecoderFlushed
      <3> QED BY <1>0, <3>1, <3>2, <3>3, <3>4, <3>5 DEF VideoEras
    <2> QED BY <2>11, <2>12, <2>13, <2>14, <2>15
  <1> QED BY <1>1, <1>2

LEMMA ShowStep == ASSUME VideoInv, Video!VrenTake \/ Video!VrenShow \/ Video!VrenUnlock PROVE VideoInv'
  <1> USE DEF VideoInv
  <1>1. CASE Video!VrenTake
    <2>1. /\ vren.pc = "read" /\ fq # <<>> /\ vren' = [vren EXCEPT !.blk = Head(fq), !.pc = "show"]
          /\ UNCHANGED <<vcfg, v_render, header_parsed, use_fb, vq, fq, fb, vdec, vpaused, vbits, vcall, seek, stale>>
      BY <1>1 DEF Video!VrenTake, Video!streams, Video!vhist
    <2>2. Head(fq) \in Pictures /\ \A e : AllSince(fq, e) => Head(fq).kind # "none" /\ Since(Head(fq), e)
      BY <2>1, PictureTaken DEF VideoTypes
    <2>3. /\ vren' \in RendererStates /\ vren'.msgs = vren.msgs /\ vren'.pc = "show" /\ vren'.blk = Head(fq)
      BY <2>1, <2>2 DEF VideoTypes, RendererStates
    <2>4. VideoTypes'
      BY <2>1, <2>3 DEF VideoTypes
    <2>5. VideoRenderer'
      BY <2>2, <2>3 DEF VideoRenderer, VideoEras, RendererSince
    <2>6. \A e : RendererSince(e) => RendererSince(e)'
      BY <2>1, <2>2, <2>3 DEF RendererSince
    <2> QED BY <2>1, <2>3, <2>4, <2>5, <2>6, ShowingKeeps
  <1>2. CASE Video!VrenShow
    <2>1. /\ vren.pc = "show" /\ vren' = [vren EXCEPT !.pc = "unlock"]
          /\ UNCHANGED <<vcfg, header_parsed, use_fb, vq, fq, fb, vdec, vbits, vcall, seek>>
      BY <1>2 DEF Video!VrenShow
    <2>2. /\ vren' \in RendererStates /\ vren'.msgs = vren.msgs /\ vren'.pc = "unlock"
      BY <2>1 DEF VideoTypes, RendererStates
    <2>3. /\ v_render' \in VideoFields /\ v_render'.vdec = v_render.vdec
          /\ vpaused' \in [vdec : BOOLEAN, vren : BOOLEAN] /\ stale' = FALSE
      <3>1. CASE UNCHANGED <<v_render, vpaused, stale>>
        BY <3>1 DEF VideoTypes
      <3>2. CASE vren.blk.kind # "zero" /\ \E seen \in BOOLEAN : Video!Write(vren.blk, seen)
        <4>1. vren.blk \in Pictures /\ vren.blk.kind \notin {"zero", "none"} /\ Since(vren.blk, seek)
          BY <2>1, <3>2 DEF VideoTypes, RendererStates, VideoRenderer, VideoEras, RendererSince
        <4> QED BY <3>2, <4>1, WriteKeeps
      <3> QED BY <1>2, <3>1, <3>2 DEF Video!VrenShow
    <2>4. VideoTypes' /\ VideoRenderer'
      BY <2>1, <2>2, <2>3 DEF VideoTypes, VideoRenderer
    <2>5. \A e : RendererSince(e) => RendererSince(e)'
      BY <2>1, <2>2 DEF RendererSince
    <2> QED BY <2>1, <2>2, <2>3, <2>4, <2>5, ShowingKeeps
  <1>3. CASE Video!VrenUnlock
    <2>1. /\ vren.pc = "unlock" /\ vren' = [vren EXCEPT !.pc = "loop", !.blk = Video!None]
          /\ fq' = IF vpaused.vren \/ fq = <<>> THEN fq ELSE Tail(fq)
          /\ UNCHANGED <<vcfg, v_render, header_parsed, use_fb, vq, fb, vdec, vpaused, vbits, vcall, seek, stale>>
      BY <1>3 DEF Video!VrenUnlock, Video!streams, Video!vhist
    <2>2. /\ vren' \in RendererStates /\ vren'.msgs = vren.msgs /\ vren'.pc = "loop"
      BY <2>1, NoPicture DEF VideoTypes, RendererStates
    <2>3. fq # <<>> => Tail(fq) \in Seq(Pictures) /\ \A e : AllSince(fq, e) => AllSince(Tail(fq), e)
      BY PictureTaken DEF VideoTypes
    <2>4. fq' \in Seq(Pictures) /\ \A e : AllSince(fq, e) => AllSince(fq', e)
      BY <2>1, <2>3 DEF VideoTypes
    <2>5. VideoTypes' /\ VideoRenderer'
      BY <2>1, <2>2, <2>4 DEF VideoTypes, VideoRenderer
    <2>6. \A e : RendererSince(e) => RendererSince(e)'
      BY <2>1, <2>2, <2>4 DEF RendererSince
    <2> QED BY <2>1, <2>2, <2>5, <2>6, ShowingKeeps
  <1> QED BY <1>1, <1>2, <1>3

\* A block that is added while a flush runs is not older than that flush.
LEMMA BlockIsPicture ==
    ASSUME VideoInv, NEW k \in {"data", "eos"}
    PROVE  /\ Video!Block(k) \in Pictures /\ Video!Block(k).kind = k
           /\ Since(Video!Block(k), seek)
           /\ vcall.op \in {"flush", "flushed"} => Since(Video!Block(k), seek + 1)
  BY DEF Video!Block, Pictures, Since, VideoInv, VideoTypes

LEMMA PutToVdecStep == ASSUME VideoInv, NEW k \in {"data", "eos"}, Video!PutToVdec(k) PROVE VideoInv'
  <1> USE DEF VideoInv
  <1>0. PICK b \in Pictures : /\ b = Video!Block(k) /\ b.kind = k
                              /\ Since(b, seek) /\ (DecoderFlushed => Since(b, seek + 1))
    BY BlockIsPicture DEF DecoderFlushed
  <1>1. /\ vcfg.decode = "thread" /\ vdec.pc # "none" /\ vq' = Append(vq, b)
        /\ UNCHANGED <<vcfg, v_render, header_parsed, use_fb, fq, fb, vdec, vren, vpaused, vbits, vcall, seek, stale>>
    BY <1>0 DEF Video!PutToVdec, Video!InThread, Video!streams, Video!vhist
  <1>2. /\ vq' \in Seq(Pictures) /\ vq' # <<>>
        /\ \A e : AllSince(vq, e) /\ Since(b, e) => AllSince(vq', e)
    BY <1>0, <1>1, PicturePut DEF VideoTypes
  <1>3. VideoTypes' /\ VideoCalling' /\ VideoMessages' /\ VideoRenderer'
    BY <1>1, <1>2 DEF VideoTypes, VideoCalling, VideoMessages, VideoRenderer, Awaited
  <1>4. VideoDecoder'
    BY <1>1, <1>2 DEF VideoDecoder, Holding
  <1>5. VideoEras'
    BY <1>0, <1>1, <1>2 DEF VideoEras, DecoderSince, RendererSince, Holding, DecoderFlushed, RendererFlushed
  <1> QED BY <1>3, <1>4, <1>5

LEMMA AddInSyncStep == ASSUME VideoInv, NEW k \in {"data", "eos"}, Video!AddInSync(k) PROVE VideoInv'
  <1> USE DEF VideoInv
  <1>0. PICK b \in Pictures : b = Video!Block(k) /\ b.kind = k /\ Since(b, seek)
    BY BlockIsPicture
  <1>1. /\ vcfg.decode # "thread" /\ v_render.vdec = TRUE /\ vdec.pc = "none" /\ vcall.op = "idle"
        /\ UNCHANGED <<vcfg, v_render, header_parsed, use_fb, vq, fq, fb, vren, vpaused, vbits, vcall, seek, stale>>
    BY DEF Video!AddInSync, Video!InThread, Video!streams, Video!vhist, Video!NoCall, VideoTypes, VideoFields
  <1>2. PICK p \in {"reached", "decode"} : /\ vdec' = [vdec EXCEPT !.blk = b, !.pc = p]
                                           /\ vcfg.decode = "raw" => p = "reached"
    BY <1>0 DEF Video!AddInSync
  <1>3. /\ vdec' \in DecoderStates /\ vdec'.pc = p /\ vdec'.blk = b /\ vdec'.msgs = vdec.msgs
    BY <1>2 DEF VideoTypes, DecoderStates
  <1>4. VideoTypes' /\ VideoCalling' /\ VideoMessages' /\ VideoRenderer'
    BY <1>1, <1>3 DEF VideoTypes, VideoCalling, VideoMessages, VideoRenderer, Awaited
  <1>5. VideoDecoder'
    BY <1>0, <1>1, <1>2, <1>3 DEF VideoDecoder, Holding
  <1>6. VideoEras'
    BY <1>0, <1>1, <1>3 DEF VideoEras, DecoderSince, RendererSince, Holding, DecoderFlushed, RendererFlushed
  <1> QED BY <1>4, <1>5, <1>6

-----------------------------------------------------------------------------

\* A step of a call that leaves the pipeline alone.
LEMMA CallKeeps ==
    ASSUME VideoInv, VideoTypes', VideoCalling', VideoMessages', VideoDecoder', VideoRenderer',
           \A e : DecoderSince(e) => DecoderSince(e)', \A e : RendererSince(e) => RendererSince(e)',
           seek' = seek, DecoderFlushed' => DecoderFlushed, RendererFlushed' => RendererFlushed
    PROVE  VideoInv'
  BY DEF VideoInv, VideoEras

\* What To makes: a message for a thread that is there, or none.
LEMMA ToThread ==
    ASSUME VideoTypes, NEW m \in PictureMsgs
    PROVE  /\ Video!To("vdec", m) = IF vcfg.decode = "thread" /\ vdec.pc # "none" THEN Only("vdec", m) ELSE <<>>
           /\ Video!To("vren", m) = IF vren.pc # "none" THEN Only("vren", m) ELSE <<>>
           /\ Video!To("vdec", m) \in Seq(Letters) /\ Video!To("vren", m) \in Seq(Letters)
           /\ \A t \in {"vdec", "vren"} : \A i \in 1 .. Len(Video!To(t, m)) :
                /\ Video!To(t, m)[i].msg = m
                /\ IF Video!To(t, m)[i].to = "vdec" THEN vcfg.decode = "thread" /\ vdec.pc # "none"
                                                     ELSE vren.pc # "none"
  <1>1. /\ Video!To("vdec", m) = IF vcfg.decode = "thread" /\ vdec.pc # "none" THEN Only("vdec", m) ELSE <<>>
        /\ Video!To("vren", m) = IF vren.pc # "none" THEN Only("vren", m) ELSE <<>>
    BY DEF Video!To, Only, Video!VdecThread, Video!InThread
  <1>2. /\ Only("vdec", m) \in Seq(Letters) /\ Len(Only("vdec", m)) = 1 /\ Only("vdec", m)[1] = [to |-> "vdec", msg |-> m]
        /\ Only("vren", m) \in Seq(Letters) /\ Len(Only("vren", m)) = 1 /\ Only("vren", m)[1] = [to |-> "vren", msg |-> m]
    BY OneCall
  <1>3. <<>> \in Seq(Letters) /\ Len(<<>>) = 0
    BY NoLetter
  <1>4. Video!To("vdec", m) \in Seq(Letters) /\ Video!To("vren", m) \in Seq(Letters)
    BY <1>1, <1>2, <1>3
  <1>5. ASSUME NEW i \in 1 .. Len(Video!To("vdec", m))
        PROVE  Video!To("vdec", m)[i] = [to |-> "vdec", msg |-> m] /\ vcfg.decode = "thread" /\ vdec.pc # "none"
    BY <1>1, <1>2, <1>3
  <1>6. ASSUME NEW i \in 1 .. Len(Video!To("vren", m))
        PROVE  Video!To("vren", m)[i] = [to |-> "vren", msg |-> m] /\ vren.pc # "none"
    BY <1>1, <1>2, <1>3
  <1> QED BY <1>1, <1>4, <1>5, <1>6

LEMMA BothThreads ==
    ASSUME VideoTypes, NEW s \in Seq(Letters), NEW t \in Seq(Letters), NEW m \in PictureMsgs,
           \A i \in 1 .. Len(s) : s[i].msg = m /\ IF s[i].to = "vdec" THEN vcfg.decode = "thread" /\ vdec.pc # "none"
                                                                     ELSE vren.pc # "none",
           \A i \in 1 .. Len(t) : t[i].msg = m /\ IF t[i].to = "vdec" THEN vcfg.decode = "thread" /\ vdec.pc # "none"
                                                                     ELSE vren.pc # "none"
    PROVE  /\ s \o t \in Seq(Letters)
           /\ \A i \in 1 .. Len(s \o t) :
                /\ (s \o t)[i].msg = m
                /\ IF (s \o t)[i].to = "vdec" THEN vcfg.decode = "thread" /\ vdec.pc # "none" ELSE vren.pc # "none"
  <1>1. /\ s \o t \in Seq(Letters) /\ Len(s \o t) = Len(s) + Len(t) /\ Len(s) \in Nat /\ Len(t) \in Nat
        /\ \A i \in 1 .. Len(s) + Len(t) : (s \o t)[i] = IF i <= Len(s) THEN s[i] ELSE t[i - Len(s)]
    OBVIOUS
  <1>2. ASSUME NEW i \in 1 .. Len(s) + Len(t), ~(i <= Len(s)) PROVE i - Len(s) \in 1 .. Len(t)
    BY <1>1, <1>2
  <1>3. ASSUME NEW i \in 1 .. Len(s) + Len(t), i <= Len(s) PROVE i \in 1 .. Len(s)
    BY <1>1, <1>3
  <1>4. ASSUME NEW i \in 1 .. Len(s) + Len(t)
        PROVE  (\E j \in 1 .. Len(s) : (s \o t)[i] = s[j]) \/ (\E j \in 1 .. Len(t) : (s \o t)[i] = t[j])
    BY <1>1, <1>2, <1>3, <1>4
  <1> QED BY <1>1, <1>4

LEMMA AddStreamStep == ASSUME VideoInv, Video!AddStream PROVE VideoInv'
  <1> USE DEF VideoInv
  <1>1. /\ vcall.op = "idle" /\ vcall.togo = <<>> /\ vcall.bit = "none"
        /\ UNCHANGED <<vcfg, v_render, header_parsed, use_fb, vq, fq, fb, vdec, vren, vpaused, vbits, seek, stale>>
    BY DEF Video!AddStream, Video!ApiLock, Video!NoCall, Video!streams, Video!vhist
  <1> DEFINE there == vcfg.decode = "thread" /\ vdec.pc # "none"
  <1>2. vcall' = [op |-> "add", togo |-> IF there THEN Only("vdec", "CLOSE") ELSE <<>>,
                  bit |-> IF there THEN "closed" ELSE "none"]
    BY ToThread DEF Video!AddStream, Video!Call, Video!VdecThread, Video!InThread, PictureMsgs
  <1>3. vbits = {} /\ vdec.pc \in {"none", "loop", "read", "decode", "process", "reached", "release", "unlock"}
    BY <1>1 DEF VideoCalling, VideoTypes, DecoderStates
  <1>4. /\ Only("vdec", "CLOSE") \in Seq(Letters) /\ Len(Only("vdec", "CLOSE")) = 1
        /\ Only("vdec", "CLOSE")[1].to = "vdec"
    BY OneCall DEF PictureMsgs
  <1>5. /\ vcall' \in VideoCalls /\ vcall'.op = "add"
        /\ vcall'.togo = IF there THEN Only("vdec", "CLOSE") ELSE <<>>
        /\ vcall'.bit = IF there THEN "closed" ELSE "none"
    BY <1>2, <1>4, NoLetter DEF VideoCalls, PictureBits
  <1>6. VideoTypes' /\ VideoRenderer'
    BY <1>1, <1>5 DEF VideoTypes, VideoRenderer
  <1>7. VideoCalling'
    BY <1>1, <1>3, <1>4, <1>5, NoLetter DEF VideoCalling
  <1>8. ~Has(vdec.msgs, "CLOSE") /\ ~Has(vdec.msgs, "FLUSH") /\ ~Has(vren.msgs, "FLUSH")
    BY <1>1 DEF VideoMessages, Awaited
  <1>9. VideoMessages'
    BY <1>1, <1>8 DEF VideoMessages
  <1>10. VideoDecoder'
    <2>1. vcfg.decode # "thread" => vdec.pc = "none"
      BY DEF Video!AddStream, Video!ApiLock, Video!InThread
    <2> QED BY <1>1, <1>3, <1>5, <2>1 DEF VideoDecoder, Holding
  <1>11. /\ \A e : DecoderSince(e) => DecoderSince(e)'
         /\ \A e : RendererSince(e) => RendererSince(e)'
         /\ ~DecoderFlushed' /\ ~RendererFlushed'
    BY <1>1, <1>5 DEF DecoderSince, RendererSince, Holding, DecoderFlushed, RendererFlushed
  <1> QED BY <1>1, <1>6, <1>7, <1>9, <1>10, <1>11, CallKeeps

LEMMA OpenStreamStep == ASSUME VideoInv, Video!OpenStream \/ Video!NoFormat PROVE VideoInv'
  <1> USE DEF VideoInv
  <1>1. /\ vcall.op = "add" /\ vcall.togo = <<>> /\ vcall.bit = "none" /\ vcall' = Video!NoCall
        /\ UNCHANGED <<vcfg, vq, fq, fb, vpaused, vbits, seek, stale>>
    BY DEF Video!OpenStream, Video!NoFormat, Video!AddReady, Video!vhist
  <1>2. vbits = {} /\ vdec.pc = "none" /\ ~Holding /\ fb = Video!None
    BY <1>1 DEF VideoCalling, VideoDecoder, Holding
  <1>3. vcall' \in VideoCalls /\ vcall'.op = "idle" /\ vcall'.togo = <<>> /\ vcall'.bit = "none"
    BY <1>1, NoLetter DEF VideoCalls, Video!NoCall
  <1>4. ~Has(vdec.msgs, "CLOSE") /\ ~Has(vdec.msgs, "FLUSH") /\ ~Has(vren.msgs, "FLUSH")
    BY <1>1 DEF VideoMessages, Awaited
  <1>5. CASE Video!OpenStream
    <2> DEFINE makes == vcfg.decode # "raw" /\ vcfg.render = "thread" /\ vren.pc = "none"
    <2>1. /\ v_render' = [Video!Stream(TRUE) EXCEPT !.v_render_in_sync = @ /\ ~makes]
          /\ use_fb' = (makes \/ vcfg.decode = "raw") /\ header_parsed' = FALSE
          /\ vren' = IF makes THEN [vren EXCEPT !.pc = "loop"] ELSE vren
          /\ vdec' = IF vcfg.decode = "thread" THEN [vdec EXCEPT !.pc = "loop"] ELSE vdec
      BY <1>5 DEF Video!OpenStream, Video!InThread
    <2>2. v_render' \in VideoFields
      BY <2>1 DEF Video!Stream, VideoTypes, VideoFields
    <2>3. /\ vren' \in RendererStates /\ vren'.msgs = vren.msgs /\ vren'.blk = vren.blk
          /\ vren'.pc = IF makes THEN "loop" ELSE vren.pc
      BY <2>1 DEF VideoTypes, RendererStates
    <2>4. /\ vdec' \in DecoderStates /\ vdec'.msgs = vdec.msgs /\ vdec'.blk = vdec.blk
          /\ vdec'.pc = IF vcfg.decode = "thread" THEN "loop" ELSE "none"
      BY <1>2, <2>1 DEF VideoTypes, DecoderStates
    <2>5. VideoTypes'
      BY <1>1, <1>3, <2>1, <2>2, <2>3, <2>4 DEF VideoTypes
    <2>6. VideoRenderer'
      BY <1>1, <2>3 DEF VideoRenderer
    <2>7. VideoCalling'
      BY <1>1, <1>2, <1>3, NoLetter DEF VideoCalling
    <2>8. VideoMessages'
      BY <1>4, <2>3, <2>4 DEF VideoMessages
    <2>9. VideoDecoder'
      <3>0. use_fb' /\ vcfg.decode # "raw" => makes
        BY <2>1
      <3>1. use_fb' /\ vcfg.decode # "raw" => vren'.pc # "none"
        BY <2>3, <3>0
      <3> QED BY <1>1, <1>2, <1>3, <2>4, <3>1 DEF VideoDecoder, Holding
    <2>10. /\ \A e : DecoderSince(e) => DecoderSince(e)'
           /\ \A e : RendererSince(e) => RendererSince(e)'
           /\ ~DecoderFlushed' /\ ~RendererFlushed'
      BY <1>1, <1>3, <2>3, <2>4 DEF DecoderSince, RendererSince, Holding, DecoderFlushed, RendererFlushed
    <2> QED BY <1>1, <2>5, <2>6, <2>7, <2>8, <2>9, <2>10, CallKeeps
  <1>6. CASE Video!NoFormat
    <2>1. /\ v_render' = Video!Stream(FALSE) /\ use_fb' = TRUE /\ UNCHANGED <<header_parsed, vdec, vren>>
      BY <1>6 DEF Video!NoFormat
    <2>2. v_render' \in VideoFields /\ v_render'.vdec = FALSE
      BY <2>1 DEF Video!Stream, VideoTypes, VideoFields
    <2>3. VideoTypes' /\ VideoRenderer'
      BY <1>1, <1>3, <2>1, <2>2 DEF VideoTypes, VideoRenderer
    <2>4. VideoCalling'
      BY <1>1, <1>2, <1>3, NoLetter DEF VideoCalling
    <2>5. VideoMessages'
      BY <1>4, <2>1 DEF VideoMessages
    <2>6. VideoDecoder'
      BY <1>1, <1>2, <1>3, <2>1, <2>2 DEF VideoDecoder, Holding
    <2>7. /\ \A e : DecoderSince(e) => DecoderSince(e)'
          /\ \A e : RendererSince(e) => RendererSince(e)'
          /\ ~DecoderFlushed' /\ ~RendererFlushed'
      BY <1>1, <1>3, <2>1 DEF DecoderSince, RendererSince, Holding, DecoderFlushed, RendererFlushed
    <2> QED BY <1>1, <2>3, <2>4, <2>5, <2>6, <2>7, CallKeeps
  <1> QED BY <1>5, <1>6

LEMMA PauseStep == ASSUME VideoInv, Video!Pause PROVE VideoInv'
  <1> USE DEF VideoInv
  <1>1. /\ vcall.op = "idle" /\ vcall.togo = <<>> /\ vcall.bit = "none"
        /\ vcfg.decode # "thread" => vdec.pc = "none"
        /\ UNCHANGED <<vcfg, v_render, header_parsed, use_fb, vq, fq, fb, vdec, vren, vpaused, vbits, seek, stale>>
    BY DEF Video!Pause, Video!ApiLock, Video!NoCall, Video!streams, Video!vhist, Video!InThread
  <1>2. PICK s : /\ vcall' = [op |-> "pause", togo |-> s, bit |-> "none"] /\ s \in Seq(Letters)
                 /\ \A i \in 1 .. Len(s) : /\ s[i].msg \in {"PAUSE", "RESUME"}
                                           /\ IF s[i].to = "vdec" THEN vcfg.decode = "thread" /\ vdec.pc # "none"
                                                                  ELSE vren.pc # "none"
    <2>1. \/ vcall' = [op |-> "pause", togo |-> Video!To("vdec", "PAUSE") \o Video!To("vren", "PAUSE"), bit |-> "none"]
          \/ vcall' = [op |-> "pause", togo |-> Video!To("vren", "RESUME") \o Video!To("vdec", "RESUME"), bit |-> "none"]
      BY DEF Video!Pause, Video!Call
    <2> DEFINE p == Video!To("vdec", "PAUSE") \o Video!To("vren", "PAUSE")
               r == Video!To("vren", "RESUME") \o Video!To("vdec", "RESUME")
               there(l) == IF l.to = "vdec" THEN vcfg.decode = "thread" /\ vdec.pc # "none" ELSE vren.pc # "none"
    <2>2. "PAUSE" \in PictureMsgs /\ "RESUME" \in PictureMsgs
      BY DEF PictureMsgs
    <2>3. p \in Seq(Letters) /\ \A i \in 1 .. Len(p) : p[i].msg = "PAUSE" /\ there(p[i])
      BY <2>2, ToThread, BothThreads
    <2>4. r \in Seq(Letters) /\ \A i \in 1 .. Len(r) : r[i].msg = "RESUME" /\ there(r[i])
      BY <2>2, ToThread, BothThreads
    <2> HIDE DEF p, r
    <2>5. vcall' = [op |-> "pause", togo |-> p, bit |-> "none"] \/ vcall' = [op |-> "pause", togo |-> r, bit |-> "none"]
      BY <2>1 DEF p, r
    <2> QED BY <2>3, <2>4, <2>5
  <1>3. vcall' \in VideoCalls /\ vcall'.op = "pause" /\ vcall'.togo = s /\ vcall'.bit = "none"
    BY <1>2 DEF VideoCalls
  <1>4. vbits = {}
    BY <1>1 DEF VideoCalling
  <1>5. VideoTypes' /\ VideoRenderer'
    BY <1>1, <1>3 DEF VideoTypes, VideoRenderer
  <1>6. VideoCalling'
    BY <1>1, <1>2, <1>3, <1>4 DEF VideoCalling
  <1>7. ~Has(vdec.msgs, "CLOSE") /\ ~Has(vdec.msgs, "FLUSH") /\ ~Has(vren.msgs, "FLUSH")
    BY <1>1 DEF VideoMessages, Awaited
  <1>8. VideoMessages'
    BY <1>1, <1>7 DEF VideoMessages
  <1>9. VideoDecoder'
    BY <1>1, <1>3 DEF VideoDecoder, Holding
  <1>10. /\ \A e : DecoderSince(e) => DecoderSince(e)'
         /\ \A e : RendererSince(e) => RendererSince(e)'
         /\ ~DecoderFlushed' /\ ~RendererFlushed'
    BY <1>1, <1>3 DEF DecoderSince, RendererSince, Holding, DecoderFlushed, RendererFlushed
  <1> QED BY <1>1, <1>5, <1>6, <1>8, <1>9, <1>10, CallKeeps

\* A flush begins by emptying the renderer's queue; a decoder without a thread has
\* nothing to be emptied.
LEMMA FlushDecoderStep == ASSUME VideoInv, Video!FlushDecoder PROVE VideoInv'
  <1> USE DEF VideoInv
  <1> DEFINE there == vcfg.decode = "thread" /\ vdec.pc # "none"
  <1>1. /\ vcall.op = "idle" /\ vcall.togo = <<>> /\ vcall.bit = "none"
        /\ vcfg.decode # "thread" => vdec.pc = "none"
        /\ UNCHANGED <<vcfg, header_parsed, use_fb, vq, fb, vdec, vren, vpaused, vbits, seek, stale>>
    BY DEF Video!FlushDecoder, Video!ApiLock, Video!NoCall, Video!vhist, Video!InThread
  <1>2. /\ vcall' = [op |-> "flush", togo |-> IF there THEN Only("vdec", "FLUSH") ELSE <<>>,
                     bit |-> IF there THEN "vdec" ELSE "none"]
        /\ fq' = IF there THEN <<>> ELSE fq
    BY ToThread DEF Video!FlushDecoder, Video!Call, Video!VdecThread, Video!InThread, PictureMsgs
  <1>3. vbits = {}
    BY <1>1 DEF VideoCalling
  <1>4. /\ Only("vdec", "FLUSH") \in Seq(Letters) /\ Len(Only("vdec", "FLUSH")) = 1
        /\ Only("vdec", "FLUSH")[1].to = "vdec"
    BY OneCall DEF PictureMsgs
  <1>5. /\ vcall' \in VideoCalls /\ vcall'.op = "flush"
        /\ vcall'.togo = IF there THEN Only("vdec", "FLUSH") ELSE <<>>
        /\ vcall'.bit = IF there THEN "vdec" ELSE "none"
    BY <1>2, <1>4, NoLetter DEF VideoCalls, PictureBits
  <1>6. v_render' \in VideoFields /\ v_render'.vdec = v_render.vdec
    BY DEF Video!FlushDecoder, Video!VdecThread, Video!InThread, VideoTypes, VideoFields
  <1>7. fq' \in Seq(Pictures) /\ \A e : AllSince(fq, e) => AllSince(fq', e)
    BY <1>2, NoPicture DEF VideoTypes
  <1>8. VideoTypes'
    BY <1>1, <1>5, <1>6, <1>7 DEF VideoTypes
  <1>9. VideoRenderer'
    BY <1>1, <1>2 DEF VideoRenderer
  <1>10. VideoCalling'
    BY <1>1, <1>3, <1>4, <1>5, NoLetter DEF VideoCalling
  <1>11. ~Has(vdec.msgs, "CLOSE") /\ ~Has(vdec.msgs, "FLUSH") /\ ~Has(vren.msgs, "FLUSH")
    BY <1>1 DEF VideoMessages, Awaited
  <1>12. VideoMessages'
    BY <1>1, <1>11 DEF VideoMessages
  <1>13. VideoDecoder'
    BY <1>1, <1>5, <1>6 DEF VideoDecoder, Holding
  <1>14. /\ DecoderSince(seek)' /\ RendererSince(seek)' /\ ~RendererFlushed'
    BY <1>1, <1>5, <1>7 DEF VideoEras, DecoderSince, RendererSince, Holding, RendererFlushed
  <1>15. DecoderFlushed' => DecoderSince(seek + 1)'
    <2>1. DecoderFlushed' => ~there
      BY <1>1, <1>3, <1>5 DEF DecoderFlushed
    <2>2. ~there => vq = <<>> /\ vdec.pc = "none"
      BY <1>1 DEF VideoDecoder
    <2>3. ~there => vq = <<>> /\ ~Holding /\ fb = Video!None
      BY <2>2 DEF VideoDecoder, Holding
    <2> QED BY <1>1, <2>1, <2>3, NoPicture DEF DecoderSince, Holding
  <1> QED BY <1>1, <1>8, <1>9, <1>10, <1>12, <1>13, <1>14, <1>15 DEF VideoEras

LEMMA FlushRendererStep == ASSUME VideoInv, Video!FlushRenderer PROVE VideoInv'
  <1> USE DEF VideoInv
  <1> DEFINE there == vren.pc # "none"
  <1>1. /\ vcall.op = "flush" /\ vcall.togo = <<>> /\ vcall.bit = "none"
        /\ UNCHANGED <<vcfg, header_parsed, use_fb, vq, fq, fb, vdec, vren, vpaused, vbits, seek, stale>>
    BY DEF Video!FlushRenderer, Video!vhist
  <1>2. vcall' = [op |-> "flushed", togo |-> IF there THEN Only("vren", "FLUSH") ELSE <<>>,
                  bit |-> IF there THEN "vren" ELSE "none"]
    BY ToThread DEF Video!FlushRenderer, PictureMsgs
  <1>3. vbits = {}
    BY <1>1 DEF VideoCalling
  <1>4. /\ Only("vren", "FLUSH") \in Seq(Letters) /\ Len(Only("vren", "FLUSH")) = 1
        /\ Only("vren", "FLUSH")[1].to = "vren"
    BY OneCall DEF PictureMsgs
  <1>5. /\ vcall' \in VideoCalls /\ vcall'.op = "flushed"
        /\ vcall'.togo = IF there THEN Only("vren", "FLUSH") ELSE <<>>
        /\ vcall'.bit = IF there THEN "vren" ELSE "none"
    BY <1>2, <1>4, NoLetter DEF VideoCalls, PictureBits
  <1>6. v_render' \in VideoFields /\ v_render'.vdec = v_render.vdec
    BY DEF Video!FlushRenderer, VideoTypes, VideoFields
  <1>7. VideoTypes' /\ VideoRenderer'
    BY <1>1, <1>5, <1>6 DEF VideoTypes, VideoRenderer
  <1>8. VideoCalling'
    BY <1>1, <1>3, <1>4, <1>5, NoLetter DEF VideoCalling
  <1>9. ~Has(vdec.msgs, "CLOSE") /\ ~Has(vdec.msgs, "FLUSH") /\ ~Has(vren.msgs, "FLUSH")
    BY <1>1 DEF VideoMessages, Awaited
  <1>10. VideoMessages'
    BY <1>1, <1>9 DEF VideoMessages
  <1>11. VideoDecoder'
    BY <1>1, <1>5, <1>6 DEF VideoDecoder, Holding
  <1>12. DecoderFlushed
    BY <1>1 DEF DecoderFlushed
  <1>13. DecoderSince(seek)' /\ RendererSince(seek)' /\ DecoderSince(seek + 1)'
    BY <1>1, <1>12 DEF VideoEras, DecoderSince, RendererSince, Holding
  <1>14. RendererFlushed' => RendererSince(seek + 1)'
    <2>1. RendererFlushed' => ~there
      BY <1>1, <1>3, <1>5 DEF RendererFlushed
    <2>2. ~there => fq = <<>> /\ vren.pc # "show"
      BY DEF VideoRenderer
    <2> QED BY <1>1, <2>1, <2>2, NoPicture DEF RendererSince
  <1> QED BY <1>1, <1>7, <1>8, <1>10, <1>11, <1>13, <1>14 DEF VideoEras

LEMMA SendMsgStep == ASSUME VideoInv, Video!SendMsg PROVE VideoInv'
  <1> USE DEF VideoInv
  <1>1. /\ vcall.togo # <<>> /\ vcall' = [vcall EXCEPT !.togo = Tail(@)]
        /\ UNCHANGED <<vcfg, v_render, header_parsed, use_fb, fb, vpaused, vbits, seek, stale>>
    BY DEF Video!SendMsg, Video!vhist, Video!streams
  <1>2. PICK m \in Letters : m = Head(vcall.togo) /\ m = vcall.togo[1]
    BY <1>1, CallTaken DEF VideoTypes, VideoCalls
  <1>3. /\ vcall.togo \in Seq(Letters) /\ Tail(vcall.togo) \in Seq(Letters)
        /\ Len(vcall.togo) \in Nat \ {0} /\ Len(Tail(vcall.togo)) = Len(vcall.togo) - 1
        /\ \A i \in 1 .. Len(vcall.togo) - 1 : Tail(vcall.togo)[i] = vcall.togo[i + 1]
    BY <1>1, CallTaken DEF VideoTypes, VideoCalls
  <1>4. \A i \in 1 .. Len(Tail(vcall.togo)) : i + 1 \in 1 .. Len(vcall.togo) /\ Tail(vcall.togo)[i] = vcall.togo[i + 1]
    BY <1>3
  <1>5. 1 \in 1 .. Len(vcall.togo)
    BY <1>3
  <1>6. /\ vcall' \in VideoCalls /\ vcall'.op = vcall.op /\ vcall'.togo = Tail(vcall.togo)
        /\ vcall'.bit = vcall.bit
    BY <1>1, <1>3 DEF VideoTypes, VideoCalls
  <1>7. /\ vbits = {} /\ vcall.op # "idle"
        /\ IF m.to = "vdec" THEN vcfg.decode = "thread" /\ vdec.pc # "none" ELSE vren.pc # "none"
    BY <1>1, <1>2, <1>5 DEF VideoCalling
  <1>8. /\ m.to \in {"vdec", "vren"} /\ m.msg \in PictureMsgs
        /\ vdec.msgs \in Seq(PictureMsgs) /\ vren.msgs \in Seq(PictureMsgs)
    BY DEF Letters, VideoTypes, DecoderStates, RendererStates
  <1>9. /\ ~Has(vdec.msgs, "CLOSE") /\ ~Has(vdec.msgs, "FLUSH")
        /\ ~Has(vren.msgs, "CLOSE") /\ ~Has(vren.msgs, "FLUSH")
    BY <1>1 DEF VideoMessages, Awaited
  \* A message that is answered is the only one of its call.
  <1>10. /\ m.msg = "CLOSE" => Tail(vcall.togo) = <<>> /\ vcall.bit = "closed" /\ m.to = "vdec"
         /\ m.msg = "FLUSH" => Tail(vcall.togo) = <<>> /\ vcall.bit = m.to
         /\ vcall.op # "pause" => Tail(vcall.togo) = <<>>
    <2>1. CASE vcall.op = "pause"
      <3>1. m.msg \in {"PAUSE", "RESUME"}
        BY <1>2, <1>5, <2>1 DEF VideoCalling
      <3> QED BY <2>1, <3>1
    <2>2. ASSUME NEW t \in {"vdec", "vren"}, NEW x \in {"CLOSE", "FLUSH"}, vcall.togo = Only(t, x)
          PROVE  m.to = t /\ m.msg = x /\ Tail(vcall.togo) = <<>>
      <3>1. Head(Only(t, x)) = [to |-> t, msg |-> x] /\ Tail(Only(t, x)) = <<>>
        BY OneCall DEF PictureMsgs
      <3>2. m = [to |-> t, msg |-> x]
        BY <1>2, <2>2, <3>1
      <3> QED BY <2>2, <3>1, <3>2
    <2>3. CASE vcall.op = "add"
      <3>1. m.to = "vdec" /\ m.msg = "CLOSE" /\ Tail(vcall.togo) = <<>> /\ vcall.bit = "closed"
        BY <1>1, <2>2, <2>3 DEF VideoCalling
      <3> QED BY <3>1
    <2>4. CASE vcall.op = "flush"
      <3>1. m.to = "vdec" /\ m.msg = "FLUSH" /\ Tail(vcall.togo) = <<>> /\ vcall.bit = "vdec"
        BY <1>1, <2>2, <2>4 DEF VideoCalling
      <3> QED BY <3>1
    <2>5. CASE vcall.op = "flushed"
      <3>1. m.to = "vren" /\ m.msg = "FLUSH" /\ Tail(vcall.togo) = <<>> /\ vcall.bit = "vren"
        BY <1>1, <2>2, <2>5 DEF VideoCalling
      <3> QED BY <3>1
    <2> QED BY <1>7, <2>1, <2>3, <2>4, <2>5 DEF VideoTypes, VideoCalls
  <1>11. CASE m.to = "vdec"
    <2>1. /\ vdec' = [vdec EXCEPT !.msgs = Append(@, m.msg)]
          /\ vq' = IF vq = <<>> THEN <<Video!Zero>> ELSE vq
          /\ UNCHANGED <<vren, fq>>
      BY <1>2, <1>11 DEF Video!SendMsg
    <2>2. /\ Append(vdec.msgs, m.msg) \in Seq(PictureMsgs) /\ LastAnswered(Append(vdec.msgs, m.msg))
          /\ \A x : Has(Append(vdec.msgs, m.msg), x) => x = m.msg \/ Has(vdec.msgs, x)
      BY <1>8, <1>9, LetterPut
    <2>3. /\ vdec' \in DecoderStates /\ vdec'.msgs = Append(vdec.msgs, m.msg)
          /\ vdec'.pc = vdec.pc /\ vdec'.blk = vdec.blk
      BY <2>1, <2>2 DEF VideoTypes, DecoderStates
    <2>4. vq' \in Seq(Pictures) /\ vq' # <<>> /\ \A e : AllSince(vq, e) => AllSince(vq', e)
      BY <2>1, NoPicture DEF VideoTypes
    <2>5. VideoTypes' /\ VideoRenderer'
      BY <1>1, <1>6, <2>1, <2>3, <2>4 DEF VideoTypes, VideoRenderer
    <2>6. VideoCalling'
      <3>1. vcall.op = "pause" => \A i \in 1 .. Len(Tail(vcall.togo)) : Tail(vcall.togo)[i].msg \in {"PAUSE", "RESUME"}
        BY <1>4 DEF VideoCalling
      <3>2. \A i \in 1 .. Len(Tail(vcall.togo)) :
              IF Tail(vcall.togo)[i].to = "vdec" THEN vcfg.decode = "thread" /\ vdec.pc # "none" ELSE vren.pc # "none"
        BY <1>4 DEF VideoCalling
      <3> QED BY <1>1, <1>6, <1>7, <1>10, <2>1, <2>3, <3>1, <3>2 DEF VideoCalling
    <2>7. VideoMessages'
      BY <1>1, <1>6, <1>7, <1>9, <1>10, <1>11, <2>1, <2>2, <2>3 DEF VideoMessages, Awaited
    <2>8. VideoDecoder'
      BY <1>1, <1>6, <1>7, <1>11, <2>1, <2>3, <2>4 DEF VideoDecoder, Holding
    <2>9. /\ \A e : DecoderSince(e) => DecoderSince(e)'
          /\ \A e : RendererSince(e) => RendererSince(e)'
          /\ DecoderFlushed' => DecoderFlushed
          /\ RendererFlushed' => RendererFlushed
      BY <1>1, <1>6, <2>1, <2>3, <2>4 DEF DecoderSince, RendererSince, Holding, DecoderFlushed, RendererFlushed
    <2> QED BY <1>1, <2>5, <2>6, <2>7, <2>8, <2>9, CallKeeps
  <1>12. CASE m.to = "vren"
    <2>1. /\ vren' = [vren EXCEPT !.msgs = Append(@, m.msg)]
          /\ fq' = IF fq = <<>> THEN <<Video!Zero>> ELSE fq
          /\ UNCHANGED <<vdec, vq>>
      BY <1>2, <1>12 DEF Video!SendMsg
    <2>2. /\ Append(vren.msgs, m.msg) \in Seq(PictureMsgs) /\ LastAnswered(Append(vren.msgs, m.msg))
          /\ \A x : Has(Append(vren.msgs, m.msg), x) => x = m.msg \/ Has(vren.msgs, x)
      BY <1>8, <1>9, LetterPut
    <2>3. /\ vren' \in RendererStates /\ vren'.msgs = Append(vren.msgs, m.msg)
          /\ vren'.pc = vren.pc /\ vren'.blk = vren.blk
      BY <2>1, <2>2 DEF VideoTypes, RendererStates
    <2>4. fq' \in Seq(Pictures) /\ \A e : AllSince(fq, e) => AllSince(fq', e)
      BY <2>1, NoPicture DEF VideoTypes
    <2>5. VideoTypes'
      BY <1>1, <1>6, <2>1, <2>3, <2>4 DEF VideoTypes
    <2>6. VideoRenderer'
      BY <1>7, <1>12, <2>3 DEF VideoRenderer
    <2>7. VideoCalling'
      <3>1. vcall.op = "pause" => \A i \in 1 .. Len(Tail(vcall.togo)) : Tail(vcall.togo)[i].msg \in {"PAUSE", "RESUME"}
        BY <1>4 DEF VideoCalling
      <3>2. \A i \in 1 .. Len(Tail(vcall.togo)) :
              IF Tail(vcall.togo)[i].to = "vdec" THEN vcfg.decode = "thread" /\ vdec.pc # "none" ELSE vren.pc # "none"
        BY <1>4 DEF VideoCalling
      <3> QED BY <1>1, <1>6, <1>7, <1>10, <2>1, <2>3, <3>1, <3>2 DEF VideoCalling
    <2>8. VideoMessages'
      BY <1>1, <1>6, <1>7, <1>9, <1>10, <1>12, <2>1, <2>2, <2>3 DEF VideoMessages, Awaited
    <2>9. VideoDecoder'
      BY <1>1, <1>6, <1>7, <2>1, <2>3 DEF VideoDecoder, Holding
    <2>10. /\ \A e : DecoderSince(e) => DecoderSince(e)'
           /\ \A e : RendererSince(e) => RendererSince(e)'
           /\ DecoderFlushed' => DecoderFlushed
           /\ RendererFlushed' => RendererFlushed
      BY <1>1, <1>6, <2>1, <2>3, <2>4 DEF DecoderSince, RendererSince, Holding, DecoderFlushed, RendererFlushed
    <2> QED BY <1>1, <2>5, <2>6, <2>7, <2>8, <2>9, <2>10, CallKeeps
  <1> QED BY <1>8, <1>11, <1>12

LEMMA WaitBitsStep == ASSUME VideoInv, Video!WaitBits PROVE VideoInv'
  <1> USE DEF VideoInv
  <1>1. /\ vcall.togo = <<>> /\ vcall.bit \in vbits /\ vbits' = vbits \ {vcall.bit}
        /\ vcall' = [vcall EXCEPT !.bit = "none"]
        /\ UNCHANGED <<vcfg, v_render, header_parsed, use_fb, vq, fq, fb, vdec, vren, vpaused, seek, stale>>
    BY DEF Video!WaitBits, Video!vhist, Video!streams
  <1>2. /\ vcall' \in VideoCalls /\ vcall'.op = vcall.op /\ vcall'.togo = <<>> /\ vcall'.bit = "none"
        /\ vbits' = {}
    BY <1>1 DEF VideoTypes, VideoCalls, VideoCalling
  <1>3. ~Has(vdec.msgs, "CLOSE") /\ ~Has(vdec.msgs, "FLUSH") /\ ~Has(vren.msgs, "FLUSH")
    BY <1>1 DEF VideoMessages, Awaited
  <1>4. VideoTypes' /\ VideoRenderer'
    BY <1>1, <1>2 DEF VideoTypes, VideoRenderer
  <1>5. VideoCalling'
    BY <1>1, <1>2, NoLetter DEF VideoCalling
  <1>6. VideoMessages'
    BY <1>1, <1>3 DEF VideoMessages
  <1>7. VideoDecoder'
    BY <1>1, <1>2 DEF VideoDecoder, Holding
  <1>8. /\ \A e : DecoderSince(e) => DecoderSince(e)'
        /\ \A e : RendererSince(e) => RendererSince(e)'
        /\ DecoderFlushed' => DecoderFlushed
        /\ RendererFlushed' => RendererFlushed
    BY <1>1, <1>2 DEF DecoderSince, RendererSince, Holding, DecoderFlushed, RendererFlushed
  <1> QED BY <1>1, <1>4, <1>5, <1>6, <1>7, <1>8, CallKeeps

LEMMA ReturnsStep == ASSUME VideoInv, Video!Returns PROVE VideoInv'
  <1> USE DEF VideoInv
  <1>1. /\ vcall.op \in {"pause", "flushed"} /\ vcall.togo = <<>> /\ vcall.bit = "none"
        /\ seek' = (IF vcall.op = "flushed" THEN seek + 1 ELSE seek) /\ vcall' = Video!NoCall
        /\ UNCHANGED <<vcfg, header_parsed, use_fb, vq, fq, fb, vdec, vren, vpaused, vbits, stale>>
    BY DEF Video!Returns
  <1>2. vcall' \in VideoCalls /\ vcall'.op = "idle" /\ vcall'.togo = <<>> /\ vcall'.bit = "none"
    BY <1>1, NoLetter DEF VideoCalls, Video!NoCall
  <1>3. vbits = {}
    BY <1>1 DEF VideoCalling
  <1>4. v_render' \in VideoFields /\ v_render'.vdec = v_render.vdec
    BY DEF Video!Returns, VideoTypes, VideoFields
  <1>5. seek' \in Nat
    BY <1>1 DEF VideoTypes
  <1>6. VideoTypes' /\ VideoRenderer'
    BY <1>1, <1>2, <1>4, <1>5 DEF VideoTypes, VideoRenderer
  <1>7. VideoCalling'
    BY <1>1, <1>2, <1>3, NoLetter DEF VideoCalling
  <1>8. ~Has(vdec.msgs, "CLOSE") /\ ~Has(vdec.msgs, "FLUSH") /\ ~Has(vren.msgs, "FLUSH")
    BY <1>1 DEF VideoMessages, Awaited
  <1>9. VideoMessages'
    BY <1>1, <1>8 DEF VideoMessages
  <1>10. VideoDecoder'
    BY <1>1, <1>2, <1>4 DEF VideoDecoder, Holding
  <1>11. DecoderSince(seek') /\ RendererSince(seek')
    BY <1>1 DEF VideoEras, DecoderFlushed, RendererFlushed
  <1>12. DecoderSince(seek)' /\ RendererSince(seek)'
    BY <1>1, <1>11 DEF DecoderSince, RendererSince, Holding
  <1>13. ~DecoderFlushed' /\ ~RendererFlushed'
    BY <1>2 DEF DecoderFlushed, RendererFlushed
  <1> QED BY <1>6, <1>7, <1>9, <1>10, <1>12, <1>13 DEF VideoEras

LEMMA VideoNextInv == ASSUME VideoInv, [Video!Next]_(Video!vars) PROVE VideoInv'
  <1>1. CASE Video!vdec_body
    BY <1>1, VdecRecvStep, VdecTakeStep, FetchFbStep, DecodeStep, OpenDisplayStep, FrameReachedStep,
       ReleaseFbStep, VdecUnlockStep DEF Video!vdec_body
  <1>2. CASE Video!v_render_body
    BY <1>2, VrenRecvStep, ShowStep DEF Video!v_render_body
  <1>3. CASE Video!Api
    BY <1>3, AddStreamStep, OpenStreamStep, PauseStep, FlushDecoderStep, FlushRendererStep, SendMsgStep,
       WaitBitsStep, ReturnsStep DEF Video!Api
  <1>4. CASE \E k \in {"data", "eos"} : Video!PutToVdec(k) \/ Video!AddInSync(k)
    BY <1>4, PutToVdecStep, AddInSyncStep
  <1>5. CASE UNCHANGED Video!vars
    <2>1. UNCHANGED <<vcfg, v_render, header_parsed, use_fb, vq, fq, fb, vdec, vren, vpaused, vbits, vcall, seek, stale>>
      BY <1>5 DEF Video!vars, Video!streams, Video!vhist
    <2>2. VideoTypes' /\ VideoCalling' /\ VideoMessages' /\ VideoDecoder' /\ VideoRenderer'
      BY <2>1 DEF VideoInv, VideoTypes, VideoCalling, VideoMessages, VideoDecoder, VideoRenderer, Awaited, Holding
    <2>3. VideoEras'
      BY <2>1 DEF VideoInv, VideoEras, DecoderSince, RendererSince, DecoderFlushed, RendererFlushed, Holding
    <2> QED BY <2>2, <2>3 DEF VideoInv
  <1> QED BY <1>1, <1>2, <1>3, <1>4, <1>5 DEF Video!Next

\* Once av_render_flush has returned no picture of a block added before it is shown,
\* wherever the block was when the flush began.
THEOREM VideoNothingStale == Video!Spec => []NothingStale
  <1>1. VideoInv => NothingStale
    BY DEF VideoInv, VideoTypes, NothingStale, Video!NothingStale
  <1> QED BY VideoInitInv, VideoNextInv, <1>1, PTL DEF Video!Spec

-----------------------------------------------------------------------------
(* The run *)

\* In a behaviour of the run one part moves and the others keep still, so that each part
\* behaves as its own specification says.
LEMMA PartsOfTheRun ==
    MCSpec => /\ Media!Spec
              /\ WhipSig!Spec
              /\ Rtc!Spec
              /\ Video!Spec
              /\ Audio!Spec
              /\ Samples!Spec
              /\ Lcd!Spec
              /\ Dtls!Spec
  <1>1. MCInit => /\ Media!Init
                  /\ WhipSig!Init
                  /\ Rtc!Init
                  /\ Video!Init
                  /\ Audio!Init
                  /\ Samples!Init
                  /\ Lcd!Init
                  /\ Dtls!Init
    BY DEF MCInit
  <1>2. [MCNext]_mcvars => [Media!Next]_(Media!vars)
    BY DEF MCNext, mcvars, mediaVars, Media!vars
  <1>3. [MCNext]_mcvars => [WhipSig!Next]_(WhipSig!vars)
    BY DEF MCNext, mcvars, whipSigVars, WhipSig!vars
  <1>4. [MCNext]_mcvars => [Rtc!Next]_(Rtc!vars)
    BY DEF MCNext, mcvars, rtcVars, Rtc!vars
  <1>5. [MCNext]_mcvars => [Video!Next]_(Video!vars)
    BY DEF MCNext, mcvars, videoVars, Video!vars, Video!streams, Video!vcount, Video!vhist
  <1>6. [MCNext]_mcvars => [Audio!Next]_(Audio!vars)
    BY DEF MCNext, mcvars, audioVars, Audio!vars, Audio!source, Audio!history
  <1>7. [MCNext]_mcvars => [Samples!Next]_(Samples!vars)
    BY DEF MCNext, mcvars, samplesVars, Samples!vars
  <1>8. [MCNext]_mcvars => [Lcd!Next]_(Lcd!lcdvars)
    BY DEF MCNext, mcvars, lcdVars, Lcd!lcdvars, Lcd!lcd, Lcd!panel
  <1>9. [MCNext]_mcvars => [Dtls!Next]_(Dtls!vars)
    BY DEF MCNext, mcvars, dtlsVars, Dtls!vars, Dtls!users, Dtls!shared
  <1> QED BY <1>1, <1>2, <1>3, <1>4, <1>5, <1>6, <1>7, <1>8, <1>9, PTL DEF MCSpec,
             Media!Spec, WhipSig!Spec, Rtc!Spec, Video!Spec, Audio!Spec, Samples!Spec,
             Lcd!Spec, Dtls!Spec

\* The properties of all these parts hold together in what the run checks, for every
\* value of the bounds and whatever part moves.
THEOREM WebrtcRunCorrect ==
    ASSUME Pieces \in Nat, FramesPerBlock \in Nat, ResampleAssumption
    PROVE  MCSpec => [](/\ FramesReturned /\ AnswerOfOneResponse /\ AliveWhileUsed /\ NothingStale
                        /\ PlaysInOrder /\ LeavesConverted /\ LastDrawnKept
                        /\ KeysAsNegotiated /\ SharedAlive)
  <1> QED BY PartsOfTheRun, MediaReturnsFrames, WhipAnswerOfOneResponse, RtcAliveWhileUsed, VideoNothingStale,
             AudioPlaysInOrder, ResampleLeavesConverted, LcdKeepsLastDrawn, DtlsKeys, DtlsSharedAlive, PTL
=============================================================================
