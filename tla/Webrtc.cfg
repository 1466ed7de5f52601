\* The peer connection is as main/webrtc_mqtt.c configures it (no_auto_reconnect).  A
\* disable that meets a DISCONNECTED may hang (EspWebrtcStop.cfg), hence no deadlock
\* check.
SPECIFICATION MCFairSpec
CONSTANTS
    AppOps = {"enable", "disable"}
    SigMsgs = {"ice", "connected", "bye", "closed"}
    PeerEvents = {"up", "down", "failed"}
    NoAutoReconnect = TRUE
    \* Whip: a redirect, bodies of one or two pieces
    Redirects = 1
    Pieces = 2
    MaxResponses = 2
    \* AppRtc: two starts, three messages of the room
    Messages = {"offer", "candidate", "bye"}
    MaxMessages = 3
    MaxStarts = 2
    \* VideoPlay: two blocks and two calls
    VdecSlots = 2
    VrenSlots = 1
    MaxFeeds = 2
    MaxVideoCalls = 2
    \* AudioPlay: three blocks of up to two frames
    MaxBlocks = 3
    FramesPerBlock = 2
    ArenSlots = 3
    \* Resample: every pair of formats, four frames
    Channels = {1, 2}
    Rates = {2, 3}
    Bytes = {1, 2}
    FrameSamples = {0, 3, 4}
    MaxWrites = 4
    \* LcdRender: four pictures; DtlsSrtp: three certificates and handshakes
    MaxOpens = 4
    MaxCerts = 3
    MaxRounds = 3
INVARIANTS
    ByeAlone
    FramesReturned
    AnswerOfOneResponse
    AliveWhileUsed
    NothingStale
    PlaysInOrder
    LeavesConverted
    LastDrawnKept
    KeysAsNegotiated
    SharedAlive
PROPERTIES
    ByeReturnsAgain
CHECK_DEADLOCK FALSE
