SPECIFICATION FairSpec
CONSTANTS
    AppOps = {"enable", "disable"}
    SigMsgs = {"ice", "connected"}
    PeerEvents = {"up", "down"}
    NoAutoReconnect = TRUE
PROPERTIES
    AppReturns
CHECK_DEADLOCK FALSE
