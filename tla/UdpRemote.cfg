\* Three remotes over two connections.
SPECIFICATION Spec
CONSTANTS
    Remotes = {a, b, c}
    MAX_CONN = 2
    MaxCalls = 5
    MaxPackets = 0
INVARIANTS
    SentToItsRemote
CHECK_DEADLOCK FALSE
