SPECIFICATION FairSpec
CONSTANTS
    Offers = {o1, o2}
    None = None
    Timers = {t1, t2}
    MaxPending = 1
    Commands = {"join", "ring", "answer", "reject", "close", "leave"}
    PageTypes = {"offer", "candidate", "answer", "bye", "RING", "ACCEPT_CALL", "DENY_CALL"}
    MaxInputs = 4
PROPERTIES
    WithdrawnNotCopied
    NewestCopied
    RingEnds
CHECK_DEADLOCK FALSE
