\* A flush without a render thread aborts the program, hence no deadlock check.
SPECIFICATION MCSpec
CONSTANTS
    MsgSlots = 2
    DecSlots = 2
    RenSlots = 2
    Frames = {0, 1}
    Kinds = {"data", "eos"}
    MaxDying = 1
    Calls = {"add", "again", "flush", "reset"}
INVARIANTS
    FreedUnlessRemade
    FlushUnlessRemade
PROPERTIES
    EndingCallReturns
CHECK_DEADLOCK FALSE
