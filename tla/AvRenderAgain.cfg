SPECIFICATION Spec
CONSTANTS
    MsgSlots = 2
    DecSlots = 2
    RenSlots = 1
    Frames = {0, 2}
    Kinds = {"data", "eos"}
    MaxDying = 2
    Calls = {"add", "again", "reset"}
INVARIANTS
    FreedUnused
CHECK_DEADLOCK FALSE
