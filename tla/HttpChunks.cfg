\* An answer in chunks, with room for one byte more than its body.
SPECIFICATION Spec
CONSTANTS
    MAX_BODY_CHUNKS_SIZE = 3
    MaxRequests = 2
    BodyLength = 2
INVARIANTS
    CompleteMeansWhole
CHECK_DEADLOCK FALSE
