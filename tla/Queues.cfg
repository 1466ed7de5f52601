\* A block that fills the whole buffer makes consume_all abort the program, and
\* after msg_q_destroy nobody may use the queue: hence no deadlock check.
SPECIFICATION MCSpec
CONSTANTS
    Size = 4
    HeadSize = 1
    Requests = {1, 2, 3}
    Payload = {x, y}
    Writers = {w1, w2}
    Second = w2
    Plain = x
    Readers = {r1}
    Peekers = {r1}
    Flushers = {f1}
    Closers = {c1}
    NoThread = NoThread
    NoTag = NoTag
    MaxUser = 2
    Number = 2
    Messages = {a, b}
    Senders = {s1, s2}
    Receivers = {q1}
    Pollers = {q1}
    Destroyers = {d1}
    NoMsg = NoMsg
INVARIANTS
    RingLayout
    ReservationHolds
    AvailableIsHonest
    MsgQueueNoWaiterFreed
PROPERTIES
    BothImplementFifo
    RingWriterServed
    MsgQueueDrains
CHECK_DEADLOCK FALSE
