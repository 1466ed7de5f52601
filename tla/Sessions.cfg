\* Two connections that may or may not register the same identifier; a
\* connection that is gone does not come back, so that all may come to rest.
SPECIFICATION MCSpec
CONSTANTS
    Sessions = {s1, s2}
    Devices = {d1, d2}
    Mqtt = Mqtt
    Cleaner = Cleaner
    NoSession = NoSession
    NoDevice = NoDevice
    \* Bridge: one device and one page, two messages each, one drop
    Cameras = {"camera"}
    Webs = {"web1"}
    Default = "web1"
    MaxUps = 2
    MaxDowns = 2
    MaxDrops = 1
INVARIANTS
    GoneForgotten
    SoleOwnerReachable
    DeliveredToRegistrant
    OrderKept
CHECK_DEADLOCK FALSE
