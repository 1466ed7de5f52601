SPECIFICATION MCFairSpec
CONSTANTS
    Tasks = {t1, t2}
    None = None
    Remotes = {a, b}
    Pollers = {p}
    \* AtUart: commands and URCs
    MaxCommands = 2
    MaxUrcs = 1
    \* AtNetwork: the tries for the PIN and for the address (10 each in the code), reports
    PinTries = 2
    IpTries = 2
    MaxEvents = 4
    \* Ml307Tcp, UdpSocket and Ec801eSocket: calls, chunks, sends, losses and packets;
    \* one connection for two remotes, so that it changes hands
    MaxCalls = 3
    MaxChunks = 2
    MaxSends = 2
    MaxLosses = 1
    MAX_CONN = 1
    MaxPackets = 2
    \* Ml307Mqtt, Ec801eMqtt and EspMqtt: attempts, reports, messages and events
    MqttCalls = 2
    MaxPolls = 1
    MqttMessages = 1
    MaxTries = 3
    MaxReports = 2
    MaxClients = 3
    ClientEvents = 5
    \* Ml307Http: lines of a body, and how many of them may be lost
    BodyLines = 3
    LinesLost = 2
    \* EspSocket: connections of one object
    MaxConnects = 3
    \* HttpClient: the bytes kept for the reader (8 KB in the code), requests, bytes of a body
    MAX_BODY_CHUNKS_SIZE = 2
    MaxRequests = 2
    BodyLength = 2
    \* WebSocket: messages; control frames and empty fragments
    MaxMessages = 2
    MaxControls = 2
    \* Ota: packets of the image, starts
    ImageSize = 3
    MaxStarts = 3
INVARIANTS
    ConfirmedOnce
    HandedInOrder
    BodyWithoutGap
    AckedOnce
    GroupOutlivesTask
    BodyInOrder
    MessagesWhole
    BootsWhole
PROPERTIES
    OkIsOwn
    CommandReturns
    ReadyIsFresh
    ConnectIsFresh
CHECK_DEADLOCK FALSE
