SPECIFICATION FairSpec
CONSTANTS
    Devices = {d1}
    Pages = {web_client_001}
    Default = web_client_001
    MaxUps = 1
    MaxDowns = 1
    MaxDrops = 1
PROPERTIES
    PublisherReturns
CHECK_DEADLOCK FALSE
