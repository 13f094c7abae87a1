\* Two slaves, hence possibly two scans: what the first one leaves behind.
SPECIFICATION BacnetFairSpec
CONSTANTS
    NumIDs = 1
    NoTx = NoTx
    Reads = {}
    Writes = {}
    Handlers = {h1}
    Devices = {1, 2}
    Low <- Unlimited
    High <- Unlimited
    MaxScans = 3
    DeviceInfos <- MissingSlave
    Infos = {"s1", "s2"}
CHECK_DEADLOCK FALSE
PROPERTIES
    StartCompletes
