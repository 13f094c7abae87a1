\* A slave that may be found by its scan, one whose device is never found, an
\* unknown one, and one that is in the cache or scans again; then a call. One
\* handler may be left in a callback while the other one handles replies.
SPECIFICATION BacnetFairSpec
CONSTANTS
    NumIDs = 1
    NoTx = NoTx
    Reads = {r1}
    Writes = {}
    Handlers = {h1, h2}
    Devices = {1}
    Low <- Unlimited
    High <- Unlimited
    MaxScans = 4
    DeviceInfos <- FourSlaves
    Infos = {"s0", "s1", "s2", "s3"}
CHECK_DEADLOCK FALSE
INVARIANTS
    BacnetTypeOK
    CallsAfterScans
    NoOldCallback
PROPERTIES
    StartStuckOnlyByOldHandler
    RepliesServed
