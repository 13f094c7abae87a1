\* A worker and a delta share one ID: one of them has to wait for the other,
\* and replies to the one may meet the other.
SPECIFICATION FleetFairSpec
CONSTANTS
    r1 = r1
    r2 = r2
    r3 = r3
    x1 = x1
    x2 = x2
    NumIDs = 1
    NoTx = NoTx
    Reads = {r1}
    Writes = {x1}
    Handlers = {h1}
    Devices = {}
    Low <- Unlimited
    High <- Unlimited
    MaxScans = 0
    Executions <- OneTick
    Asked <- OneWrite
CHECK_DEADLOCK FALSE
INVARIANTS
    IDsConserved
    FreeIDNeverBlocks
PROPERTIES
    ImplementsRequestReply
    HandlerReleased
    CallersReturn
