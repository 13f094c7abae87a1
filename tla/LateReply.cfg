\* Two reads that use the only ID one after the other.
SPECIFICATION Spec
CONSTANTS
    NumIDs = 1
    NoTx = NoTx
    Reads = {r1, r2}
    Writes = {}
    Handlers = {h1}
    Devices = {}
    Low <- Unlimited
    High <- Unlimited
    MaxScans = 0
INVARIANTS
    ReadReturnsOwnValue
