\* A worker with three ticks and a delta with two writes have three IDs, over a
\* network that loses everything: the IDs wrap around in every order of calls.
SPECIFICATION FleetSpec
CONSTANTS
    r1 = r1
    r2 = r2
    r3 = r3
    x1 = x1
    x2 = x2
    NumIDs = 3
    NoTx = NoTx
    Reads = {r1, r2, r3}
    Writes = {x1, x2}
    Handlers = {}
    Devices = {}
    Low <- Unlimited
    High <- Unlimited
    MaxScans = 0
    Executions <- ThreeTicks
    Asked <- TwoWrites
CHECK_DEADLOCK FALSE
INVARIANTS
    FleetTypeOK
    ReuseIsFarOff
    CurrentsExact
