\* A read and a write with two IDs beside a scan with a range: late, duplicated
\* or missing replies, and a handler that may be left in the callback.
SPECIFICATION Spec
CONSTANTS
    NumIDs = 2
    NoTx = NoTx
    Reads = {r1}
    Writes = {w1}
    Handlers = {h1}
    Devices = {1, 2}
    Low = 2
    High = 3
    MaxScans = 1
SYMMETRY Symmetry
CHECK_DEADLOCK FALSE
INVARIANTS
    TypeOK
    OwnAnswerBeforeWrap
