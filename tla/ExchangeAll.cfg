SPECIFICATION Spec
CONSTANTS
  Machines <- SomeMachines
  Devices <- SomeDevices
  Ranges <- SomeRanges
  Requests <- RequestsWithRefused
  InvokeIDs = {0, 255}
  Values <- DecodedValues
  Errors = {"whole"}
INVARIANT ExchangeTypeOK
INVARIANT WhoIsReachesNeighbours
INVARIANT ScanExact
INVARIANT RangeHeard
INVARIANT RequestReachesDevice
INVARIANT AnswerReturned
CHECK_DEADLOCK FALSE
