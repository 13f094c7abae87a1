SPECIFICATION Spec
CONSTANTS
  Machines <- SomeMachines
  Devices <- SomeDevices
  Ranges <- SomeRanges
  Requests <- SomeReads
  InvokeIDs = {7}
  Values <- OtherValues
  Errors = {"whole"}
INVARIANT ValidAnswers
CHECK_DEADLOCK FALSE
