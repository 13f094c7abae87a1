SPECIFICATION Spec
CONSTANTS
  Machines <- SomeMachines
  Devices <- SomeDevices
  Ranges <- SomeRanges
  Requests <- ReadsAndWrites
  InvokeIDs = {7}
  Values <- DecodedValues
  Errors = {"whole", "short"}
INVARIANT AnswersDoNotPanic
CHECK_DEADLOCK FALSE
