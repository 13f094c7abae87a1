SPECIFICATION Spec
CONSTANTS
  Properties <- SomeProperties
  Mappings <- SomeMappings
  Offset = 1
  Nil = Nil
  NoValue = NoValue
  Words = 8
  Significands = 4
  Ulps = {1, 2, 4, 8}
  MaxInstance = 2
  ObjectTypes = 16
  MaxObjectType = 14
  Workers = {}
  Getters = {}
  Deltas <- SomeDeltas
  Numbers <- SomeReals
  MaxFaults = 1
  MaxChanges = 0
INVARIANTS NilMeansWritten WrittenAsAsked
CHECK_DEADLOCK FALSE
