SPECIFICATION Spec
CONSTANTS
  Items <- LongAndShort
  MaxItems = 2
  OtherIDs = {1, 7, 16}
INVARIANT CodecTypeOK
INVARIANT RoundTrip
INVARIANT StuckOnLongTagOnly
PROPERTY CursorKept
CHECK_DEADLOCK FALSE
