CONSTANTS
  Chars <- MCChars
  Size = 18
  MaxNumericSize = 6
  Bits = 8
  TimeText <- MCTime
  BaseName <- MCBaseName
  Line = 77
  Inserts <- MCInserts
SPECIFICATION Spec
INVARIANT InBounds WholeItems RecordEnds
\* A record is output once.
CHECK_DEADLOCK FALSE
