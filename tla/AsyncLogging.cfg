CONSTANTS
  Buf <- MCBuf
  NoBuf = NoBuf
  Capacity = 2
  MaxBuffers = 2
  FlushEveryN = 3
  MaxLines = 9
SPECIFICATION Spec
INVARIANT TypeOK SingleOwner AssertsHold WaitsWhenEmpty LinesInOrder
PROPERTY ImplementsLog StopReturns
\* The log ends when stop() returned.
CHECK_DEADLOCK FALSE
