CONSTANTS
  Fds <- MCFds
  ShortTimeout = 1
  LongTimeout = 2
  Wrap = 100
  Sweeps = FALSE
  CtlFails = FALSE
  MaxTime = 3
  MaxNodes = 2
SPECIFICATION Spec
PROPERTY IdleClosed
\* The run ends with its time.
CHECK_DEADLOCK FALSE
