CONSTANTS
  Fds <- MCFds
  ShortTimeout = 1
  LongTimeout = 2
  Wrap = 3
  Sweeps = TRUE
  CtlFails = TRUE
  MaxTime = 4
  MaxNodes = 3
SPECIFICATION Spec
INVARIANT TypeOK RegistryAgrees
PROPERTY NoEarlyClose ExpiredLeave
\* The run ends with its time.
CHECK_DEADLOCK FALSE
