CONSTANTS
  ThreadNums <- MCThreadNums
  Fds <- MCFds
  MaxConns = 3
  Faults <- MCFaults
SPECIFICATION Spec
INVARIANT TypeOK OwnDescriptor CallbacksSafe
PROPERTY DelIsHarmless PeersServed ImplementsLife
\* A server without connections waits.
CHECK_DEADLOCK FALSE
