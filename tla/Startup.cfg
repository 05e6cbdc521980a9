CONSTANTS
  NumThreads = 2
  CreateFails = TRUE
SPECIFICATION Spec
INVARIANT TypeOK AssertsHold UsedWhenMade HolderTrue
PROPERTY ComesUp
\* Threads that failed to start leave others waiting.
CHECK_DEADLOCK FALSE
