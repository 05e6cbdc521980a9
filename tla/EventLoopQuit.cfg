CONSTANTS
  Functors <- MCFunctors
  Threads <- MCThreads
  Owner <- MCOwner
SPECIFICATION Spec
PROPERTY QuitEndsLoop
\* The I/O thread ends when the loop is left.
CHECK_DEADLOCK FALSE
