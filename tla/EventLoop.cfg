CONSTANTS
  Functors <- MCFunctors
  Threads <- MCThreads
  Owner <- MCOwner
SPECIFICATION Spec
INVARIANT TypeOK NoLostWakeup
PROPERTY RunsFunctors QuitObeyed
\* The I/O thread ends when the loop is left.
CHECK_DEADLOCK FALSE
