CONSTANTS
  Kinds <- AllKinds
  Allowed = {"partial"}
  MaxRequests = 2
SPECIFICATION Spec
PROPERTY LongConnection
\* A closed connection takes no more steps.
CHECK_DEADLOCK FALSE
