CONSTANTS
  Kinds <- MostKinds
  Allowed = {"pipeline", "halfClose", "partial", "reset"}
  MaxRequests = 3
SPECIFICATION Spec
INVARIANT TypeOK InOrder ErrorIsLast AnsweredAtClose
PROPERTY Answers Closes LoopGoesOn
\* A closed connection takes no more steps.
CHECK_DEADLOCK FALSE
