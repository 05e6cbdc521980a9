CONSTANTS
  Letters <- MCLetters
  Messages <- MCMessages
  SplitAnywhere = TRUE
SPECIFICATION Spec
INVARIANT HeadersAsSent
\* The parser is done with a block.
CHECK_DEADLOCK FALSE
