CONSTANTS
  Letters <- MCReqLetters
  Messages <- MCRequests
  SplitAnywhere = FALSE
SPECIFICATION ReqSpec
INVARIANT TypeOK RangesValid RequestAsSent RequestAccepted
\* The parser is done with a request.
CHECK_DEADLOCK FALSE
