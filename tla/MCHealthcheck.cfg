\* Three workers; two share a request's number, as workers 0 and 127 do.
SPECIFICATION FairSpec
CONSTANTS
  NumberWorkers = 3
  RequestModulus = 2
  AnswerModulus = 3
INVARIANTS
  TypeOK
  GivenUpStaysBlocked
PROPERTIES
  AnswersAreFresh
  StoppedIsBlocked
\* The controller leaves its loop.
CHECK_DEADLOCK FALSE
