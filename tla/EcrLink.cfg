SPECIFICATION FairSpec
CONSTANTS
  MaxSale = 2
  MaxCrash = 1
  MaxFault = 1
  RetryTimes = 1
  SplitCheck = TRUE
INVARIANTS
  TypeOK
  OneAnswer
  StoredAnswerMatches
  RegisterToldTheTruth
  BookedOnce
PROPERTIES
  RegisterServed
CHECK_DEADLOCK FALSE
