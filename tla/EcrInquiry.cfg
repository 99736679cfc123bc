SPECIFICATION Spec
CONSTANTS
  MaxSale = 2
  MaxCrash = 0
  MaxFault = 1
  RetryTimes = 1
  SplitCheck = TRUE
INVARIANTS
  InquiryRepeatsTheAnswer
CHECK_DEADLOCK FALSE
