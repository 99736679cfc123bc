SPECIFICATION LiveSpec
CONSTANTS
  MaxAttempt = 3
  MaxCrash = 1
  MaxReferral = 1
  Kinds = {"SALE"}
  DialBackup = TRUE
INVARIANTS
  ApprovalAccounted
  ArmedIsReadable
PROPERTIES
  FlowReturns
CHECK_DEADLOCK FALSE
