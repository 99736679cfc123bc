SPECIFICATION Spec
CONSTANTS
  MaxAttempt = 1
  MaxCrash = 0
  MaxReferral = 2
  Kinds = {"SALE"}
  DialBackup = FALSE
INVARIANTS
  KeptWasAnswered
CHECK_DEADLOCK FALSE
