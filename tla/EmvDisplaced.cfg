SPECIFICATION Spec
CONSTANTS
  MaxAttempt = 2
  MaxCrash = 0
  MaxReferral = 0
  Kinds = {"SALE"}
  DialBackup = FALSE
INVARIANTS
  PendingReversalSurvives
CHECK_DEADLOCK FALSE
