SPECIFICATION Spec
CONSTANTS
  MaxAttempt = 3
  MaxCrash = 1
  MaxReferral = 2
  Kinds = {"SALE", "CUP_SALE", "INST_SALE", "CASH_ADVANCE"}
  DialBackup = FALSE
INVARIANTS
  TypeOK
  KeptStaysBooked
  TCOwedIsQueued
  OnlyOwedIsUploaded
PROPERTIES
  ClosedClean
  ImplementsChipLedger
CHECK_DEADLOCK FALSE
