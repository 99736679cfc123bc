SPECIFICATION Spec
CONSTANTS
  MaxAttempt = 4
  InvoiceMax = 4
  MaxCrash = 2
INVARIANTS
  TypeOK
  NoOrphanApproval
  KeptIsNeverReversed
  OneApprovalPerInvoice
  TotalsAgree
  OverLimitOnlyOnEmptyBatch
PROPERTIES
  OneExposure
  ImplementsLedger
