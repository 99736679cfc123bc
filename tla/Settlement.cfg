SPECIFICATION FairSpec
CONSTANTS
  InvoiceMax = 3
  BatchMax = 2
  MaxCrash = 2
INVARIANTS
  TypeOK
  MarkedRowsAreAcked
  CleanUpIsAtomic
  BatchNumTracksSettlements
PROPERTIES
  RowUploadResumes
  CleanUpFinishes
  ImplementsBatchLedger
