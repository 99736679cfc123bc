SPECIFICATION Spec
CONSTANTS
  InvoiceMax = 3
  BatchMax = 2
  MaxCrash = 0
INVARIANT
  ReuploadAfter95
