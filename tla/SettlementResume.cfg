SPECIFICATION Spec
CONSTANTS
  InvoiceMax = 3
  BatchMax = 2
  MaxCrash = 1
PROPERTY
  InterruptedUploadResumes
