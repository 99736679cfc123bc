SPECIFICATION FairSpec
CONSTANTS
  MaxAttempt = 3
  InvoiceMax = 2
  MaxCrash = 2
PROPERTIES
  FlowReturns
  ReversalResolved
