SPECIFICATION FairSpec
CONSTANTS
  MaxSale = 2
  MaxCrash = 2
INVARIANTS
  TypeOK
  QueueMatchesRows
  NothingDueIsForgotten
  TipAfterItsSale
  TakenTwiceOnlyIfCutOff
  WastedOnlyIfUnheard
PROPERTIES
  MustSettleEnds
  ImplementsOutbox
