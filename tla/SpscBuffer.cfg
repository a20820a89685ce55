SPECIFICATION SpscFairSpec
CONSTANTS
  DIRTY_BIT = 4
  Width = 3
  MaxPublish = 4
INVARIANTS
  SlotsOwned
PROPERTIES
  ImplementsLatestValue
  LastValueRead
