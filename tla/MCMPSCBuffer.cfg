SPECIFICATION FairSpec
CONSTANTS
  Producers = {p1, p2}
  Values = {a, b}
  Dummy = dummy
  NoElement = none
  Capacity = 2
  MaxPos = 5
INVARIANT StoreHitsFreeSlot
PROPERTIES
  ImplementsFifo
  PopReturns
  ClaimsAreConsumed
