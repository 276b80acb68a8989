SPECIFICATION StoreSpec
CONSTANTS
  p1 = p1
  e1 = e1
  e2 = e2
  k1 = k1
  k2 = k2
  u1 = u1
  r1 = r1
  r2 = r2
  MaxSequence = 0
  MaxClock = 2
  MaxDepth = 3
  Products = {p1}
  Editors = {e1, e2}
  NoCategory = NoCategory
  Skus = {k1, k2}
  SpuOf <- MCSpuOf
  Users = {u1}
  HeaderDefault = HeaderDefault
  Requests = {r1, r2}
  MaxItems = 2
  MaxQuantity = 2
  Quantities <- MCQuantities
  MaxRequests = 4
SYMMETRY RequestSymmetry
CHECK_DEADLOCK FALSE
INVARIANTS
  SummaryCounts
  OneLinePerSku
  CartedWasPublished
