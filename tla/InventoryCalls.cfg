SPECIFICATION InvFairSpec
CONSTANTS
  o1 = o1
  o2 = o2
  o3 = o3
  s1 = s1
  s2 = s2
  a1 = a1
  a2 = a2
  Orders = {o1, o2}
  Skus = {s1, s2}
  Admins = {a1}
  MaxQty = 2
  Qty <- MCQty
  InitialStock <- MCInitialStock
  AdjustQty <- MCAdjustQty
  Targets <- MCTargets
INVARIANTS
  LedgerTail
  Conservation
  LedgerOnce
PROPERTIES
  NoOverReserve
  KeepsPromise
  ReservationSettles
