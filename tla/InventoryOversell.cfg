SPECIFICATION InvSpec
CONSTANTS
  o1 = o1
  o2 = o2
  o3 = o3
  s1 = s1
  s2 = s2
  a1 = a1
  a2 = a2
  Orders = {o1, o2, o3}
  Skus = {s1, s2}
  Admins = {}
  MaxQty = 2
  Qty <- MCQty
  InitialStock <- MCInitialStock
  AdjustQty = {}
  Targets = {}
INVARIANT NoOversell
