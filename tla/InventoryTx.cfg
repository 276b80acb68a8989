SPECIFICATION TxSpec
CONSTANTS
  o1 = o1
  o2 = o2
  c1 = c1
  c2 = c2
  c3 = c3
  Orders = {o1, o2}
  Skus = {1, 2}
  Calls = {c1, c2, c3}
  MaxQty = 1
  Qty <- MCQty
  InitialStock <- MCInitialStock
  Listed <- MCListed
SYMMETRY CallSymmetry
INVARIANTS
  ReservesInOrder
PROPERTY Atomic
