SPECIFICATION Spec
CONSTANTS
  o1 = o1
  o2 = o2
  s1 = s1
  s2 = s2
  m1 = m1
  m2 = m2
  Orders = {o1, o2}
  Skus = {s1, s2}
  Messages = {m1}
  MaxQty = 2
  Qty <- MCQty
  InitialStock <- MCInitialStock
  MsgOrder <- MCMsgOrder
CHECK_DEADLOCK FALSE
INVARIANTS
  OrdersWereReserved
  SoldOnlyIfPaid
  AcceptedMeansSold
PROPERTIES
  FailedOrdersHoldNothing
  CancelledGivesBack
