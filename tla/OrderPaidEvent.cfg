SPECIFICATION OrdSpec
CONSTANTS
  o1 = o1
  o2 = o2
  m1 = m1
  m2 = m2
  m3 = m3
  Orders = {o1}
  Messages = {m1}
  MsgOrder <- MCMsgOrder
  MaxCrashes = 0
CHECK_DEADLOCK FALSE
INVARIANT PaidEventMeansPaid
