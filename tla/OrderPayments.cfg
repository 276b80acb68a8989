SPECIFICATION OrdFairSpec
CONSTANTS
  o1 = o1
  o2 = o2
  m1 = m1
  m2 = m2
  m3 = m3
  Orders = {o1, o2}
  Messages = {m1, m2, m3}
  MsgOrder <- MCMsgOrder
  MaxCrashes = 1
CHECK_DEADLOCK FALSE
INVARIANTS
  PaidIsAnnounced
  CancelledIsAnnouncedOnce
PROPERTIES
  FollowsTable
  PaymentApplied
