SPECIFICATION PaySpec
CONSTANTS
  p1 = p1
  p2 = p2
  o1 = o1
  c1 = c1
  c2 = c2
  t1 = t1
  t2 = t2
  h1 = h1
  h2 = h2
  r1 = r1
  r2 = r2
  k1 = k1
  k2 = k2
  k3 = k3
  Payments = {p1, p2}
  Orders = {o1}
  Channels = {c1, c2}
  Amounts = {3}
  ThirdPartyIds = {t1}
  Hooks = {h1, h2}
  Requests = {r1, r2}
  Keys = {k1, k2, k3}
  RefundAmounts = {1, 2}
INVARIANTS
  RefundsAddUp
  TotalsRun
  SettledOnce
