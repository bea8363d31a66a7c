SPECIFICATION LiveSpec
CONSTANTS
  p1 = p1 p2 = p2 k1 = k1 k2 = k2 r1 = r1 r2 = r2 e1 = e1 e2 = e2
  payer = payer payee = payee
  Payments = {p1, p2}
  Keys = {k1, k2}
  RefundKeys = {r1}
  Accounts = {payer, payee, Suspense}
  Suspense = Suspense
  Bodies <- LiveBodies
  Opening <- Funds4
  EventIds = {}
  NoId = NoId
  MaxEvents = 1
  None = None
PROPERTIES CallsResolve  StaleHoldsExpire
CHECK_DEADLOCK FALSE
