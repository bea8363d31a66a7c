SPECIFICATION LiveSpec
CONSTANTS
  p1 = p1 p2 = p2 k1 = k1 k2 = k2 r1 = r1 r2 = r2 e1 = e1 e2 = e2
  payer = payer payee = payee
  Payments = {p1}
  Keys = {k1}
  RefundKeys = {r1}
  Accounts = {payer, payee, Suspense}
  Suspense = Suspense
  Bodies <- OneBody
  Opening <- Funds2
  EventIds = {e1}
  NoId = NoId
  MaxEvents = 1
  None = None
PROPERTIES HoldsResolve
CHECK_DEADLOCK FALSE
