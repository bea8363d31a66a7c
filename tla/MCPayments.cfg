SPECIFICATION Spec
CONSTANTS
  p1 = p1 p2 = p2 k1 = k1 k2 = k2 r1 = r1 r2 = r2 e1 = e1 e2 = e2
  payer = payer payee = payee
  Payments = {p1, p2}
  Keys = {k1, k2}
  RefundKeys = {r1, r2}
  Accounts = {payer, payee, Suspense}
  Suspense = Suspense
  Bodies <- SomeBodies
  Opening <- Funds3
  EventIds = {e1, e2}
  NoId = NoId
  MaxEvents = 2
  None = None
INVARIANTS TypeOK JournalMatchesStatus OutboxMatchesStatus OnePaymentPerKey AnswersAgree RefundsBounded SuspenseCoversHolds
PROPERTIES StatusMoves PaymentsMoveMoneyOnce
SYMMETRY Sym
CHECK_DEADLOCK FALSE
