SPECIFICATION PipelineSpec
CONSTANTS
  p1 = p1 k1 = k1 r1 = r1 e1 = e1 payer = payer payee = payee relay1 = relay1
  Payments = {p1}
  Keys = {k1}
  RefundKeys = {r1}
  Accounts = {payer, payee, Suspense}
  Suspense = Suspense
  Bodies <- OneBody
  Opening <- Funds
  EventIds = {e1}
  NoId = NoId
  MaxEvents = 2
  None = None
  Relays = {relay1}
  BatchSize = 2
  MaxFailures = 1
  Nobody = Nobody
  First = First
INVARIANTS StreamTellsTheStory
PROPERTIES DecisionsReachConsumers
CHECK_DEADLOCK FALSE
