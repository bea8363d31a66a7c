SPECIFICATION Spec
CONSTANTS
  pay = pay retry = retry changed = changed theirs = theirs refund = refund again = again
  m1 = m1 m2 = m2 k = k body = body other = other
  Requests = {pay, retry}
  kind <- MCKind
  merchant <- MCMerchant
  idem_key <- OneKey
  payload <- MCPayload
  Merchants = {m1, m2}
  IdemKeys = {k}
  Payloads = {body, other}
  None = None
INVARIANTS DuplicatesConflictOrReplay
CHECK_DEADLOCK FALSE
