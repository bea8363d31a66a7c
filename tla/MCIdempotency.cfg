SPECIFICATION LiveSpec
CONSTANTS
  pay = pay retry = retry changed = changed theirs = theirs refund = refund again = again
  m1 = m1 m2 = m2 k = k body = body other = other
  Requests = {pay, retry, changed, theirs, refund, again}
  kind <- MCKind
  merchant <- MCMerchant
  idem_key <- OneKey
  payload <- MCPayload
  Merchants = {m1, m2}
  IdemKeys = {k}
  Payloads = {body, other}
  None = None
INVARIANTS TypeOK OneOwnerPerKey ReplaysAreFaithful RefusalsHaveOwners
PROPERTIES RecordsMoveForward RequestsEnd
CHECK_DEADLOCK FALSE
