SPECIFICATION LiveSpec
CONSTANTS
  processing = processing succeeded = succeeded refund = refund other = other
  relay1 = relay1 relay2 = relay2
  Events = {processing, succeeded, refund, other}
  Earlier <- MCEarlier
  First = First
  Relays = {relay1, relay2}
  BatchSize = 2
  MaxFailures = 2
  Nobody = Nobody
INVARIANTS TypeOK MarkedMeansPublished DuplicatesFromFailures AggregateOrder
PROPERTIES EventuallyPublished
CHECK_DEADLOCK FALSE
