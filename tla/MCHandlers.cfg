SPECIFICATION HandlersSpec
CONSTANTS
  s1 = s1 s2 = s2 p1 = p1 p2 = p2 p3 = p3 e1 = e1
  Sessions = {s1, s2}
  Free = Free
  Accounts <- MCAccounts
  PostingLists <- Lists
  BatchLists <- Reversals
  Opening <- MCOpening
  SeededRows <- MCRows
  MaxPosts = 3
  Payments = {p1, p2, p3}
  Orders <- MCOrders
  Suspense = 1
  Starts <- MCStarts
  Events <- MCEvents
  NoId = NoId
  None = None
INVARIANTS DeadlockNeedsSweep
PROPERTIES HandlersMoveMoneyOnce HandlersEnd
