SPECIFICATION ReadSpec
CONSTANTS
  s1 = s1 s2 = s2 s3 = s3
  Sessions = {s1, s2, s3}
  Free = Free
  Unknown = Unknown
  Accounts <- MCAccounts
  PostingLists <- MCPostingLists
  Opening <- OnePayer
  SeededRows <- NoPayeeRow
  BatchLists <- NoLists
  MaxPosts = 1
INVARIANTS TypeOK BalanceMatchesPostings NonNegative NetZero BalancesFit NoDeadlock BalanceAnswersAreCurrent AuditFlagsOnlySeeded
PROPERTIES PostsAreSerial
SYMMETRY Sym
