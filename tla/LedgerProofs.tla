----------------------------- MODULE LedgerProofs -----------------------------
(***************************************************************************)
(* Proofs about Ledger for any number of accounts, sessions and posting    *)
(* lists.                                                                  *)
(***************************************************************************)
EXTENDS LedgerReads, SumsProofs

\* What makes BalanceMatchesPostings inductive: the holder of a row sees the
\* committed balance plus its own entries, and has no entries elsewhere.
LockedView ==
    \A s \in Sessions : \A a \in Accounts :
        /\ owner[a] = s => work[s][a] = balance[a] + staged[s][a]
        /\ owner[a] # s => staged[s][a] = 0

\* The accounts of the list being posted are locked or still to be locked.
Covered ==
    \A s \in Sessions :
        pc[s] \in {"lock", "insert", "apply"} =>
            \A a \in Accounts : a \in AccountsOf(postings[s]) => a \in todo[s] \/ owner[a] = s

\* The session's position is one the code can be at.
Positioned ==
    \A s \in Sessions :
        /\ pc[s] \in {"idle", "apply", "posted"} => todo[s] = {}
        /\ pc[s] \in {"lock", "insert", "apply"} => idx[s] \in 1 .. Len(postings[s])
        /\ pc[s] = "idle" => \A a \in Accounts : owner[a] # s

Positive(ps) == \A i \in DOMAIN ps : ps[i].amount > 0

\* Only lists that validate_balanced let through are being posted.
Validated == \A s \in Sessions : Positive(postings[s])

\* An account without a balance row has no money and no entries.
NoRowNoMoney == \A a \in Accounts \ rows : balance[a] = 0

\* The inductive invariant.
IInv ==
    /\ TypeOK
    /\ BalanceMatchesPostings
    /\ LockedView
    /\ Covered
    /\ Positioned
    /\ Validated
    /\ NoRowNoMoney
    /\ NonNegative

-------------------------------------------------------------------------------
\* Writing one entry of a table of tables leaves the others alone.
LEMMA UpdateEntry ==
    ASSUME NEW S, NEW T, NEW f \in [S -> [T -> Int]], NEW g,
           NEW s \in S, NEW a \in T, NEW v \in Int,
           g = [f EXCEPT ![s][a] = v]
    PROVE  /\ g \in [S -> [T -> Int]]
           /\ g[s][a] = v
           /\ \A t \in S, b \in T : t # s \/ b # a => g[t][b] = f[t][b]
  OBVIOUS

\* The accounts of a list that callers pass are accounts, and each posting of
\* a list a session holds is a posting on one of them.
LEMMA ListTyped ==
    ASSUME NEW ps \in PostingLists \cup {<<>>}
    PROVE  /\ ps \in Seq(Posting)
           /\ AccountsOf(ps) \subseteq Accounts
           /\ \A i \in 1 .. Len(ps) :
                 /\ i \in DOMAIN ps
                 /\ ps[i] \in Posting
                 /\ ps[i].account_id \in AccountsOf(ps)
  <1>1. ps \in Seq(Posting)
    <2>1. CASE ps \in PostingLists
      BY <2>1, PostingsAssumption
    <2>2. CASE ps = <<>>
      BY <2>2
    <2> QED  BY <2>1, <2>2
  <1>2. \A i \in DOMAIN ps : ps[i] \in Posting /\ ps[i].account_id \in Accounts
    <2>1. \A i \in DOMAIN ps : ps[i] \in Posting
      BY <1>1
    <2> QED  BY <2>1 DEF Posting
  <1>3. AccountsOf(ps) \subseteq Accounts
    BY <1>2 DEF AccountsOf
  <1>4. \A i \in 1 .. Len(ps) : i \in DOMAIN ps
    BY <1>1
  <1> QED  BY <1>1, <1>2, <1>3, <1>4 DEF AccountsOf

\* The seeded database satisfies the inductive invariant.
LEMMA InitIInv == Init => IInv
  <1> SUFFICES ASSUME Init PROVE IInv
    OBVIOUS
  <1> USE PostingsAssumption, LedgerAssumption DEF Init, NoMoney
  <1>1. TypeOK
    BY DEF TypeOK
  <1>2. BalanceMatchesPostings /\ LockedView /\ Covered /\ Positioned
    BY DEF BalanceMatchesPostings, LockedView, Covered, Positioned
  <1>3. Validated
    BY DEF Validated, Positive
  <1>4. NoRowNoMoney /\ NonNegative
    BY DEF NoRowNoMoney, NonNegative
  <1> QED  BY <1>1, <1>2, <1>3, <1>4 DEF IInv

\* A transaction that ends leaves its session in a clean position.
LEMMA EndPositions ==
    ASSUME IInv, NEW s \in Sessions, EndTransaction(s)
    PROVE  /\ Covered' /\ Positioned' /\ Validated'
           /\ owner' \in [Accounts -> Sessions \cup {Free}]
           /\ pc' \in [Sessions -> {"idle", "lock", "insert", "apply", "posted"}]
           /\ postings' \in [Sessions -> PostingLists \cup {<<>>}]
           /\ todo' \in [Sessions -> SUBSET Accounts]
           /\ idx' \in [Sessions -> Nat]
           /\ work' \in [Sessions -> [Accounts -> Int]]
           /\ staged' \in [Sessions -> [Accounts -> Int]]
           /\ posts' \in [Sessions -> Nat]
  <1> USE LedgerAssumption DEF EndTransaction, Unlocked, NoMoney
  <1>1. TypeOK
    BY DEF IInv
  <1>2. Covered'
    BY <1>1 DEF IInv, Covered, TypeOK
  <1>3. Positioned'
    BY <1>1 DEF IInv, Positioned, TypeOK
  <1>4. Validated'
    <2>1. Positive(<<>>)
      BY DEF Positive
    <2> QED  BY <1>1, <2>1 DEF IInv, Validated, TypeOK
  <1> QED  BY <1>1, <1>2, <1>3, <1>4 DEF TypeOK

\* Whatever way a transaction is abandoned (refused list, insufficient funds,
\* lost race for a new row, crash, deadlock victim), the invariant survives.
LEMMA AbortIInv ==
    ASSUME IInv, NEW s \in Sessions, Abort(s)
    PROVE  IInv'
  <1> USE DEF Abort, tables
  <1>0. EndTransaction(s) /\ TypeOK
    BY DEF IInv
  <1>1. TypeOK' /\ Covered' /\ Positioned' /\ Validated'
    BY <1>0, EndPositions DEF TypeOK
  <1>2. BalanceMatchesPostings' /\ NoRowNoMoney'
    BY DEF IInv, BalanceMatchesPostings, NoRowNoMoney
  <1>3. LockedView'
    BY <1>0, LedgerAssumption DEF IInv, LockedView, TypeOK, EndTransaction, Unlocked, NoMoney
  <1>4. NonNegative'
    BY <1>0, LedgerAssumption DEF IInv, NonNegative, TypeOK, EndTransaction, Unlocked, NoMoney
  <1> QED  BY <1>1, <1>2, <1>3, <1>4 DEF IInv

\* post(): a new list is taken up; no balance and no lock moves.
LEMMA PostIInv ==
    ASSUME IInv, NEW s \in Sessions, NEW ps \in PostingLists, post(s, ps)
    PROVE  IInv'
  <1>0. /\ TypeOK /\ 1 \in 1 .. Len(ps) /\ Positive(ps) /\ AccountsOf(ps) \subseteq Accounts
        /\ pc' = [pc EXCEPT ![s] = "lock"]
        /\ postings' = [postings EXCEPT ![s] = ps]
        /\ todo' = [todo EXCEPT ![s] = AccountsOf(ps)]
        /\ idx' = [idx EXCEPT ![s] = 1]
        /\ posts' = [posts EXCEPT ![s] = @ + 1]
        /\ UNCHANGED <<balance, posted, rows, owner, work, staged>>
    BY ListTyped DEF IInv, post, tables, validate_balanced, Positive
  <1>1. TypeOK'
    BY <1>0 DEF TypeOK
  <1>2. BalanceMatchesPostings' /\ LockedView' /\ NoRowNoMoney' /\ NonNegative'
    BY <1>0 DEF IInv, BalanceMatchesPostings, LockedView, NoRowNoMoney, NonNegative
  <1>3. Covered'
    BY <1>0 DEF IInv, Covered, TypeOK
  <1>4. Positioned'
    BY <1>0 DEF IInv, Positioned, TypeOK
  <1>5. Validated'
    BY <1>0 DEF IInv, Validated, TypeOK
  <1> QED  BY <1>1, <1>2, <1>3, <1>4, <1>5 DEF IInv

\* A free row, or one the session already holds, is added to its locks with
\* the view it should have: common to LockRow and InsertRow.
LEMMA AcquireIInv ==
    ASSUME IInv, NEW s \in Sessions, NEW a \in Accounts,
           pc[s] \in {"lock", "insert"}, NextRow(s, a), owner[a] \in {Free, s},
           owner' = [owner EXCEPT ![a] = s],
           work' = [work EXCEPT ![s][a] = IF owner[a] = s THEN work[s][a] ELSE balance[a]],
           Advance(s, a),
           UNCHANGED <<balance, posted, rows, postings, idx, staged, posts>>
    PROVE  IInv'
  <1>0. TypeOK
    BY DEF IInv
  <1>1. /\ work' \in [Sessions -> [Accounts -> Int]]
        /\ work'[s][a] = IF owner[a] = s THEN work[s][a] ELSE balance[a]
        /\ \A t \in Sessions, b \in Accounts : t # s \/ b # a => work'[t][b] = work[t][b]
    <2>1. (IF owner[a] = s THEN work[s][a] ELSE balance[a]) \in Int
      BY <1>0 DEF TypeOK
    <2>2. work \in [Sessions -> [Accounts -> Int]]
      BY <1>0 DEF TypeOK
    <2> QED  BY <2>1, <2>2, UpdateEntry
  <1>2. TypeOK'
    BY <1>0, <1>1 DEF TypeOK, Advance
  <1>3. BalanceMatchesPostings' /\ NoRowNoMoney' /\ Validated'
    BY DEF IInv, BalanceMatchesPostings, NoRowNoMoney, Validated
  <1>4. LockedView'
    <2> SUFFICES ASSUME NEW t \in Sessions, NEW b \in Accounts
                 PROVE  /\ owner'[b] = t => work'[t][b] = balance[b] + staged[t][b]
                        /\ owner'[b] # t => staged[t][b] = 0
      BY DEF LockedView
    <2>1. /\ owner[b] = t => work[t][b] = balance[b] + staged[t][b]
          /\ owner[b] # t => staged[t][b] = 0
          /\ balance[b] \in Int /\ staged[t][b] \in Int
      BY <1>0 DEF IInv, LockedView, TypeOK
    <2>2. CASE b = a
      BY <1>0, <1>1, <2>1, <2>2, LedgerAssumption DEF TypeOK
    <2>3. CASE b # a
      BY <1>0, <1>1, <2>1, <2>3 DEF TypeOK
    <2> QED  BY <2>2, <2>3
  <1>5. NonNegative'
    BY <1>0, <1>1, LedgerAssumption DEF IInv, NonNegative, TypeOK
  <1>6. Covered'
    BY <1>0, LedgerAssumption DEF IInv, Covered, TypeOK, Advance
  <1>7. Positioned'
    BY <1>0, LedgerAssumption DEF IInv, Positioned, TypeOK, Advance, NextRow
  <1> QED  BY <1>2, <1>3, <1>4, <1>5, <1>6, <1>7 DEF IInv

\* A row is locked: the session's view of it starts at the committed balance,
\* or stays what it was if the row was already held.
LEMMA LockRowIInv ==
    ASSUME IInv, NEW s \in Sessions, NEW a \in Accounts, LockRow(s, a)
    PROVE  IInv'
  BY AcquireIInv DEF LockRow, Lockable, RowView, tables

\* A new row starts at zero, which is what the account without a row had.
LEMMA InsertRowIInv ==
    ASSUME IInv, NEW s \in Sessions, NEW a \in Accounts, InsertRow(s, a)
    PROVE  IInv'
  <1>1. balance[a] = 0 /\ owner[a] = Free /\ Free # s
    BY LedgerAssumption DEF IInv, NoRowNoMoney, InsertRow
  <1> QED  BY <1>1, AcquireIInv DEF InsertRow, tables

\* No row is found: only the program counter moves.
LEMMA MissRowIInv ==
    ASSUME IInv, NEW s \in Sessions, NEW a \in Accounts, MissRow(s, a)
    PROVE  IInv'
  <1> USE DEF MissRow, tables
  <1>0. TypeOK
    BY DEF IInv
  <1>1. TypeOK'
    BY <1>0 DEF TypeOK
  <1>2. BalanceMatchesPostings' /\ LockedView' /\ NoRowNoMoney' /\ NonNegative' /\ Validated'
    BY DEF IInv, BalanceMatchesPostings, LockedView, NoRowNoMoney, NonNegative, Validated
  <1>3. Covered'
    BY <1>0 DEF IInv, Covered, TypeOK
  <1>4. Positioned'
    BY <1>0 DEF IInv, Positioned, TypeOK, NextRow
  <1> QED  BY <1>1, <1>2, <1>3, <1>4 DEF IInv

\* One posting: the entry and the view of the locked balance move by the same
\* amount, and a debit the view cannot bear is not applied.
LEMMA ApplyPostingIInv ==
    ASSUME IInv, NEW s \in Sessions, ApplyPosting(s)
    PROVE  IInv'
  <1> DEFINE p == postings[s][idx[s]]
             c == p.account_id
             d == Delta(p)
  <1>0. TypeOK /\ idx[s] \in 1 .. Len(postings[s]) /\ postings[s] \in PostingLists \cup {<<>>}
    BY DEF IInv, TypeOK, Positioned, ApplyPosting
  <1>1. /\ p \in Posting /\ c \in AccountsOf(postings[s]) /\ c \in Accounts
        /\ p.amount > 0 /\ Len(postings[s]) \in Nat
    BY <1>0, ListTyped DEF IInv, Validated, Positive
  <1>2. owner[c] = s
    BY <1>1 DEF IInv, Covered, Positioned, ApplyPosting
  <1>3. /\ d \in Int /\ p.amount \in Int
        /\ p.direction = "DEBIT" => d = - p.amount
        /\ p.direction # "DEBIT" => d = p.amount
    BY <1>1 DEF Posting, Delta
  <1>4. /\ pc[s] = "apply" /\ (p.direction = "DEBIT" => work[s][c] >= p.amount)
        /\ work' = [work EXCEPT ![s][c] = work[s][c] + d]
        /\ staged' = [staged EXCEPT ![s][c] = staged[s][c] + d]
        /\ idx' = [idx EXCEPT ![s] = @ + 1]
        /\ pc' = [pc EXCEPT ![s] = IF idx[s] = Len(postings[s]) THEN "posted" ELSE "apply"]
        /\ UNCHANGED <<balance, posted, rows, owner, postings, todo, posts>>
    BY DEF ApplyPosting, Affordable, tables
  <1>5. work[s][c] + d >= 0 \/ work[s][c] < 0
    <2>1. work[s][c] \in Int
      BY <1>0, <1>1 DEF TypeOK
    <2> QED  BY <1>1, <1>3, <1>4, <2>1
  <1> HIDE DEF p, c, d
  <1>6. /\ work' \in [Sessions -> [Accounts -> Int]]
        /\ work'[s][c] = work[s][c] + d
        /\ \A t \in Sessions, b \in Accounts : t # s \/ b # c => work'[t][b] = work[t][b]
    <2>1. work \in [Sessions -> [Accounts -> Int]] /\ work[s][c] + d \in Int
      BY <1>0, <1>1, <1>3 DEF TypeOK
    <2> QED  BY <1>1, <1>4, <2>1, UpdateEntry
  <1>7. /\ staged' \in [Sessions -> [Accounts -> Int]]
        /\ staged'[s][c] = staged[s][c] + d
        /\ \A t \in Sessions, b \in Accounts : t # s \/ b # c => staged'[t][b] = staged[t][b]
    <2>1. staged \in [Sessions -> [Accounts -> Int]] /\ staged[s][c] + d \in Int
      BY <1>0, <1>1, <1>3 DEF TypeOK
    <2> QED  BY <1>1, <1>4, <2>1, UpdateEntry
  <1>8. TypeOK'
    BY <1>0, <1>4, <1>6, <1>7 DEF TypeOK
  <1>9. BalanceMatchesPostings' /\ NoRowNoMoney' /\ Validated'
    BY <1>4 DEF IInv, BalanceMatchesPostings, NoRowNoMoney, Validated
  <1>10. LockedView'
    <2> SUFFICES ASSUME NEW t \in Sessions, NEW b \in Accounts
                 PROVE  /\ owner[b] = t => work'[t][b] = balance[b] + staged'[t][b]
                        /\ owner[b] # t => staged'[t][b] = 0
      BY <1>4 DEF LockedView
    <2>1. /\ owner[b] = t => work[t][b] = balance[b] + staged[t][b]
          /\ owner[b] # t => staged[t][b] = 0
          /\ balance[b] \in Int /\ staged[t][b] \in Int
      BY <1>0 DEF IInv, LockedView, TypeOK
    <2>2. CASE t = s /\ b = c
      BY <1>2, <1>3, <1>6, <1>7, <2>1, <2>2
    <2>3. CASE t # s \/ b # c
      BY <1>6, <1>7, <2>1, <2>3
    <2> QED  BY <2>2, <2>3
  <1>11. Covered'
    BY <1>0, <1>4 DEF IInv, Covered, TypeOK
  <1>12. Positioned'
    <2>1. idx[s] # Len(postings[s]) => idx[s] + 1 \in 1 .. Len(postings[s])
      BY <1>0, <1>1
    <2> QED  BY <1>0, <1>4, <2>1 DEF IInv, Positioned, TypeOK
  <1>13. NonNegative'
    BY <1>0, <1>1, <1>2, <1>3, <1>4, <1>5, <1>6 DEF IInv, NonNegative, TypeOK
  <1> QED  BY <1>8, <1>9, <1>10, <1>11, <1>12, <1>13 DEF IInv

\* Commit: the view of every locked row becomes the balance and the entries
\* join the journal; by LockedView both move by the same amount.
LEMMA CommitIInv ==
    ASSUME IInv, NEW s \in Sessions, Commit(s)
    PROVE  IInv'
  <1>0. /\ EndTransaction(s) /\ TypeOK
        /\ balance' = [a \in Accounts |-> IF owner[a] = s THEN work[s][a] ELSE balance[a]]
        /\ posted' = [a \in Accounts |-> posted[a] + staged[s][a]]
        /\ rows' = rows \cup {a \in Accounts : owner[a] = s}
    BY DEF IInv, Commit
  <1>1. TypeOK' /\ Covered' /\ Positioned' /\ Validated'
    <2>1. \A a \in Accounts : owner[a] = s => work[s][a] \in Nat
      BY <1>0 DEF IInv, NonNegative, TypeOK
    <2>2. balance' \in [Accounts -> Nat] /\ posted' \in [Accounts -> Int] /\ rows' \subseteq Accounts
      BY <1>0, <2>1 DEF TypeOK
    <2> QED  BY <1>0, <2>2, EndPositions DEF TypeOK
  <1>2. BalanceMatchesPostings'
    BY <1>0, PostingsAssumption DEF IInv, BalanceMatchesPostings, LockedView, TypeOK
  <1>3. LockedView'
    BY <1>0, LedgerAssumption DEF IInv, LockedView, TypeOK, EndTransaction, Unlocked, NoMoney
  <1>4. NoRowNoMoney'
    BY <1>0 DEF IInv, NoRowNoMoney, TypeOK
  <1>5. NonNegative'
    BY <1>0, LedgerAssumption DEF IInv, NonNegative, TypeOK, EndTransaction, Unlocked, NoMoney
  <1> QED  BY <1>1, <1>2, <1>3, <1>4, <1>5 DEF IInv

\* Every step of every session preserves the inductive invariant.
LEMMA NextIInv == IInv /\ [Next]_vars => IInv'
  <1> SUFFICES ASSUME IInv, [Next]_vars PROVE IInv'
    OBVIOUS
  <1>1. CASE UNCHANGED vars
    BY <1>1 DEF vars, IInv, TypeOK, BalanceMatchesPostings, LockedView, Covered, Positioned, Validated, NoRowNoMoney, NonNegative
  <1>2. ASSUME NEW s \in Sessions, NEW ps \in PostingLists, post(s, ps) \/ Refuse(s, ps)
        PROVE  IInv'
    BY <1>2, PostIInv, AbortIInv DEF Refuse
  <1>3. ASSUME NEW s \in Sessions, Acquire(s)
        PROVE  IInv'
    BY <1>3, LockRowIInv, InsertRowIInv DEF Acquire
  <1>4. ASSUME NEW s \in Sessions, Work(s)
        PROVE  IInv'
    BY <1>4, MissRowIInv, AbortIInv, ApplyPostingIInv, CommitIInv DEF Work, InsertConflict, InsufficientFunds
  <1>5. ASSUME NEW s \in Sessions, Rollback(s)
        PROVE  IInv'
    BY <1>5, AbortIInv DEF Rollback
  <1> QED  BY <1>1, <1>2, <1>3, <1>4, <1>5 DEF Next

\* In every reachable state, whatever the number of sessions: types hold, the
\* cached balances equal the seeded ones plus the journal, and no account is
\* overdrawn, not even in the view of an open transaction.
THEOREM LedgerCorrect == Spec => [](TypeOK /\ BalanceMatchesPostings /\ NonNegative)
  <1>1. IInv => TypeOK /\ BalanceMatchesPostings /\ NonNegative
    BY DEF IInv
  <1> QED  BY <1>1, InitIInv, NextIInv, PTL DEF Spec
-------------------------------------------------------------------------------
(***************************************************************************)
(* The lock order.  A transaction that posts once takes its rows in        *)
(* ascending id order, so the row a session waits for lies above every row *)
(* it holds, and along a chain of waiting sessions the awaited rows climb. *)
(* In a finite set of accounts they cannot climb around a cycle.           *)
(***************************************************************************)

\* When no transaction makes a second post(), locks are taken in order.
LEMMA LocksAscendStep ==
    ASSUME BatchLists = {}, IInv, LocksAscend, [Next]_vars
    PROVE  LocksAscend'
  <1>0. TypeOK /\ Positioned
    BY DEF IInv
  <1>1. ASSUME NEW s \in Sessions, EndTransaction(s)
        PROVE  LocksAscend'
    BY <1>0, <1>1, LedgerAssumption DEF EndTransaction, Unlocked, LocksAscend, TypeOK
  <1>2. ASSUME NEW s \in Sessions, NEW ps \in PostingLists, post(s, ps)
        PROVE  LocksAscend'
    <2>1. pc[s] = "idle"
      BY <1>2 DEF post, CanPost
    <2>2. \A a \in Accounts : owner[a] # s
      BY <1>0, <2>1 DEF Positioned
    <2> QED  BY <1>0, <1>2, <2>2 DEF post, LocksAscend, TypeOK
  <1>3. ASSUME NEW s \in Sessions, NEW a \in Accounts, NextRow(s, a), Advance(s, a),
               owner' = [owner EXCEPT ![a] = s]
        PROVE  LocksAscend'
    <2> SUFFICES ASSUME NEW t \in Sessions, NEW b \in Accounts, NEW c \in Accounts,
                        owner'[b] = t, c \in todo'[t]
                 PROVE  b < c
      BY DEF LocksAscend
    <2>1. c \in todo[t] /\ (t = s => c # a)
      BY <1>0, <1>3 DEF Advance, TypeOK
    <2>2. CASE b = a
      <3>1. t = s /\ a =< c /\ c # a
        BY <1>0, <1>3, <2>1, <2>2 DEF NextRow, TypeOK
      <3>2. a \in Nat /\ c \in Nat
        BY PostingsAssumption
      <3> QED  BY <2>2, <3>1, <3>2
    <2>3. CASE b # a
      <3>1. owner[b] = t
        BY <1>0, <1>3, <2>3 DEF TypeOK
      <3> QED  BY <2>1, <3>1 DEF LocksAscend
    <2> QED  BY <2>2, <2>3
  <1>4. ASSUME UNCHANGED <<owner, todo>>
        PROVE  LocksAscend'
    BY <1>4 DEF LocksAscend
  <1>5. CASE UNCHANGED vars
    BY <1>4, <1>5 DEF vars
  <1>6. ASSUME NEW s \in Sessions, NEW ps \in PostingLists, post(s, ps) \/ Refuse(s, ps)
        PROVE  LocksAscend'
    BY <1>1, <1>2, <1>6 DEF Refuse, Abort
  <1>7. ASSUME NEW s \in Sessions, Acquire(s)
        PROVE  LocksAscend'
    BY <1>3, <1>7 DEF Acquire, LockRow, InsertRow
  <1>8. ASSUME NEW s \in Sessions, Work(s)
        PROVE  LocksAscend'
    BY <1>1, <1>4, <1>8 DEF Work, MissRow, InsertConflict, InsufficientFunds, Abort, ApplyPosting, Commit
  <1>9. ASSUME NEW s \in Sessions, Rollback(s)
        PROVE  LocksAscend'
    BY <1>1, <1>9 DEF Rollback, Abort
  <1> QED  BY <1>5, <1>6, <1>7, <1>8, <1>9 DEF Next

\* Rows taken in ascending order rule out a cycle of waiting sessions.
LEMMA AscendNoDeadlock ==
    ASSUME LocksAscend
    PROVE  NoDeadlock
  <1> SUFFICES ASSUME NEW D \in SUBSET Sessions, D # {}, Deadlocked(D)
               PROVE  FALSE
    BY DEF NoDeadlock
  <1> DEFINE A == {a \in Accounts : owner[a] \in D}
             Above(a) == {b \in Accounts : a < b}
             T == {Above(a) : a \in A}
  <1>1. A # {}
    <2>1. PICK s \in D : TRUE
      OBVIOUS
    <2>2. PICK t \in D, a \in Accounts : owner[a] = t
      BY <2>1 DEF Deadlocked, WaitsFor
    <2> QED  BY <2>2
  <1>2. \A a \in A : \E b \in A : a < b
    <2> SUFFICES ASSUME NEW a \in A
                 PROVE  \E b \in A : a < b
      OBVIOUS
    <2>1. PICK t \in D, b \in Accounts : Awaits(owner[a], b) /\ owner[b] = t
      BY DEF Deadlocked, WaitsFor
    <2>2. b \in todo[owner[a]] /\ owner[a] \in Sessions
      BY <2>1 DEF Awaits, NextRow
    <2> QED  BY <2>1, <2>2 DEF LocksAscend
  <1>3. T \subseteq SUBSET Accounts /\ T # {}
    BY <1>1
  <1>4. PICK a \in A : \A y \in T : <<y, Above(a)>> \notin StrictSubsetOrdering(Accounts)
    <2>1. IsWellFoundedOn(StrictSubsetOrdering(Accounts), FiniteSubsetsOf(Accounts))
      BY FS_StrictSubsetOrderingWellFounded
    <2>2. T \subseteq FiniteSubsetsOf(Accounts)
      BY <1>3, PostingsAssumption, FS_FiniteSubsetsOfFinite
    <2> HIDE DEF T
    <2>3. \E x \in T : \A y \in T : <<y, x>> \notin StrictSubsetOrdering(Accounts)
      BY <1>3, <2>1, <2>2, WFMin
    <2> QED  BY <2>3 DEF T
  <1>5. PICK b \in A : a < b
    BY <1>2
  <1>6. Above(b) \subseteq Above(a) /\ b \in Above(a) /\ b \notin Above(b)
    BY <1>5, PostingsAssumption
  <1>7. <<Above(b), Above(a)>> \in StrictSubsetOrdering(Accounts)
    BY <1>6 DEF StrictSubsetOrdering
  <1> QED  BY <1>4, <1>7

\* No deadlock on balance rows: as long as no transaction calls post() more
\* than once, sorting the account ids keeps every set of sessions free of a
\* cycle of waits, for any number of sessions and accounts.
THEOREM SortedLocksNeverDeadlock ==
    ASSUME BatchLists = {}
    PROVE  Spec => []NoDeadlock
  <1>1. Init => LocksAscend
    BY DEF Init, LocksAscend
  <1>2. LocksAscend => NoDeadlock
    BY AscendNoDeadlock
  <1>3. IInv /\ LocksAscend /\ [Next]_vars => LocksAscend'
    BY LocksAscendStep
  <1> QED  BY <1>1, <1>2, <1>3, InitIInv, NextIInv, PTL DEF Spec
-------------------------------------------------------------------------------
(***************************************************************************)
(* Conservation of money.  The entries of an open transaction sum to what  *)
(* the apply loop has been through of a list whose amounts cancel out, and *)
(* only whole lists are committed.                                         *)
(***************************************************************************)

\* A list under way was validated, and the apply loop ends behind it.
Balanced ==
    \A s \in Sessions :
        /\ pc[s] # "idle" => validate_balanced(postings[s])
        /\ pc[s] = "idle" => postings[s] = <<>> /\ idx[s] = 1
        /\ pc[s] \in {"lock", "insert"} => idx[s] = 1
        /\ pc[s] = "posted" => idx[s] = Len(postings[s]) + 1

\* The postings the apply loop has been through.
Applied(s) == 1 .. (idx[s] - 1)

\* Together the uncommitted entries make up what the loop has applied.
StagedNet ==
    \A s \in Sessions : Total(staged[s]) = SumOver(Deltas(postings[s]), Applied(s))

\* Only balanced lists are under way, and what is committed nets to zero.
NetInv ==
    /\ Balanced
    /\ StagedNet
    /\ Total(posted) = 0

\* The amounts of a list are integers, and its positions are finitely many.
LEMMA DeltasTyped ==
    ASSUME NEW ps \in PostingLists \cup {<<>>}
    PROVE  /\ DOMAIN ps = 1 .. Len(ps) /\ Len(ps) \in Nat /\ IsFiniteSet(DOMAIN ps)
           /\ \A i \in DOMAIN ps : Deltas(ps)[i] = Delta(ps[i]) /\ Deltas(ps)[i] \in Int
  <1>1. ps \in Seq(Posting) /\ \A i \in 1 .. Len(ps) : ps[i] \in Posting
    BY ListTyped
  <1>2. DOMAIN ps = 1 .. Len(ps) /\ Len(ps) \in Nat
    BY <1>1
  <1>3. IsFiniteSet(DOMAIN ps)
    BY <1>2, FS_Interval
  <1>4. \A i \in DOMAIN ps : Delta(ps[i]) \in Int
    BY <1>1, <1>2 DEF Posting, Delta
  <1> QED  BY <1>2, <1>3, <1>4 DEF Deltas

\* No entries, no sum.
LEMMA TotalNoMoney == Total(NoMoney) = 0
  BY PostingsAssumption, SumZero DEF Total, NoMoney

\* The list is used up: what was staged for it cancels out.
LEMMA PostedNetZero ==
    ASSUME TypeOK, NetInv, NEW s \in Sessions, pc[s] = "posted"
    PROVE  Total(staged[s]) = 0
  <1>1. postings[s] \in PostingLists \cup {<<>>}
    BY DEF TypeOK
  <1>2. /\ Net(postings[s]) = 0 /\ idx[s] = Len(postings[s]) + 1
        /\ Total(staged[s]) = SumOver(Deltas(postings[s]), Applied(s))
    BY DEF NetInv, Balanced, StagedNet, validate_balanced
  <1>3. Applied(s) = DOMAIN postings[s]
    <2>1. DOMAIN postings[s] = 1 .. Len(postings[s]) /\ Len(postings[s]) \in Nat
      BY <1>1, DeltasTyped
    <2> QED  BY <1>2, <2>1 DEF Applied
  <1> QED  BY <1>2, <1>3 DEF Net

\* A transaction that ends leaves no trace in its session.
LEMMA EndNetInv ==
    ASSUME IInv, NetInv, NEW s \in Sessions, EndTransaction(s), Total(posted') = 0
    PROVE  NetInv'
  <1>1. Balanced'
    BY DEF IInv, TypeOK, NetInv, Balanced, EndTransaction
  <1>2. StagedNet'
    <2> SUFFICES ASSUME NEW t \in Sessions
                 PROVE  Total(staged'[t]) = SumOver(Deltas(postings'[t]), 1 .. (idx'[t] - 1))
      BY DEF StagedNet, Applied
    <2>1. CASE t = s
      <3>1. staged'[t] = NoMoney /\ idx'[t] = 1
        BY <2>1 DEF EndTransaction, IInv, TypeOK
      <3>2. 1 .. (idx'[t] - 1) = {}
        BY <3>1
      <3> QED  BY <3>1, <3>2, TotalNoMoney, SumEmpty
    <2>2. CASE t # s
      <3>1. staged'[t] = staged[t] /\ idx'[t] = idx[t] /\ postings'[t] = postings[t]
        BY <2>2 DEF EndTransaction, IInv, TypeOK
      <3> QED  BY <3>1 DEF NetInv, StagedNet, Applied
    <2> QED  BY <2>1, <2>2
  <1> QED  BY <1>1, <1>2 DEF NetInv, Total

\* post(): the entries of the transaction so far cancel out.
LEMMA PostNetInv ==
    ASSUME IInv, NetInv, NEW s \in Sessions, NEW ps \in PostingLists, post(s, ps)
    PROVE  NetInv'
  <1>0. /\ TypeOK /\ CanPost(s, ps) /\ validate_balanced(ps)
        /\ pc' = [pc EXCEPT ![s] = "lock"]
        /\ postings' = [postings EXCEPT ![s] = ps]
        /\ idx' = [idx EXCEPT ![s] = 1]
        /\ UNCHANGED <<posted, staged>>
    BY DEF IInv, post, tables
  <1>1. Balanced'
    BY <1>0 DEF TypeOK, NetInv, Balanced
  <1>2. Total(staged[s]) = 0
    <2>1. CASE pc[s] = "posted"
      BY <1>0, <2>1, PostedNetZero
    <2>2. CASE pc[s] = "idle"
      <3>1. Applied(s) = {}
        BY <2>2 DEF NetInv, Balanced, Applied
      <3> QED  BY <3>1, SumEmpty DEF NetInv, StagedNet
    <2> QED  BY <1>0, <2>1, <2>2 DEF CanPost
  <1>3. StagedNet'
    <2> SUFFICES ASSUME NEW t \in Sessions
                 PROVE  Total(staged[t]) = SumOver(Deltas(postings'[t]), 1 .. (idx'[t] - 1))
      BY <1>0 DEF StagedNet, Applied, Total
    <2>1. CASE t = s
      <3>1. 1 .. (idx'[t] - 1) = {}
        BY <1>0, <2>1 DEF TypeOK
      <3> QED  BY <1>2, <2>1, <3>1, SumEmpty
    <2>2. CASE t # s
      BY <1>0, <2>2 DEF TypeOK, NetInv, StagedNet, Applied
    <2> QED  BY <2>1, <2>2
  <1> QED  BY <1>0, <1>1, <1>3 DEF NetInv, Total

\* Locking: list, position and entries stay.
LEMMA LockNetInv ==
    ASSUME IInv, NetInv, NEW s \in Sessions, pc[s] \in {"lock", "insert"},
           NEW v \in {"lock", "insert", "apply"},
           pc' = [pc EXCEPT ![s] = v], UNCHANGED <<posted, postings, idx, staged>>
    PROVE  NetInv'
  <1>1. Balanced'
    BY DEF IInv, TypeOK, NetInv, Balanced
  <1>2. StagedNet'
    BY DEF NetInv, StagedNet, Applied, Total
  <1> QED  BY <1>1, <1>2 DEF NetInv, Total

\* One posting: its amount joins the entries and the sum.
LEMMA ApplyNetInv ==
    ASSUME IInv, NetInv, NEW s \in Sessions, ApplyPosting(s)
    PROVE  NetInv'
  <1> DEFINE i == idx[s]
             ps == postings[s]
             c == ps[i].account_id
             d == Delta(ps[i])
  <1>0. TypeOK /\ i \in 1 .. Len(ps) /\ ps \in PostingLists \cup {<<>>}
    BY DEF IInv, TypeOK, Positioned, ApplyPosting
  <1>1. /\ staged' = [staged EXCEPT ![s][c] = staged[s][c] + d]
        /\ idx' = [idx EXCEPT ![s] = @ + 1]
        /\ pc' = [pc EXCEPT ![s] = IF i = Len(ps) THEN "posted" ELSE "apply"]
        /\ pc[s] = "apply"
        /\ UNCHANGED <<posted, postings>>
    BY DEF ApplyPosting, tables
  <1>2. /\ DOMAIN ps = 1 .. Len(ps) /\ Len(ps) \in Nat /\ c \in Accounts
        /\ Deltas(ps)[i] = d /\ d \in Int
        /\ \A j \in 1 .. i : Deltas(ps)[j] \in Int
    BY <1>0, DeltasTyped, ListTyped
  <1> HIDE DEF i, ps, c, d
  <1>3. Balanced'
    BY <1>0, <1>1, <1>2 DEF TypeOK, NetInv, Balanced, i, ps
  <1>4. Total(staged'[s]) = Total(staged[s]) + d
    <2>0. staged \in [Sessions -> [Accounts -> Int]] /\ staged[s][c] + d \in Int
      BY <1>0, <1>2 DEF TypeOK
    <2>1. /\ \A b \in Accounts : staged[s][b] \in Int
          /\ staged'[s][c] = staged[s][c] + d /\ staged'[s][c] \in Int
          /\ \A b \in Accounts \ {c} : staged'[s][b] = staged[s][b]
      BY <1>1, <1>2, <2>0, UpdateEntry
    <2> DEFINE f == staged[s]
               g == staged'[s]
    <2>2. /\ IsFiniteSet(Accounts) /\ c \in Accounts /\ (\A b \in Accounts : f[b] \in Int)
          /\ g[c] = f[c] + d /\ g[c] \in Int /\ (\A b \in Accounts \ {c} : g[b] = f[b])
      BY <1>2, <2>1, PostingsAssumption
    <2> HIDE DEF f, g
    <2>3. SumOver(g, Accounts) = SumOver(f, Accounts) + g[c] - f[c]
      BY <2>2, SumUpdate
    <2>4. SumOver(f, Accounts) \in Int
      BY <2>2, SumInt
    <2> QED  BY <1>2, <2>2, <2>3, <2>4 DEF Total, f, g
  <1>5. SumOver(Deltas(ps), 1 .. i) = SumOver(Deltas(ps), 1 .. (i - 1)) + d
    <2>1. 1 .. i = (1 .. (i - 1)) \cup {i} /\ i \notin 1 .. (i - 1) /\ i - 1 \in Int
      BY <1>0, <1>2
    <2>2. IsFiniteSet(1 .. (i - 1))
      BY <2>1, FS_Interval
    <2>3. \A j \in (1 .. (i - 1)) \cup {i} : Deltas(ps)[j] \in Int
      BY <1>2, <2>1
    <2>4. SumOver(Deltas(ps), (1 .. (i - 1)) \cup {i}) = SumOver(Deltas(ps), 1 .. (i - 1)) + Deltas(ps)[i]
      BY <2>1, <2>2, <2>3, SumAdd
    <2> QED  BY <1>2, <2>1, <2>4
  <1>6. StagedNet'
    <2> SUFFICES ASSUME NEW t \in Sessions
                 PROVE  Total(staged'[t]) = SumOver(Deltas(postings[t]), 1 .. (idx'[t] - 1))
      BY <1>1 DEF StagedNet, Applied, Total
    <2>1. CASE t = s
      <3>1. idx'[s] - 1 = i
        BY <1>0, <1>1, <1>2 DEF TypeOK, i
      <3>2. Total(staged[s]) = SumOver(Deltas(ps), 1 .. (i - 1))
        BY DEF NetInv, StagedNet, Applied, i, ps
      <3> QED  BY <1>4, <1>5, <2>1, <3>1, <3>2 DEF ps
    <2>2. CASE t # s
      <3>1. staged'[t] = staged[t] /\ idx'[t] = idx[t]
        BY <1>0, <1>1, <2>2 DEF TypeOK
      <3> QED  BY <3>1 DEF NetInv, StagedNet, Applied
    <2> QED  BY <2>1, <2>2
  <1> QED  BY <1>1, <1>3, <1>6 DEF NetInv, Total

\* Commit: entries that cancel out join a journal that does.
LEMMA CommitNetInv ==
    ASSUME IInv, NetInv, NEW s \in Sessions, Commit(s)
    PROVE  NetInv'
  <1>1. /\ EndTransaction(s) /\ TypeOK /\ pc[s] = "posted"
        /\ posted' = [a \in Accounts |-> posted[a] + staged[s][a]]
    BY DEF IInv, Commit
  <1>2. Total(staged[s]) = 0 /\ Total(posted) = 0
    BY <1>1, PostedNetZero DEF NetInv
  <1>3. \A a \in Accounts : /\ posted[a] \in Int /\ staged[s][a] \in Int
                            /\ posted'[a] = posted[a] + staged[s][a]
    BY <1>1 DEF TypeOK
  <1>4. Total(posted') = Total(posted) + Total(staged[s])
    BY <1>3, PostingsAssumption, SumPlus DEF Total
  <1> QED  BY <1>1, <1>2, <1>4, EndNetInv

\* No step makes or loses money.
LEMMA NextNetInv == IInv /\ NetInv /\ [Next]_vars => NetInv'
  <1> SUFFICES ASSUME IInv, NetInv, [Next]_vars PROVE NetInv'
    OBVIOUS
  <1>1. CASE UNCHANGED vars
    BY <1>1 DEF vars, NetInv, Balanced, StagedNet, Applied, Total
  <1>2. ASSUME NEW s \in Sessions, Abort(s)
        PROVE  NetInv'
    BY <1>2, EndNetInv DEF Abort, tables, NetInv, Total
  <1>3. ASSUME NEW s \in Sessions, NEW ps \in PostingLists, post(s, ps) \/ Refuse(s, ps)
        PROVE  NetInv'
    BY <1>2, <1>3, PostNetInv DEF Refuse
  <1>4. ASSUME NEW s \in Sessions, Acquire(s)
        PROVE  NetInv'
    <2>1. PICK a \in Accounts : LockRow(s, a) \/ InsertRow(s, a)
      BY <1>4 DEF Acquire
    <2>2. /\ pc[s] \in {"lock", "insert"} /\ UNCHANGED <<posted, postings, idx, staged>>
          /\ pc' = [pc EXCEPT ![s] = IF todo[s] = {a} THEN "apply" ELSE "lock"]
      BY <2>1 DEF LockRow, InsertRow, Advance, tables
    <2> QED  BY <2>2, LockNetInv
  <1>5. ASSUME NEW s \in Sessions, Work(s)
        PROVE  NetInv'
    <2>1. ASSUME NEW a \in Accounts, MissRow(s, a)
          PROVE  NetInv'
      BY <2>1, LockNetInv DEF MissRow, tables
    <2> QED  BY <1>2, <1>5, <2>1, ApplyNetInv, CommitNetInv DEF Work, InsertConflict, InsufficientFunds
  <1>6. ASSUME NEW s \in Sessions, Rollback(s)
        PROVE  NetInv'
    BY <1>2, <1>6 DEF Rollback
  <1> QED  BY <1>1, <1>3, <1>4, <1>5, <1>6 DEF Next

\* Nothing is posted, and nothing staged, in the seeded database.
LEMMA InitNetInv == Init => NetInv
  <1> SUFFICES ASSUME Init PROVE NetInv
    OBVIOUS
  <1>1. Balanced /\ Total(posted) = 0
    BY TotalNoMoney DEF Init, Balanced
  <1>2. ASSUME NEW s \in Sessions
        PROVE  Total(staged[s]) = SumOver(Deltas(postings[s]), Applied(s))
    <2>1. staged[s] = NoMoney /\ Applied(s) = {}
      BY DEF Init, Applied
    <2> QED  BY <2>1, TotalNoMoney, SumEmpty
  <1> QED  BY <1>1, <1>2 DEF NetInv, StagedNet

\* Money is neither made nor lost by any number of concurrent post() calls:
\* the journal sums to zero, and so does what a transaction is about to add.
THEOREM MoneyIsConserved == Spec => []NetZero
  <1>1. IInv /\ NetInv => NetZero
    BY PostedNetZero DEF IInv, NetInv, NetZero
  <1> QED  BY <1>1, InitIInv, NextIInv, InitNetInv, NextNetInv, PTL DEF Spec

\* A view of the accounts that holds no more money than was seeded, and no
\* negative balance, has no balance above the seeded money.
LEMMA ViewFits ==
    ASSUME NEW v, NEW e, \A a \in Accounts : v[a] \in Nat /\ e[a] \in Int /\ v[a] = Opening[a] + e[a],
           Total(e) = 0
    PROVE  \A a \in Accounts : v[a] =< Total(Opening)
  <1>1. \A a \in Accounts : Opening[a] \in Int /\ Opening[a] \in Nat
    BY PostingsAssumption
  <1>2. IsFiniteSet(Accounts)
    BY PostingsAssumption
  <1>3. SumOver(v, Accounts) = SumOver(Opening, Accounts) + SumOver(e, Accounts)
    BY <1>1, <1>2, SumPlus
  <1>4. SumOver(Opening, Accounts) \in Int
    BY <1>1, <1>2, SumInt
  <1>5. \A a \in Accounts : v[a] =< SumOver(v, Accounts)
    BY <1>2, SumPart
  <1> QED  BY <1>3, <1>4, <1>5 DEF Total

\* No balance, committed or about to be, exceeds the money the database was
\* seeded with, so none outgrows its BIGINT column.
THEOREM BalancesStayBounded == Spec => []BalancesFit
  <1>1. ASSUME IInv, NetInv
        PROVE  BalancesFit
    <2>0. TypeOK /\ Total(posted) = 0
      BY <1>1 DEF IInv, NetInv
    <2>1. \A a \in Accounts : balance[a] =< Total(Opening)
      BY <1>1, <2>0, ViewFits DEF IInv, BalanceMatchesPostings, TypeOK
    <2>2. ASSUME NEW s \in Sessions, pc[s] = "posted", NEW a \in Accounts, owner[a] = s
          PROVE  work[s][a] =< Total(Opening)
      <3> DEFINE e == [b \in Accounts |-> posted[b] + staged[s][b]]
                 v == [b \in Accounts |-> IF owner[b] = s THEN work[s][b] ELSE balance[b]]
      <3>1. \A b \in Accounts : /\ posted[b] \in Int /\ staged[s][b] \in Int /\ Opening[b] \in Int
                                /\ balance[b] = Opening[b] + posted[b]
                                /\ balance[b] \in Nat
                                /\ owner[b] = s => work[s][b] = balance[b] + staged[s][b] /\ work[s][b] \in Nat
                                /\ owner[b] # s => staged[s][b] = 0
        BY <1>1, <2>0, PostingsAssumption
           DEF IInv, BalanceMatchesPostings, LockedView, NonNegative, TypeOK
      <3>2. \A b \in Accounts : v[b] \in Nat /\ e[b] \in Int /\ v[b] = Opening[b] + e[b]
        BY <3>1
      <3>3. Total(e) = Total(posted) + Total(staged[s])
        <4>1. \A b \in Accounts : posted[b] \in Int /\ staged[s][b] \in Int /\ e[b] = posted[b] + staged[s][b]
          BY <3>1
        <4> HIDE DEF e
        <4> QED  BY <4>1, PostingsAssumption, SumPlus DEF Total
      <3>4. Total(staged[s]) = 0
        BY <1>1, <2>0, <2>2, PostedNetZero
      <3>5. v[a] = work[s][a]
        BY <2>2
      <3> HIDE DEF e, v
      <3> QED  BY <2>0, <3>2, <3>3, <3>4, <3>5, ViewFits
    <2> QED  BY <2>1, <2>2 DEF BalancesFit
  <1> QED  BY <1>1, InitIInv, NextIInv, InitNetInv, NextNetInv, PTL DEF Spec
-------------------------------------------------------------------------------
(***************************************************************************)
(* Reads.  They change nothing, and what they find is committed.           *)
(***************************************************************************)

\* The rows the database was seeded with stay.
SeedsStay == SeededRows \subseteq rows

\* What a read or an audit has found so far holds of the committed tables.
ReadInv ==
    /\ query \in {"none", "account", "answered", "drift", "audited"}
    /\ query = "account" => (asked \in Accounts => 0 \in current)
    /\ query \in {"drift", "audited"} => net = 0
    /\ query = "audited" => answer = Cardinality({a \in SeededRows : Opening[a] # 0})
    /\ BalanceAnswersAreCurrent

\* The audit finds nothing but the seeded money, since entries and balances
\* move together.
LEMMA DriftIsSeeded ==
    ASSUME IInv, SeedsStay
    PROVE  drifted_accounts = {a \in SeededRows : Opening[a] # 0}
  <1>1. \A a \in rows : /\ a \in Accounts /\ balance[a] = Opening[a] + posted[a]
                        /\ Opening[a] \in Int /\ posted[a] \in Int
    BY PostingsAssumption DEF IInv, TypeOK, BalanceMatchesPostings
  <1>2. \A a \in rows : balance[a] # posted[a] <=> Opening[a] # 0
    BY <1>1
  <1>3. \A a \in rows : Opening[a] # 0 => a \in SeededRows
    BY <1>1, LedgerAssumption
  <1> QED  BY <1>2, <1>3 DEF drifted_accounts, SeedsStay

\* No step removes a balance row.
LEMMA SeedsStep == SeedsStay /\ [Next]_vars => SeedsStay'
  BY DEF SeedsStay, Next, vars, tables, post, Refuse, Abort, Acquire, LockRow, InsertRow, Work, MissRow, InsertConflict, ApplyPosting, InsufficientFunds, Commit, Rollback

\* A step of the ledger leaves a read at its place.
LEMMA LedgerStepReadInv ==
    ASSUME ReadInv, LedgerStep
    PROVE  ReadInv'
  BY DEF ReadInv, LedgerStep, BalanceAnswersAreCurrent

\* A statement of a read finds the committed tables.
LEMMA ReadStepReadInv ==
    ASSUME IInv, NetInv, SeedsStay, ReadInv, Read, UNCHANGED vars
    PROVE  ReadInv'
  <1> USE DEF ReadInv, BalanceAnswersAreCurrent
  <1>1. ASSUME NEW a \in Accounts \cup {Unknown}, get_balance(a)
        PROVE  ReadInv'
    <2>1. rows \subseteq Accounts
      BY DEF IInv, TypeOK
    <2> QED  BY <1>1, <2>1, ReadsAssumption DEF get_balance, Visible
  <1>2. CASE SelectAccount
    BY <1>2 DEF SelectAccount, Exists
  <1>3. CASE SelectNet
    <2>1. ledger_net = 0
      <3>1. Total(posted) = 0 /\ Total(posted) \in Int
        BY DEF NetInv
      <3>2. \A x \in Int : -x = 0 - x
        OBVIOUS
      <3>3. ledger_net = 0 - Total(posted)
        BY <3>1, <3>2, Zenon DEF ledger_net
      <3> QED  BY <3>1, <3>3
    <2> QED  BY <1>3, <2>1 DEF SelectNet
  <1>4. CASE SelectDrift
    BY <1>4, DriftIsSeeded DEF SelectDrift
  <1>5. CASE Respond
    BY <1>5 DEF Respond
  <1> QED  BY <1>1, <1>2, <1>3, <1>4, <1>5 DEF Read

\* Inductive invariant of the ledger with a reader beside it.
LEMMA ReadsInv == ReadSpec => [](IInv /\ NetInv /\ SeedsStay /\ ReadInv)
  <1> DEFINE J == IInv /\ NetInv /\ SeedsStay /\ ReadInv
  <1>1. ReadInit => J
    <2> SUFFICES ASSUME ReadInit PROVE J
      OBVIOUS
    <2>1. ReadInv /\ SeedsStay
      BY DEF ReadInit, Init, ReadInv, BalanceAnswersAreCurrent, SeedsStay
    <2> QED  BY <2>1, InitIInv, InitNetInv DEF ReadInit
  <1>2. J /\ [LedgerStep \/ (Read /\ UNCHANGED vars)]_<<vars, read>> => J'
    <2> SUFFICES ASSUME J, [LedgerStep \/ (Read /\ UNCHANGED vars)]_<<vars, read>> PROVE J'
      OBVIOUS
    <2>1. [Next]_vars
      BY DEF LedgerStep
    <2>2. IInv' /\ NetInv' /\ SeedsStay'
      BY <2>1, NextIInv, NextNetInv, SeedsStep
    <2>3. ReadInv'
      <3>1. CASE LedgerStep
        BY <3>1, LedgerStepReadInv
      <3>2. CASE Read /\ UNCHANGED vars
        BY <3>2, ReadStepReadInv
      <3>3. CASE UNCHANGED <<vars, read>>
        BY <3>3 DEF read, ReadInv, BalanceAnswersAreCurrent
      <3> QED  BY <3>1, <3>2, <3>3
    <2> QED  BY <2>2, <2>3
  <1> QED  BY <1>1, <1>2, PTL DEF ReadSpec

\* A balance that was answered was the committed one at some moment of the
\* request, and 404 is answered exactly for ids without an account.
THEOREM ReadsAreCurrent == ReadSpec => []BalanceAnswersAreCurrent
  <1>1. ReadInv => BalanceAnswersAreCurrent
    BY DEF ReadInv
  <1> QED  BY <1>1, ReadsInv, PTL

\* The integrity report, whatever commits between its two queries, finds the
\* ledger net zero and exactly the accounts seeded without entries drifted.
THEOREM AuditIsExact == ReadSpec => []AuditFlagsOnlySeeded
  <1>1. ASSUME ReadInv
        PROVE  AuditFlagsOnlySeeded
    <2> DEFINE D == {a \in SeededRows : Opening[a] # 0}
    <2>1. IsFiniteSet(D)
      BY PostingsAssumption, LedgerAssumption, FS_Subset
    <2>2. Cardinality(D) = 0 <=> D = {}
      BY <2>1, FS_EmptySet
    <2> QED  BY <1>1, <2>2 DEF ReadInv, AuditFlagsOnlySeeded, balanced
  <1> QED  BY <1>1, ReadsInv, PTL

-------------------------------------------------------------------------------
(***************************************************************************)
(* Concurrent post() calls are equivalent to whole posting lists applied   *)
(* one after another, in the order of their commits.                       *)
(***************************************************************************)

\* The postings on account a that the apply loop has been through.
AppliedOn(s, a) == {i \in Applied(s) : postings[s][i].account_id = a}

\* The uncommitted entries are those of the one list under way.
StagedIsApplied ==
    \A s \in Sessions : \A a \in Accounts :
        staged[s][a] = SumOver(Deltas(postings[s]), AppliedOn(s, a))

\* A transaction that ends leaves nothing staged and nothing applied.
LEMMA EndStaged ==
    ASSUME IInv, StagedIsApplied, NEW s \in Sessions, EndTransaction(s)
    PROVE  StagedIsApplied'
  <1> SUFFICES ASSUME NEW t \in Sessions, NEW a \in Accounts
               PROVE  staged'[t][a] = SumOver(Deltas(postings'[t]), {i \in 1 .. (idx'[t] - 1) : postings'[t][i].account_id = a})
    BY DEF StagedIsApplied, AppliedOn, Applied
  <1>0. TypeOK
    BY DEF IInv
  <1>1. CASE t = s
    <2>1. staged'[t][a] = 0 /\ idx'[t] = 1
      BY <1>0, <1>1 DEF EndTransaction, TypeOK, NoMoney
    <2>2. {i \in 1 .. (idx'[t] - 1) : postings'[t][i].account_id = a} = {}
      BY <2>1
    <2> QED  BY <2>1, <2>2, SumEmpty
  <1>2. CASE t # s
    <2>1. staged'[t] = staged[t] /\ idx'[t] = idx[t] /\ postings'[t] = postings[t]
      BY <1>0, <1>2 DEF EndTransaction, TypeOK
    <2> QED  BY <2>1 DEF StagedIsApplied, AppliedOn, Applied
  <1> QED  BY <1>1, <1>2

\* A first post() finds nothing staged.
LEMMA PostStaged ==
    ASSUME BatchLists = {}, IInv, StagedIsApplied, NEW s \in Sessions, NEW ps \in PostingLists, post(s, ps)
    PROVE  StagedIsApplied'
  <1> SUFFICES ASSUME NEW t \in Sessions, NEW a \in Accounts
               PROVE  staged[t][a] = SumOver(Deltas(postings'[t]), {i \in 1 .. (idx'[t] - 1) : postings'[t][i].account_id = a})
    BY DEF StagedIsApplied, AppliedOn, Applied, post
  <1>0. TypeOK /\ pc[s] = "idle"
    BY DEF IInv, post, CanPost
  <1>1. CASE t = s
    <2>1. staged[t][a] = 0 /\ idx'[t] = 1
      BY <1>0, <1>1 DEF IInv, Positioned, LockedView, post, TypeOK
    <2>2. {i \in 1 .. (idx'[t] - 1) : postings'[t][i].account_id = a} = {}
      BY <2>1
    <2> QED  BY <2>1, <2>2, SumEmpty
  <1>2. CASE t # s
    <2>1. idx'[t] = idx[t] /\ postings'[t] = postings[t]
      BY <1>0, <1>2 DEF post, TypeOK
    <2> QED  BY <2>1 DEF StagedIsApplied, AppliedOn, Applied
  <1> QED  BY <1>1, <1>2

\* One posting: its amount joins the entries of its account.
LEMMA ApplyStaged ==
    ASSUME IInv, StagedIsApplied, NEW s \in Sessions, ApplyPosting(s)
    PROVE  StagedIsApplied'
  <1> DEFINE i == idx[s]
             ps == postings[s]
             c == ps[i].account_id
             d == Delta(ps[i])
  <1>0. TypeOK /\ i \in 1 .. Len(ps) /\ ps \in PostingLists \cup {<<>>}
    BY DEF IInv, TypeOK, Positioned, ApplyPosting
  <1>1. /\ staged' = [staged EXCEPT ![s][c] = staged[s][c] + d]
        /\ idx' = [idx EXCEPT ![s] = @ + 1]
        /\ UNCHANGED postings
    BY DEF ApplyPosting
  <1>2. /\ DOMAIN ps = 1 .. Len(ps) /\ Len(ps) \in Nat /\ c \in Accounts
        /\ Deltas(ps)[i] = d /\ d \in Int
        /\ \A j \in 1 .. i : Deltas(ps)[j] \in Int
    BY <1>0, DeltasTyped, ListTyped
  <1>3. staged \in [Sessions -> [Accounts -> Int]] /\ idx \in [Sessions -> Nat]
    BY <1>0 DEF TypeOK
  <1> HIDE DEF i, ps, c, d
  <1>4. staged[s][c] + d \in Int
    BY <1>2, <1>3
  <1>5. /\ staged'[s][c] = staged[s][c] + d
        /\ \A t \in Sessions, b \in Accounts : t # s \/ b # c => staged'[t][b] = staged[t][b]
    BY <1>1, <1>2, <1>3, <1>4, UpdateEntry
  <1>6. idx'[s] - 1 = i /\ \A t \in Sessions : t # s => idx'[t] = idx[t]
    BY <1>0, <1>1, <1>3 DEF i
  <1> SUFFICES ASSUME NEW t \in Sessions, NEW a \in Accounts
               PROVE  staged'[t][a] = SumOver(Deltas(postings[t]), {j \in 1 .. (idx'[t] - 1) : postings[t][j].account_id = a})
    BY <1>1 DEF StagedIsApplied, AppliedOn, Applied
  <1>7. CASE t # s
    BY <1>5, <1>6, <1>7 DEF StagedIsApplied, AppliedOn, Applied
  <1>8. CASE t = s
    <2> DEFINE Before == {j \in 1 .. (i - 1) : ps[j].account_id = a}
               Now == {j \in 1 .. i : ps[j].account_id = a}
    <2>1. staged[s][a] = SumOver(Deltas(ps), Before)
      BY DEF StagedIsApplied, AppliedOn, Applied, i, ps
    <2>2. Now = IF a = c THEN Before \cup {i} ELSE Before
      BY <1>0, <1>2 DEF c
    <2>3. IsFiniteSet(Before) /\ i \notin Before /\ \A j \in Before \cup {i} : Deltas(ps)[j] \in Int
      <3>1. IsFiniteSet(1 .. (i - 1))
        BY <1>0, FS_Interval
      <3> QED  BY <1>0, <1>2, <3>1, FS_Subset
    <2> HIDE DEF Before, Now
    <2>4. SumOver(Deltas(ps), Before \cup {i}) = SumOver(Deltas(ps), Before) + d
      BY <1>2, <2>3, SumAdd
    <2>5. staged'[s][a] = SumOver(Deltas(ps), Now)
      <3>1. CASE a = c
        BY <1>5, <2>1, <2>2, <2>4, <3>1
      <3>2. CASE a # c
        BY <1>5, <2>1, <2>2, <3>2
      <3> QED  BY <3>1, <3>2
    <2>6. {j \in 1 .. (idx'[t] - 1) : postings[t][j].account_id = a} = Now
      BY <1>6, <1>8 DEF Now, ps
    <2> QED  BY <1>8, <2>5, <2>6 DEF ps
  <1> QED  BY <1>7, <1>8

\* Every step keeps the entries those of the list under way.
LEMMA StagedStep ==
    ASSUME BatchLists = {}, IInv, StagedIsApplied, [Next]_vars
    PROVE  StagedIsApplied'
  <1>1. ASSUME UNCHANGED <<postings, idx, staged>>
        PROVE  StagedIsApplied'
    BY <1>1 DEF StagedIsApplied, AppliedOn, Applied
  <1>2. CASE UNCHANGED vars
    BY <1>1, <1>2 DEF vars
  <1>3. ASSUME NEW s \in Sessions, NEW ps \in PostingLists, post(s, ps) \/ Refuse(s, ps)
        PROVE  StagedIsApplied'
    BY <1>3, EndStaged, PostStaged DEF Refuse, Abort
  <1>4. ASSUME NEW s \in Sessions, Acquire(s)
        PROVE  StagedIsApplied'
    BY <1>1, <1>4 DEF Acquire, LockRow, InsertRow
  <1>5. ASSUME NEW s \in Sessions, Work(s)
        PROVE  StagedIsApplied'
    BY <1>1, <1>5, EndStaged, ApplyStaged DEF Work, MissRow, InsertConflict, InsufficientFunds, Abort, Commit
  <1>6. ASSUME NEW s \in Sessions, Rollback(s)
        PROVE  StagedIsApplied'
    BY <1>6, EndStaged DEF Rollback, Abort
  <1> QED  BY <1>2, <1>3, <1>4, <1>5, <1>6 DEF Next

\* LedgerSpec sums and validates as the ledger does.
LEMMA SameOperators ==
    ASSUME NEW ps, NEW a
    PROVE  /\ Serial!validate_balanced(ps) <=> validate_balanced(ps)
           /\ Serial!Effect(ps, a) = Effect(ps, a)
  <1>1. \A f, S : Serial!SumOver(f, S) = SumOver(f, S)
    BY DEF SumOver, Serial!SumOver, MapThenSumSet, Serial!MapThenSumSet, MapThenFoldSet, Serial!MapThenFoldSet
  <1>2. Serial!Deltas(ps) = Deltas(ps)
    BY DEF Deltas, Serial!Deltas, Delta, Serial!Delta
  <1>3. Serial!validate_balanced(ps) <=> validate_balanced(ps)
    BY <1>1, <1>2 DEF Serial!validate_balanced, validate_balanced, Serial!Net, Net
  <1>4. Serial!Effect(ps, a) = Effect(ps, a)
    BY <1>1, <1>2 DEF Serial!Effect, Effect
  <1> QED  BY <1>3, <1>4

\* A commit is the atomic posting of the session's list.
LEMMA CommitIsPost ==
    ASSUME IInv, NetInv, StagedIsApplied, NEW s \in Sessions, Commit(s)
    PROVE  Serial!Next
  <1> DEFINE ps == postings[s]
  <1>0. /\ TypeOK /\ pc[s] = "posted"
        /\ balance' = [a \in Accounts |-> IF owner[a] = s THEN work[s][a] ELSE balance[a]]
        /\ posted' = [a \in Accounts |-> posted[a] + staged[s][a]]
    BY DEF IInv, Commit
  <1>1. validate_balanced(ps) /\ idx[s] = Len(ps) + 1 /\ ps \in PostingLists \cup {<<>>}
    BY <1>0 DEF NetInv, Balanced, TypeOK
  <1>2. ps \in PostingLists
    <2>1. Len(ps) >= 2
      BY <1>1 DEF validate_balanced
    <2>2. ps # <<>>
      BY <2>1
    <2> QED  BY <1>1, <2>2
  <1>3. DOMAIN ps = 1 .. Len(ps) /\ Len(ps) \in Nat
    BY <1>1, DeltasTyped
  <1>4. \A a \in Accounts : staged[s][a] = Effect(ps, a)
    <2> SUFFICES ASSUME NEW a \in Accounts PROVE staged[s][a] = Effect(ps, a)
      OBVIOUS
    <2>1. Applied(s) = DOMAIN ps
      BY <1>1, <1>3 DEF Applied
    <2>2. AppliedOn(s, a) = {j \in DOMAIN ps : ps[j].account_id = a}
      BY <2>1 DEF AppliedOn
    <2> QED  BY <2>2 DEF StagedIsApplied, Effect
  <1>5. \A a \in Accounts : (IF owner[a] = s THEN work[s][a] ELSE balance[a]) = balance[a] + staged[s][a]
    BY <1>0 DEF IInv, LockedView, TypeOK
  <1>6. balance' = [a \in Accounts |-> balance[a] + Effect(ps, a)]
    BY <1>0, <1>4, <1>5
  <1>7. posted' = [a \in Accounts |-> posted[a] + Effect(ps, a)]
    BY <1>0, <1>4
  <1>8. \A a \in Accounts : balance'[a] >= 0
    BY CommitIInv DEF IInv, NonNegative
  <1> HIDE DEF ps
  <1>9. Serial!PostAtomically(ps)
    BY <1>1, <1>6, <1>7, <1>8, SameOperators DEF Serial!PostAtomically
  <1> QED  BY <1>2, <1>9 DEF Serial!Next

\* Concurrent post() calls implement LedgerSpec: for any number of sessions,
\* the committed tables change by whole posting lists, one at a time, and
\* never to a negative balance.  Of transactions with one post() each: a
\* sweep commits several lists in one step.
THEOREM PostsImplementSpec ==
    ASSUME BatchLists = {}
    PROVE  Spec => PostsAreSerial
  <1> DEFINE J == IInv /\ NetInv /\ StagedIsApplied
  <1>1. Init => J
    <2> SUFFICES ASSUME Init PROVE StagedIsApplied
      BY InitIInv, InitNetInv
    <2> SUFFICES ASSUME NEW s \in Sessions, NEW a \in Accounts
                 PROVE  staged[s][a] = SumOver(Deltas(postings[s]), AppliedOn(s, a))
      BY DEF StagedIsApplied
    <2>1. staged[s][a] = 0 /\ AppliedOn(s, a) = {}
      BY DEF Init, NoMoney, AppliedOn, Applied
    <2> QED  BY <2>1, SumEmpty
  <1>2. J /\ [Next]_vars => J'
    BY NextIInv, NextNetInv, StagedStep
  <1>3. Init => Serial!Init
    BY DEF Init, Serial!Init, NoMoney
  <1>4. J /\ [Next]_vars => [Serial!Next]_<<balance, posted>>
    <2> SUFFICES ASSUME J, [Next]_vars, ~ UNCHANGED <<balance, posted>> PROVE Serial!Next
      OBVIOUS
    <2>1. PICK s \in Sessions : Commit(s)
      BY DEF Next, vars, tables, post, Refuse, Abort, Acquire, LockRow, InsertRow, Work, MissRow, InsertConflict, ApplyPosting, InsufficientFunds, Rollback
    <2> QED  BY <2>1, CommitIsPost
  <1> QED  BY <1>1, <1>2, <1>3, <1>4, PTL DEF Spec, PostsAreSerial, Serial!Spec
===============================================================================
