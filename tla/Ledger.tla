-------------------------------- MODULE Ledger --------------------------------
(***************************************************************************)
(* LedgerService.post as the database sees it: concurrent sessions, each   *)
(* with one open transaction, locking account_balances rows one statement  *)
(* at a time.                                                              *)
(*                                                                         *)
(* Between two awaits of a session any other session may run.  Writes of   *)
(* an open transaction are private to it: `work' is the session's          *)
(* balances_map and `staged' its uncommitted ledger_entries.  A commit     *)
(* publishes both and releases the row locks; a rollback drops them.  The  *)
(* journal is kept as one signed sum per account, which is all that the    *)
(* audit, the trigger and the balances relate to.                          *)
(***************************************************************************)
EXTENDS Postings

CONSTANTS Sessions,    \* concurrent database sessions
          SeededRows,  \* accounts whose balance row exists at the start
          BatchLists,  \* the lists of which one transaction may post several
          MaxPosts,    \* post() calls one transaction may make
          Free         \* the owner of a row nobody has locked

VARIABLES balance,     \* account_balances.balance, as committed
          posted,      \* signed sum of the account's committed ledger_entries
          rows,        \* accounts that have a committed balance row
          owner,       \* the session that holds a row's FOR UPDATE lock
          pc,          \* where the session's transaction stands
          postings,    \* the list its current post() was called with
          todo,        \* sorted_account_ids not locked yet
          idx,         \* the posting the apply loop is at
          work,        \* balances_map: the session's view of locked balances
          staged,      \* its uncommitted ledger entries, summed per account
          posts        \* post() calls made in the open transaction

tables  == <<balance, posted, rows>>
session == <<pc, postings, todo, idx, work, staged, posts>>
vars    == <<balance, posted, rows, owner, pc, postings, todo, idx, work, staged, posts>>

ASSUME LedgerAssumption ==
    /\ SeededRows \subseteq Accounts
    /\ \A a \in Accounts \ SeededRows : Opening[a] = 0
    /\ BatchLists \subseteq PostingLists
    /\ MaxPosts \in Nat
    /\ Free \notin Sessions

NoMoney == [a \in Accounts |-> 0]
AccountsOf(ps) == {ps[i].account_id : i \in DOMAIN ps}

Init ==
    /\ balance = Opening
    /\ posted = NoMoney
    /\ rows = SeededRows
    /\ owner = [a \in Accounts |-> Free]
    /\ pc = [s \in Sessions |-> "idle"]
    /\ postings = [s \in Sessions |-> <<>>]
    /\ todo = [s \in Sessions |-> {}]
    /\ idx = [s \in Sessions |-> 1]
    /\ work = [s \in Sessions |-> NoMoney]
    /\ staged = [s \in Sessions |-> NoMoney]
    /\ posts = [s \in Sessions |-> 0]
-------------------------------------------------------------------------------
Unlocked(s) == [a \in Accounts |-> IF owner[a] = s THEN Free ELSE owner[a]]

(* The transaction of session s ends: its locks go, its private writes too. *)
EndTransaction(s) ==
    /\ owner' = Unlocked(s)
    /\ pc' = [pc EXCEPT ![s] = "idle"]
    /\ postings' = [postings EXCEPT ![s] = <<>>]
    /\ todo' = [todo EXCEPT ![s] = {}]
    /\ idx' = [idx EXCEPT ![s] = 1]
    /\ work' = [work EXCEPT ![s] = NoMoney]
    /\ staged' = [staged EXCEPT ![s] = NoMoney]
    /\ posts' = [posts EXCEPT ![s] = 0]

Abort(s) == EndTransaction(s) /\ UNCHANGED tables

\* post() may start: no transaction is open, or it is one that posts several
\* lists (expire_stale_holds reverses one payment after another) and has
\* finished the last.
CanPost(s, ps) ==
    \/ pc[s] = "idle"
    \/ pc[s] = "posted" /\ {postings[s], ps} \subseteq BatchLists /\ posts[s] < MaxPosts

\* validate_balanced passes; the LedgerTransaction row is added and the
\* distinct account ids become the rows to lock.
post(s, ps) ==
    /\ CanPost(s, ps)
    /\ validate_balanced(ps)
    /\ pc' = [pc EXCEPT ![s] = "lock"]
    /\ postings' = [postings EXCEPT ![s] = ps]
    /\ todo' = [todo EXCEPT ![s] = AccountsOf(ps)]
    /\ idx' = [idx EXCEPT ![s] = 1]
    /\ posts' = [posts EXCEPT ![s] = @ + 1]
    /\ UNCHANGED <<tables, owner, work, staged>>

\* validate_balanced raises and the caller's transaction rolls back.
Refuse(s, ps) ==
    /\ CanPost(s, ps)
    /\ ~ validate_balanced(ps)
    /\ Abort(s)

\* For the mutants: the loop follows no order.
NextRow_AnyOrder(s, a) == a \in todo[s]

\* The loop over sorted_account_ids has reached account a.
NextRow(s, a) == a \in todo[s] /\ \A b \in todo[s] : a =< b

Advance(s, a) ==
    /\ todo' = [todo EXCEPT ![s] = @ \ {a}]
    /\ pc' = [pc EXCEPT ![s] = IF todo[s] = {a} THEN "apply" ELSE "lock"]

\* For the mutants: SELECT without FOR UPDATE, so the row may be locked.
Lockable_Ignored(s, a) == TRUE

\* The row is free, or this transaction already holds it.
Lockable(s, a) == owner[a] \in {Free, s}

\* A row the transaction holds is not read again: its own value stays.
RowView(s, a) == IF owner[a] = s THEN work[s][a] ELSE balance[a]

\* SELECT ... FOR UPDATE finds the row and gets its lock.
LockRow(s, a) ==
    /\ pc[s] = "lock" /\ NextRow(s, a)
    /\ a \in rows \/ owner[a] = s
    /\ Lockable(s, a)
    /\ owner' = [owner EXCEPT ![a] = s]
    /\ work' = [work EXCEPT ![s][a] = RowView(s, a)]
    /\ Advance(s, a)
    /\ UNCHANGED <<tables, postings, idx, staged, posts>>

\* SELECT ... FOR UPDATE finds no committed row: an insert another session
\* has not committed is invisible, so this statement does not wait for it.
MissRow(s, a) ==
    /\ pc[s] = "lock" /\ NextRow(s, a)
    /\ a \notin rows /\ owner[a] # s
    /\ pc' = [pc EXCEPT ![s] = "insert"]
    /\ UNCHANGED <<tables, owner, postings, todo, idx, work, staged, posts>>

\* The missing row is created with balance 0.  The primary key makes the
\* statement wait for another session's uncommitted insert of the same row.
InsertRow(s, a) ==
    /\ pc[s] = "insert" /\ NextRow(s, a)
    /\ a \notin rows /\ owner[a] = Free
    /\ owner' = [owner EXCEPT ![a] = s]
    /\ work' = [work EXCEPT ![s][a] = 0]
    /\ Advance(s, a)
    /\ UNCHANGED <<tables, postings, idx, staged, posts>>

\* Another session committed the same row first: IntegrityError.
InsertConflict(s, a) ==
    /\ pc[s] = "insert" /\ NextRow(s, a)
    /\ a \in rows
    /\ Abort(s)

\* For the mutants: the balance check is dropped.
Affordable_Always(s) == TRUE

Affordable(s) ==
    LET p == postings[s][idx[s]]
    IN  p.direction = "DEBIT" => work[s][p.account_id] >= p.amount

\* One turn of the apply loop: the entry and the cached balance move together.
ApplyPosting(s) ==
    /\ pc[s] = "apply" /\ Affordable(s)
    /\ LET p == postings[s][idx[s]]
       IN  /\ work' = [work EXCEPT ![s][p.account_id] = @ + Delta(p)]
           /\ staged' = [staged EXCEPT ![s][p.account_id] = @ + Delta(p)]
    /\ idx' = [idx EXCEPT ![s] = @ + 1]
    /\ pc' = [pc EXCEPT ![s] = IF idx[s] = Len(postings[s]) THEN "posted" ELSE "apply"]
    /\ UNCHANGED <<tables, owner, postings, todo, posts>>

\* InsufficientFundsException leaves post() with earlier postings of the
\* list already applied in memory; the rollback undoes them.
InsufficientFunds(s) ==
    /\ pc[s] = "apply" /\ ~ Affordable(s)
    /\ Abort(s)

\* session.begin() ends normally after the last post() of the transaction.
Commit(s) ==
    /\ pc[s] = "posted"
    /\ balance' = [a \in Accounts |-> IF owner[a] = s THEN work[s][a] ELSE balance[a]]
    /\ posted' = [a \in Accounts |-> posted[a] + staged[s][a]]
    /\ rows' = rows \cup {a \in Accounts : owner[a] = s}
    /\ EndTransaction(s)

\* Any other exception, a cancelled request, a lost connection, a crash of the
\* process, or the database's deadlock detector: the transaction disappears.
Rollback(s) == pc[s] # "idle" /\ Abort(s)
-------------------------------------------------------------------------------
(* Who waits for whom.  A session waits for a row another session holds.   *)
Awaits(s, a) ==
    /\ NextRow(s, a)
    /\ \/ pc[s] = "lock" /\ a \in rows
       \/ pc[s] = "insert" /\ a \notin rows

WaitsFor(s, t) == s # t /\ \E a \in Accounts : Awaits(s, a) /\ owner[a] = t

Deadlocked(D) == \A s \in D : \E t \in D : WaitsFor(s, t)

Work(s) ==
    \/ \E a \in Accounts : MissRow(s, a) \/ InsertConflict(s, a)
    \/ ApplyPosting(s) \/ InsufficientFunds(s) \/ Commit(s)

Acquire(s) == \E a \in Accounts : LockRow(s, a) \/ InsertRow(s, a)

Next ==
    \E s \in Sessions :
        \/ \E ps \in PostingLists : post(s, ps) \/ Refuse(s, ps)
        \/ Acquire(s)
        \/ Work(s)
        \/ Rollback(s)

Spec == Init /\ [][Next]_vars
-------------------------------------------------------------------------------
Total(f) == SumOver(f, Accounts)
-------------------------------------------------------------------------------
(* Properties *)

\* The values every variable ranges over.
TypeOK ==
    /\ balance \in [Accounts -> Nat]
    /\ posted \in [Accounts -> Int]
    /\ rows \subseteq Accounts
    /\ owner \in [Accounts -> Sessions \cup {Free}]
    /\ pc \in [Sessions -> {"idle", "lock", "insert", "apply", "posted"}]
    /\ postings \in [Sessions -> PostingLists \cup {<<>>}]
    /\ todo \in [Sessions -> SUBSET Accounts]
    /\ idx \in [Sessions -> Nat]
    /\ work \in [Sessions -> [Accounts -> Int]]
    /\ staged \in [Sessions -> [Accounts -> Int]]
    /\ posts \in [Sessions -> Nat]

\* The cached balance never drifts from the journal: under every interleaving
\* of concurrent post() calls, aborted ones included, each committed balance
\* is the seeded one plus the account's ledger entries (no lost update
\* between SELECT FOR UPDATE and commit).
BalanceMatchesPostings == \A a \in Accounts : balance[a] = Opening[a] + posted[a]

\* No account is overdrawn: neither a committed balance nor one a running
\* transaction is about to commit is negative, so CHECK (balance >= 0) on
\* account_balances never fires.
NonNegative ==
    \A a \in Accounts :
        /\ balance[a] >= 0
        /\ \A s \in Sessions : owner[a] = s => work[s][a] >= 0

\* Money is neither made nor lost: the committed entries of all accounts sum
\* to zero (the audit's ledgerNet), and so do the entries of a transaction
\* that is ready to commit, so the deferred trigger never refuses one.
NetZero ==
    /\ Total(posted) = 0
    /\ \A s \in Sessions : pc[s] = "posted" => Total(staged[s]) = 0

\* No balance, committed or about to be written by a flush, exceeds the money
\* the database was seeded with: credits are matched by debits of the same
\* list before anything is flushed.  So if that total fits a BIGINT, no post()
\* ever fails with an overflow.
BalancesFit ==
    \A a \in Accounts :
        /\ balance[a] =< Total(Opening)
        /\ \A s \in Sessions : pc[s] = "posted" /\ owner[a] = s => work[s][a] =< Total(Opening)

\* A transaction still acquiring rows only holds rows below those it has yet
\* to lock.  True of transactions with one post().
LocksAscend ==
    \A s \in Sessions : \A a, b \in Accounts :
        owner[a] = s /\ b \in todo[s] => a < b

\* No set of sessions waits for one another's balance rows: the sorted lock
\* order of post() rules the cycle out.
NoDeadlock == \A D \in SUBSET Sessions : D # {} => ~ Deadlocked(D)

\* Concurrent post() calls are equivalent to some serial order of whole
\* posting lists: the committed tables implement LedgerSpec.
Serial == INSTANCE LedgerSpec WITH balance <- balance, posted <- posted
PostsAreSerial == Serial!Spec
===============================================================================
