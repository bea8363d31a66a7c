----------------------------- MODULE LedgerReads ------------------------------
(***************************************************************************)
(* The read-only routes over the ledger's tables: GET .../balance and the  *)
(* integrity report.  A read locks nothing and sees committed rows only;   *)
(* each of its statements has a snapshot of its own (READ COMMITTED), and  *)
(* sessions commit between two of them.                                    *)
(***************************************************************************)
EXTENDS Ledger

CONSTANTS Unknown      \* an account id for which there is no account

ASSUME ReadsAssumption == Unknown \notin Accounts

VARIABLES query,       \* the statement the read has come to
          asked,       \* the account it is about
          current,     \* history: balances the account has had since it began
          net,         \* ledger_net of an audit that has run its first query
          answer       \* what the finished read answered

read == <<query, asked, current, net, answer>>

ReadInit ==
    /\ Init
    /\ query = "none" /\ asked = Unknown /\ current = {} /\ net = 0 /\ answer = 0

\* SUM over ledger_entries: debits less credits.
ledger_net == - Total(posted)

\* For the mutants: a join that drops balances without entries.
drifted_accounts_Inner == {a \in rows : posted[a] # 0 /\ balance[a] # posted[a]}

\* Balance rows that differ from the sum of their entries, none counting as 0.
drifted_accounts == {a \in rows : balance[a] # posted[a]}
-------------------------------------------------------------------------------
\* The balance a finished read of account a could rightly give now.
Visible(a) == IF a \in rows THEN {balance[a]} ELSE {0}

\* First statement: the balance row joined with its account.
get_balance(a) ==
    /\ query = "none"
    /\ asked' = a
    /\ current' = IF a \in Accounts THEN Visible(a) ELSE {}
    /\ \/ a \in rows /\ query' = "answered" /\ answer' = balance[a]
       \/ a \notin rows /\ query' = "account" /\ UNCHANGED answer
    /\ UNCHANGED net

\* For the mutants: an account without a balance row is taken for unknown.
Exists_ByRow(a) == a \in rows

Exists(a) == a \in Accounts

\* Second statement, when there was no row: 0 if the account exists, else 404.
SelectAccount ==
    /\ query = "account"
    /\ query' = "answered"
    /\ answer' = IF Exists(asked) THEN 0 ELSE 404
    /\ UNCHANGED <<asked, current, net>>

\* audit_integrity, two statements.
SelectNet ==
    /\ query = "none"
    /\ query' = "drift"
    /\ net' = ledger_net
    /\ UNCHANGED <<asked, current, answer>>

SelectDrift ==
    /\ query = "drift"
    /\ query' = "audited"
    /\ answer' = Cardinality(drifted_accounts)
    /\ UNCHANGED <<asked, current, net>>

balanced == net = 0 /\ answer = 0

\* The response is sent and the connection returned.
Respond ==
    /\ query \in {"answered", "audited"}
    /\ query' = "none" /\ asked' = Unknown /\ current' = {} /\ net' = 0 /\ answer' = 0

Read ==
    \/ \E a \in Accounts \cup {Unknown} : get_balance(a)
    \/ SelectAccount \/ SelectNet \/ SelectDrift \/ Respond

\* A step of the ledger while a read may be under way.
LedgerStep ==
    /\ Next
    /\ UNCHANGED <<query, asked, net, answer>>
    /\ current' = IF query = "account" /\ asked \in Accounts
                  THEN current \cup Visible(asked)' ELSE current

ReadSpec == ReadInit /\ [][LedgerStep \/ (Read /\ UNCHANGED vars)]_<<vars, read>>
-------------------------------------------------------------------------------
(* Properties *)

\* A balance that was answered was the account's committed balance at some
\* moment of the request, also when the row is created between the two
\* statements; 404 is answered exactly for ids without an account.
BalanceAnswersAreCurrent ==
    query = "answered" => IF asked \in Accounts THEN answer \in current ELSE answer = 404

\* However posts commit before, between and after the two queries of the
\* audit, it reports net zero and counts exactly the balance rows that were
\* seeded with money and no entries, never one that post() is at work on; it
\* calls the ledger balanced exactly when there are none.  The repository's own
\* test contradicts this: tests/test_reconciliation.py asserts a balanced report
\* with no drifted account over the balances tests/conftest.py seeds.
AuditFlagsOnlySeeded ==
    query = "audited" =>
        /\ net = 0
        /\ answer = Cardinality({a \in SeededRows : Opening[a] # 0})
        /\ balanced <=> \A a \in SeededRows : Opening[a] = 0
===============================================================================
