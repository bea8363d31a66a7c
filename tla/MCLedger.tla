------------------------------- MODULE MCLedger -------------------------------
(* Instances of Ledger for TLC: three accounts and the posting lists of      *)
(* payments between them, good and bad.                                      *)
EXTENDS LedgerReads, TLC

CONSTANTS s1, s2, s3

Debit(a, m)  == [account_id |-> a, direction |-> "DEBIT", amount |-> m]
Credit(a, m) == [account_id |-> a, direction |-> "CREDIT", amount |-> m]
Transfer(a, b, m) == <<Debit(a, m), Credit(b, m)>>

MCAccounts == 1 .. 3   \* 1 is the suspense account, the lowest of all ids

\* The payee, 3, has no balance row until its first credit.
OnePayer == [a \in MCAccounts |-> IF a = 2 THEN 2 ELSE 0]
NoPayeeRow == {1, 2}

\* Hold, settle, reverse and refund of a payment of 2 to 3; a transfer from an
\* account to itself; a list of three postings.
GoodLists ==
    {Transfer(2, 1, 1), Transfer(1, 3, 1), Transfer(1, 2, 1), Transfer(3, 2, 1),
     Transfer(2, 2, 1), <<Debit(2, 2), Credit(1, 1), Credit(3, 1)>>}

\* One posting, amounts that do not add up, amounts that are not positive.
BadLists ==
    {<<Credit(1, 1)>>, <<Debit(1, 1), Credit(2, 2)>>, Transfer(1, 2, 0), Transfer(1, 2, -1)}

MCPostingLists == GoodLists \cup BadLists

NoLists == {}

Sym == Permutations(Sessions)
===============================================================================
