------------------------------- MODULE Postings -------------------------------
(***************************************************************************)
(* The posting lists of ledger_service.py: their type, the check every     *)
(* list passes before it reaches the database, and what a list does to one *)
(* account.  Pure definitions, shared by the abstract and the detailed     *)
(* ledger.                                                                 *)
(***************************************************************************)
EXTENDS Sequences, Sums

CONSTANTS Accounts,      \* account ids; their order is the lock order
          PostingLists,  \* the lists callers hand to post(), bad ones included
          Opening        \* the balances the database was seeded with

Posting == [account_id : Accounts, direction : {"DEBIT", "CREDIT"}, amount : Int]

ASSUME PostingsAssumption ==
    /\ Accounts \subseteq Nat /\ IsFiniteSet(Accounts)
    /\ PostingLists \subseteq Seq(Posting)
    /\ Opening \in [Accounts -> Nat]

\* A credit raises the account's balance, a debit lowers it.
Delta(p) == IF p.direction = "CREDIT" THEN p.amount ELSE - p.amount

Deltas(ps) == [i \in DOMAIN ps |-> Delta(ps[i])]

\* The sum validate_balanced accumulates over a list, with the sign turned
\* round: zero exactly when debits equal credits.
Net(ps) == SumOver(Deltas(ps), DOMAIN ps)

\* For the mutants: the list is accepted without summing it.
validate_balanced_NoSum(ps) ==
    /\ Len(ps) >= 2
    /\ \A i \in DOMAIN ps : ps[i].amount > 0

\* At least two postings, every amount strictly positive, debits = credits.
validate_balanced(ps) ==
    /\ Len(ps) >= 2
    /\ \A i \in DOMAIN ps : ps[i].amount > 0
    /\ Net(ps) = 0

\* What a whole list does to account a.
Effect(ps, a) == SumOver(Deltas(ps), {i \in DOMAIN ps : ps[i].account_id = a})
===============================================================================
