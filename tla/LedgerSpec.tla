------------------------------ MODULE LedgerSpec ------------------------------
(***************************************************************************)
(* What LedgerService.post promises its callers, with no sessions and no   *)
(* row locks: a posting list is applied to the balances and to the journal *)
(* as a whole, in one indivisible step, or it is not applied at all; no    *)
(* balance ever goes below zero.                                           *)
(***************************************************************************)
EXTENDS Postings

VARIABLES balance,       \* account_balances.balance
          posted         \* signed sum of the account's ledger_entries

-------------------------------------------------------------------------------
Init ==
    /\ balance = Opening
    /\ posted = [a \in Accounts |-> 0]

PostAtomically(ps) ==
    /\ validate_balanced(ps)
    /\ balance' = [a \in Accounts |-> balance[a] + Effect(ps, a)]
    /\ posted'  = [a \in Accounts |-> posted[a] + Effect(ps, a)]
    /\ \A a \in Accounts : balance'[a] >= 0

Next == \E ps \in PostingLists : PostAtomically(ps)

Spec == Init /\ [][Next]_<<balance, posted>>
===============================================================================
