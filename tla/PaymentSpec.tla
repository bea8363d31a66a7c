----------------------------- MODULE PaymentSpec ------------------------------
(***************************************************************************)
(* What the engine promises about the money of a payment, with no keys, no *)
(* handlers, no provider and no transactions: it is held once, then either *)
(* paid out once or returned once, then refunded up to its amount, and the *)
(* money moves in the step that says so.                                   *)
(***************************************************************************)
EXTENDS Sums

CONSTANTS Payments,     \* payment ids
          Accounts,     \* all accounts
          Suspense,     \* the one of them where held money is
          Orders,       \* who pays whom how much
          Opening,      \* what the accounts hold at the start
          None          \* no order yet

VARIABLES phase,        \* none, held, paid or returned
          order,        \* the payment's order
          refunded,     \* how much of it was refunded
          funds         \* what the accounts hold

vars == <<phase, order, refunded, funds>>

Phases == {"none", "held", "paid", "returned"}

\* The engine comes up over a database that earlier payments have left.
Init ==
    /\ phase \in [Payments -> Phases]
    /\ order \in [Payments -> Orders \cup {None}]
    /\ \A p \in Payments : phase[p] = "none" <=> order[p] = None
    /\ refunded = [p \in Payments |-> 0]
    /\ funds = Opening

\* What a transfer of m from d to c does to account a.
Change(d, c, m, a) == (IF a = c THEN m ELSE 0) - (IF a = d THEN m ELSE 0)

Hold(p, o) ==
    /\ phase[p] = "none" /\ funds[o.payer] >= o.amount
    /\ phase' = [phase EXCEPT ![p] = "held"]
    /\ order' = [order EXCEPT ![p] = o]
    /\ funds' = [a \in Accounts |-> funds[a] + Change(o.payer, Suspense, o.amount, a)]
    /\ UNCHANGED refunded

\* Held money goes to the payee.
Settle(p) ==
    /\ phase[p] = "held" /\ funds[Suspense] >= order[p].amount
    /\ phase' = [phase EXCEPT ![p] = "paid"]
    /\ funds' = [a \in Accounts |->
                    funds[a] + Change(Suspense, order[p].payee, order[p].amount, a)]
    /\ UNCHANGED <<order, refunded>>

\* Held money of some payments goes back to their payers.
Return(S) ==
    /\ \A p \in S : phase[p] = "held"
    /\ phase' = [p \in Payments |-> IF p \in S THEN "returned" ELSE phase[p]]
    /\ funds' = [a \in Accounts |-> funds[a] + SumOver(
                    [p \in S |-> Change(Suspense, order[p].payer, order[p].amount, a)], S)]
    /\ funds'[Suspense] >= 0
    /\ UNCHANGED <<order, refunded>>

Refund(p, m) ==
    /\ phase[p] = "paid" /\ refunded[p] + m =< order[p].amount /\ funds[order[p].payee] >= m
    /\ refunded' = [refunded EXCEPT ![p] = @ + m]
    /\ funds' = [a \in Accounts |-> funds[a] + Change(order[p].payee, order[p].payer, m, a)]
    /\ UNCHANGED <<phase, order>>

Next ==
    \/ \E p \in Payments :
          \/ Settle(p)
          \/ \E o \in Orders : Hold(p, o)
          \/ phase[p] = "paid" /\ \E m \in 1 .. order[p].amount : Refund(p, m)
    \/ \E S \in SUBSET Payments : S # {} /\ Return(S)

Spec == Init /\ [][Next]_vars
===============================================================================
