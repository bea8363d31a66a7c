------------------------------ MODULE MCHandlers ------------------------------
(* An instance of Handlers for TLC.                                          *)
EXTENDS Handlers, TLC

CONSTANTS s1, s2, p1, p2, p3, e1

MCAccounts == 1 .. 3   \* 1 is the suspense account, the lowest of all ids

\* Payments in both directions between two wallets, and one drawn on the
\* suspense account.
MCOrders == [p \in Payments |-> CASE p = p1 -> [payer |-> 3, payee |-> 2, amount |-> 1]
                                  [] p = p2 -> [payer |-> 2, payee |-> 3, amount |-> 1]
                                  [] p = p3 -> [payer |-> 1, payee |-> 3, amount |-> 2]]

\* Two pending holds and a payment made; a payment to come, a pending one, and
\* one whose provider is being asked.
MCStarts ==
    {[p \in Payments |-> IF p = p3 THEN "SUCCEEDED" ELSE "AUTHORIZED"],
     [p \in Payments |-> IF p = p1 THEN "none" ELSE IF p = p2 THEN "AUTHORIZED" ELSE "PROCESSING"]}

\* Wallet 3 has no money and no balance row yet.
MCOpening == <<2, 1, 0>>
MCRows == {1, 2}

Captured == [id |-> e1, payment |-> p1, type |-> "capture"]
FailedLater == [id |-> NoId, payment |-> p2, type |-> "fail"]
MCEvents == {Captured, FailedLater}

Lists == {Transfer(a, b, m) : a, b \in MCAccounts, m \in 1 .. 2}
Reversals == {Transfer(1, MCOrders[p].payer, MCOrders[p].amount) : p \in Payments}
===============================================================================
