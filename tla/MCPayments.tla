------------------------------ MODULE MCPayments ------------------------------
(* Instances of Payments for TLC.                                            *)
EXTENDS Payments, TLC

CONSTANTS p1, p2, k1, k2, r1, r2, e1, e2, payer, payee

PayTwo == [payer |-> payer, payee |-> payee, amount |-> 2]

\* The suspense account as payer and as payee.
FromSuspense == [payer |-> Suspense, payee |-> payee, amount |-> 1]
ToSuspense == [payer |-> payer, payee |-> Suspense, amount |-> 1]

OneBody == {PayTwo}
SomeBodies == {PayTwo, FromSuspense, ToSuspense}
LiveBodies == {PayTwo, FromSuspense}

\* Enough for a payment of two and one of one, not for two of two.
Funds3 == [a \in Accounts |-> IF a = payer THEN 3 ELSE 0]
Funds2 == [a \in Accounts |-> IF a = payer THEN 2 ELSE 0]
Funds4 == [a \in Accounts |-> IF a = payer THEN 4 ELSE 0]

Sym == Permutations(Payments) \cup Permutations(Keys) \cup Permutations(RefundKeys) \cup Permutations(EventIds)
===============================================================================
