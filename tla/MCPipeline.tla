------------------------------ MODULE MCPipeline ------------------------------
(* An instance of Pipeline for TLC.                                          *)
EXTENDS Pipeline

CONSTANTS p1, k1, r1, e1, payer, payee, relay1

OneBody == {[payer |-> payer, payee |-> payee, amount |-> 1]}
Funds == [a \in Accounts |-> IF a = payer THEN 1 ELSE 0]
===============================================================================
