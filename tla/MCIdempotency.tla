---------------------------- MODULE MCIdempotency -----------------------------
(* Instances of Idempotency for TLC.                                         *)
EXTENDS Idempotency

CONSTANTS pay, retry, changed, theirs, refund, again, m1, m2, k, body, other

\* A payment, its retry, the same key with another body; a payment of another
\* merchant; refunds of both merchants; all under the same key.
MCKind == [r \in Requests |-> IF r \in {refund, again} THEN "refund" ELSE "payment"]
MCMerchant == [r \in Requests |-> IF r \in {theirs, again} THEN m2 ELSE m1]
OneKey == [r \in Requests |-> k]
MCPayload == [r \in Requests |-> IF r \in {changed, again} THEN other ELSE body]
===============================================================================
