------------------------------- MODULE MCOutbox -------------------------------
(* An instance of Outbox for TLC: the three events of a payment and one of    *)
(* another.                                                                  *)
EXTENDS Outbox

CONSTANTS processing, succeeded, refund, other, relay1, relay2

\* A refund locks the payment row after the payment has succeeded.
MCEarlier == [e \in Events |-> CASE e \in {processing, other} -> First
                                 [] e = succeeded -> processing
                                 [] e = refund -> succeeded]
===============================================================================
