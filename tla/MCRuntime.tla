------------------------------ MODULE MCRuntime -------------------------------
(* Two processes; the first has three tasks for one connection. *)
EXTENDS Runtime, TLC

CONSTANTS p1, p2, r1, r2, r3, relay

AtHome == (r1 :> p1) @@ (r2 :> p1) @@ (relay :> p1) @@ (r3 :> p2)
Clients == (r1 :> {"create"}) @@ (r2 :> {"refund", "webhook", "read"})
           @@ (r3 :> {"webhook"})
===============================================================================
