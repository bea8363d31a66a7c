------------------------------- MODULE Runtime --------------------------------
(***************************************************************************)
(* What the handlers run on: application processes with one event loop and *)
(* one connection pool each (database.py, dependencies.py, main.py), the   *)
(* balance row of the suspense account, which every hold and every release *)
(* locks, Redis and the payment provider.                                  *)
(*                                                                         *)
(* A task goes through the awaits of its route one by one.  Sending a      *)
(* request to a server, and going on with its answer, needs the loop of    *)
(* the process; the servers work while the loop is busy.  The Stripe       *)
(* client is synchronous: its call keeps the loop until it is answered.    *)
(* A session takes its connection from the pool with its first statement,  *)
(* after the Redis call, and gives it back when its transaction is over.   *)
(***************************************************************************)
EXTENDS Integers, Sequences, FiniteSets

CONSTANTS Processes,    \* application processes
          Requests,     \* clients, each with one request at a time
          Relays,       \* the relay task of a process
          Home,         \* the process a task runs in
          Serves,       \* the routes a client uses
          PoolSize,     \* DB_POOL_SIZE + DB_MAX_OVERFLOW
          Synchronous,  \* PSP_PROVIDER is stripe, with a key
          Nobody        \* holder of a free row

Tasks == Requests \cup Relays

VARIABLES todo,         \* the awaits a task has before it
          sent,         \* tasks whose first await is with a server
          pooled,       \* tasks that have a connection of the pool
          row,          \* the task whose transaction has locked suspense
          phase         \* of a process: up, stopping or down

vars == <<todo, sent, pooled, row, phase>>

InTransaction(statement) == <<"checkout", statement, "end", "checkin">>

\* For the mutants: transaction 2 inside the session of transaction 1.
CreateRoute_Nested ==
    <<"redis", "checkout", "lock", "end", "psp">> \o InTransaction("lock") \o <<"checkin">>

\* Claim and hold, the provider's call, settle or reverse.
CreateRoute == <<"redis">> \o InTransaction("lock") \o <<"psp">> \o InTransaction("lock")

\* A refund claims its key and moves money between wallets.  The payment's row
\* and the wallets' rows it waits for are left out: their holders are sessions
\* that have their connection, so their wait ends as the suspense row's does.
RefundRoute == <<"redis">> \o InTransaction("query")

\* A webhook releases money from suspense.
WebhookRoute == InTransaction("lock")

\* Balances, postings, payments, the report: a session that only reads.
ReadRoute == InTransaction("query")

DrainRoute == InTransaction("query")

Routes == [create |-> CreateRoute, refund |-> RefundRoute, webhook |-> WebhookRoute,
           read |-> ReadRoute, drain |-> DrainRoute]

ASSUME RuntimeAssumption ==
    /\ Requests \cap Relays = {} /\ Nobody \notin Tasks
    /\ Home \in [Tasks -> Processes]
    /\ Serves \in [Requests -> SUBSET (DOMAIN Routes \ {"drain"})]
    /\ PoolSize \in Nat \ {0} /\ Synchronous \in BOOLEAN

Init ==
    /\ todo = [t \in Tasks |-> <<>>]
    /\ sent = {} /\ pooled = {} /\ row = Nobody
    /\ phase = [p \in Processes |-> "up"]

Idle(t) == todo[t] = <<>>
Await(t) == IF Idle(t) THEN "none" ELSE Head(todo[t])
Drop(t) == todo' = [todo EXCEPT ![t] = Tail(@)]

\* The loop is inside the provider's client.
Frozen(p) == Synchronous /\ \E t \in sent : Home[t] = p /\ Await(t) = "psp"

\* The loop can run the task: it waits for no server.
Runs(t) == phase[Home[t]] # "down" /\ ~ Frozen(Home[t]) /\ t \notin sent
-------------------------------------------------------------------------------
(* Tasks *)

Serve(t, route) ==
    /\ t \in Requests /\ route \in Serves[t]
    /\ phase[Home[t]] = "up" /\ Runs(t) /\ Idle(t)
    /\ todo' = [todo EXCEPT ![t] = Routes[route]]
    /\ UNCHANGED <<sent, pooled, row, phase>>

\* The next turn of run_loop, after a batch, a sleep or an exception.
DrainAgain(t) ==
    /\ t \in Relays
    /\ phase[Home[t]] # "down" /\ Runs(t) /\ Idle(t)
    /\ todo' = [todo EXCEPT ![t] = DrainRoute]
    /\ UNCHANGED <<sent, pooled, row, phase>>

\* A statement, a Redis command or the provider's call leaves the process.
Send(t) ==
    /\ Runs(t) /\ Await(t) \in {"redis", "query", "lock", "end", "psp"}
    /\ sent' = sent \cup {t}
    /\ UNCHANGED <<todo, pooled, row, phase>>

InUse(p) == Cardinality({t \in pooled : Home[t] = p})

Checkout(t) ==
    /\ Runs(t) /\ Await(t) = "checkout"
    /\ InUse(Home[t]) < PoolSize
    /\ pooled' = pooled \cup {t}
    /\ Drop(t)
    /\ UNCHANGED <<sent, row, phase>>

\* The pool is exhausted for too long: the task's session raises.
CheckoutTimesOut(t) ==
    /\ Runs(t) /\ Await(t) = "checkout"
    /\ InUse(Home[t]) >= PoolSize
    /\ todo' = [todo EXCEPT ![t] = <<>>]
    /\ UNCHANGED <<sent, pooled, row, phase>>

Checkin(t) ==
    /\ Runs(t) /\ Await(t) = "checkin"
    /\ pooled' = pooled \ {t}
    /\ Drop(t)
    /\ UNCHANGED <<sent, row, phase>>

\* For the mutants: the session is not closed after an exception.
Unwind_Keep == <<"end">>

Unwind == <<"end", "checkin">>

\* An exception or a replay leaves the block of the transaction early.
Leave(t) ==
    /\ Runs(t) /\ t \in pooled /\ Await(t) # "checkin" /\ todo[t] # Unwind
    /\ todo' = [todo EXCEPT ![t] = Unwind]
    /\ UNCHANGED <<sent, pooled, row, phase>>

\* authorize() raises between the transactions: the request is over.
ProviderRaises(t) ==
    /\ t \in sent /\ Await(t) = "psp"
    /\ todo' = [todo EXCEPT ![t] = <<>>]
    /\ sent' = sent \ {t}
    /\ UNCHANGED <<pooled, row, phase>>

\* acquire() catches an error of Redis, and what it returns is not looked at, so
\* every answer lets the task go on, as do the answers of the other servers.
\* The client sets no socket time-out: a Redis that accepts the command and
\* says nothing is waited for until TCP gives up, which the fairness below
\* counts as an answer.
Answer(t) ==
    /\ t \in sent /\ Await(t) \in {"redis", "query", "psp"}
    /\ sent' = sent \ {t}
    /\ Drop(t)
    /\ UNCHANGED <<pooled, row, phase>>

\* The database gives the row to a waiting transaction.
Grant(t) ==
    /\ t \in sent /\ Await(t) = "lock" /\ row = Nobody
    /\ row' = t
    /\ sent' = sent \ {t}
    /\ Drop(t)
    /\ UNCHANGED <<pooled, phase>>

Unlocked(t) == IF row = t THEN Nobody ELSE row

\* COMMIT or ROLLBACK is carried out.
EndTransaction(t) ==
    /\ t \in sent /\ Await(t) = "end"
    /\ row' = Unlocked(t)
    /\ sent' = sent \ {t}
    /\ Drop(t)
    /\ UNCHANGED <<pooled, phase>>
-------------------------------------------------------------------------------
(* Processes *)

In(p) == {t \in Tasks : Home[t] = p}

\* What the tasks of a process had is gone: the database rolls back and frees
\* what its connections held.
Gone(p) ==
    /\ todo' = [t \in Tasks |-> IF t \in In(p) THEN <<>> ELSE todo[t]]
    /\ sent' = sent \ In(p)
    /\ pooled' = pooled \ In(p)
    /\ row' = IF row \in In(p) THEN Nobody ELSE row
    /\ phase' = [phase EXCEPT ![p] = "down"]

Crash(p) == phase[p] # "down" /\ Gone(p)

\* The server accepts no more requests, and answers those it has.
Stop(p) ==
    /\ phase[p] = "up"
    /\ phase' = [phase EXCEPT ![p] = "stopping"]
    /\ UNCHANGED <<todo, sent, pooled, row>>

\* Then lifespan() goes on behind its yield: the relay is cancelled, wherever
\* it is, and waited for.
lifespan_end(p) ==
    /\ phase[p] = "stopping"
    /\ \A t \in Requests \cap In(p) : Idle(t)
    /\ Gone(p)

lifespan_start(p) ==
    /\ phase[p] = "down"
    /\ phase' = [phase EXCEPT ![p] = "up"]
    /\ UNCHANGED <<todo, sent, pooled, row>>
-------------------------------------------------------------------------------
Proceed(t) ==
    \/ Send(t) \/ Checkout(t) \/ Checkin(t)
    \/ Answer(t) \/ Grant(t) \/ EndTransaction(t) \/ ProviderRaises(t)

Next ==
    \/ \E t \in Tasks :
          \/ \E route \in DOMAIN Routes : Serve(t, route)
          \/ DrainAgain(t) \/ Proceed(t) \/ CheckoutTimesOut(t) \/ Leave(t)
    \/ \E p \in Processes : Crash(p) \/ Stop(p) \/ lifespan_end(p) \/ lifespan_start(p)

\* Loop, pool and lock queue are first in first out, so that a task that can go
\* on again and again does; servers answer, and the provider's client gives up
\* in the end.  No time-out of the pool and no crash is counted on, and no
\* request need ever be made.
Fairness == \A t \in Tasks : SF_vars(Proceed(t))

Spec == Init /\ [][Next]_vars /\ Fairness
-------------------------------------------------------------------------------
(* Properties *)

\* A task that talks to Redis or to the provider, or is over, has no
\* connection and no row locked, however the task before it in the code ended:
\* by a commit, an exception, a replay, a time-out or a crash.
NetworkCallsHoldNothing ==
    \A t \in Tasks : Await(t) \in {"none", "redis", "psp"} => t \notin pooled /\ row # t

\* The pool never locks up: however many requests compete for its connections
\* and for the suspense row, and however long the loops are frozen by provider
\* calls, every request and every batch comes to an end without a time-out.
TasksEnd == \A t \in Tasks : ~ Idle(t) ~> Idle(t)
===============================================================================
