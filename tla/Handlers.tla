------------------------------- MODULE Handlers -------------------------------
(***************************************************************************)
(* The transactions of the payment engine statement by statement, over the *)
(* row locks of Ledger: the two transactions of create(), webhooks,        *)
(* refunds and the sweep of stale holds, each in a database session of its *)
(* own.  Payments takes each of them as one step; this module shows that   *)
(* the locks on payment rows, the unique index on webhook_events and the   *)
(* locks on balance rows make them behave so.                              *)
(*                                                                         *)
(* SELECT ... FOR UPDATE on a payment row waits for the session that has   *)
(* it locked and then looks at the row as that session left it.  What a    *)
(* transaction writes is published by its commit, with Ledger's Commit.    *)
(***************************************************************************)
EXTENDS Ledger

CONSTANTS Payments,     \* payment ids
          Orders,       \* payer, payee and amount of each
          Suspense,     \* PSP_SUSPENSE_ACCOUNT_ID, an account like any other
          Starts,       \* payment tables the database may start with
          Events,       \* webhooks: id, payment and type
          NoId,         \* a webhook body without an event id
          None          \* no order

Statuses == {"none", "PROCESSING", "AUTHORIZED", "SUCCEEDED", "FAILED", "REFUNDED"}

ASSUME HandlersAssumption ==
    /\ IsFiniteSet(Payments) /\ Suspense \in Accounts
    /\ Orders \in [Payments -> [payer : Accounts, payee : Accounts, amount : Nat \ {0}]]
    /\ \A p \in Payments : Orders[p] # None
    /\ Starts \subseteq [Payments -> Statuses]
    /\ \A e \in Events : e.payment \in Payments /\ e.type \in {"capture", "fail", "other"}

VARIABLES status,       \* payments.status as committed; "none" without a row
          referenced,   \* payments whose psp_reference is set
          refunded,     \* payments.refunded_amount
          seen,         \* webhook_events.psp_event_id as committed
          calling,      \* create() calls between their two transactions
          job,          \* what the session's transaction is for
          at,           \* the statement of the handler it has come to
          want,         \* payment rows it has still to lock, in scan order
          chosen,       \* payments it changes, in the order it posts for them
          rowlock,      \* the session that has the payment row locked
          claimant      \* the session that has inserted an event uncommitted

committed == <<status, referenced, refunded, seen>>
handling  == <<job, at, want, chosen, rowlock, claimant>>
allvars   == <<vars, committed, calling, handling>>

EventIds == {e.id : e \in Events} \ {NoId}
NoJob == [kind |-> "none"]
Chosen(s) == {chosen[s][i] : i \in DOMAIN chosen[s]}

HandlersInit ==
    /\ Init
    /\ status \in Starts
    /\ referenced = {p \in Payments : status[p] \in {"AUTHORIZED", "SUCCEEDED"}}
    /\ refunded = [p \in Payments |-> 0]
    /\ seen = {}
    /\ calling = {p \in Payments : status[p] = "PROCESSING"}
    /\ job = [s \in Sessions |-> NoJob]
    /\ at = [s \in Sessions |-> "idle"]
    /\ want = [s \in Sessions |-> <<>>]
    /\ chosen = [s \in Sessions |-> <<>>]
    /\ rowlock = [p \in Payments |-> Free]
    /\ claimant = [e \in EventIds |-> Free]
-------------------------------------------------------------------------------
(* What a transaction does to a payment it has chosen. *)

Outcome == [CAPTURED |-> "SUCCEEDED", DECLINED |-> "FAILED", PENDING |-> "AUTHORIZED"]

NewStatus(s, p) ==
    LET j == job[s]
    IN  CASE j.kind = "hold" -> "PROCESSING"
          [] j.kind = "finish" -> Outcome[j.outcome]
          [] j.kind = "webhook" -> IF j.event.type = "capture" THEN "SUCCEEDED" ELSE "FAILED"
          [] j.kind = "sweep" -> "FAILED"
          [] j.kind = "refund" -> IF refunded[p] + j.amount = Orders[p].amount
                                  THEN "REFUNDED" ELSE status[p]

Transfer(d, c, m) == <<[account_id |-> d, direction |-> "DEBIT", amount |-> m],
                       [account_id |-> c, direction |-> "CREDIT", amount |-> m]>>

\* What the handlers post is among the lists that callers hand to post().
ASSUME HandlersPostAssumption ==
    \A p \in Payments :
        LET o == Orders[p]
        IN  /\ Transfer(o.payer, Suspense, o.amount) \in PostingLists
            /\ Transfer(Suspense, o.payee, o.amount) \in PostingLists
            /\ Transfer(Suspense, o.payer, o.amount) \in PostingLists
            /\ \A m \in 1 .. o.amount : Transfer(o.payee, o.payer, m) \in PostingLists

\* The posting list of hold, refund, settle and reverse.
PostingList(s, p) ==
    LET o == Orders[p]
    IN  CASE job[s].kind = "hold" -> Transfer(o.payer, Suspense, o.amount)
          [] job[s].kind = "refund" -> Transfer(o.payee, o.payer, job[s].amount)
          [] job[s].kind \notin {"hold", "refund"} /\ NewStatus(s, p) = "SUCCEEDED" ->
                Transfer(Suspense, o.payee, o.amount)
          [] OTHER -> Transfer(Suspense, o.payer, o.amount)

\* A payment that stays pending is updated without touching the ledger.
Pending(s) == job[s].kind = "finish" /\ job[s].outcome = "PENDING"
Unposted(s) == IF Pending(s) THEN 0 ELSE Len(chosen[s]) - posts[s]
-------------------------------------------------------------------------------
(* Where a transaction begins. *)

Begin(s, j, statement, rowsToLock, taken) ==
    /\ at[s] = "idle"
    /\ job' = [job EXCEPT ![s] = j]
    /\ at' = [at EXCEPT ![s] = statement]
    /\ want' = [want EXCEPT ![s] = rowsToLock]
    /\ chosen' = [chosen EXCEPT ![s] = taken]
    /\ UNCHANGED <<vars, committed, rowlock, claimant>>

\* Transaction 1 of create(), its claim taken: nobody else sees the new row.
BeginHold(s, p) ==
    /\ status[p] = "none"
    /\ \A t \in Sessions : p \notin Chosen(t)
    /\ Begin(s, [kind |-> "hold", payment |-> p], "post", <<>>, <<p>>)
    /\ UNCHANGED calling

\* The provider has answered: transaction 2 of create().
BeginFinish(s, p, outcome) ==
    /\ p \in calling
    /\ calling' = calling \ {p}
    /\ Begin(s, [kind |-> "finish", payment |-> p, outcome |-> outcome], "lock", <<p>>, <<>>)

\* A webhook about a payment the provider has been asked about.
BeginWebhook(s, e) ==
    /\ status[e.payment] # "none"
    /\ Begin(s, [kind |-> "webhook", event |-> e], "dedup", <<>>, <<>>)
    /\ UNCHANGED calling

BeginRefund(s, p, m) ==
    /\ status[p] # "none"
    /\ Begin(s, [kind |-> "refund", payment |-> p, amount |-> m], "lock", <<p>>, <<>>)
    /\ UNCHANGED calling

\* The orders in which a scan may meet some of the rows in S.
Scans(S) == {q \in UNION {[1 .. n -> S] : n \in 1 .. Cardinality(S)} :
                 \A i, j \in DOMAIN q : q[i] = q[j] => i = j}

\* expire_stale_holds: the query finds some authorized payments older than the
\* cutoff and locks them in the order the scan meets them.
BeginSweep(s) ==
    /\ \E scan \in Scans({p \in Payments : status[p] = "AUTHORIZED"}) :
          Begin(s, [kind |-> "sweep"], "lock", scan, <<>>)
    /\ UNCHANGED calling

\* create() dies between its transactions.
CallDies(p) ==
    /\ p \in calling
    /\ calling' = calling \ {p}
    /\ UNCHANGED <<vars, committed, handling>>
-------------------------------------------------------------------------------
(* How it ends. *)

\* For the mutants: the lock on the payment row outlives the transaction.
Unlock_Keep(s) == rowlock

Unlock(s) == [p \in Payments |-> IF rowlock[p] = s THEN Free ELSE rowlock[p]]

\* Row locks and the uncommitted event go with the transaction.
Release(s) ==
    /\ job' = [job EXCEPT ![s] = NoJob]
    /\ at' = [at EXCEPT ![s] = "idle"]
    /\ want' = [want EXCEPT ![s] = <<>>]
    /\ chosen' = [chosen EXCEPT ![s] = <<>>]
    /\ rowlock' = Unlock(s)
    /\ claimant' = [e \in EventIds |-> IF claimant[e] = s THEN Free ELSE claimant[e]]

\* The rollback after an exception: nothing it wrote is published.
Fail(s) == Abort(s) /\ Release(s) /\ UNCHANGED <<committed, calling>>

\* session.begin() ends without an exception: everything is published at once.
CommitJob(s) ==
    /\ at[s] = "post" /\ Unposted(s) = 0
    /\ \/ Commit(s)
       \/ pc[s] = "idle" /\ UNCHANGED vars
    /\ LET done == Chosen(s)
           j == job[s]
       IN  /\ status' = [p \in Payments |-> IF p \in done THEN NewStatus(s, p) ELSE status[p]]
           /\ referenced' = referenced \cup
                 {p \in done : NewStatus(s, p) \in {"SUCCEEDED", "AUTHORIZED"}}
           /\ refunded' = [p \in Payments |->
                 IF p \in done /\ j.kind = "refund" THEN refunded[p] + j.amount ELSE refunded[p]]
           /\ seen' = seen \cup {e \in EventIds : claimant[e] = s}
           /\ calling' = IF j.kind = "hold" THEN calling \cup done ELSE calling
    /\ Release(s)
-------------------------------------------------------------------------------
(* Its statements. *)

Goto(s, statement) == at' = [at EXCEPT ![s] = statement]

\* WebhookService.handle selects the event by its id.
DedupKnown(s) ==
    /\ at[s] = "dedup" /\ job[s].event.id \in seen
    /\ Release(s)
    /\ UNCHANGED <<vars, committed, calling>>

DedupNew(s) ==
    /\ at[s] = "dedup" /\ job[s].event.id \notin seen
    /\ Goto(s, "insert")
    /\ UNCHANGED <<vars, committed, calling, job, want, chosen, rowlock, claimant>>

\* The INSERT waits for a session that has inserted the same id.  A body
\* without an id was given a fresh one.
InsertEvent(s) ==
    LET id == job[s].event.id
    IN  /\ at[s] = "insert"
        /\ id # NoId => claimant[id] = Free /\ id \notin seen
        /\ claimant' = [e \in EventIds |-> IF e = id THEN s ELSE claimant[e]]
        /\ want' = [want EXCEPT ![s] = <<job[s].event.payment>>]
        /\ Goto(s, "lock")
        /\ UNCHANGED <<vars, committed, calling, job, chosen, rowlock>>

\* The other session committed: IntegrityError.
EventExists(s) == at[s] = "insert" /\ job[s].event.id \in seen /\ Fail(s)

\* The payment is looked up by its reference, which may not be stored yet.
Found(s, p) == job[s].kind = "webhook" => p \in referenced

NotFound(s) ==
    /\ at[s] = "lock" /\ ~ Found(s, Head(want[s]))
    /\ want' = [want EXCEPT ![s] = <<>>]
    /\ Goto(s, "post")
    /\ UNCHANGED <<vars, committed, calling, job, chosen, rowlock, claimant>>

\* For the mutants: the sweep goes by the status its query first saw.
Takes_AsScanned(s, p) ==
    CASE job[s].kind = "webhook" -> status[p] = "AUTHORIZED" /\ job[s].event.type # "other"
      [] OTHER -> TRUE

\* With the row locked: webhook and sweep act on an AUTHORIZED payment only;
\* settle() and reverse() do not ask.
Takes(s, p) ==
    CASE job[s].kind = "webhook" -> status[p] = "AUTHORIZED" /\ job[s].event.type # "other"
      [] job[s].kind = "sweep" -> status[p] = "AUTHORIZED"
      [] OTHER -> TRUE

RefundAllowed(s, p) ==
    status[p] = "SUCCEEDED" /\ refunded[p] + job[s].amount =< Orders[p].amount

\* SELECT ... FOR UPDATE gets the next payment row.
LockPayment(s) ==
    LET p == Head(want[s])
    IN  /\ at[s] = "lock" /\ Found(s, p)
        /\ rowlock[p] = Free
        /\ job[s].kind = "refund" => RefundAllowed(s, p)
        /\ rowlock' = [rowlock EXCEPT ![p] = s]
        /\ want' = [want EXCEPT ![s] = Tail(@)]
        /\ chosen' = [chosen EXCEPT ![s] = IF Takes(s, p) THEN Append(@, p) ELSE @]
        /\ Goto(s, IF Len(want[s]) = 1 THEN "post" ELSE "lock")
        /\ UNCHANGED <<vars, committed, calling, job, claimant>>

RefundRefused(s) ==
    /\ at[s] = "lock" /\ job[s].kind = "refund"
    /\ rowlock[Head(want[s])] = Free /\ ~ RefundAllowed(s, Head(want[s]))
    /\ Fail(s)

\* The next ledger.post() of the transaction.
PostNext(s) ==
    /\ at[s] = "post" /\ Unposted(s) > 0
    /\ post(s, PostingList(s, chosen[s][posts[s] + 1]))
    /\ UNCHANGED <<committed, calling, handling>>

\* The statements inside post(), and the exceptions it raises.
LedgerStatement(s) ==
    /\ \/ \E a \in Accounts : MissRow(s, a)
       \/ ApplyPosting(s)
    /\ UNCHANGED <<committed, calling, handling>>

LedgerRaises(s) ==
    /\ \/ \E a \in Accounts : InsertConflict(s, a)
       \/ InsufficientFunds(s)
    /\ Fail(s)

LedgerLock(s) == Acquire(s) /\ UNCHANGED <<committed, calling, handling>>

\* A cancelled request, a lost connection, a crash of the process.
Dies(s) == at[s] # "idle" /\ Fail(s)
-------------------------------------------------------------------------------
(* Who waits for whom, over all three kinds of lock. *)
BlockedBy(s, t) ==
    \/ WaitsFor(s, t)
    \/ /\ s # t /\ at[s] = "lock"
       /\ Found(s, Head(want[s])) /\ rowlock[Head(want[s])] = t
    \/ s # t /\ at[s] = "insert" /\ job[s].event.id # NoId /\ claimant[job[s].event.id] = t

Cycle(D) == D # {} /\ \A s \in D : \E t \in D : BlockedBy(s, t)

Victim(s) == (\E D \in SUBSET Sessions : s \in D /\ Cycle(D)) /\ Fail(s)

BeginAny(s) ==
    \/ \E p \in Payments :
          \/ BeginHold(s, p)
          \/ \E outcome \in DOMAIN Outcome : BeginFinish(s, p, outcome)
          \/ \E m \in 1 .. Orders[p].amount : BeginRefund(s, p, m)
    \/ \E e \in Events : BeginWebhook(s, e)
    \/ BeginSweep(s)

Proceed(s) ==
    \/ DedupKnown(s) \/ DedupNew(s) \/ EventExists(s) \/ NotFound(s)
    \/ PostNext(s) \/ LedgerStatement(s) \/ LedgerRaises(s) \/ CommitJob(s)

Lock(s) == InsertEvent(s) \/ LockPayment(s) \/ RefundRefused(s) \/ LedgerLock(s)

HandlersNext ==
    \/ \E s \in Sessions : BeginAny(s) \/ Proceed(s) \/ Lock(s) \/ Dies(s) \/ Victim(s)
    \/ \E p \in Payments : CallDies(p)

\* A transaction that has begun goes on; waiters are served in the end because
\* PostgreSQL queues them; the deadlock detector runs.
HandlersFairness ==
    \A s \in Sessions : WF_allvars(Proceed(s)) /\ SF_allvars(Lock(s)) /\ WF_allvars(Victim(s))

HandlersSpec == HandlersInit /\ [][HandlersNext]_allvars /\ HandlersFairness
-------------------------------------------------------------------------------
(* Properties *)

Phase(st) ==
    CASE st = "none" -> "none"
      [] st \in {"PROCESSING", "AUTHORIZED"} -> "held"
      [] st \in {"SUCCEEDED", "REFUNDED"} -> "paid"
      [] OTHER -> "returned"

\* Whatever the statements of concurrent handlers do to each other, the
\* committed tables behave as if every transaction were one step that moves a
\* payment on and its money with it, and no payment is released twice.
Money == INSTANCE PaymentSpec WITH
            Orders <- {Orders[p] : p \in Payments},
            phase <- [p \in Payments |-> Phase(status[p])],
            order <- [p \in Payments |-> IF status[p] = "none" THEN None ELSE Orders[p]],
            funds <- balance
HandlersMoveMoneyOnce == Money!Spec

\* Only transactions that lock several payments can deadlock: create(),
\* webhooks and refunds among themselves never wait for each other in a ring,
\* over payment rows, event ids and balance rows together.
DeadlockNeedsSweep ==
    \A D \in SUBSET Sessions : Cycle(D) => \E s \in D : job[s].kind = "sweep"

\* Every handler's transaction ends, by a commit, a refusal or as a victim,
\* whatever it has to wait for.
HandlersEnd == \A s \in Sessions : at[s] # "idle" ~> at[s] = "idle"
===============================================================================
