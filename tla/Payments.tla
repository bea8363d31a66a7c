------------------------------- MODULE Payments -------------------------------
(***************************************************************************)
(* The payment lifecycle: POST /v1/payments (hold, PSP call, settle or     *)
(* reverse), PSP webhooks, refunds and the expiry of stale holds, over one *)
(* database.                                                               *)
(*                                                                         *)
(* Every database transaction is one action: each locks the rows it reads  *)
(* before it decides, or decides by inserting under a unique constraint,   *)
(* and module Ledger shows that its postings are serialisable.  What is    *)
(* NOT atomic is kept apart: create() is a first transaction, a PSP call   *)
(* outside any transaction, and a second transaction; between them every   *)
(* other handler may run and the process may die.                          *)
(*                                                                         *)
(* A request that is refused (409, 422, 404, insufficient funds) rolls its *)
(* transaction back, claim included, and changes nothing: such steps are   *)
(* stutters and have no action.                                            *)
(***************************************************************************)
EXTENDS Sequences, Sums

CONSTANTS Payments,     \* payment ids uuid4() may yield
          Keys,         \* (merchant_id, Idempotency-Key) pairs of create()
          RefundKeys,   \* Idempotency-Key values of refund()
          Accounts,     \* account ids a request may name as payer or payee
          Suspense,     \* PSP_SUSPENSE_ACCOUNT_ID, an account like any other
          Bodies,       \* request bodies: payer, payee, amount
          Opening,      \* seeded balances
          EventIds,     \* psp_event_id values
          NoId,         \* a webhook body without an event id
          MaxEvents,    \* bound: webhooks the provider sends
          None          \* SQL NULL

Body == [payer : Accounts, payee : Accounts, amount : Nat \ {0}]
Event == [id : EventIds \cup {NoId}, payment : Payments, type : {"capture", "fail", "other"}]

ASSUME PaymentsAssumption ==
    /\ Bodies \subseteq Body
    /\ Suspense \in Accounts
    /\ Opening \in [Accounts -> Nat]
    /\ NoId \notin EventIds /\ MaxEvents \in Nat
    /\ None \notin Payments \cup Keys \cup Bodies \cup [payment : Payments, amount : Nat]
    /\ Payments \cap RefundKeys = {} /\ IsFiniteSet(Payments) /\ IsFiniteSet(RefundKeys)

VARIABLES status,         \* payments.status; "none" before the row exists
          body,           \* payer_account, payee_account and amount of the row
          referenced,     \* payments whose psp_reference column is set
          refunded,       \* payments.refunded_amount
          version,        \* payments.version
          balance,        \* account_balances.balance
          journal,        \* ledger_entries of the payment and its refunds, per account
          outbox,         \* event types of the outbox rows, per aggregate
          refunds,        \* the refund made under a key, with its claim
          claim,          \* idempotency_keys.status of a create() key
          hash,           \* idempotency_keys.request_hash
          response,       \* idempotency_keys.response_body
          handler,        \* where the create() call of the payment stands
          key,            \* the key that call came with
          replies,        \* 201 answers given to clients
          psp,            \* external: what the provider decided
          sent,           \* external: webhooks the provider sends, and resends
          acked,          \* external: events that were answered with 200
          seen,           \* webhook_events.psp_event_id
          aged            \* payments created before the expiry cutoff

row   == <<status, body, referenced, refunded, version>>
books == <<balance, journal, outbox>>
idem  == <<claim, hash, response>>
call  == <<handler, key, replies>>
world == <<psp, sent, acked, seen, aged>>
vars  == <<row, books, refunds, idem, call, world>>

Init ==
    /\ status = [p \in Payments |-> "none"]
    /\ body = [p \in Payments |-> None]
    /\ referenced = {}
    /\ refunded = [p \in Payments |-> 0]
    /\ version = [p \in Payments |-> 0]
    /\ balance = Opening
    /\ journal = [p \in Payments |-> [a \in Accounts |-> 0]]
    /\ outbox = [x \in Payments \cup RefundKeys |-> <<>>]
    /\ refunds = [r \in RefundKeys |-> None]
    /\ claim = [k \in Keys |-> "none"]
    /\ hash = [k \in Keys |-> None]
    /\ response = [k \in Keys |-> None]
    /\ handler = [p \in Payments |-> "none"]
    /\ key = [p \in Payments |-> None]
    /\ replies = {}
    /\ psp = [p \in Payments |-> "none"]
    /\ sent = {}
    /\ acked = {}
    /\ seen = {}
    /\ aged = {}
-------------------------------------------------------------------------------
(* The entries of a transfer: a debit of d, a credit of c. *)
Move(d, c, m) ==
    [a \in Accounts |-> (IF a = c THEN m ELSE 0) - (IF a = d THEN m ELSE 0)]

Plus(f, g) == [a \in Accounts |-> f[a] + g[a]]

\* A payment goes to the payee if it SUCCEEDED, back to the payer if it FAILED.
Destination(p, st) == IF st = "SUCCEEDED" THEN body[p].payee ELSE body[p].payer

\* For the mutants: the payer is debited a second time.
ReleaseEntries_FromPayer(p, st) == Move(body[p].payer, Destination(p, st), body[p].amount)

ReleaseEntries(p, st) == Move(Suspense, Destination(p, st), body[p].amount)

\* For the mutants: an account may not be emptied.
SuspenseBears_Strict(S, st) ==
    LET leaving == {p \in S : Destination(p, st) # Suspense}
    IN  /\ balance[Suspense] > SumOver([p \in leaving |-> body[p].amount], leaving)
        /\ \A p \in S : balance[Suspense] > body[p].amount

\* The ledger refuses a debit that the account cannot bear.  The payments of S
\* are debited one after the other, in the order of the scan: it goes through
\* in some order if it does with those first whose money comes straight back.
SuspenseBears(S, st) ==
    LET leaving == {p \in S : Destination(p, st) # Suspense}
    IN  /\ balance[Suspense] >= SumOver([p \in leaving |-> body[p].amount], leaving)
        /\ \A p \in S : balance[Suspense] >= body[p].amount

\* All payments of S are released in one transaction.
Release(S, st, event) ==
    /\ SuspenseBears(S, st)
    /\ status' = [p \in Payments |-> IF p \in S THEN st ELSE status[p]]
    /\ version' = [p \in Payments |-> IF p \in S THEN version[p] + 1 ELSE version[p]]
    /\ journal' = [p \in Payments |->
                      IF p \in S THEN Plus(journal[p], ReleaseEntries(p, st)) ELSE journal[p]]
    /\ balance' = [a \in Accounts |->
                      balance[a] + SumOver([p \in S |-> ReleaseEntries(p, st)[a]], S)]
    /\ outbox' = [x \in Payments \cup RefundKeys |->
                      IF x \in S THEN Append(outbox[x], event) ELSE outbox[x]]
    /\ UNCHANGED <<body, refunded>>

\* PaymentSaga.settle and PaymentSaga.reverse.  Neither looks at the status
\* the payment is in.
settle(p) ==
    /\ Release({p}, "SUCCEEDED", "payment.succeeded")
    /\ referenced' = referenced \cup {p}

reverse(S) ==
    /\ Release(S, "FAILED", "payment.failed")
    /\ UNCHANGED referenced
-------------------------------------------------------------------------------
(* PaymentService.create *)

\* For the mutants: a claim still in progress counts as free.
FreshKey_Unfinished(k) == claim[k] # "COMPLETED"

FreshKey(k) == claim[k] = "none"

\* Transaction 1 with a fresh key: claim, payment row, hold.
CreateHold(k, b, p) ==
    /\ status[p] = "none"
    /\ FreshKey(k)
    /\ balance[b.payer] >= b.amount
    /\ claim' = [claim EXCEPT ![k] = "IN_PROGRESS"]
    /\ hash' = [hash EXCEPT ![k] = b]
    /\ status' = [status EXCEPT ![p] = "PROCESSING"]
    /\ body' = [body EXCEPT ![p] = b]
    /\ journal' = [journal EXCEPT ![p] = Move(b.payer, Suspense, b.amount)]
    /\ balance' = Plus(balance, Move(b.payer, Suspense, b.amount))
    /\ outbox' = [outbox EXCEPT ![p] = Append(@, "payment.processing")]
    /\ handler' = [handler EXCEPT ![p] = "authorizing"]
    /\ key' = [key EXCEPT ![p] = k]
    /\ UNCHANGED <<referenced, refunded, version, refunds, response, replies, world>>

\* For the mutants: the answer is made from the payment as it is now.
Stored_Current(k) == [response[k] EXCEPT !.status = status[response[k].payment]]

Stored(k) == response[k]

\* Transaction 1 with a completed key and the same body: the stored answer.
\* The same key with another body, or still in progress, is refused.
Replay(k, b) ==
    /\ claim[k] = "COMPLETED" /\ hash[k] = b
    /\ replies' = replies \cup {[key |-> k, answer |-> Stored(k)]}
    /\ UNCHANGED <<row, books, refunds, idem, handler, key, world>>

\* The end of transaction 2: the answer is stored under the key and returned.
complete(p) ==
    LET answer == [payment |-> p, status |-> status'[p]]
    IN  /\ claim' = [claim EXCEPT ![key[p]] = "COMPLETED"]
        /\ response' = [response EXCEPT ![key[p]] = answer]
        /\ replies' = replies \cup {[key |-> key[p], answer |-> answer]}
        /\ handler' = [handler EXCEPT ![p] = "done"]
        /\ UNCHANGED <<hash, key, refunds, world>>

Answered(p, outcome) == handler[p] = "authorizing" /\ psp[p] = outcome

\* Transaction 2, one action per outcome of authorize().
FinishCaptured(p) == Answered(p, "CAPTURED") /\ settle(p) /\ complete(p)

FinishDeclined(p) == Answered(p, "DECLINED") /\ reverse({p}) /\ complete(p)

FinishPending(p) ==
    /\ Answered(p, "PENDING")
    /\ status' = [status EXCEPT ![p] = "AUTHORIZED"]
    /\ referenced' = referenced \cup {p}
    /\ complete(p)
    /\ UNCHANGED <<body, refunded, version, books>>

\* The ledger refuses to debit the suspense account: transaction 2 is rolled
\* back, and the payment and its key stay as transaction 1 left them.
FinishRefused(p) ==
    /\ \/ Answered(p, "CAPTURED") /\ ~ SuspenseBears({p}, "SUCCEEDED")
       \/ Answered(p, "DECLINED") /\ ~ SuspenseBears({p}, "FAILED")
    /\ handler' = [handler EXCEPT ![p] = "refused"]
    /\ UNCHANGED <<row, books, refunds, idem, key, replies, world>>

\* authorize() raises or times out, the second transaction fails, or the
\* process dies: the call ends where it is.
HandlerDies(p) ==
    /\ handler[p] = "authorizing"
    /\ handler' = [handler EXCEPT ![p] = "dead"]
    /\ UNCHANGED <<row, books, refunds, idem, key, replies, world>>
-------------------------------------------------------------------------------
(* WebhookService.handle, for a body whose signature verifies. *)

\* For the mutants: the status of the payment is not looked at.
Acts_NoStateGuard(e) ==
    e.payment \in referenced /\ status[e.payment] # "FAILED"


\* The payment is found by its psp_reference and is AUTHORIZED.
Acts(e) == e.payment \in referenced /\ status[e.payment] = "AUTHORIZED"

\* For the mutants: a body without an id is recorded under a constant.
RecordedIds_Constant(e) == {e.id}

\* A body without an id gets a fresh one, which no later event has.
RecordedIds(e) == {e.id} \ {NoId}

\* Every event not seen before is recorded as PROCESSED and answered with 200,
\* acted upon or not.  A delivery that the ledger refuses is rolled back and
\* answered with an error.
Record(e) ==
    /\ e \in sent /\ e.id \notin seen
    /\ seen' = seen \cup RecordedIds(e)
    /\ acked' = acked \cup {e}
    /\ UNCHANGED <<refunds, idem, call, psp, sent, aged>>

WebhookCaptures(e) == Record(e) /\ Acts(e) /\ e.type = "capture" /\ settle(e.payment)

WebhookFails(e) == Record(e) /\ Acts(e) /\ e.type = "fail" /\ reverse({e.payment})

WebhookIgnored(e) ==
    /\ Record(e)
    /\ ~ Acts(e) \/ e.type = "other"
    /\ UNCHANGED <<row, books>>
-------------------------------------------------------------------------------
(* RefundService.refund: one transaction, under a key of its own. *)

\* For the mutants: the amount is compared with the payment, not with what
\* is left of it.
Refundable_Whole(p, m) == status[p] = "SUCCEEDED" /\ m =< body[p].amount

Refundable(p, m) == status[p] = "SUCCEEDED" /\ refunded[p] + m =< body[p].amount

refund(r, p, m) ==
    LET entries == Move(body[p].payee, body[p].payer, m)
    IN  /\ refunds[r] = None
        /\ Refundable(p, m)
        /\ balance[body[p].payee] >= m
        /\ refunds' = [refunds EXCEPT ![r] = [payment |-> p, amount |-> m]]
        /\ refunded' = [refunded EXCEPT ![p] = @ + m]
        /\ status' = [status EXCEPT ![p] = IF refunded[p] + m = body[p].amount THEN "REFUNDED" ELSE @]
        /\ version' = [version EXCEPT ![p] = @ + 1]
        /\ journal' = [journal EXCEPT ![p] = Plus(@, entries)]
        /\ balance' = Plus(balance, entries)
        /\ outbox' = [outbox EXCEPT ![r] = Append(@, "refund.completed")]
        /\ UNCHANGED <<body, referenced, idem, call, world>>

Refund ==
    \E r \in RefundKeys, p \in Payments :
        status[p] = "SUCCEEDED" /\ \E m \in 1 .. body[p].amount : refund(r, p, m)
-------------------------------------------------------------------------------
(* ReconciliationService.expire_stale_holds: all of them in one transaction. *)

\* For the mutants: holds whose PSP call has not returned are swept as well.
Stale_Unanswered(p) == p \in aged /\ status[p] \in {"PROCESSING", "AUTHORIZED"}

Stale(p) == p \in aged /\ status[p] = "AUTHORIZED"

expire_stale_holds ==
    LET S == {p \in Payments : Stale(p)}
    IN  /\ S # {}
        /\ reverse(S)
        /\ UNCHANGED <<refunds, idem, call, world>>

\* External: the clock passes created_at + timeout.
Age(p) ==
    /\ status[p] # "none" /\ p \notin aged
    /\ aged' = aged \cup {p}
    /\ UNCHANGED <<row, books, refunds, idem, call, psp, sent, acked, seen>>
-------------------------------------------------------------------------------
(* External: the payment service provider. *)

\* It decides on a payment it was asked about, whether or not the caller is
\* still there to hear the answer.
PspDecide(p, outcome) ==
    /\ handler[p] \in {"authorizing", "dead"} /\ psp[p] = "none"
    /\ psp' = [psp EXCEPT ![p] = outcome]
    /\ UNCHANGED <<row, books, refunds, idem, call, sent, acked, seen, aged>>

\* It may notify as soon as it has decided.  Every event has an id of its own
\* or none.
PspSend(e) ==
    /\ psp[e.payment] # "none" /\ e \notin sent /\ Cardinality(sent) < MaxEvents
    /\ \A f \in sent : f.id = e.id => e.id = NoId
    /\ sent' = sent \cup {e}
    /\ UNCHANGED <<row, books, refunds, idem, call, psp, acked, seen, aged>>
-------------------------------------------------------------------------------
Finish(p) == FinishCaptured(p) \/ FinishDeclined(p) \/ FinishPending(p) \/ FinishRefused(p)
Webhook(e) == WebhookCaptures(e) \/ WebhookFails(e) \/ WebhookIgnored(e)
Provider(p) == \E outcome \in {"CAPTURED", "PENDING", "DECLINED"} : PspDecide(p, outcome)

Next ==
    \/ \E k \in Keys, b \in Bodies : Replay(k, b) \/ \E p \in Payments : CreateHold(k, b, p)
    \/ \E p \in Payments : Finish(p) \/ HandlerDies(p) \/ Provider(p) \/ Age(p)
    \/ \E e \in Event : PspSend(e) \/ Webhook(e)
    \/ Refund
    \/ expire_stale_holds

Spec == Init /\ [][Next]_vars

\* What the deployed program keeps doing.  A PSP call that gets no answer
\* times out: no create() waits for it forever.  One that got its answer runs
\* its second transaction unless it dies.  The provider redelivers an event until
\* it is answered with 200, and may, but need not, redeliver it after that.
\* Nothing in the application schedules expire_stale_holds, so it has no
\* fairness.
Fairness ==
    /\ \A p \in Payments : WF_vars(Finish(p)) /\ WF_vars(psp[p] = "none" /\ HandlerDies(p))
    /\ \A e \in Event : WF_vars(e \notin acked /\ Webhook(e))

LiveSpec == Spec /\ Fairness
-------------------------------------------------------------------------------
(* Properties *)

Statuses == {"none", "PROCESSING", "AUTHORIZED", "SUCCEEDED", "FAILED", "REFUNDED"}
Held == {"PROCESSING", "AUTHORIZED"}
Paid == {"SUCCEEDED", "REFUNDED"}

\* The values every variable ranges over.
TypeOK ==
    /\ status \in [Payments -> Statuses]
    /\ body \in [Payments -> Bodies \cup {None}]
    /\ referenced \subseteq Payments
    /\ refunded \in [Payments -> Nat]
    /\ version \in [Payments -> Nat]
    /\ DOMAIN balance = Accounts
    /\ journal \in [Payments -> [Accounts -> Int]]
    /\ outbox \in [Payments \cup RefundKeys -> Seq({"payment.processing",
                       "payment.succeeded", "payment.failed", "refund.completed"})]
    /\ refunds \in [RefundKeys -> [payment : Payments, amount : Nat] \cup {None}]
    /\ claim \in [Keys -> {"none", "IN_PROGRESS", "COMPLETED"}]
    /\ hash \in [Keys -> Bodies \cup {None}]
    /\ response \in [Keys -> [payment : Payments, status : Statuses] \cup {None}]
    /\ handler \in [Payments -> {"none", "authorizing", "done", "refused", "dead"}]
    /\ key \in [Payments -> Keys \cup {None}]
    /\ replies \subseteq [key : Keys, answer : [payment : Payments, status : Statuses] \cup {None}]
    /\ psp \in [Payments -> {"none", "CAPTURED", "PENDING", "DECLINED"}]
    /\ sent \subseteq Event
    /\ acked \subseteq sent
    /\ seen \subseteq EventIds
    /\ aged \subseteq Payments

\* Exactly-once money movement.  However hold, settle, reverse, webhooks,
\* expiry and refunds interleave, the ledger entries of a payment are those
\* its status calls for: the amount sits in suspense while it is held, with
\* the payee less refunds once it succeeded, with the payer otherwise.  A
\* second settlement or reversal of the same payment would break this.
JournalMatchesStatus ==
    \A p \in Payments : \A a \in Accounts :
        journal[p][a] =
            CASE status[p] \in Held ->
                    Move(body[p].payer, Suspense, body[p].amount)[a]
              [] status[p] \in Paid ->
                    Move(body[p].payer, body[p].payee, body[p].amount - refunded[p])[a]
              [] OTHER -> 0

\* The transactional outbox says once that a payment is held and once how the
\* hold ended, in that order, whoever ended it; and it has one event per
\* refund.  It says nothing when a payment becomes AUTHORIZED, and a payment
\* that becomes REFUNDED has only the events of its refunds: docs/PLAN.md
\* promises a payment.refunded event that the code does not write.
OutboxMatchesStatus ==
    /\ \A p \in Payments :
          outbox[p] =
              CASE status[p] = "none" -> <<>>
                [] status[p] \in Held -> <<"payment.processing">>
                [] status[p] \in Paid -> <<"payment.processing", "payment.succeeded">>
                [] OTHER -> <<"payment.processing", "payment.failed">>
    /\ \A r \in RefundKeys :
          outbox[r] = IF refunds[r] = None THEN <<>> ELSE <<"refund.completed">>

\* A retried or duplicated request never makes a second payment under the
\* same merchant and idempotency key, also after a crash.
OnePaymentPerKey ==
    \A p, q \in Payments : key[p] # None /\ key[p] = key[q] => p = q

\* All 201 answers ever given for one key are the same answer, and name the
\* payment made under that key.
AnswersAgree ==
    \A x, y \in replies :
        /\ x.key = y.key => x = y
        /\ key[x.answer.payment] = x.key

\* settle and reverse check no status themselves.  Still a payment only moves
\* along the lifecycle: a failed or refunded one never changes again, a
\* successful one never fails, and the second transaction of create() finds
\* the payment as the first one left it.
Lifecycle ==
    {<<"none", "PROCESSING">>, <<"PROCESSING", "AUTHORIZED">>, <<"PROCESSING", "SUCCEEDED">>,
     <<"PROCESSING", "FAILED">>, <<"AUTHORIZED", "SUCCEEDED">>, <<"AUTHORIZED", "FAILED">>,
     <<"SUCCEEDED", "REFUNDED">>}

StatusMoves ==
    [][\A p \in Payments : status'[p] # status[p] => <<status[p], status'[p]>> \in Lifecycle]_vars

RefundsOf(p) == {r \in RefundKeys : refunds[r] # None /\ refunds[r].payment = p}

\* What was refunded of a payment is the sum of its refunds, never exceeds
\* the amount, and reaches it exactly when the payment is REFUNDED.  Until then
\* the payment stays SUCCEEDED: docs/PLAN.md names a status PARTIALLY_REFUNDED
\* that the code does not have.
RefundsBounded ==
    \A p \in Payments :
        /\ refunded[p] = SumOver([r \in RefundsOf(p) |-> refunds[r].amount], RefundsOf(p))
        /\ refunded[p] > 0 => status[p] \in Paid /\ refunded[p] =< body[p].amount
        /\ status[p] = "REFUNDED" <=> body[p] # None /\ refunded[p] = body[p].amount

\* Some payment was made out of the suspense account itself: its hold put
\* nothing there.
Drawn == \E q \in Payments : body[q] # None /\ body[q].payer = Suspense

\* What a payment that is not drawn on the suspense account keeps there.
Kept(p) ==
    CASE status[p] \in Held -> body[p].amount
      [] status[p] \in Paid /\ body[p].payee = Suspense -> body[p].amount - refunded[p]
      [] OTHER -> 0

\* Every balance is the seeded one plus the entries of all payments and is
\* never negative, payments from and to the suspense account included.  As
\* long as no payment was drawn on it, the suspense account holds exactly the
\* money of the payments in flight and of those made out to it, and no
\* create() call was refused its settlement or reversal.  Once one was, the
\* holds of the others are not secure, against what docs/HLD.md and the saga
\* say of the suspense account: the code lets a request name it as payer.
SuspenseCoversHolds ==
    /\ \A a \in Accounts :
          /\ balance[a] >= 0
          /\ balance[a] = Opening[a] + SumOver([p \in Payments |-> journal[p][a]], Payments)
    /\ ~ Drawn =>
          /\ balance[Suspense] = Opening[Suspense] + SumOver([p \in Payments |-> Kept(p)], Payments)
          /\ \A p \in Payments : handler[p] # "refused"

Phase(st) ==
    CASE st = "none" -> "none"
      [] st \in Held -> "held"
      [] st \in Paid -> "paid"
      [] OTHER -> "returned"

\* Keys, webhooks, retries, the sweep and crashes notwithstanding, the money of
\* every payment is held once, then paid out or returned once, then refunded
\* up to its amount: the engine implements PaymentSpec.
Money == INSTANCE PaymentSpec WITH
            Orders <- Bodies,
            phase <- [p \in Payments |-> Phase(status[p])],
            order <- body,
            funds <- balance
PaymentsMoveMoneyOnce == Money!Spec

\* A create() call that gets the provider's answer and does not die takes its
\* payment out of PROCESSING and completes its key: no other handler can put
\* the payment or the suspense account in a state that blocks it, except by
\* drawing a payment on the suspense account.
CallsResolve ==
    \A p \in Payments :
        handler[p] = "authorizing" /\ psp[p] # "none" ~>
            \/ handler[p] = "dead"
            \/ handler[p] = "refused" /\ Drawn
            \/ status[p] \in {"AUTHORIZED", "SUCCEEDED", "FAILED", "REFUNDED"} /\ claim[key[p]] = "COMPLETED"


\* If something outside the application keeps calling expire_stale_holds, no
\* authorized payment past the cutoff keeps its money in suspense.
StaleHoldsExpire ==
    WF_vars(expire_stale_holds) =>
        \A p \in Payments :
            Stale(p) ~> status[p] \in {"SUCCEEDED", "FAILED", "REFUNDED"} \/ Drawn

\* docs/LLD.md on a failed PSP call: the hold is reversed or retried, never
\* silently dropped; every held payment is resolved.
HoldsResolve == \A p \in Payments : status[p] = "PROCESSING" ~> status[p] # "PROCESSING"

\* README.md: a signed webhook captures or fails the held payment.  So no
\* payment is still AUTHORIZED after the event that decides it was processed.
ProcessedEventDecides ==
    \A e \in acked : e.type # "other" => status[e.payment] # "AUTHORIZED"
===============================================================================
