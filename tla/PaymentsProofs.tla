---------------------------- MODULE PaymentsProofs ----------------------------
(***************************************************************************)
(* Proofs about Payments for any number of payments, keys, accounts,       *)
(* events and refunds.  First the ledger entries, outbox rows and answers of each *)
(* payment, then the balances and refund totals, which are sums over all   *)
(* payments, and last the refinement of PaymentSpec.                       *)
(***************************************************************************)
EXTENDS Payments, SumsProofs, SequenceTheorems

\* The row of a payment, and the call that made it, belong together.  A call
\* that has not finished finds its payment as the hold left it: this is what
\* lets settle and reverse do without a status check.
RowsSound ==
    \A p \in Payments :
        /\ status[p] = "none" => handler[p] = "none" /\ key[p] = None
        /\ status[p] # "none" => body[p] \in Bodies /\ key[p] \in Keys
        /\ handler[p] = "authorizing" => status[p] = "PROCESSING" /\ claim[key[p]] = "IN_PROGRESS"
        /\ status[p] \notin Paid => refunded[p] = 0
        /\ status[p] \in Paid => refunded[p] =< body[p].amount

\* A claim stands for at most one payment, and its answer names that payment.
ClaimsSound ==
    \A k \in Keys :
        /\ claim[k] = "none" => \A p \in Payments : key[p] # k
        /\ claim[k] = "COMPLETED" =>
              /\ response[k] \in [payment : Payments, status : Statuses]
              /\ key[response[k].payment] = k

\* Every answer given was the one stored under its key.
AnswersStored ==
    \A x \in replies : claim[x.key] = "COMPLETED" /\ x.answer = response[x.key]

\* The inductive invariant.
IInv ==
    /\ TypeOK
    /\ RowsSound
    /\ ClaimsSound
    /\ OnePaymentPerKey
    /\ AnswersStored
    /\ JournalMatchesStatus
    /\ OutboxMatchesStatus
-------------------------------------------------------------------------------
EventTypes == {"payment.processing", "payment.succeeded", "payment.failed", "refund.completed"}

\* Appending to the empty sequence.
LEMMA AppendToNone ==
    ASSUME NEW S, NEW y \in S
    PROVE  Append(<<>>, y) = <<y>>
  <1>1. <<>> \in Seq(S) /\ Len(<<>>) = 0
    OBVIOUS
  <1>2. <<y>> \in Seq(S) /\ Len(<<y>>) = 1 /\ <<y>>[1] = y
    OBVIOUS
  <1>3. Append(<<>>, y) \in Seq(S) /\ Len(Append(<<>>, y)) = 1 /\ Append(<<>>, y)[1] = y
    BY <1>1, AppendProperties
  <1>4. \A i \in 1 .. 1 : i = 1
    OBVIOUS
  <1> QED  BY <1>2, <1>3, <1>4, SeqEqual

\* Appending to a sequence of one element.
LEMMA AppendToOne ==
    ASSUME NEW S, NEW x \in S, NEW y \in S
    PROVE  Append(<<x>>, y) = <<x, y>>
  <1>1. <<x>> \in Seq(S) /\ Len(<<x>>) = 1 /\ <<x>>[1] = x
    OBVIOUS
  <1>2. <<x, y>> \in Seq(S) /\ Len(<<x, y>>) = 2 /\ <<x, y>>[1] = x /\ <<x, y>>[2] = y
    OBVIOUS
  <1>3. /\ Append(<<x>>, y) \in Seq(S) /\ Len(Append(<<x>>, y)) = 2
        /\ Append(<<x>>, y)[1] = x /\ Append(<<x>>, y)[2] = y
    BY <1>1, AppendProperties
  <1>4. \A i \in 1 .. 2 : i = 1 \/ i = 2
    OBVIOUS
  <1> QED  BY <1>2, <1>3, <1>4, SeqEqual

\* A transfer moves integers.
LEMMA MoveTyped ==
    ASSUME NEW d, NEW c, NEW m \in Int
    PROVE  Move(d, c, m) \in [Accounts -> Int]
  BY DEF Move

\* The body of a payment that exists names two accounts and a positive amount.
LEMMA BodyTyped ==
    ASSUME IInv, NEW p \in Payments, status[p] # "none"
    PROVE  /\ body[p] \in Bodies /\ body[p].amount \in Nat /\ body[p].amount > 0
           /\ body[p].payer \in Accounts /\ body[p].payee \in Accounts
  <1>1. body[p] \in Bodies
    BY DEF IInv, RowsSound
  <1>2. body[p] \in Body
    BY <1>1, PaymentsAssumption
  <1> QED  BY <1>1, <1>2, PaymentsAssumption DEF Body

\* The empty database satisfies the inductive invariant.
LEMMA InitIInv == Init => IInv
  <1> SUFFICES ASSUME Init PROVE IInv
    OBVIOUS
  <1> USE PaymentsAssumption DEF Init
  <1>1. TypeOK
    <2>1. DOMAIN balance = Accounts
      OBVIOUS
    <2>2. outbox \in [Payments \cup RefundKeys -> Seq(EventTypes)]
      OBVIOUS
    <2> QED  BY <2>1, <2>2 DEF TypeOK, Statuses, EventTypes
  <1>2. RowsSound /\ ClaimsSound /\ OnePaymentPerKey /\ AnswersStored
    BY DEF RowsSound, ClaimsSound, OnePaymentPerKey, AnswersStored, Paid
  <1>3. JournalMatchesStatus
    BY DEF JournalMatchesStatus, Held, Paid
  <1>4. OutboxMatchesStatus
    BY DEF OutboxMatchesStatus, Held, Paid
  <1> QED  BY <1>1, <1>2, <1>3, <1>4 DEF IInv

\* Held money that leaves the suspense account ends where the new status says.
LEMMA ReleaseJournal ==
    ASSUME IInv, NEW S \in SUBSET Payments, \A p \in S : status[p] \in Held,
           NEW st \in {"SUCCEEDED", "FAILED"}, NEW event, Release(S, st, event)
    PROVE  journal' \in [Payments -> [Accounts -> Int]] /\ JournalMatchesStatus'
  <1>1. journal \in [Payments -> [Accounts -> Int]] /\ status \in [Payments -> Statuses]
    BY DEF IInv, TypeOK
  <1>2. /\ status' = [p \in Payments |-> IF p \in S THEN st ELSE status[p]]
        /\ journal' = [p \in Payments |->
              IF p \in S THEN Plus(journal[p], ReleaseEntries(p, st)) ELSE journal[p]]
        /\ body' = body /\ refunded' = refunded
    BY DEF Release
  <1>3. ASSUME NEW p \in S
        PROVE  Plus(journal[p], ReleaseEntries(p, st)) \in [Accounts -> Int]
    <2>1. status[p] # "none"
      BY DEF Held
    <2>2. body[p].amount \in Nat
      BY <2>1, BodyTyped
    <2> QED  BY <1>1, <2>2 DEF Plus, ReleaseEntries, Destination, Move
  <1>4. journal' \in [Payments -> [Accounts -> Int]]
    BY <1>1, <1>2, <1>3
  <1>5. ASSUME NEW p \in Payments, NEW a \in Accounts, p \notin S
        PROVE  journal'[p][a] =
                 CASE status'[p] \in Held -> Move(body[p].payer, Suspense, body[p].amount)[a]
                   [] status'[p] \in Paid -> Move(body[p].payer, body[p].payee, body[p].amount - refunded[p])[a]
                   [] OTHER -> 0
    <2>1. journal'[p] = journal[p] /\ status'[p] = status[p]
      BY <1>2, <1>5
    <2> QED  BY <2>1 DEF IInv, JournalMatchesStatus
  <1>6. ASSUME NEW p \in Payments, NEW a \in Accounts, p \in S
        PROVE  journal'[p][a] =
                 CASE status'[p] \in Held -> Move(body[p].payer, Suspense, body[p].amount)[a]
                   [] status'[p] \in Paid -> Move(body[p].payer, body[p].payee, body[p].amount - refunded[p])[a]
                   [] OTHER -> 0
    <2>1. status[p] \in Held /\ status[p] # "none" /\ status[p] \notin Paid
      BY <1>6 DEF Held, Paid
    <2>2. refunded[p] = 0
      BY <2>1 DEF IInv, RowsSound
    <2>3. journal[p][a] = Move(body[p].payer, Suspense, body[p].amount)[a]
      BY <2>1 DEF IInv, JournalMatchesStatus
    <2>4. journal'[p][a] = journal[p][a] + ReleaseEntries(p, st)[a]
      BY <1>2, <1>6 DEF Plus
    <2>5. body[p].amount \in Nat
      BY <2>1, BodyTyped
    <2>6. CASE st = "SUCCEEDED"
      <3>1. status'[p] \notin Held /\ status'[p] \in Paid
        BY <1>2, <1>6, <2>6 DEF Held, Paid
      <3>2. journal'[p][a] = Move(body[p].payer, body[p].payee, body[p].amount - refunded[p])[a]
        BY <2>2, <2>3, <2>4, <2>5, <2>6 DEF ReleaseEntries, Destination, Move
      <3> QED  BY <3>1, <3>2
    <2>7. CASE st = "FAILED"
      <3>1. status'[p] \notin Held /\ status'[p] \notin Paid
        BY <1>2, <1>6, <2>7 DEF Held, Paid
      <3>2. journal'[p][a] = 0
        BY <2>3, <2>4, <2>5, <2>7 DEF ReleaseEntries, Destination, Move
      <3> QED  BY <3>1, <3>2
    <2> QED  BY <2>6, <2>7
  <1>7. JournalMatchesStatus'
    BY <1>2, <1>5, <1>6 DEF JournalMatchesStatus
  <1> QED  BY <1>4, <1>7

\* A release appends the event of the new status to the one of the hold.
LEMMA ReleaseOutbox ==
    ASSUME IInv, NEW S \in SUBSET Payments, \A p \in S : status[p] \in Held,
           NEW st, NEW event, Release(S, st, event), refunds' = refunds,
           \/ st = "SUCCEEDED" /\ event = "payment.succeeded"
           \/ st = "FAILED" /\ event = "payment.failed"
    PROVE  outbox' \in [Payments \cup RefundKeys -> Seq(EventTypes)] /\ OutboxMatchesStatus'
  <1>1. outbox \in [Payments \cup RefundKeys -> Seq(EventTypes)] /\ status \in [Payments -> Statuses]
    BY DEF IInv, TypeOK, EventTypes
  <1>2. /\ status' = [p \in Payments |-> IF p \in S THEN st ELSE status[p]]
        /\ outbox' = [x \in Payments \cup RefundKeys |->
              IF x \in S THEN Append(outbox[x], event) ELSE outbox[x]]
    BY DEF Release
  <1>3. event \in EventTypes
    BY DEF EventTypes
  <1>4. outbox' \in [Payments \cup RefundKeys -> Seq(EventTypes)]
    BY <1>1, <1>2, <1>3
  <1>5. ASSUME NEW r \in RefundKeys
        PROVE  outbox'[r] = IF refunds[r] = None THEN <<>> ELSE <<"refund.completed">>
    <2>1. r \notin S
      BY PaymentsAssumption
    <2> QED  BY <1>2, <2>1 DEF IInv, OutboxMatchesStatus
  <1>6. ASSUME NEW p \in Payments, p \in S
        PROVE  outbox'[p] =
                 CASE status'[p] = "none" -> <<>>
                   [] status'[p] \in Held -> <<"payment.processing">>
                   [] status'[p] \in Paid -> <<"payment.processing", "payment.succeeded">>
                   [] OTHER -> <<"payment.processing", "payment.failed">>
    <2>1. outbox[p] = <<"payment.processing">>
      BY <1>6 DEF IInv, OutboxMatchesStatus, Held, Paid
    <2>2. Append(<<"payment.processing">>, event) = <<"payment.processing", event>>
      BY <1>3, AppendToOne DEF EventTypes
    <2>3. outbox'[p] = <<"payment.processing", event>>
      BY <1>2, <1>6, <2>1, <2>2
    <2>4. status'[p] = st
      BY <1>2, <1>6
    <2> QED  BY <2>3, <2>4 DEF Held, Paid
  <1>7. ASSUME NEW p \in Payments, p \notin S
        PROVE  outbox'[p] = outbox[p] /\ status'[p] = status[p]
    BY <1>2, <1>7
  <1>8. OutboxMatchesStatus'
    BY <1>5, <1>6, <1>7 DEF IInv, OutboxMatchesStatus
  <1> QED  BY <1>4, <1>8

\* The rest of a release: rows keep their types, and rows and claims stay
\* sound provided no unfinished call is left behind on a released payment.
LEMMA ReleaseRows ==
    ASSUME IInv, NEW S \in SUBSET Payments, \A p \in S : status[p] \in Held,
           NEW st \in {"SUCCEEDED", "FAILED"}, NEW event, Release(S, st, event)
    PROVE  /\ status' \in [Payments -> Statuses]
           /\ version' \in [Payments -> Nat]
           /\ DOMAIN balance' = Accounts
           /\ \A p \in Payments :
                 /\ status'[p] = "none" <=> status[p] = "none"
                 /\ p \notin S => status'[p] = status[p]
                 /\ status'[p] \notin Paid => refunded[p] = 0
                 /\ status'[p] \in Paid => refunded[p] =< body[p].amount
  <1>1. TypeOK /\ RowsSound
    BY DEF IInv
  <1>2. /\ status' = [p \in Payments |-> IF p \in S THEN st ELSE status[p]]
        /\ version' = [p \in Payments |-> IF p \in S THEN version[p] + 1 ELSE version[p]]
        /\ DOMAIN balance' = Accounts
    BY DEF Release
  <1>3. status' \in [Payments -> Statuses] /\ version' \in [Payments -> Nat]
    BY <1>1, <1>2 DEF TypeOK, Statuses
  <1>4. ASSUME NEW p \in S
        PROVE  status[p] # "none" /\ status'[p] # "none" /\ refunded[p] = 0 /\ body[p].amount \in Nat
    <2>1. status[p] # "none" /\ status[p] \notin Paid
      BY DEF Held, Paid
    <2> QED  BY <1>1, <1>2, <2>1, BodyTyped DEF RowsSound
  <1>5. ASSUME NEW p \in Payments, p \notin S
        PROVE  status'[p] = status[p]
    BY <1>2, <1>5
  <1> QED  BY <1>1, <1>2, <1>3, <1>4, <1>5 DEF RowsSound

\* A webhook or the expiry releases payments that are AUTHORIZED, whose calls
\* have therefore ended: the invariant is preserved.
LEMMA ReleaseAuthorized ==
    ASSUME IInv, NEW S \in SUBSET Payments, \A p \in S : status[p] = "AUTHORIZED",
           NEW st, NEW event, Release(S, st, event),
           \/ st = "SUCCEEDED" /\ event = "payment.succeeded"
           \/ st = "FAILED" /\ event = "payment.failed",
           referenced' \subseteq Payments, acked' \subseteq sent, seen' \subseteq EventIds,
           UNCHANGED <<refunds, idem, call, psp, sent, aged>>
    PROVE  IInv'
  <1>1. TypeOK /\ RowsSound /\ st \in {"SUCCEEDED", "FAILED"} /\ body' = body /\ refunded' = refunded
    BY DEF IInv, Release
  <1>2. \A p \in S : status[p] \in Held
    BY DEF Held
  <1>3. /\ status' \in [Payments -> Statuses]
        /\ version' \in [Payments -> Nat]
        /\ DOMAIN balance' = Accounts
        /\ \A p \in Payments :
              /\ status'[p] = "none" <=> status[p] = "none"
              /\ p \notin S => status'[p] = status[p]
              /\ status'[p] \notin Paid => refunded[p] = 0
              /\ status'[p] \in Paid => refunded[p] =< body[p].amount
    BY <1>1, <1>2, ReleaseRows
  <1>4. journal' \in [Payments -> [Accounts -> Int]] /\ JournalMatchesStatus'
    BY <1>1, <1>2, ReleaseJournal
  <1>5. outbox' \in [Payments \cup RefundKeys -> Seq(EventTypes)] /\ OutboxMatchesStatus'
    BY <1>1, <1>2, ReleaseOutbox
  <1>6. TypeOK'
    BY <1>1, <1>3, <1>4, <1>5 DEF TypeOK, EventTypes, idem, call
  <1>7. RowsSound'
    <2>1. \A p \in S : handler[p] # "authorizing"
      BY <1>1 DEF RowsSound
    <2> QED  BY <1>1, <1>3, <2>1 DEF RowsSound, idem, call
  <1>8. ClaimsSound' /\ OnePaymentPerKey' /\ AnswersStored'
    BY DEF IInv, ClaimsSound, OnePaymentPerKey, AnswersStored, idem, call
  <1> QED  BY <1>4, <1>5, <1>6, <1>7, <1>8 DEF IInv

\* The end of a call: the key is completed with an answer nobody had before.
LEMMA CompleteSound ==
    ASSUME IInv, NEW p \in Payments, handler[p] = "authorizing", complete(p),
           status' \in [Payments -> Statuses]
    PROVE  /\ ClaimsSound' /\ OnePaymentPerKey' /\ AnswersStored'
           /\ claim' \in [Keys -> {"none", "IN_PROGRESS", "COMPLETED"}]
           /\ response' \in [Keys -> [payment : Payments, status : Statuses] \cup {None}]
           /\ replies' \subseteq [key : Keys, answer : [payment : Payments, status : Statuses] \cup {None}]
           /\ handler' = [handler EXCEPT ![p] = "done"]
           /\ \A q \in Payments : q # p /\ handler[q] = "authorizing" => claim'[key[q]] = claim[key[q]]
           /\ UNCHANGED <<hash, key, refunds, world>>
  <1> DEFINE k == key[p]
             answer == [payment |-> p, status |-> status'[p]]
  <1>1. TypeOK /\ k \in Keys /\ claim[k] = "IN_PROGRESS" /\ OnePaymentPerKey /\ k # None
    BY PaymentsAssumption DEF IInv, RowsSound
  <1>2. answer \in [payment : Payments, status : Statuses] /\ answer.payment = p
    OBVIOUS
  <1>3. /\ claim' = [claim EXCEPT ![k] = "COMPLETED"]
        /\ response' = [response EXCEPT ![k] = answer]
        /\ replies' = replies \cup {[key |-> k, answer |-> answer]}
        /\ handler' = [handler EXCEPT ![p] = "done"]
        /\ UNCHANGED <<hash, key, refunds, world>>
    BY DEF complete
  <1> HIDE DEF answer
  <1>4. ClaimsSound'
    BY <1>1, <1>2, <1>3 DEF IInv, ClaimsSound, TypeOK
  <1>5. OnePaymentPerKey'
    BY <1>1, <1>3 DEF OnePaymentPerKey
  <1>6. AnswersStored'
    <2>1. \A x \in replies : x.key # k /\ x.key \in Keys
      BY <1>1 DEF IInv, AnswersStored, TypeOK
    <2>2. \A x \in replies : claim'[x.key] = "COMPLETED" /\ x.answer = response'[x.key]
      BY <1>1, <1>3, <2>1 DEF IInv, AnswersStored, TypeOK
    <2>3. claim'[k] = "COMPLETED" /\ response'[k] = answer
      BY <1>1, <1>3 DEF TypeOK
    <2> QED  BY <1>3, <2>2, <2>3 DEF AnswersStored
  <1>7. /\ claim' \in [Keys -> {"none", "IN_PROGRESS", "COMPLETED"}]
        /\ response' \in [Keys -> [payment : Payments, status : Statuses] \cup {None}]
        /\ replies' \subseteq [key : Keys, answer : [payment : Payments, status : Statuses] \cup {None}]
    BY <1>1, <1>2, <1>3 DEF TypeOK
  <1>8. ASSUME NEW q \in Payments, q # p, handler[q] = "authorizing"
        PROVE  claim'[key[q]] = claim[key[q]]
    <2>1. key[q] \in Keys /\ key[q] # k
      BY <1>1, <1>8 DEF IInv, RowsSound, OnePaymentPerKey
    <2> QED  BY <1>1, <1>3, <2>1 DEF TypeOK
  <1> QED  BY <1>3, <1>4, <1>5, <1>6, <1>7, <1>8

\* Transaction 2 after a capture or a decline.
LEMMA FinishReleased ==
    ASSUME IInv, NEW p \in Payments, handler[p] = "authorizing", complete(p),
           NEW st, NEW event, Release({p}, st, event),
           \/ st = "SUCCEEDED" /\ event = "payment.succeeded"
           \/ st = "FAILED" /\ event = "payment.failed",
           referenced' \subseteq Payments
    PROVE  IInv'
  <1>1. TypeOK /\ RowsSound /\ st \in {"SUCCEEDED", "FAILED"} /\ body' = body /\ refunded' = refunded
    BY DEF IInv, Release
  <1>2. \A q \in {p} : status[q] \in Held
    BY <1>1 DEF Held, RowsSound
  <1>3. /\ status' \in [Payments -> Statuses]
        /\ version' \in [Payments -> Nat]
        /\ DOMAIN balance' = Accounts
        /\ \A q \in Payments :
              /\ status'[q] = "none" <=> status[q] = "none"
              /\ q \notin {p} => status'[q] = status[q]
              /\ status'[q] \notin Paid => refunded[q] = 0
              /\ status'[q] \in Paid => refunded[q] =< body[q].amount
    BY <1>1, <1>2, ReleaseRows
  <1>4. /\ ClaimsSound' /\ OnePaymentPerKey' /\ AnswersStored'
        /\ claim' \in [Keys -> {"none", "IN_PROGRESS", "COMPLETED"}]
        /\ response' \in [Keys -> [payment : Payments, status : Statuses] \cup {None}]
        /\ replies' \subseteq [key : Keys, answer : [payment : Payments, status : Statuses] \cup {None}]
        /\ handler' = [handler EXCEPT ![p] = "done"]
        /\ \A q \in Payments : q # p /\ handler[q] = "authorizing" => claim'[key[q]] = claim[key[q]]
        /\ UNCHANGED <<hash, key, refunds, world>>
    BY <1>3, CompleteSound
  <1>5. journal' \in [Payments -> [Accounts -> Int]] /\ JournalMatchesStatus'
    BY <1>1, <1>2, ReleaseJournal
  <1>6. outbox' \in [Payments \cup RefundKeys -> Seq(EventTypes)] /\ OutboxMatchesStatus'
    BY <1>1, <1>2, <1>4, ReleaseOutbox
  <1>7. TypeOK'
    BY <1>1, <1>3, <1>4, <1>5, <1>6 DEF TypeOK, EventTypes, world
  <1>8. RowsSound'
    <2> SUFFICES ASSUME NEW q \in Payments
                 PROVE  /\ status'[q] = "none" => handler'[q] = "none" /\ key[q] = None
                        /\ status'[q] # "none" => body[q] \in Bodies /\ key[q] \in Keys
                        /\ handler'[q] = "authorizing" => status'[q] = "PROCESSING" /\ claim'[key[q]] = "IN_PROGRESS"
      BY <1>1, <1>3, <1>4 DEF RowsSound
    <2>1. CASE q = p
      BY <1>1, <1>3, <1>4, <2>1 DEF RowsSound, TypeOK
    <2>2. CASE q # p
      <3>1. handler'[q] = handler[q] /\ status'[q] = status[q]
        BY <1>1, <1>3, <1>4, <2>2 DEF TypeOK
      <3> QED  BY <1>1, <1>4, <2>2, <3>1 DEF RowsSound
    <2> QED  BY <2>1, <2>2
  <1> QED  BY <1>4, <1>5, <1>6, <1>7, <1>8 DEF IInv

\* Transaction 2 after a pending authorization: the money stays in suspense.
LEMMA FinishPendingIInv ==
    ASSUME IInv, NEW p \in Payments, FinishPending(p)
    PROVE  IInv'
  <1>1. TypeOK /\ RowsSound /\ handler[p] = "authorizing" /\ status[p] = "PROCESSING" /\ complete(p)
    BY DEF IInv, FinishPending, Answered, RowsSound
  <1>2. /\ status' = [status EXCEPT ![p] = "AUTHORIZED"] /\ referenced' = referenced \cup {p}
        /\ UNCHANGED <<body, refunded, version, balance, journal, outbox>>
    BY DEF FinishPending, books
  <1>3. status' \in [Payments -> Statuses]
    BY <1>1, <1>2 DEF TypeOK, Statuses
  <1>4. /\ ClaimsSound' /\ OnePaymentPerKey' /\ AnswersStored'
        /\ claim' \in [Keys -> {"none", "IN_PROGRESS", "COMPLETED"}]
        /\ response' \in [Keys -> [payment : Payments, status : Statuses] \cup {None}]
        /\ replies' \subseteq [key : Keys, answer : [payment : Payments, status : Statuses] \cup {None}]
        /\ handler' = [handler EXCEPT ![p] = "done"]
        /\ \A q \in Payments : q # p /\ handler[q] = "authorizing" => claim'[key[q]] = claim[key[q]]
        /\ UNCHANGED <<hash, key, refunds, world>>
    BY <1>1, <1>3, CompleteSound
  <1>5. \A q \in Payments : (status'[q] \in Held <=> status[q] \in Held) /\ (status'[q] \in Paid <=> status[q] \in Paid)
                             /\ (status'[q] = "none" <=> status[q] = "none") /\ (status'[q] = "FAILED" <=> status[q] = "FAILED")
    BY <1>1, <1>2 DEF TypeOK, Held, Paid
  <1>6. JournalMatchesStatus'
    BY <1>2, <1>5 DEF IInv, JournalMatchesStatus
  <1>7. OutboxMatchesStatus'
    BY <1>2, <1>4, <1>5 DEF IInv, OutboxMatchesStatus
  <1>8. TypeOK'
    BY <1>1, <1>2, <1>3, <1>4 DEF TypeOK, world
  <1>9. RowsSound'
    <2> SUFFICES ASSUME NEW q \in Payments
                 PROVE  /\ status'[q] = "none" => handler'[q] = "none" /\ key[q] = None
                        /\ status'[q] # "none" => body[q] \in Bodies /\ key[q] \in Keys
                        /\ handler'[q] = "authorizing" => status'[q] = "PROCESSING" /\ claim'[key[q]] = "IN_PROGRESS"
      BY <1>1, <1>2, <1>4, <1>5 DEF RowsSound
    <2>1. CASE q = p
      BY <1>1, <1>2, <1>4, <2>1 DEF RowsSound, TypeOK
    <2>2. CASE q # p
      <3>1. handler'[q] = handler[q] /\ status'[q] = status[q]
        BY <1>1, <1>2, <1>4, <2>2 DEF TypeOK
      <3> QED  BY <1>1, <1>4, <2>2, <3>1 DEF RowsSound
    <2> QED  BY <2>1, <2>2
  <1> QED  BY <1>4, <1>6, <1>7, <1>8, <1>9 DEF IInv

\* Transaction 1 with a fresh key: a new row, a new claim and the hold.
LEMMA CreateHoldIInv ==
    ASSUME IInv, NEW k \in Keys, NEW b \in Bodies, NEW p \in Payments, CreateHold(k, b, p)
    PROVE  IInv'
  <1>1. TypeOK /\ RowsSound /\ ClaimsSound
    BY DEF IInv
  <1>2. /\ status[p] = "none" /\ claim[k] = "none"
        /\ claim' = [claim EXCEPT ![k] = "IN_PROGRESS"]
        /\ hash' = [hash EXCEPT ![k] = b]
        /\ status' = [status EXCEPT ![p] = "PROCESSING"]
        /\ body' = [body EXCEPT ![p] = b]
        /\ journal' = [journal EXCEPT ![p] = Move(b.payer, Suspense, b.amount)]
        /\ balance' = Plus(balance, Move(b.payer, Suspense, b.amount))
        /\ outbox' = [outbox EXCEPT ![p] = Append(@, "payment.processing")]
        /\ handler' = [handler EXCEPT ![p] = "authorizing"]
        /\ key' = [key EXCEPT ![p] = k]
        /\ UNCHANGED <<referenced, refunded, version, refunds, response, replies, psp, sent, acked, seen, aged>>
    BY DEF CreateHold, FreshKey, world
  <1>3. /\ b.amount \in Nat /\ k # None
        /\ \A q \in Payments : key[q] # k
        /\ key[p] = None /\ refunded[p] = 0
    <2>1. b \in Body
      BY PaymentsAssumption
    <2> QED  BY <1>1, <1>2, <2>1, PaymentsAssumption DEF Body, RowsSound, ClaimsSound, Paid
  <1>4. Move(b.payer, Suspense, b.amount) \in [Accounts -> Int]
    BY <1>3, MoveTyped
  <1>5. outbox'[p] = <<"payment.processing">> /\ outbox' \in [Payments \cup RefundKeys -> Seq(EventTypes)]
    <2>1. outbox[p] = <<>>
      BY <1>2 DEF IInv, OutboxMatchesStatus, Held, Paid
    <2>2. "payment.processing" \in EventTypes
      BY DEF EventTypes
    <2>3. Append(<<>>, "payment.processing") = <<"payment.processing">>
      BY <2>2, AppendToNone
    <2>4. outbox \in [Payments \cup RefundKeys -> Seq(EventTypes)] /\ <<"payment.processing">> \in Seq(EventTypes)
      BY <1>1, <2>2 DEF TypeOK, EventTypes
    <2> QED  BY <1>2, <2>1, <2>3, <2>4
  <1>6. TypeOK'
    <2>1. DOMAIN balance' = Accounts
      BY <1>2 DEF Plus
    <2> QED  BY <1>1, <1>2, <1>4, <1>5, <2>1 DEF TypeOK, Statuses, EventTypes
  <1>7. RowsSound'
    <2> SUFFICES ASSUME NEW q \in Payments
                 PROVE  /\ status'[q] = "none" => handler'[q] = "none" /\ key'[q] = None
                        /\ status'[q] # "none" => body'[q] \in Bodies /\ key'[q] \in Keys
                        /\ handler'[q] = "authorizing" => status'[q] = "PROCESSING" /\ claim'[key'[q]] = "IN_PROGRESS"
                        /\ status'[q] \notin Paid => refunded'[q] = 0
                        /\ status'[q] \in Paid => refunded'[q] =< body'[q].amount
      BY DEF RowsSound
    <2>1. CASE q = p
      BY <1>1, <1>2, <1>3, <2>1 DEF TypeOK, Paid
    <2>2. CASE q # p
      <3>1. /\ status'[q] = status[q] /\ body'[q] = body[q] /\ handler'[q] = handler[q]
            /\ key'[q] = key[q] /\ refunded'[q] = refunded[q] /\ key[q] # k
        BY <1>1, <1>2, <1>3, <2>2 DEF TypeOK
      <3>2. handler[q] = "authorizing" => claim'[key[q]] = claim[key[q]]
        BY <1>1, <1>2, <3>1 DEF TypeOK
      <3> QED  BY <1>1, <3>1, <3>2 DEF RowsSound
    <2> QED  BY <2>1, <2>2
  <1>8. ClaimsSound' /\ OnePaymentPerKey' /\ AnswersStored'
    <2>1. ClaimsSound'
      <3> SUFFICES ASSUME NEW j \in Keys
                   PROVE  /\ claim'[j] = "none" => \A q \in Payments : key'[q] # j
                          /\ claim'[j] = "COMPLETED" =>
                                /\ response[j] \in [payment : Payments, status : Statuses]
                                /\ key'[response[j].payment] = j
        BY <1>2 DEF ClaimsSound
      <3>1. CASE j = k
        BY <1>1, <1>2, <3>1 DEF TypeOK
      <3>2. CASE j # k
        <4>1. claim'[j] = claim[j]
          BY <1>1, <1>2, <3>2 DEF TypeOK
        <4>2. claim[j] = "COMPLETED" => key'[response[j].payment] = j
          <5>1. claim[j] = "COMPLETED" => response[j].payment \in Payments /\ key[response[j].payment] = j
            BY <1>1 DEF ClaimsSound
          <5>2. j # None
            BY PaymentsAssumption
          <5> QED  BY <1>1, <1>2, <1>3, <5>1, <5>2 DEF TypeOK
        <4> QED  BY <1>1, <1>2, <3>2, <4>1, <4>2 DEF ClaimsSound, TypeOK
      <3> QED  BY <3>1, <3>2
    <2>2. OnePaymentPerKey'
      BY <1>1, <1>2, <1>3 DEF IInv, OnePaymentPerKey, TypeOK
    <2>3. AnswersStored'
      <3>1. \A x \in replies : x.key \in Keys /\ x.key # k
        BY <1>1, <1>2 DEF IInv, AnswersStored, TypeOK
      <3> QED  BY <1>1, <1>2, <3>1 DEF IInv, AnswersStored, TypeOK
    <2> QED  BY <2>1, <2>2, <2>3
  <1>9. JournalMatchesStatus'
    <2> SUFFICES ASSUME NEW q \in Payments, NEW a \in Accounts
                 PROVE  journal'[q][a] =
                          CASE status'[q] \in Held -> Move(body'[q].payer, Suspense, body'[q].amount)[a]
                            [] status'[q] \in Paid -> Move(body'[q].payer, body'[q].payee, body'[q].amount - refunded'[q])[a]
                            [] OTHER -> 0
      BY DEF JournalMatchesStatus
    <2>1. CASE q = p
      <3>1. journal'[q] = Move(b.payer, Suspense, b.amount) /\ status'[q] \in Held /\ status'[q] \notin Paid /\ body'[q] = b
        BY <1>1, <1>2, <2>1 DEF TypeOK, Held, Paid
      <3> QED  BY <3>1
    <2>2. CASE q # p
      <3>1. journal'[q] = journal[q] /\ status'[q] = status[q] /\ body'[q] = body[q] /\ refunded'[q] = refunded[q]
        BY <1>1, <1>2, <2>2 DEF TypeOK
      <3> QED  BY <3>1 DEF IInv, JournalMatchesStatus
    <2> QED  BY <2>1, <2>2
  <1>10. OutboxMatchesStatus'
    <2>1. \A r \in RefundKeys : outbox'[r] = outbox[r] /\ refunds'[r] = refunds[r]
      BY <1>1, <1>2, PaymentsAssumption DEF TypeOK
    <2>2. \A q \in Payments : q # p => outbox'[q] = outbox[q] /\ status'[q] = status[q]
      BY <1>1, <1>2 DEF TypeOK
    <2>3. status'[p] = "PROCESSING"
      BY <1>1, <1>2 DEF TypeOK
    <2> QED  BY <1>5, <2>1, <2>2, <2>3 DEF IInv, OutboxMatchesStatus, Held, Paid
  <1> QED  BY <1>6, <1>7, <1>8, <1>9, <1>10 DEF IInv

\* A refund moves money back from the payee, as much as refunded_amount grows.
LEMMA RefundIInv ==
    ASSUME IInv, NEW r \in RefundKeys, NEW p \in Payments, NEW m \in Nat, refund(r, p, m)
    PROVE  IInv'
  <1> DEFINE entries == Move(body[p].payee, body[p].payer, m)
  <1>1. TypeOK /\ RowsSound
    BY DEF IInv
  <1>2. /\ refunds[r] = None /\ status[p] = "SUCCEEDED" /\ refunded[p] + m =< body[p].amount
        /\ refunds' = [refunds EXCEPT ![r] = [payment |-> p, amount |-> m]]
        /\ refunded' = [refunded EXCEPT ![p] = @ + m]
        /\ status' = [status EXCEPT ![p] = IF refunded[p] + m = body[p].amount THEN "REFUNDED" ELSE @]
        /\ version' = [version EXCEPT ![p] = @ + 1]
        /\ journal' = [journal EXCEPT ![p] = Plus(@, entries)]
        /\ balance' = Plus(balance, entries)
        /\ outbox' = [outbox EXCEPT ![r] = Append(@, "refund.completed")]
        /\ UNCHANGED <<body, referenced, claim, hash, response, handler, key, replies, psp, sent, acked, seen, aged>>
    BY DEF refund, Refundable, idem, call, world
  <1>3. body[p].amount \in Nat /\ refunded[p] \in Nat /\ handler[p] # "authorizing" /\ body[p] \in Bodies /\ key[p] \in Keys
    BY <1>1, <1>2, BodyTyped DEF RowsSound, TypeOK
  <1>4. Plus(journal[p], entries) \in [Accounts -> Int]
    BY <1>1 DEF TypeOK, Plus, Move
  <1>5. outbox'[r] = <<"refund.completed">> /\ outbox' \in [Payments \cup RefundKeys -> Seq(EventTypes)]
    <2>1. outbox[r] = <<>>
      BY <1>2 DEF IInv, OutboxMatchesStatus
    <2>2. "refund.completed" \in EventTypes
      BY DEF EventTypes
    <2>3. Append(<<>>, "refund.completed") = <<"refund.completed">>
      BY <2>2, AppendToNone
    <2>4. outbox \in [Payments \cup RefundKeys -> Seq(EventTypes)] /\ <<"refund.completed">> \in Seq(EventTypes)
      BY <1>1, <2>2 DEF TypeOK, EventTypes
    <2> QED  BY <1>2, <2>1, <2>3, <2>4
  <1>6. TypeOK'
    <2>1. DOMAIN balance' = Accounts
      BY <1>2 DEF Plus
    <2>2. [payment |-> p, amount |-> m] \in [payment : Payments, amount : Nat]
      OBVIOUS
    <2> HIDE DEF entries
    <2> QED  BY <1>1, <1>2, <1>3, <1>4, <1>5, <2>1, <2>2, SMTT(20) DEF TypeOK, Statuses, EventTypes
  <1>7. /\ status'[p] \in Paid /\ status'[p] # "none" /\ status'[p] \notin Held
        /\ refunded'[p] = refunded[p] + m
        /\ status[p] \in Paid /\ status[p] \notin Held
        /\ \A q \in Payments : q # p => status'[q] = status[q] /\ refunded'[q] = refunded[q]
    BY <1>1, <1>2 DEF TypeOK, Paid, Held
  <1>8. RowsSound'
    BY <1>1, <1>2, <1>3, <1>7 DEF RowsSound
  <1>9. ClaimsSound' /\ OnePaymentPerKey' /\ AnswersStored'
    BY <1>2 DEF IInv, ClaimsSound, OnePaymentPerKey, AnswersStored
  <1>10. JournalMatchesStatus'
    <2> SUFFICES ASSUME NEW q \in Payments, NEW a \in Accounts
                 PROVE  journal'[q][a] =
                          CASE status'[q] \in Held -> Move(body[q].payer, Suspense, body[q].amount)[a]
                            [] status'[q] \in Paid -> Move(body[q].payer, body[q].payee, body[q].amount - refunded'[q])[a]
                            [] OTHER -> 0
      BY <1>2 DEF JournalMatchesStatus
    <2>1. CASE q = p
      <3>1. journal'[p][a] = journal[p][a] + entries[a]
        BY <1>1, <1>2 DEF TypeOK, Plus
      <3>2. journal[p][a] = Move(body[p].payer, body[p].payee, body[p].amount - refunded[p])[a]
        BY <1>7 DEF IInv, JournalMatchesStatus
      <3>3. journal'[p][a] = Move(body[p].payer, body[p].payee, body[p].amount - refunded'[p])[a]
        BY <1>3, <1>7, <3>1, <3>2 DEF Move
      <3> QED  BY <1>7, <2>1, <3>3
    <2>2. CASE q # p
      <3>1. journal'[q] = journal[q]
        BY <1>1, <1>2, <2>2 DEF TypeOK
      <3> QED  BY <1>7, <2>2, <3>1 DEF IInv, JournalMatchesStatus
    <2> QED  BY <2>1, <2>2
  <1>11. OutboxMatchesStatus'
    <2>1. \A q \in Payments : outbox'[q] = outbox[q]
      BY <1>1, <1>2, PaymentsAssumption DEF TypeOK
    <2>2. \A t \in RefundKeys : t # r => outbox'[t] = outbox[t] /\ refunds'[t] = refunds[t]
      BY <1>1, <1>2 DEF TypeOK
    <2>3. refunds'[r] # None
      <3>1. refunds'[r] = [payment |-> p, amount |-> m]
        BY <1>1, <1>2 DEF TypeOK
      <3> QED  BY <3>1, PaymentsAssumption
    <2>4. outbox[p] = <<"payment.processing", "payment.succeeded">>
      BY <1>2 DEF IInv, OutboxMatchesStatus, Held, Paid
    <2>5. ASSUME NEW q \in Payments
          PROVE  outbox'[q] =
                    CASE status'[q] = "none" -> <<>>
                      [] status'[q] \in Held -> <<"payment.processing">>
                      [] status'[q] \in Paid -> <<"payment.processing", "payment.succeeded">>
                      [] OTHER -> <<"payment.processing", "payment.failed">>
      <3>1. CASE q = p
        BY <1>7, <2>1, <2>4, <3>1
      <3>2. CASE q # p
        BY <1>7, <2>1, <3>2 DEF IInv, OutboxMatchesStatus
      <3> QED  BY <3>1, <3>2
    <2>6. ASSUME NEW t \in RefundKeys
          PROVE  outbox'[t] = IF refunds'[t] = None THEN <<>> ELSE <<"refund.completed">>
      BY <1>5, <2>2, <2>3 DEF IInv, OutboxMatchesStatus
    <2> QED  BY <2>5, <2>6 DEF OutboxMatchesStatus
  <1> QED  BY <1>6, <1>8, <1>9, <1>10, <1>11 DEF IInv

\* Steps that leave the books, the rows and the claims alone.
LEMMA OutsideIInv ==
    ASSUME IInv, UNCHANGED <<row, books, refunds, idem, key>>,
           handler' \in [Payments -> {"none", "authorizing", "done", "refused", "dead"}],
           \A p \in Payments : handler'[p] = handler[p] \/ (handler[p] = "authorizing" /\ handler'[p] \in {"refused", "dead"}),
           \A x \in replies' \ replies : claim[x.key] = "COMPLETED" /\ x.answer = response[x.key] /\ x \in
               [key : Keys, answer : [payment : Payments, status : Statuses] \cup {None}],
           psp' \in [Payments -> {"none", "CAPTURED", "PENDING", "DECLINED"}],
           sent' \subseteq Event, acked' \subseteq sent', seen' \subseteq EventIds, aged' \subseteq Payments
    PROVE  IInv'
  <1> USE DEF row, books, idem
  <1>1. TypeOK /\ RowsSound
    BY DEF IInv
  <1>2. TypeOK'
    <2>1. replies' \subseteq [key : Keys, answer : [payment : Payments, status : Statuses] \cup {None}]
      BY <1>1 DEF TypeOK
    <2> QED  BY <1>1, <2>1 DEF TypeOK
  <1>3. RowsSound'
    BY <1>1 DEF RowsSound
  <1>4. ClaimsSound' /\ OnePaymentPerKey'
    BY DEF IInv, ClaimsSound, OnePaymentPerKey
  <1>5. AnswersStored'
    BY DEF IInv, AnswersStored
  <1>6. JournalMatchesStatus' /\ OutboxMatchesStatus'
    BY DEF IInv, JournalMatchesStatus, OutboxMatchesStatus
  <1> QED  BY <1>2, <1>3, <1>4, <1>5, <1>6 DEF IInv

\* The handlers, one by one.
LEMMA NextIInv == IInv /\ [Next]_vars => IInv'
  <1> SUFFICES ASSUME IInv, [Next]_vars PROVE IInv'
    OBVIOUS
  <1> USE DEF IInv
  <1>1. CASE UNCHANGED vars
    BY <1>1, OutsideIInv DEF vars, call, world, TypeOK
  <1>2. ASSUME NEW k \in Keys, NEW b \in Bodies, Replay(k, b)
        PROVE  IInv'
    <2>1. /\ UNCHANGED <<row, books, refunds, idem, handler, key, psp, sent, acked, seen, aged>>
          /\ claim[k] = "COMPLETED"
          /\ replies' = replies \cup {[key |-> k, answer |-> response[k]]}
      BY <1>2 DEF Replay, Stored, world
    <2>2. [key |-> k, answer |-> response[k]] \in [key : Keys, answer : [payment : Payments, status : Statuses] \cup {None}]
      BY <2>1 DEF ClaimsSound
    <2>3. TypeOK
      OBVIOUS
    <2>4. /\ handler' \in [Payments -> {"none", "authorizing", "done", "refused", "dead"}]
          /\ psp' \in [Payments -> {"none", "CAPTURED", "PENDING", "DECLINED"}]
          /\ sent' \subseteq Event /\ acked' \subseteq sent' /\ seen' \subseteq EventIds /\ aged' \subseteq Payments
          /\ \A p \in Payments : handler'[p] = handler[p]
      BY <2>1, <2>3 DEF TypeOK
    <2>5. \A x \in replies' \ replies :
             /\ claim[x.key] = "COMPLETED" /\ x.answer = response[x.key]
             /\ x \in [key : Keys, answer : [payment : Payments, status : Statuses] \cup {None}]
      BY <2>1, <2>2
    <2> QED  BY <2>1, <2>4, <2>5, OutsideIInv
  <1>3. ASSUME NEW k \in Keys, NEW b \in Bodies, NEW p \in Payments, CreateHold(k, b, p)
        PROVE  IInv'
    BY <1>3, CreateHoldIInv
  <1>4. ASSUME NEW p \in Payments, Finish(p)
        PROVE  IInv'
    <2>1. CASE FinishCaptured(p)
      <3>1. referenced' \subseteq Payments
        BY <2>1 DEF FinishCaptured, settle, TypeOK
      <3> QED  BY <2>1, <3>1, FinishReleased DEF FinishCaptured, Answered, settle
    <2>2. CASE FinishDeclined(p)
      <3>1. referenced' \subseteq Payments
        BY <2>2 DEF FinishDeclined, reverse, TypeOK
      <3> QED  BY <2>2, <3>1, FinishReleased DEF FinishDeclined, Answered, reverse
    <2>3. CASE FinishPending(p)
      BY <2>3, FinishPendingIInv
    <2>4. CASE FinishRefused(p)
      BY <2>4, OutsideIInv, ZenonT(40) DEF FinishRefused, Answered, world, TypeOK
    <2> QED  BY <1>4, <2>1, <2>2, <2>3, <2>4 DEF Finish
  <1>5. ASSUME NEW p \in Payments, HandlerDies(p) \/ Provider(p) \/ Age(p)
        PROVE  IInv'
    <2>1. CASE HandlerDies(p)
      BY <2>1, OutsideIInv, ZenonT(40) DEF HandlerDies, world, TypeOK
    <2>2. CASE Provider(p)
      <3>1. PICK outcome \in {"CAPTURED", "PENDING", "DECLINED"} : PspDecide(p, outcome)
        BY <2>2 DEF Provider
      <3> QED  BY <3>1, OutsideIInv, ZenonT(40) DEF PspDecide, call, TypeOK
    <2>3. CASE Age(p)
      BY <2>3, OutsideIInv DEF Age, call, TypeOK
    <2> QED  BY <1>5, <2>1, <2>2, <2>3
  <1>6. ASSUME NEW e \in Event, PspSend(e)
        PROVE  IInv'
    BY <1>6, OutsideIInv DEF PspSend, call, TypeOK
  <1>7. ASSUME NEW e \in Event, Webhook(e)
        PROVE  IInv'
    <2>1. /\ e.payment \in Payments /\ acked' \subseteq sent /\ seen' \subseteq EventIds
          /\ UNCHANGED <<refunds, idem, call, psp, sent, aged>>
      BY <1>7 DEF Webhook, WebhookCaptures, WebhookFails, WebhookIgnored, Record, RecordedIds, Event, TypeOK
    <2>2. CASE WebhookCaptures(e)
      <3>1. referenced' \subseteq Payments /\ \A p \in {e.payment} : status[p] = "AUTHORIZED"
        BY <2>1, <2>2 DEF WebhookCaptures, Acts, settle, TypeOK
      <3> QED  BY <2>1, <2>2, <3>1, ReleaseAuthorized DEF WebhookCaptures, settle
    <2>3. CASE WebhookFails(e)
      <3>1. referenced' \subseteq Payments /\ \A p \in {e.payment} : status[p] = "AUTHORIZED"
        BY <2>1, <2>3 DEF WebhookFails, Acts, reverse, TypeOK
      <3> QED  BY <2>1, <2>3, <3>1, ReleaseAuthorized DEF WebhookFails, reverse
    <2>4. CASE WebhookIgnored(e)
      BY <2>1, <2>4, OutsideIInv DEF WebhookIgnored, call, TypeOK
    <2> QED  BY <1>7, <2>2, <2>3, <2>4 DEF Webhook
  <1>8. CASE Refund
    <2>1. PICK r \in RefundKeys, p \in Payments :
             status[p] = "SUCCEEDED" /\ \E m \in 1 .. body[p].amount : refund(r, p, m)
      BY <1>8 DEF Refund
    <2>2. PICK m \in 1 .. body[p].amount : refund(r, p, m)
      BY <2>1
    <2>3. m \in Nat
      BY <2>1, <2>2, BodyTyped
    <2> QED  BY <2>2, <2>3, RefundIInv
  <1>9. CASE expire_stale_holds
    <2> DEFINE S == {p \in Payments : Stale(p)}
    <2>1. /\ \A p \in S : status[p] = "AUTHORIZED"
          /\ Release(S, "FAILED", "payment.failed")
          /\ referenced' \subseteq Payments /\ acked' \subseteq sent /\ seen' \subseteq EventIds
          /\ UNCHANGED <<refunds, idem, call, psp, sent, aged>>
      BY <1>9 DEF expire_stale_holds, reverse, Stale, world, TypeOK
    <2> HIDE DEF S
    <2>2. S \in SUBSET Payments
      BY DEF S
    <2> QED  BY <2>1, <2>2, ReleaseAuthorized
  <1> QED  BY <1>1, <1>2, <1>3, <1>4, <1>5, <1>6, <1>7, <1>8, <1>9 DEF Next

\* The invariant in force, AnswersAgree follows from what is stored.
LEMMA AnswersAgreeLemma == IInv => AnswersAgree
  <1> SUFFICES ASSUME IInv, NEW x \in replies, NEW y \in replies
               PROVE  (x.key = y.key => x = y) /\ key[x.answer.payment] = x.key
    BY DEF AnswersAgree
  <1> DEFINE A == [payment : Payments, status : Statuses] \cup {None}
  <1>1. x \in [key : Keys, answer : A] /\ y \in [key : Keys, answer : A]
    BY DEF IInv, TypeOK
  <1>2. /\ claim[x.key] = "COMPLETED" /\ x.answer = response[x.key]
        /\ claim[y.key] = "COMPLETED" /\ y.answer = response[y.key]
    BY DEF IInv, AnswersStored
  <1>3. key[x.answer.payment] = x.key
    BY <1>1, <1>2 DEF IInv, ClaimsSound
  <1>4. ASSUME x.key = y.key PROVE x = y
    <2> HIDE DEF A
    <2>1. x = [key |-> x.key, answer |-> x.answer] /\ y = [key |-> y.key, answer |-> y.answer]
      BY <1>1
    <2> QED  BY <1>2, <1>4, <2>1
  <1> QED  BY <1>3, <1>4

\* Exactly-once settlement.  For any number of concurrent requests, webhooks,
\* redeliveries, refunds, expiries and crashes, the ledger entries and the
\* outbox events of every payment are exactly those its status calls for.
THEOREM MoneyFollowsStatus == Spec => [](TypeOK /\ JournalMatchesStatus /\ OutboxMatchesStatus)
  <1>1. IInv => TypeOK /\ JournalMatchesStatus /\ OutboxMatchesStatus
    BY DEF IInv
  <1> QED  BY <1>1, InitIInv, NextIInv, PTL DEF Spec

\* Idempotent creation.  No key ever makes two payments, and every 201 answer
\* given for a key is the same.
THEOREM CreationIsIdempotent == Spec => [](OnePaymentPerKey /\ AnswersAgree)
  <1>1. IInv => OnePaymentPerKey /\ AnswersAgree
    BY AnswersAgreeLemma DEF IInv
  <1> QED  BY <1>1, InitIInv, NextIInv, PTL DEF Spec

\* Whatever the step, each payment it touches was in a status the lifecycle
\* allows it to leave that way.
LEMMA StepMoves ==
    IInv /\ Next =>
        \A p \in Payments : status'[p] # status[p] => <<status[p], status'[p]>> \in Lifecycle
  <1> DEFINE Moves == \A p \in Payments : status'[p] # status[p] => <<status[p], status'[p]>> \in Lifecycle
  <1>1. ASSUME IInv, Next PROVE Moves
    <2>1. TypeOK /\ RowsSound
      BY <1>1 DEF IInv
    <2>2. ASSUME NEW S, NEW st \in {"SUCCEEDED", "FAILED"}, NEW event, Release(S, st, event),
                 \A p \in S : status[p] \in Held
          PROVE  Moves
      BY <2>1, <2>2 DEF Release, Held, Lifecycle, TypeOK
    <2>3. ASSUME NEW k \in Keys, NEW b \in Bodies, NEW p \in Payments, CreateHold(k, b, p)
          PROVE  Moves
      BY <2>1, <2>3 DEF CreateHold, Lifecycle, TypeOK
    <2>4. ASSUME NEW p \in Payments, Finish(p)
          PROVE  Moves
      <3>1. status[p] = "PROCESSING"
        BY <2>1, <2>4 DEF Finish, FinishCaptured, FinishDeclined, FinishPending, FinishRefused, Answered, RowsSound
      <3>2. CASE FinishPending(p)
        BY <2>1, <3>1, <3>2 DEF FinishPending, Lifecycle, TypeOK
      <3>3. \A q \in {p} : status[q] \in Held
        BY <3>1 DEF Held
      <3>4. CASE FinishCaptured(p) \/ FinishDeclined(p)
        BY <2>2, <3>3, <3>4 DEF FinishCaptured, FinishDeclined, settle, reverse
      <3>5. CASE FinishRefused(p)
        BY <3>5 DEF FinishRefused, row
      <3> QED  BY <2>4, <3>2, <3>4, <3>5 DEF Finish
    <2>5. ASSUME NEW e \in Event, Webhook(e)
          PROVE  Moves
      <3>1. CASE WebhookIgnored(e)
        BY <3>1 DEF WebhookIgnored, row
      <3>2. CASE WebhookCaptures(e) \/ WebhookFails(e)
        <4>1. \A q \in {e.payment} : status[q] \in Held
          BY <3>2 DEF WebhookCaptures, WebhookFails, Acts, Held
        <4> QED  BY <2>2, <3>2, <4>1 DEF WebhookCaptures, WebhookFails, settle, reverse
      <3> QED  BY <2>5, <3>1, <3>2 DEF Webhook
    <2>6. CASE Refund
      BY <2>1, <2>6 DEF Refund, refund, Lifecycle, TypeOK
    <2>7. CASE expire_stale_holds
      <3> DEFINE S == {p \in Payments : Stale(p)}
      <3>1. Release(S, "FAILED", "payment.failed") /\ \A p \in S : status[p] \in Held
        BY <2>7 DEF expire_stale_holds, reverse, Stale, Held
      <3> HIDE DEF S
      <3> QED  BY <2>2, <3>1
    <2>8. ASSUME UNCHANGED status
          PROVE  Moves
      BY <2>8
    <2> HIDE DEF Moves
    <2>9. ASSUME NEW k \in Keys, NEW b \in Bodies, Replay(k, b)
          PROVE  Moves
      BY <2>8, <2>9 DEF Replay, row
    <2>10. ASSUME NEW p \in Payments, HandlerDies(p) \/ Provider(p) \/ Age(p)
           PROVE  Moves
      BY <2>8, <2>10 DEF HandlerDies, Provider, PspDecide, Age, row
    <2>11. ASSUME NEW e \in Event, PspSend(e)
           PROVE  Moves
      BY <2>8, <2>11 DEF PspSend, row
    <2> QED  BY <1>1, <2>3, <2>4, <2>5, <2>6, <2>7, <2>9, <2>10, <2>11 DEF Next
  <1> QED  BY <1>1

\* The status of a payment only moves along the lifecycle, although settle and
\* reverse do not check it.
THEOREM StatusFollowsLifecycle == Spec => StatusMoves
  <1> DEFINE Moves == \A p \in Payments : status'[p] # status[p] => <<status[p], status'[p]>> \in Lifecycle
  <1>1. IInv /\ [Next]_vars => [Moves]_vars
    BY StepMoves
  <1> QED  BY <1>1, InitIInv, NextIInv, PTL DEF Spec, StatusMoves

-------------------------------------------------------------------------------
(***************************************************************************)
(* The books.  Each balance is the seeded one plus the entries of all      *)
(* payments; what is in suspense follows from the entries of each payment. *)
(***************************************************************************)

\* The entries of all payments on account a.
Column(a) == [p \in Payments |-> journal[p][a]]

\* Balances and entries agree.
Books ==
    \A a \in Accounts :
        /\ balance[a] \in Int
        /\ balance[a] = Opening[a] + SumOver(Column(a), Payments)

\* No account is overdrawn.
Solvent == \A a \in Accounts : balance[a] >= 0

\* The entries on an account are integers.
LEMMA ColumnTyped ==
    ASSUME IInv, NEW a \in Accounts
    PROVE  /\ \A p \in Payments : Column(a)[p] = journal[p][a] /\ Column(a)[p] \in Int
           /\ SumOver(Column(a), Payments) \in Int /\ Opening[a] \in Int /\ Opening[a] >= 0
           /\ IsFiniteSet(Payments)
  <1>1. \A p \in Payments : Column(a)[p] = journal[p][a] /\ Column(a)[p] \in Int
    BY DEF Column, IInv, TypeOK
  <1>2. IsFiniteSet(Payments) /\ Opening[a] \in Int /\ Opening[a] >= 0
    BY PaymentsAssumption
  <1>3. SumOver(Column(a), Payments) \in Int
    BY <1>1, <1>2, SumInt
  <1> QED  BY <1>1, <1>2, <1>3

\* A hold or a refund: the entries of one payment and the balances move by the
\* same amounts.
LEMMA OneMoves ==
    ASSUME IInv, IInv', Books, NEW p \in Payments, NEW e \in [Accounts -> Int],
           \A q \in Payments : q # p => journal'[q] = journal[q],
           \A a \in Accounts : journal'[p][a] = journal[p][a] + e[a],
           \A a \in Accounts : balance'[a] = balance[a] + e[a]
    PROVE  Books'
  <1> SUFFICES ASSUME NEW a \in Accounts
               PROVE  /\ balance'[a] \in Int
                      /\ balance'[a] = Opening[a] + SumOver(Column(a)', Payments)
    BY DEF Books
  <1> DEFINE f == Column(a)
             g == Column(a)'
  <1>1. /\ IsFiniteSet(Payments) /\ (\A q \in Payments : f[q] = journal[q][a] /\ f[q] \in Int)
        /\ SumOver(f, Payments) \in Int /\ Opening[a] \in Int
    BY ColumnTyped
  <1>2. \A q \in Payments : g[q] = journal'[q][a] /\ g[q] \in Int
    BY DEF Column, IInv, TypeOK
  <1>3. /\ balance[a] \in Int /\ balance[a] = Opening[a] + SumOver(f, Payments)
        /\ balance'[a] = balance[a] + e[a] /\ e[a] \in Int
    BY DEF Books
  <1> HIDE DEF f, g
  <1>4. g[p] = f[p] + e[a] /\ \A q \in Payments \ {p} : g[q] = f[q]
    BY <1>1, <1>2
  <1>5. SumOver(g, Payments) = SumOver(f, Payments) + g[p] - f[p]
    BY <1>1, <1>2, <1>4, SumUpdate
  <1>6. SumOver(g, Payments) = SumOver(f, Payments) + e[a]
    BY <1>1, <1>3, <1>4, <1>5
  <1>7. balance'[a] \in Int /\ balance'[a] = Opening[a] + SumOver(g, Payments)
    BY <1>1, <1>3, <1>6
  <1> QED  BY <1>7 DEF g

\* A release, of one payment or of many.
LEMMA ManyMove ==
    ASSUME IInv, IInv', Books, Solvent, NEW S \in SUBSET Payments, \A p \in S : status[p] # "none",
           NEW st, NEW event, Release(S, st, event)
    PROVE  Books' /\ Solvent'
  <1>1. /\ journal' = [p \in Payments |->
                          IF p \in S THEN Plus(journal[p], ReleaseEntries(p, st)) ELSE journal[p]]
        /\ balance' = [a \in Accounts |-> balance[a] + SumOver([p \in S |-> ReleaseEntries(p, st)[a]], S)]
    BY DEF Release
  <1>2. ASSUME NEW a \in Accounts
        PROVE  /\ balance'[a] \in Int
               /\ balance'[a] = Opening[a] + SumOver(Column(a)', Payments)
               /\ a # Suspense => balance'[a] >= balance[a]
    <2> DEFINE f == Column(a)
               g == Column(a)'
               d == [p \in S |-> ReleaseEntries(p, st)[a]]
               x == [p \in Payments |-> IF p \in S THEN ReleaseEntries(p, st)[a] ELSE 0]
    <2>1. /\ IsFiniteSet(Payments) /\ (\A q \in Payments : f[q] = journal[q][a] /\ f[q] \in Int)
          /\ SumOver(f, Payments) \in Int /\ Opening[a] \in Int
      BY ColumnTyped
    <2>2. IsFiniteSet(S)
      BY <2>1, FS_Subset
    <2>3. ASSUME NEW p \in S
          PROVE  /\ ReleaseEntries(p, st)[a] \in Int
                 /\ a # Suspense => ReleaseEntries(p, st)[a] \in Nat
      <3>1. body[p].amount \in Nat
        BY BodyTyped
      <3>2. Move(Suspense, Destination(p, st), body[p].amount)[a]
               = (IF a = Destination(p, st) THEN body[p].amount ELSE 0) - (IF a = Suspense THEN body[p].amount ELSE 0)
        BY DEF Move
      <3> QED  BY <3>1, <3>2 DEF ReleaseEntries
    <2>4. /\ \A p \in S : d[p] = ReleaseEntries(p, st)[a] /\ x[p] = d[p] /\ d[p] \in Int
          /\ \A p \in Payments : x[p] \in Int
          /\ \A p \in Payments \ S : x[p] = 0
          /\ a # Suspense => \A p \in S : d[p] \in Nat
      BY <2>3
    <2>5. \A q \in Payments : g[q] = journal'[q][a]
      BY DEF Column
    <2>6. \A q \in Payments : g[q] = f[q] + x[q]
      <3> SUFFICES ASSUME NEW q \in Payments PROVE g[q] = f[q] + x[q]
        OBVIOUS
      <3>1. CASE q \in S
        BY <1>1, <2>1, <2>5, <3>1 DEF Plus
      <3>2. CASE q \notin S
        <4>1. g[q] = f[q] /\ f[q] \in Int /\ x[q] = 0
          BY <1>1, <2>1, <2>5, <3>2
        <4> HIDE DEF f, g, x
        <4> QED  BY <4>1
      <3> QED  BY <3>1, <3>2
    <2>7. balance'[a] = balance[a] + SumOver(d, S)
      BY <1>1
    <2>8. balance[a] \in Int /\ balance[a] = Opening[a] + SumOver(f, Payments)
      BY DEF Books
    <2> HIDE DEF f, g, d, x
    <2>9. SumOver(g, Payments) = SumOver(f, Payments) + SumOver(x, Payments)
      BY <2>1, <2>4, <2>6, SumPlus
    <2>10. SumOver(x, Payments) = SumOver(x, S)
      BY <2>1, <2>4, SumWithin
    <2>11. SumOver(x, S) = SumOver(d, S) /\ SumOver(d, S) \in Int
      BY <2>2, <2>4, SumSame, SumInt
    <2>12. a # Suspense => SumOver(d, S) \in Nat
      BY <2>2, <2>4, SumNat
    <2>13. /\ balance'[a] \in Int
           /\ balance'[a] = Opening[a] + SumOver(g, Payments)
           /\ a # Suspense => balance'[a] >= balance[a]
      BY <2>1, <2>7, <2>8, <2>9, <2>10, <2>11, <2>12
    <2> QED  BY <2>13 DEF g
  <1>3. Books'
    BY <1>2 DEF Books
  <1>4. balance'[Suspense] >= 0
    <2> DEFINE leaving == {p \in S : Destination(p, st) # Suspense}
               d == [p \in S |-> ReleaseEntries(p, st)[Suspense]]
               h == [p \in leaving |-> body[p].amount]
               w == [p \in S |-> IF p \in leaving THEN body[p].amount ELSE 0]
               z == [p \in S |-> 0]
    <2>1. /\ Suspense \in Accounts /\ IsFiniteSet(S) /\ leaving \in SUBSET S /\ IsFiniteSet(leaving)
      BY PaymentsAssumption, FS_Subset
    <2>2. \A p \in S : body[p].amount \in Nat
      BY BodyTyped
    <2>3. \A p \in S : d[p] = (IF Destination(p, st) = Suspense THEN body[p].amount ELSE 0) - body[p].amount
      BY <2>1 DEF ReleaseEntries, Move
    <2>4. /\ \A p \in S : d[p] \in Int /\ w[p] \in Int /\ z[p] = d[p] + w[p] /\ z[p] = 0
          /\ \A p \in S \ leaving : w[p] = 0
          /\ \A p \in leaving : h[p] \in Int /\ w[p] = h[p]
      BY <2>2, <2>3
    <2>5. balance[Suspense] >= SumOver(h, leaving)
      BY DEF Release, SuspenseBears
    <2>6. balance'[Suspense] = balance[Suspense] + SumOver(d, S) /\ balance[Suspense] \in Int
      BY <1>1, <2>1 DEF Books
    <2> HIDE DEF leaving, d, h, w, z
    <2>7. SumOver(z, S) = SumOver(d, S) + SumOver(w, S) /\ SumOver(z, S) = 0
      BY <2>1, <2>4, SumPlus, SumZero
    <2>8. SumOver(w, S) = SumOver(w, leaving) /\ SumOver(w, leaving) = SumOver(h, leaving)
      BY <2>1, <2>4, SumWithin, SumSame
    <2>9. SumOver(d, S) \in Int /\ SumOver(h, leaving) \in Int
      BY <2>1, <2>4, SumInt
    <2> QED  BY <2>5, <2>6, <2>7, <2>8, <2>9
  <1>5. Solvent'
    BY <1>2, <1>4 DEF Solvent, Books
  <1> QED  BY <1>3, <1>5

\* Only the debited account of a transfer loses money.
LEMMA TransferSolvent ==
    ASSUME Books, Solvent, NEW d \in Accounts, NEW c \in Accounts, NEW m \in Nat, balance[d] >= m,
           \A a \in Accounts : balance'[a] = balance[a] + Move(d, c, m)[a]
    PROVE  Solvent'
  <1> SUFFICES ASSUME NEW a \in Accounts PROVE balance'[a] >= 0
    BY DEF Solvent
  <1>1. balance[a] \in Int /\ balance[a] >= 0
    BY DEF Books, Solvent
  <1>2. balance'[a] = balance[a] + ((IF a = c THEN m ELSE 0) - (IF a = d THEN m ELSE 0))
    BY <1>1 DEF Move
  <1> QED  BY <1>1, <1>2

\* Every step keeps the books and leaves no account overdrawn.
LEMMA NextBooks == IInv /\ Books /\ Solvent /\ [Next]_vars => Books' /\ Solvent'
  <1> SUFFICES ASSUME IInv, Books, Solvent, [Next]_vars PROVE Books' /\ Solvent'
    OBVIOUS
  <1>0. IInv' /\ TypeOK
    BY NextIInv DEF IInv
  <1>1. ASSUME UNCHANGED <<balance, journal>>
        PROVE  Books' /\ Solvent'
    BY <1>1 DEF Books, Solvent, Column
  <1>2. ASSUME NEW k \in Keys, NEW b \in Bodies, NEW p \in Payments, CreateHold(k, b, p)
        PROVE  Books' /\ Solvent'
    <2> DEFINE e == Move(b.payer, Suspense, b.amount)
    <2>1. /\ b.payer \in Accounts /\ Suspense \in Accounts /\ b.amount \in Nat
      BY PaymentsAssumption DEF Body
    <2>2. /\ status[p] = "none" /\ balance[b.payer] >= b.amount
          /\ journal' = [journal EXCEPT ![p] = e] /\ balance' = Plus(balance, e)
      BY <1>2 DEF CreateHold
    <2>3. e \in [Accounts -> Int]
      BY <2>1, MoveTyped
    <2>4. \A a \in Accounts : journal[p][a] = 0
      BY <2>2 DEF IInv, JournalMatchesStatus, Held, Paid
    <2> HIDE DEF e
    <2>5. /\ \A q \in Payments : q # p => journal'[q] = journal[q]
          /\ \A a \in Accounts : journal'[p][a] = journal[p][a] + e[a]
          /\ \A a \in Accounts : balance'[a] = balance[a] + e[a]
      BY <1>0, <2>2, <2>3, <2>4 DEF TypeOK, Plus
    <2>6. Books'
      BY <1>0, <2>3, <2>5, OneMoves
    <2>7. Solvent'
      BY <2>1, <2>2, <2>5, TransferSolvent DEF e
    <2> QED  BY <2>6, <2>7
  <1>3. ASSUME NEW p \in Payments, Finish(p)
        PROVE  Books' /\ Solvent'
    <2>1. status[p] = "PROCESSING"
      BY <1>3 DEF Finish, FinishCaptured, FinishDeclined, FinishPending, FinishRefused, Answered, IInv, RowsSound
    <2>2. CASE FinishPending(p)
      BY <1>1, <2>2 DEF FinishPending, books
    <2>3. \A q \in {p} : status[q] # "none"
      BY <2>1
    <2>4. CASE FinishCaptured(p) \/ FinishDeclined(p)
      BY <1>0, <2>3, <2>4, ManyMove DEF FinishCaptured, FinishDeclined, settle, reverse
    <2>5. CASE FinishRefused(p)
      BY <1>1, <2>5 DEF FinishRefused, books
    <2> QED  BY <1>3, <2>2, <2>4, <2>5 DEF Finish
  <1>4. ASSUME NEW e \in Event, Webhook(e)
        PROVE  Books' /\ Solvent'
    <2>1. CASE WebhookIgnored(e)
      BY <1>1, <2>1 DEF WebhookIgnored, books
    <2>2. CASE WebhookCaptures(e) \/ WebhookFails(e)
      <3>1. {e.payment} \in SUBSET Payments /\ \A q \in {e.payment} : status[q] # "none"
        BY <2>2 DEF WebhookCaptures, WebhookFails, Acts, Event
      <3> QED  BY <1>0, <2>2, <3>1, ManyMove DEF WebhookCaptures, WebhookFails, settle, reverse
    <2> QED  BY <1>4, <2>1, <2>2 DEF Webhook
  <1>5. CASE Refund
    <2>1. PICK r \in RefundKeys, p \in Payments :
             status[p] = "SUCCEEDED" /\ \E m \in 1 .. body[p].amount : refund(r, p, m)
      BY <1>5 DEF Refund
    <2>2. PICK m \in 1 .. body[p].amount : refund(r, p, m)
      BY <2>1
    <2> DEFINE e == Move(body[p].payee, body[p].payer, m)
    <2>3. m \in Nat /\ body[p].payer \in Accounts /\ body[p].payee \in Accounts
      BY <2>1, <2>2, BodyTyped
    <2>4. /\ balance[body[p].payee] >= m
          /\ journal' = [journal EXCEPT ![p] = Plus(@, e)] /\ balance' = Plus(balance, e)
      BY <2>2 DEF refund
    <2>5. e \in [Accounts -> Int]
      BY <2>3, MoveTyped
    <2> HIDE DEF e
    <2>6. /\ \A q \in Payments : q # p => journal'[q] = journal[q]
          /\ \A a \in Accounts : journal'[p][a] = journal[p][a] + e[a]
          /\ \A a \in Accounts : balance'[a] = balance[a] + e[a]
      BY <1>0, <2>4, <2>5 DEF TypeOK, Plus
    <2>7. Books'
      BY <1>0, <2>5, <2>6, OneMoves
    <2>8. Solvent'
      BY <2>3, <2>4, <2>6, TransferSolvent DEF e
    <2> QED  BY <2>7, <2>8
  <1>6. CASE expire_stale_holds
    <2> DEFINE S == {p \in Payments : Stale(p)}
    <2>1. Release(S, "FAILED", "payment.failed") /\ \A p \in S : status[p] # "none"
      BY <1>6 DEF expire_stale_holds, reverse, Stale
    <2>2. S \in SUBSET Payments
      OBVIOUS
    <2> HIDE DEF S
    <2> QED  BY <1>0, <2>1, <2>2, ManyMove
  <1>7. ASSUME NEW k \in Keys, NEW b \in Bodies, Replay(k, b)
        PROVE  Books' /\ Solvent'
    BY <1>1, <1>7 DEF Replay, books
  <1>8. ASSUME NEW p \in Payments, HandlerDies(p) \/ Provider(p) \/ Age(p)
        PROVE  Books' /\ Solvent'
    BY <1>1, <1>8 DEF HandlerDies, Provider, PspDecide, Age, books
  <1>9. ASSUME NEW e \in Event, PspSend(e)
        PROVE  Books' /\ Solvent'
    BY <1>1, <1>9 DEF PspSend, books
  <1>10. CASE UNCHANGED vars
    BY <1>1, <1>10 DEF vars, books
  <1> QED  BY <1>2, <1>3, <1>4, <1>5, <1>6, <1>7, <1>8, <1>9, <1>10 DEF Next

\* The facts about the books at the start.
LEMMA InitBooks == Init => Books /\ Solvent
  <1> SUFFICES ASSUME Init PROVE Books /\ Solvent
    OBVIOUS
  <1>1. Solvent
    BY PaymentsAssumption DEF Init, Solvent
  <1>2. ASSUME NEW a \in Accounts
        PROVE  balance[a] \in Int /\ balance[a] = Opening[a] + SumOver(Column(a), Payments)
    <2> DEFINE f == Column(a)
    <2>1. \A p \in Payments : f[p] = 0
      BY DEF Init, Column
    <2>2. IsFiniteSet(Payments) /\ Opening[a] \in Int /\ balance[a] = Opening[a]
      BY PaymentsAssumption DEF Init
    <2> HIDE DEF f
    <2>3. SumOver(f, Payments) = 0
      BY <2>1, <2>2, SumZero
    <2>4. balance[a] \in Int /\ balance[a] = Opening[a] + SumOver(f, Payments)
      BY <2>2, <2>3
    <2> QED  BY <2>4 DEF f
  <1> QED  BY <1>1, <1>2 DEF Books

-------------------------------------------------------------------------------
(***************************************************************************)
(* Refunds.                                                                *)
(***************************************************************************)

\* A payment is REFUNDED as soon as, and not before, all of it was given back.
RefundRows ==
    \A p \in Payments :
        /\ status[p] = "none" => body[p] = None
        /\ status[p] = "SUCCEEDED" => refunded[p] < body[p].amount
        /\ status[p] = "REFUNDED" => refunded[p] = body[p].amount

\* The amounts of a payment's refunds, and the column that sums them.
GivenBack(p) == [r \in RefundsOf(p) |-> refunds[r].amount]

RefundSums == \A p \in Payments : refunded[p] = SumOver(GivenBack(p), RefundsOf(p))

\* A release finds nothing refunded.
LEMMA ReleaseRefundRows ==
    ASSUME IInv, RefundRows, NEW S \in SUBSET Payments, \A p \in S : status[p] \in Held,
           NEW st \in {"SUCCEEDED", "FAILED"}, NEW event, Release(S, st, event)
    PROVE  RefundRows'
  <1> SUFFICES ASSUME NEW p \in Payments
               PROVE  /\ status'[p] = "none" => body[p] = None
                      /\ status'[p] = "SUCCEEDED" => refunded[p] < body[p].amount
                      /\ status'[p] = "REFUNDED" => refunded[p] = body[p].amount
    BY DEF RefundRows, Release
  <1>1. status' = [q \in Payments |-> IF q \in S THEN st ELSE status[q]]
    BY DEF Release
  <1>2. CASE p \in S
    <2>1. status[p] # "none" /\ status[p] \notin Paid
      BY <1>2 DEF Held, Paid
    <2>2. refunded[p] = 0 /\ body[p].amount > 0
      BY <2>1, BodyTyped DEF IInv, RowsSound
    <2> QED  BY <1>1, <1>2, <2>2
  <1>3. CASE p \notin S
    BY <1>1, <1>3 DEF RefundRows
  <1> QED  BY <1>2, <1>3

\* One more refund: its amount joins the sum of its payment.
LEMMA RefundJoins ==
    ASSUME IInv, RefundRows, RefundSums, NEW r \in RefundKeys, NEW p \in Payments,
           status[p] = "SUCCEEDED", NEW m \in 1 .. body[p].amount, refund(r, p, m)
    PROVE  RefundRows' /\ RefundSums'
  <1>1. /\ TypeOK /\ refunds[r] = None /\ refunded[p] + m =< body[p].amount
        /\ refunds' = [refunds EXCEPT ![r] = [payment |-> p, amount |-> m]]
        /\ refunded' = [refunded EXCEPT ![p] = @ + m]
        /\ status' = [status EXCEPT ![p] = IF refunded[p] + m = body[p].amount THEN "REFUNDED" ELSE @]
        /\ body' = body
    BY DEF refund, Refundable, IInv
  <1>2. m \in Nat /\ body[p].amount \in Nat /\ \A q \in Payments : refunded[q] \in Nat
    BY <1>1, BodyTyped DEF TypeOK
  <1>3. /\ refunded'[p] = refunded[p] + m
        /\ \A q \in Payments : q # p => refunded'[q] = refunded[q] /\ status'[q] = status[q]
        /\ status'[p] = IF refunded[p] + m = body[p].amount THEN "REFUNDED" ELSE "SUCCEEDED"
    BY <1>1 DEF TypeOK
  <1>4. RefundRows'
    <2> SUFFICES ASSUME NEW q \in Payments
                 PROVE  /\ status'[q] = "none" => body[q] = None
                        /\ status'[q] = "SUCCEEDED" => refunded'[q] < body[q].amount
                        /\ status'[q] = "REFUNDED" => refunded'[q] = body[q].amount
      BY <1>1 DEF RefundRows
    <2>1. CASE q = p
      BY <1>1, <1>2, <1>3, <2>1
    <2>2. CASE q # p
      BY <1>3, <2>2 DEF RefundRows
    <2> QED  BY <2>1, <2>2
  <1>5. /\ refunds'[r] = [payment |-> p, amount |-> m] /\ refunds'[r] # None
        /\ \A t \in RefundKeys : t # r => refunds'[t] = refunds[t]
    <2>1. refunds'[r] = [payment |-> p, amount |-> m]
      BY <1>1 DEF TypeOK
    <2>2. [payment |-> p, amount |-> m] # None
      BY <1>2, PaymentsAssumption
    <2> QED  BY <1>1, <2>1, <2>2 DEF TypeOK
  <1>6. refunds'[r].payment = p /\ refunds'[r].amount = m
    BY <1>5
  <1>7. ASSUME NEW q \in Payments
        PROVE  refunded'[q] = SumOver(GivenBack(q)', RefundsOf(q)')
    <2> DEFINE R == RefundsOf(q)
               f == GivenBack(q)
               g == GivenBack(q)'
    <2>1. /\ IsFiniteSet(R) /\ r \notin R /\ R \subseteq RefundKeys
          /\ \A t \in R : f[t] = refunds[t].amount /\ f[t] \in Nat
      <3>1. R \subseteq RefundKeys /\ r \notin R
        BY <1>1 DEF RefundsOf
      <3>2. IsFiniteSet(R)
        BY <3>1, PaymentsAssumption, FS_Subset
      <3>3. \A t \in R : refunds[t].amount \in Nat
        BY <1>1 DEF RefundsOf, TypeOK
      <3> QED  BY <3>1, <3>2, <3>3 DEF GivenBack
    <2>2. refunded[q] = SumOver(f, R)
      BY DEF RefundSums
    <2>3. RefundsOf(q)' = IF q = p THEN R \cup {r} ELSE R
      BY <1>1, <1>5, <1>6 DEF RefundsOf
    <2>4. \A t \in RefundsOf(q)' : g[t] = refunds'[t].amount
      BY DEF GivenBack
    <2> HIDE DEF R, f, g
    <2>5. \A t \in R : g[t] = f[t] /\ f[t] \in Int
      BY <1>5, <2>1, <2>3, <2>4
    <2>6. SumOver(g, R) = SumOver(f, R)
      BY <2>1, <2>5, SumSame
    <2>7. CASE q = p
      <3>1. g[r] = m
        BY <1>6, <2>3, <2>4, <2>7
      <3>2. \A t \in R \cup {r} : g[t] \in Int
        BY <1>2, <2>5, <3>1
      <3>3. SumOver(g, R \cup {r}) = SumOver(g, R) + g[r]
        BY <2>1, <3>2, SumAdd
      <3>4. refunded'[q] = SumOver(g, R \cup {r})
        BY <1>3, <2>2, <2>6, <2>7, <3>1, <3>3
      <3> QED  BY <2>3, <2>7, <3>4 DEF g
    <2>8. CASE q # p
      <3>1. refunded'[q] = SumOver(g, R)
        BY <1>3, <2>2, <2>6, <2>8
      <3> QED  BY <2>3, <2>8, <3>1 DEF g
    <2> QED  BY <2>7, <2>8
  <1> QED  BY <1>4, <1>7 DEF RefundSums

\* Every step keeps refunds and payments in agreement.
LEMMA NextRefunds == IInv /\ RefundRows /\ RefundSums /\ [Next]_vars => RefundRows' /\ RefundSums'
  <1> SUFFICES ASSUME IInv, RefundRows, RefundSums, [Next]_vars PROVE RefundRows' /\ RefundSums'
    OBVIOUS
  <1>0. TypeOK
    BY DEF IInv
  <1>1. ASSUME UNCHANGED <<refunds, refunded>>
        PROVE  RefundSums'
    BY <1>1 DEF RefundSums, GivenBack, RefundsOf
  <1>2. ASSUME UNCHANGED <<status, body, refunded>>
        PROVE  RefundRows'
    BY <1>2 DEF RefundRows
  <1>3. ASSUME NEW S \in SUBSET Payments, \A p \in S : status[p] \in Held,
               NEW st \in {"SUCCEEDED", "FAILED"}, NEW event, Release(S, st, event), UNCHANGED refunds
        PROVE  RefundRows' /\ RefundSums'
    BY <1>1, <1>3, ReleaseRefundRows DEF Release
  <1>4. ASSUME NEW k \in Keys, NEW b \in Bodies, NEW p \in Payments, CreateHold(k, b, p)
        PROVE  RefundRows' /\ RefundSums'
    <2>1. RefundSums'
      BY <1>1, <1>4 DEF CreateHold
    <2>2. RefundRows'
      BY <1>0, <1>4 DEF CreateHold, RefundRows, TypeOK
    <2> QED  BY <2>1, <2>2
  <1>5. ASSUME NEW p \in Payments, Finish(p)
        PROVE  RefundRows' /\ RefundSums'
    <2>1. status[p] = "PROCESSING"
      BY <1>5 DEF Finish, FinishCaptured, FinishDeclined, FinishPending, FinishRefused, Answered, IInv, RowsSound
    <2>2. CASE FinishPending(p)
      <3>1. RefundSums'
        BY <1>1, <2>2 DEF FinishPending, complete
      <3>2. RefundRows'
        BY <1>0, <2>2 DEF FinishPending, RefundRows, TypeOK
      <3> QED  BY <3>1, <3>2
    <2>3. \A q \in {p} : status[q] \in Held
      BY <2>1 DEF Held
    <2>4. CASE FinishCaptured(p) \/ FinishDeclined(p)
      BY <1>3, <2>3, <2>4 DEF FinishCaptured, FinishDeclined, settle, reverse, complete
    <2>5. CASE FinishRefused(p)
      BY <1>1, <1>2, <2>5 DEF FinishRefused, row
    <2> QED  BY <1>5, <2>2, <2>4, <2>5 DEF Finish
  <1>6. ASSUME NEW e \in Event, Webhook(e)
        PROVE  RefundRows' /\ RefundSums'
    <2>1. CASE WebhookIgnored(e)
      BY <1>1, <1>2, <2>1 DEF WebhookIgnored, Record, row
    <2>2. CASE WebhookCaptures(e) \/ WebhookFails(e)
      <3>1. {e.payment} \in SUBSET Payments /\ \A q \in {e.payment} : status[q] \in Held
        BY <2>2 DEF WebhookCaptures, WebhookFails, Acts, Event, Held
      <3> QED  BY <1>3, <2>2, <3>1 DEF WebhookCaptures, WebhookFails, settle, reverse, Record
    <2> QED  BY <1>6, <2>1, <2>2 DEF Webhook
  <1>7. CASE Refund
    BY <1>7, RefundJoins DEF Refund
  <1>8. CASE expire_stale_holds
    <2> DEFINE S == {p \in Payments : Stale(p)}
    <2>1. Release(S, "FAILED", "payment.failed") /\ UNCHANGED refunds /\ \A p \in S : status[p] \in Held
      BY <1>8 DEF expire_stale_holds, reverse, Stale, Held
    <2>2. S \in SUBSET Payments
      OBVIOUS
    <2> HIDE DEF S
    <2> QED  BY <1>3, <2>1, <2>2
  <1>9. ASSUME UNCHANGED <<row, refunds>>
        PROVE  RefundRows' /\ RefundSums'
    BY <1>1, <1>2, <1>9 DEF row
  <1>10. ASSUME NEW k \in Keys, NEW b \in Bodies, Replay(k, b)
         PROVE  RefundRows' /\ RefundSums'
    BY <1>9, <1>10 DEF Replay
  <1>11. ASSUME NEW p \in Payments, HandlerDies(p) \/ Provider(p) \/ Age(p)
         PROVE  RefundRows' /\ RefundSums'
    BY <1>9, <1>11 DEF HandlerDies, Provider, PspDecide, Age
  <1>12. ASSUME NEW e \in Event, PspSend(e)
         PROVE  RefundRows' /\ RefundSums'
    BY <1>9, <1>12 DEF PspSend
  <1>13. CASE UNCHANGED vars
    BY <1>9, <1>13 DEF vars
  <1> QED  BY <1>4, <1>5, <1>6, <1>7, <1>8, <1>10, <1>11, <1>12, <1>13 DEF Next

\* The facts about refunds at the start.
LEMMA InitRefunds == Init => RefundRows /\ RefundSums
  <1> SUFFICES ASSUME Init PROVE RefundRows /\ RefundSums
    OBVIOUS
  <1>1. RefundRows
    BY DEF Init, RefundRows
  <1>2. \A p \in Payments : RefundsOf(p) = {} /\ refunded[p] = 0
    BY DEF Init, RefundsOf
  <1>3. ASSUME NEW p \in Payments
        PROVE  refunded[p] = SumOver(GivenBack(p), RefundsOf(p))
    <2> DEFINE f == GivenBack(p)
    <2> HIDE DEF f
    <2>1. SumOver(f, {}) = 0
      BY SumEmpty
    <2> QED  BY <1>2, <2>1 DEF f
  <1> QED  BY <1>1, <1>3 DEF RefundSums

\* What was refunded of a payment is the sum of its refunds, never exceeds the
\* amount, and reaches it exactly when the payment is REFUNDED: for any number
\* of refunds under any keys.
THEOREM RefundsAreBounded == Spec => []RefundsBounded
  <1>1. ASSUME IInv, RefundRows, RefundSums
        PROVE  RefundsBounded
    <2> SUFFICES ASSUME NEW p \in Payments
                 PROVE  /\ refunded[p] = SumOver([r \in RefundsOf(p) |-> refunds[r].amount], RefundsOf(p))
                        /\ refunded[p] > 0 => status[p] \in Paid /\ refunded[p] =< body[p].amount
                        /\ status[p] = "REFUNDED" <=> body[p] # None /\ refunded[p] = body[p].amount
      BY DEF RefundsBounded
    <2>1. refunded[p] = SumOver([r \in RefundsOf(p) |-> refunds[r].amount], RefundsOf(p))
      BY <1>1 DEF RefundSums, GivenBack
    <2>2. refunded[p] > 0 => status[p] \in Paid /\ refunded[p] =< body[p].amount
      BY <1>1 DEF IInv, RowsSound
    <2>3. CASE status[p] = "none"
      BY <1>1, <2>1, <2>2, <2>3 DEF RefundRows
    <2>4. CASE status[p] # "none"
      <3>1. body[p] # None /\ body[p].amount > 0 /\ body[p].amount \in Nat /\ refunded[p] \in Nat
        <4>1. refunded[p] \in Nat
          BY <1>1 DEF IInv, TypeOK
        <4>2. body[p] \in Bodies /\ body[p].amount > 0 /\ body[p].amount \in Nat
          BY <1>1, <2>4, BodyTyped
        <4>3. None \notin Bodies
          BY PaymentsAssumption
        <4> QED  BY <4>1, <4>2, <4>3
      <3>2. status[p] \notin Paid => refunded[p] = 0
        BY <1>1 DEF IInv, RowsSound
      <3>3. status[p] = "REFUNDED" <=> refunded[p] = body[p].amount
        BY <1>1, <3>1, <3>2 DEF RefundRows, Paid
      <3> QED  BY <2>1, <2>2, <3>1, <3>3
    <2> QED  BY <2>3, <2>4
  <1>2. IInv /\ RefundRows /\ RefundSums => RefundsBounded
    BY <1>1
  <1> QED  BY <1>2, InitIInv, NextIInv, InitRefunds, NextRefunds, PTL DEF Spec

-------------------------------------------------------------------------------
(***************************************************************************)
(* The suspense account.  What a payment keeps there is its entry on that  *)
(* account, unless it was drawn on it; so a release can only be refused    *)
(* once some payment was.                                                  *)
(***************************************************************************)

\* The money the payments keep in suspense.
KeptBy == [p \in Payments |-> Kept(p)]

\* A payment that was not drawn on the suspense account has there what it keeps.
LEMMA KeptIsEntered ==
    ASSUME IInv, ~ Drawn, NEW p \in Payments
    PROVE  journal[p][Suspense] = Kept(p) /\ Kept(p) \in Nat
  <1>1. Suspense \in Accounts /\ status[p] \in Statuses /\ refunded[p] \in Nat
    BY PaymentsAssumption DEF IInv, TypeOK
  <1>2. status[p] # "none" =>
           /\ body[p].payer # Suspense /\ body[p].amount \in Nat
    <2>1. status[p] # "none" => body[p] \in Bodies /\ body[p] # None /\ body[p].amount \in Nat
      BY BodyTyped, PaymentsAssumption
    <2> QED  BY <2>1 DEF Drawn
  <1>3. CASE status[p] \in Held
    <2>1. status[p] \notin Paid /\ status[p] # "none"
      BY <1>3 DEF Held, Paid
    <2>2. journal[p][Suspense] = Move(body[p].payer, Suspense, body[p].amount)[Suspense]
      BY <1>1, <1>3, <2>1 DEF IInv, JournalMatchesStatus
    <2>3. Kept(p) = body[p].amount
      BY <1>3, <2>1 DEF Kept
    <2> QED  BY <1>1, <1>2, <2>1, <2>2, <2>3 DEF Move
  <1>4. CASE status[p] \in Paid
    <2>1. status[p] \notin Held /\ status[p] # "none"
      BY <1>4 DEF Held, Paid
    <2>2. journal[p][Suspense] = Move(body[p].payer, body[p].payee, body[p].amount - refunded[p])[Suspense]
      BY <1>1, <1>4, <2>1 DEF IInv, JournalMatchesStatus
    <2>3. Kept(p) = IF body[p].payee = Suspense THEN body[p].amount - refunded[p] ELSE 0
      BY <1>4, <2>1 DEF Kept
    <2>4. refunded[p] =< body[p].amount
      BY <1>4 DEF IInv, RowsSound
    <2> QED  BY <1>1, <1>2, <2>1, <2>2, <2>3, <2>4 DEF Move
  <1>5. CASE status[p] \notin Held /\ status[p] \notin Paid
    <2>1. Kept(p) = 0
      BY <1>5 DEF Kept
    <2>2. journal[p][Suspense] = 0
      BY <1>1, <1>5 DEF IInv, JournalMatchesStatus
    <2> QED  BY <2>1, <2>2
  <1> QED  BY <1>3, <1>4, <1>5

\* Without a payment drawn on it, the suspense account holds what the payments
\* keep there, and so enough for each of them.
LEMMA SuspenseSum ==
    ASSUME IInv, Books, ~ Drawn
    PROVE  /\ balance[Suspense] = Opening[Suspense] + SumOver(KeptBy, Payments)
           /\ \A p \in Payments : Kept(p) =< balance[Suspense]
  <1> DEFINE f == Column(Suspense)
             h == KeptBy
  <1>1. Suspense \in Accounts
    BY PaymentsAssumption
  <1>2. /\ IsFiniteSet(Payments) /\ (\A p \in Payments : f[p] = journal[p][Suspense] /\ f[p] \in Int)
        /\ Opening[Suspense] \in Int /\ Opening[Suspense] >= 0
    BY <1>1, ColumnTyped
  <1>3. \A p \in Payments : h[p] = Kept(p) /\ h[p] \in Nat /\ f[p] = h[p]
    BY <1>2, KeptIsEntered DEF KeptBy
  <1>4. balance[Suspense] = Opening[Suspense] + SumOver(f, Payments) /\ balance[Suspense] \in Int
    BY <1>1 DEF Books
  <1> HIDE DEF f, h
  <1>5. SumOver(f, Payments) = SumOver(h, Payments)
    BY <1>2, <1>3, SumSame
  <1>6. \A p \in Payments : h[p] =< SumOver(h, Payments)
    BY <1>2, <1>3, SumPart
  <1>7. SumOver(h, Payments) \in Nat
    BY <1>2, <1>3, SumNat
  <1>8. balance[Suspense] = Opening[Suspense] + SumOver(h, Payments)
    BY <1>4, <1>5
  <1>9. \A p \in Payments : Kept(p) =< balance[Suspense]
    BY <1>2, <1>3, <1>6, <1>7, <1>8
  <1> QED  BY <1>8, <1>9 DEF h

\* A call is refused only where a payment was drawn on the suspense account.
RefusedDrawn == Drawn \/ \A p \in Payments : handler[p] # "refused"

\* The books bear the release of any one payment in flight.
LEMMA RefusalNeedsDraw ==
    ASSUME IInv, Books, NEW p \in Payments, FinishRefused(p)
    PROVE  Drawn
  <1> SUFFICES ASSUME ~ Drawn PROVE FALSE
    OBVIOUS
  <1>1. PICK st : ~ SuspenseBears({p}, st)
    BY DEF FinishRefused
  <1>2. status[p] \in Held /\ status[p] # "none"
    BY DEF FinishRefused, Answered, IInv, RowsSound, Held
  <1>3. body[p].amount \in Nat
    BY <1>2, BodyTyped
  <1>4. Kept(p) = body[p].amount
    <2>1. status[p] \notin Paid
      BY <1>2 DEF Held, Paid
    <2> QED  BY <1>2, <2>1 DEF Kept
  <1>5. body[p].amount =< balance[Suspense] /\ balance[Suspense] \in Int
    BY <1>4, SuspenseSum, PaymentsAssumption DEF Books
  <1> DEFINE leaving == {q \in {p} : Destination(q, st) # Suspense}
             h == [q \in leaving |-> body[q].amount]
  <1>6. SumOver(h, leaving) =< balance[Suspense]
    <2>1. CASE leaving = {}
      <3> HIDE DEF h
      <3>1. SumOver(h, leaving) = 0
        BY <2>1, SumEmpty
      <3> QED  BY <1>3, <1>5, <3>1
    <2>2. CASE leaving = {p}
      <3>1. h[p] = body[p].amount /\ h[p] \in Int
        BY <1>3, <2>2
      <3> HIDE DEF h, leaving
      <3>2. SumOver(h, {p}) = h[p]
        BY <3>1, SumSingle
      <3> QED  BY <1>5, <2>2, <3>1, <3>2
    <2>3. leaving = {} \/ leaving = {p}
      OBVIOUS
    <2> QED  BY <2>1, <2>2, <2>3
  <1>7. SuspenseBears({p}, st)
    BY <1>3, <1>5, <1>6 DEF SuspenseBears
  <1> QED  BY <1>1, <1>7

\* A payment drawn on the suspense account stays on record.
LEMMA DrawnStays ==
    ASSUME IInv, RefundRows, Drawn, [Next]_vars
    PROVE  Drawn'
  <1>1. PICK q \in Payments : body[q] # None /\ body[q].payer = Suspense
    BY DEF Drawn
  <1>2. body'[q] = body[q]
    <2>1. ASSUME NEW k \in Keys, NEW b \in Bodies, NEW p \in Payments, CreateHold(k, b, p)
          PROVE  body'[q] = body[q]
      <3>1. body' = [body EXCEPT ![p] = b] /\ body[p] = None
        BY <2>1 DEF CreateHold, RefundRows
      <3> QED  BY <1>1, <3>1 DEF IInv, TypeOK
    <2>2. ASSUME NEW p \in Payments, Finish(p)
          PROVE  body' = body
      BY <2>2 DEF Finish, FinishCaptured, FinishDeclined, FinishPending, FinishRefused, settle, reverse, Release, row
    <2>3. ASSUME NEW e \in Event, Webhook(e)
          PROVE  body' = body
      BY <2>3 DEF Webhook, WebhookCaptures, WebhookFails, WebhookIgnored, settle, reverse, Release, row
    <2>4. ASSUME Refund \/ expire_stale_holds
          PROVE  body' = body
      BY <2>4 DEF Refund, refund, expire_stale_holds, reverse, Release
    <2>5. ASSUME NEW k \in Keys, NEW b \in Bodies, Replay(k, b)
          PROVE  body' = body
      BY <2>5 DEF Replay, row
    <2>6. ASSUME NEW p \in Payments, HandlerDies(p) \/ Provider(p) \/ Age(p)
          PROVE  body' = body
      BY <2>6 DEF HandlerDies, Provider, PspDecide, Age, row
    <2>7. ASSUME NEW e \in Event, PspSend(e)
          PROVE  body' = body
      BY <2>7 DEF PspSend, row
    <2>8. CASE UNCHANGED vars
      BY <2>8 DEF vars, row
    <2> QED  BY <2>1, <2>2, <2>3, <2>4, <2>5, <2>6, <2>7, <2>8 DEF Next
  <1> QED  BY <1>1, <1>2 DEF Drawn

\* Only FinishRefused turns a call down.
LEMMA NextRefused ==
    IInv /\ Books /\ RefundRows /\ RefusedDrawn /\ [Next]_vars => RefusedDrawn'
  <1> SUFFICES ASSUME IInv, Books, RefundRows, RefusedDrawn, [Next]_vars PROVE RefusedDrawn'
    OBVIOUS
  <1>1. CASE Drawn
    BY <1>1, DrawnStays DEF RefusedDrawn
  <1>2. CASE ~ Drawn
    <2>1. TypeOK /\ \A p \in Payments : handler[p] # "refused"
      BY <1>2 DEF RefusedDrawn, IInv
    <2>2. \A p \in Payments : ~ FinishRefused(p)
      BY <1>2, RefusalNeedsDraw
    <2>3. ASSUME UNCHANGED handler
          PROVE  RefusedDrawn'
      BY <2>1, <2>3 DEF RefusedDrawn
    <2>4. ASSUME NEW p \in Payments, NEW h \in {"authorizing", "done", "dead"},
                 handler' = [handler EXCEPT ![p] = h]
          PROVE  RefusedDrawn'
      BY <2>1, <2>4 DEF RefusedDrawn, TypeOK
    <2>5. ASSUME NEW k \in Keys, NEW b \in Bodies, NEW p \in Payments, CreateHold(k, b, p)
          PROVE  RefusedDrawn'
      BY <2>4, <2>5 DEF CreateHold
    <2>6. ASSUME NEW p \in Payments, Finish(p)
          PROVE  RefusedDrawn'
      BY <2>2, <2>4, <2>6 DEF Finish, FinishCaptured, FinishDeclined, FinishPending, complete
    <2>7. ASSUME NEW e \in Event, Webhook(e)
          PROVE  RefusedDrawn'
      BY <2>3, <2>7 DEF Webhook, WebhookCaptures, WebhookFails, WebhookIgnored, Record, call
    <2>8. ASSUME Refund \/ expire_stale_holds
          PROVE  RefusedDrawn'
      BY <2>3, <2>8 DEF Refund, refund, expire_stale_holds, call
    <2>9. ASSUME NEW k \in Keys, NEW b \in Bodies, Replay(k, b)
          PROVE  RefusedDrawn'
      BY <2>3, <2>9 DEF Replay
    <2>10. ASSUME NEW p \in Payments, HandlerDies(p) \/ Provider(p) \/ Age(p)
           PROVE  RefusedDrawn'
      BY <2>3, <2>4, <2>10 DEF HandlerDies, Provider, PspDecide, Age, call
    <2>11. ASSUME NEW e \in Event, PspSend(e)
           PROVE  RefusedDrawn'
      BY <2>3, <2>11 DEF PspSend, call
    <2>12. CASE UNCHANGED vars
      BY <2>3, <2>12 DEF vars, call
    <2> QED  BY <2>5, <2>6, <2>7, <2>8, <2>9, <2>10, <2>11, <2>12 DEF Next
  <1> QED  BY <1>1, <1>2

\* For any number of payments between any accounts, the suspense account among
\* them, and sweeps that release many at once: every balance is what the entries
\* of all payments make of the seeded one and none is negative.  Unless a
\* payment was drawn on the suspense account, that account holds exactly what
\* the payments keep there, and no call is refused its settlement or reversal.
THEOREM SuspenseIsExact == Spec => []SuspenseCoversHolds
  <1>1. Init => RefusedDrawn
    BY DEF Init, RefusedDrawn
  <1>2. ASSUME IInv, Books, Solvent, RefusedDrawn
        PROVE  SuspenseCoversHolds
    <2>1. \A a \in Accounts :
             /\ balance[a] >= 0
             /\ balance[a] = Opening[a] + SumOver([p \in Payments |-> journal[p][a]], Payments)
      BY <1>2 DEF Solvent, Books, Column
    <2>2. ASSUME ~ Drawn
          PROVE  /\ balance[Suspense] = Opening[Suspense] + SumOver([p \in Payments |-> Kept(p)], Payments)
                 /\ \A p \in Payments : handler[p] # "refused"
      BY <1>2, <2>2, SuspenseSum DEF KeptBy, RefusedDrawn
    <2> QED  BY <2>1, <2>2 DEF SuspenseCoversHolds
  <1>3. IInv /\ Books /\ Solvent /\ RefusedDrawn => SuspenseCoversHolds
    BY <1>2
  <1> QED  BY <1>1, <1>3, InitIInv, NextIInv, InitBooks, NextBooks, InitRefunds, NextRefunds, NextRefused, PTL DEF Spec

-------------------------------------------------------------------------------
(***************************************************************************)
(* The engine implements PaymentSpec.                                      *)
(***************************************************************************)

\* PaymentSpec sums as the engine does.
LEMMA SameSums == \A f, S : Money!SumOver(f, S) = SumOver(f, S)
  BY DEF SumOver, Money!SumOver, MapThenSumSet, Money!MapThenSumSet, MapThenFoldSet, Money!MapThenFoldSet

Phased == [p \in Payments |-> Phase(status[p])]

\* The phase of each status.
LEMMA Phases ==
    ASSUME NEW st \in Statuses
    PROVE  /\ Phase(st) = "none" <=> st = "none"
           /\ Phase(st) = "held" <=> st \in Held
           /\ Phase(st) = "paid" <=> st \in Paid
           /\ Phase(st) = "returned" <=> st = "FAILED"
           /\ Phase(st) \in Money!Phases
  BY DEF Phase, Statuses, Held, Paid, Money!Phases

\* A release towards the payee is Settle, one back to the payers is Return.
LEMMA ReleaseIsAbstract ==
    ASSUME IInv, Solvent', NEW S \in SUBSET Payments, S # {}, \A p \in S : status[p] \in Held,
           NEW st, NEW event, Release(S, st, event),
           st = "FAILED" \/ (st = "SUCCEEDED" /\ \E p \in Payments : S = {p})
    PROVE  Money!Next
  <1>1. /\ SuspenseBears(S, st)
        /\ status' = [p \in Payments |-> IF p \in S THEN st ELSE status[p]]
        /\ balance' = [a \in Accounts |-> balance[a] + SumOver([p \in S |-> ReleaseEntries(p, st)[a]], S)]
        /\ UNCHANGED <<body, refunded>>
    BY DEF Release
  <1>2. \A p \in Payments : status[p] \in Statuses
    BY DEF IInv, TypeOK
  <1>3. \A p \in S : Phase(status[p]) = "held" /\ status[p] # "none"
    BY <1>2, Phases DEF Held
  <1>4. ASSUME NEW p \in S, NEW a \in Accounts, NEW w
        PROVE  Move(Suspense, w, body[p].amount)[a] = Money!Change(Suspense, w, body[p].amount, a)
    BY DEF Move, Money!Change
  <1>5. CASE st = "FAILED"
    <2>1. Phase(st) = "returned"
      BY <1>5, Phases DEF Statuses
    <2>2. Phased' = [p \in Payments |-> IF p \in S THEN "returned" ELSE Phase(status[p])]
      BY <1>1, <2>1 DEF Phased
    <2>3. \A a \in Accounts : [p \in S |-> ReleaseEntries(p, st)[a]]
                                = [p \in S |-> Money!Change(Suspense, body[p].payer, body[p].amount, a)]
      BY <1>4, <1>5 DEF ReleaseEntries, Destination
    <2>4. balance' = [a \in Accounts |-> balance[a] + Money!SumOver(
                         [p \in S |-> Money!Change(Suspense, body[p].payer, body[p].amount, a)], S)]
      BY <1>1, <2>3, SameSums
    <2>5. balance'[Suspense] >= 0
      BY PaymentsAssumption DEF Solvent
    <2>6. Money!Return(S)
      BY <1>1, <1>3, <2>2, <2>4, <2>5 DEF Money!Return, Phased
    <2> QED  BY <2>6 DEF Money!Next
  <1>6. CASE st = "SUCCEEDED" /\ \E p \in Payments : S = {p}
    <2>1. PICK p \in Payments : S = {p}
      BY <1>6
    <2>2. Phase(st) = "paid"
      BY <1>6, Phases DEF Statuses, Paid
    <2>3. Phased' = [Phased EXCEPT ![p] = "paid"]
      BY <1>1, <2>1, <2>2 DEF Phased
    <2>4. body[p].amount \in Int
      BY <1>3, <2>1, BodyTyped
    <2>5. ASSUME NEW a \in Accounts
          PROVE  SumOver([q \in S |-> ReleaseEntries(q, st)[a]], S)
                    = Money!Change(Suspense, body[p].payee, body[p].amount, a)
      <3> DEFINE f == [q \in S |-> ReleaseEntries(q, st)[a]]
      <3>1. f[p] = Money!Change(Suspense, body[p].payee, body[p].amount, a)
        BY <1>4, <1>6, <2>1 DEF ReleaseEntries, Destination
      <3>2. Money!Change(Suspense, body[p].payee, body[p].amount, a) \in Int
        BY <2>4 DEF Money!Change
      <3> HIDE DEF f
      <3>3. SumOver(f, {p}) = f[p]
        BY <3>1, <3>2, SumSingle
      <3> QED  BY <2>1, <3>1, <3>3 DEF f
    <2>6. balance' = [a \in Accounts |-> balance[a] + Money!Change(Suspense, body[p].payee, body[p].amount, a)]
      BY <1>1, <2>5
    <2>7. balance[Suspense] >= body[p].amount
      BY <1>1, <2>1 DEF SuspenseBears
    <2>8. Money!Settle(p)
      BY <1>1, <1>3, <2>1, <2>3, <2>6, <2>7 DEF Money!Settle, Phased
    <2> QED  BY <2>8 DEF Money!Next
  <1> QED  BY <1>5, <1>6

\* Every step of the engine is one of PaymentSpec or moves no money.
LEMMA StepIsAbstract == IInv /\ Solvent' /\ [Next]_vars => [Money!Next]_(Money!vars)
  <1> SUFFICES ASSUME IInv, Solvent', [Next]_vars PROVE Money!Next \/ UNCHANGED Money!vars
    OBVIOUS
  <1> DEFINE Abstract == Money!Next \/ UNCHANGED Money!vars
  <1>0. TypeOK /\ \A p \in Payments : status[p] \in Statuses
    BY DEF IInv, TypeOK
  <1>1. ASSUME UNCHANGED <<row, balance>>
        PROVE  Abstract
    BY <1>1 DEF row, Money!vars
  <1>2. ASSUME NEW S \in SUBSET Payments, S # {}, \A p \in S : status[p] \in Held,
               NEW st, NEW event, Release(S, st, event),
               st = "FAILED" \/ (st = "SUCCEEDED" /\ \E p \in Payments : S = {p})
        PROVE  Abstract
    BY <1>2, ReleaseIsAbstract
  <1>3. ASSUME NEW k \in Keys, NEW b \in Bodies, NEW p \in Payments, CreateHold(k, b, p)
        PROVE  Abstract
    <2>1. /\ status[p] = "none" /\ balance[b.payer] >= b.amount
          /\ status' = [status EXCEPT ![p] = "PROCESSING"]
          /\ body' = [body EXCEPT ![p] = b]
          /\ balance' = Plus(balance, Move(b.payer, Suspense, b.amount))
          /\ refunded' = refunded
      BY <1>3 DEF CreateHold
    <2>2. Phase("PROCESSING") = "held" /\ Phase(status[p]) = "none"
      BY <2>1, Phases DEF Statuses, Held
    <2>3. Phased' = [Phased EXCEPT ![p] = "held"]
      BY <1>0, <2>1, <2>2 DEF Phased, TypeOK
    <2>4. balance' = [a \in Accounts |-> balance[a] + Money!Change(b.payer, Suspense, b.amount, a)]
      BY <2>1 DEF Plus, Move, Money!Change
    <2>5. Money!Hold(p, b)
      BY <2>1, <2>2, <2>3, <2>4 DEF Money!Hold, Phased
    <2> QED  BY <2>5 DEF Money!Next
  <1>4. ASSUME NEW p \in Payments, Finish(p)
        PROVE  Abstract
    <2>1. status[p] = "PROCESSING"
      BY <1>4 DEF Finish, FinishCaptured, FinishDeclined, FinishPending, FinishRefused, Answered, IInv, RowsSound
    <2>2. CASE FinishPending(p)
      <3>1. /\ status' = [status EXCEPT ![p] = "AUTHORIZED"]
            /\ UNCHANGED <<body, refunded, balance>>
        BY <2>2 DEF FinishPending, books
      <3>2. Phase("AUTHORIZED") = Phase("PROCESSING")
        BY DEF Phase, Held
      <3>3. Phased' = Phased
        BY <1>0, <2>1, <3>1, <3>2 DEF Phased, TypeOK
      <3> QED  BY <3>1, <3>3 DEF Money!vars, Phased
    <2>3. {p} \in SUBSET Payments /\ {p} # {} /\ \A q \in {p} : status[q] \in Held
      BY <2>1 DEF Held
    <2>4. CASE FinishCaptured(p) \/ FinishDeclined(p)
      BY <1>2, <2>3, <2>4 DEF FinishCaptured, FinishDeclined, settle, reverse
    <2>5. CASE FinishRefused(p)
      BY <1>1, <2>5 DEF FinishRefused, books
    <2> QED  BY <1>4, <2>2, <2>4, <2>5 DEF Finish
  <1>5. ASSUME NEW e \in Event, Webhook(e)
        PROVE  Abstract
    <2>1. CASE WebhookIgnored(e)
      BY <1>1, <2>1 DEF WebhookIgnored, books
    <2>2. CASE WebhookCaptures(e) \/ WebhookFails(e)
      <3>1. /\ e.payment \in Payments /\ {e.payment} \in SUBSET Payments /\ {e.payment} # {}
            /\ \A q \in {e.payment} : status[q] \in Held
        BY <2>2 DEF WebhookCaptures, WebhookFails, Acts, Event, Held
      <3> QED  BY <1>2, <2>2, <3>1 DEF WebhookCaptures, WebhookFails, settle, reverse
    <2> QED  BY <1>5, <2>1, <2>2 DEF Webhook
  <1>6. ASSUME Refund PROVE Abstract
    <2>1. PICK r \in RefundKeys, p \in Payments :
             status[p] = "SUCCEEDED" /\ \E m \in 1 .. body[p].amount : refund(r, p, m)
      BY <1>6 DEF Refund
    <2>2. PICK m \in 1 .. body[p].amount : refund(r, p, m)
      BY <2>1
    <2>3. /\ refunded[p] + m =< body[p].amount /\ balance[body[p].payee] >= m
          /\ refunded' = [refunded EXCEPT ![p] = @ + m]
          /\ status' = [status EXCEPT ![p] = IF refunded[p] + m = body[p].amount THEN "REFUNDED" ELSE @]
          /\ balance' = Plus(balance, Move(body[p].payee, body[p].payer, m))
          /\ body' = body
      BY <2>2 DEF refund, Refundable
    <2>4. Phase("REFUNDED") = "paid" /\ Phase("SUCCEEDED") = "paid"
      BY DEF Phase, Held, Paid
    <2>5. Phased' = Phased
      BY <1>0, <2>1, <2>3, <2>4 DEF Phased, TypeOK
    <2>6. balance' = [a \in Accounts |-> balance[a] + Money!Change(body[p].payee, body[p].payer, m, a)]
      BY <2>3 DEF Plus, Move, Money!Change
    <2>7. Phased[p] = "paid"
      BY <2>1, <2>4 DEF Phased
    <2>8. Money!Refund(p, m)
      BY <2>3, <2>5, <2>6, <2>7 DEF Money!Refund, Phased
    <2> QED  BY <2>2, <2>7, <2>8 DEF Money!Next, Phased
  <1>7. ASSUME expire_stale_holds PROVE Abstract
    <2> DEFINE S == {p \in Payments : Stale(p)}
    <2>1. S # {} /\ Release(S, "FAILED", "payment.failed") /\ \A p \in S : status[p] \in Held
      BY <1>7 DEF expire_stale_holds, reverse, Stale, Held
    <2>2. S \in SUBSET Payments
      OBVIOUS
    <2> HIDE DEF S
    <2> QED  BY <1>2, <2>1, <2>2
  <1> HIDE DEF Abstract
  <1>8. ASSUME NEW k \in Keys, NEW b \in Bodies, Replay(k, b)
        PROVE  Abstract
    BY <1>1, <1>8 DEF Replay, books
  <1>9. ASSUME NEW p \in Payments, HandlerDies(p) \/ Provider(p) \/ Age(p)
        PROVE  Abstract
    BY <1>1, <1>9 DEF HandlerDies, Provider, PspDecide, Age, books
  <1>10. ASSUME NEW e \in Event, PspSend(e)
         PROVE  Abstract
    BY <1>1, <1>10 DEF PspSend, books
  <1>11. ASSUME UNCHANGED vars PROVE Abstract
    BY <1>1, <1>11 DEF vars, books
  <1>12. Abstract
    BY <1>3, <1>4, <1>5, <1>6, <1>7, <1>8, <1>9, <1>10, <1>11 DEF Next
  <1> QED  BY <1>12 DEF Abstract

\* Keys, webhooks, retries, sweeps and crashes notwithstanding, the money of
\* every payment is held once, then paid out or returned once, then refunded up
\* to its amount.
THEOREM EngineImplementsPaymentSpec == Spec => PaymentsMoveMoneyOnce
  <1>1. Init => Money!Init
    <2> SUFFICES ASSUME Init PROVE Money!Init
      OBVIOUS
    <2>1. Phase("none") = "none" /\ "none" \in Money!Phases
      BY Phases DEF Statuses, Money!Phases
    <2>2. Phased = [p \in Payments |-> "none"]
      BY <2>1 DEF Init, Phased
    <2> QED  BY <2>1, <2>2 DEF Init, Money!Init, Phased
  <1> QED  BY <1>1, StepIsAbstract, InitIInv, NextIInv, InitBooks, NextBooks, PTL DEF Spec, PaymentsMoveMoneyOnce, Money!Spec
===============================================================================
