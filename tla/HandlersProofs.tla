---------------------------- MODULE HandlersProofs ----------------------------
(***************************************************************************)
(* Proofs about Handlers for any number of sessions, accounts, payments    *)
(* and webhooks: no ring of waiting sessions without a sweep, and the      *)
(* interleaved statements implement PaymentSpec.  The ledger's part of the *)
(* inductive invariant is IInv of LedgerProofs.                            *)
(***************************************************************************)
EXTENDS Handlers, LedgerProofs, SequenceTheorems

(***************************************************************************)
(* What a job does to a payment it has chosen, from the job alone.         *)
(***************************************************************************)
Captures(j) == \/ j.kind = "finish" /\ j.outcome = "CAPTURED"
               \/ j.kind = "webhook" /\ j.event.type = "capture"

From(j, p) == IF j.kind = "hold" THEN Orders[p].payer
              ELSE IF j.kind = "refund" THEN Orders[p].payee ELSE Suspense
To(j, p) == IF j.kind = "hold" THEN Suspense
            ELSE IF j.kind # "refund" /\ Captures(j) THEN Orders[p].payee ELSE Orders[p].payer
Amount(j, p) == IF j.kind = "refund" THEN j.amount ELSE Orders[p].amount

\* The payment a job that locks one payment is about.
Subject(j) == IF j.kind = "webhook" THEN j.event.payment ELSE j.payment

Kinds == {"none", "hold", "finish", "webhook", "refund", "sweep"}

\* The jobs a session may be given.
JobFits(j) ==
    /\ j.kind \in Kinds
    /\ j.kind \in {"hold", "finish", "refund"} => j.payment \in Payments
    /\ j.kind = "finish" => j.outcome \in {"CAPTURED", "DECLINED", "PENDING"}
    /\ j.kind = "webhook" => j.event \in Events
    /\ j.kind = "refund" => j.amount \in 1 .. Orders[j.payment].amount

\* The values of the handlers' variables.
HandlersTypes ==
    /\ status \in [Payments -> Statuses]
    /\ refunded \in [Payments -> Nat]
    /\ calling \subseteq Payments
    /\ DOMAIN job = Sessions /\ \A s \in Sessions : JobFits(job[s])
    /\ at \in [Sessions -> {"idle", "dedup", "insert", "lock", "post"}]
    /\ want \in [Sessions -> Seq(Payments)]
    /\ chosen \in [Sessions -> Seq(Payments)]
    /\ rowlock \in [Payments -> Sessions \cup {Free}]
    /\ claimant \in [EventIds -> Sessions \cup {Free}]

\* What a session at a statement has and holds: locks on payment rows from
\* the lock statement on, one payment only unless it is a sweep.
Statement(s) ==
    /\ at[s] \in {"idle", "dedup", "insert"} =>
          /\ chosen[s] = <<>>
          /\ \A p \in Payments : rowlock[p] # s
          /\ \A e \in EventIds : claimant[e] # s
    /\ at[s] = "idle" <=> job[s].kind = "none"
    /\ at[s] \in {"dedup", "insert"} => job[s].kind = "webhook"
    /\ at[s] = "lock" => job[s].kind # "hold" /\ want[s] # <<>>
    /\ at[s] = "lock" /\ job[s].kind # "sweep" =>
          /\ want[s] = <<Subject(job[s])>> /\ chosen[s] = <<>>
          /\ \A p \in Payments : rowlock[p] # s
    /\ at[s] = "post" /\ job[s].kind \notin {"sweep", "hold"} => chosen[s] \in {<<>>, <<Subject(job[s])>>}
    /\ job[s].kind = "hold" => chosen[s] = <<job[s].payment>>

\* post() runs at the last statement only, for one chosen payment after
\* another, each with the list of its job.
Progress(s) ==
    /\ pc[s] = "idle" => posts[s] = 0
    /\ pc[s] # "idle" =>
          /\ at[s] = "post" /\ ~ Pending(s)
          /\ posts[s] \in 1 .. Len(chosen[s])
          /\ LET p == chosen[s][posts[s]]
             IN  postings[s] = Transfer(From(job[s], p), To(job[s], p), Amount(job[s], p))

\* A session that is no sweep takes balance rows in ascending order.
Ascends(s) ==
    job[s].kind # "sweep" =>
        \A a, b \in Accounts : owner[a] = s /\ b \in todo[s] => a < b
-------------------------------------------------------------------------------
\* A chosen payment is locked, unless it is new, is chosen once, and still is
\* in the state it was chosen for.
Choice(s) ==
    /\ job[s].kind # "hold" => \A p \in Chosen(s) : rowlock[p] = s
    /\ \A i, k \in DOMAIN chosen[s] : chosen[s][i] = chosen[s][k] => i = k
    /\ \A p \in Chosen(s) :
          /\ job[s].kind = "hold" => status[p] = "none"
          /\ job[s].kind = "webhook" => status[p] = "AUTHORIZED" /\ job[s].event.type # "other"
          /\ job[s].kind = "sweep" => status[p] = "AUTHORIZED"
          /\ job[s].kind = "refund" =>
                /\ status[p] = "SUCCEEDED"
                /\ refunded[p] + job[s].amount =< Orders[p].amount

\* A payment that is waited for has a row.
Known(s) ==
    /\ \A i \in DOMAIN want[s] : status[want[s][i]] # "none"
    /\ job[s].kind = "webhook" => status[job[s].event.payment] # "none"

\* The second transaction of create() finds the payment as the first left it,
\* since only one call is between the two and nobody else acts on it.
Finishing(s) ==
    job[s].kind = "finish" =>
        /\ status[job[s].payment] = "PROCESSING"
        /\ job[s].payment \notin calling
        /\ \A t \in Sessions : t # s /\ job[t].kind = "finish" => job[t].payment # job[s].payment

\* Nobody else chooses a payment that is being created.
Creating(s) ==
    job[s].kind = "hold" => \A t \in Sessions : t # s => job[s].payment \notin Chosen(t)

\* What the payments and the sessions that work on them have to do with
\* each other.
PaymentRows ==
    /\ \A s \in Sessions : Choice(s) /\ Known(s) /\ Finishing(s) /\ Creating(s)
    /\ \A p \in calling : status[p] = "PROCESSING"
-------------------------------------------------------------------------------
\* What the posts of session s for its chosen payments do to account a.
Moves(s, a) ==
    [i \in 1 .. Len(chosen[s]) |->
        LET p == chosen[s][i]
        IN  Money!Change(From(job[s], p), To(job[s], p), Amount(job[s], p), a)]

\* How many of them are through the apply loop, and what the one under way
\* has done so far.
Through(s) == IF pc[s] \in {"lock", "insert", "apply"} THEN posts[s] - 1 ELSE posts[s]
Half(s, a) == IF pc[s] = "apply" /\ idx[s] = 2 /\ postings[s][1].account_id = a
              THEN 0 - postings[s][1].amount ELSE 0

\* The uncommitted entries are those of the posts made so far; rows written
\* are held to the end, and the first post was covered by the balance.
Booked(s) ==
    /\ pc[s] \in {"lock", "insert"} => idx[s] = 1
    /\ \A a \in Accounts : staged[s][a] = SumOver(Moves(s, a), 1 .. Through(s)) + Half(s, a)
    /\ pc[s] = "posted" => \A a \in AccountsOf(postings[s]) : owner[a] = s
    /\ posts[s] = 1 /\ (pc[s] = "posted" \/ (pc[s] = "apply" /\ idx[s] = 2)) =>
          balance[From(job[s], chosen[s][1])] >= Amount(job[s], chosen[s][1])
-------------------------------------------------------------------------------
(***************************************************************************)
(* The steps of a session, and what they leave to the others.              *)
(***************************************************************************)

\* A transaction is given up, or a webhook seen before is answered.
Ends(s) ==
    /\ Release(s) /\ UNCHANGED <<committed, calling>>
    /\ Abort(s) \/ (at[s] = "dedup" /\ UNCHANGED vars)

\* The statements that move the handler on and leave the ledger alone.
GoesOn(s) == DedupNew(s) \/ InsertEvent(s) \/ NotFound(s) \/ LockPayment(s)

\* The statements inside post().
InPost(s) == LedgerStatement(s) \/ LedgerLock(s)

\* What a session may do next.
SessionStep(s) ==
    BeginAny(s) \/ Ends(s) \/ CommitJob(s) \/ GoesOn(s) \/ PostNext(s) \/ InPost(s)

\* Every step is a step of one session, or the end of a call.
LEMMA StepKinds ==
    ASSUME HandlersNext
    PROVE  (\E s \in Sessions : SessionStep(s)) \/ (\E p \in Payments : CallDies(p))
  <1>1. ASSUME NEW s \in Sessions, BeginAny(s) \/ Proceed(s) \/ Lock(s) \/ Dies(s) \/ Victim(s)
        PROVE  SessionStep(s)
    <2>1. ASSUME Fail(s) PROVE Ends(s)
      BY <2>1 DEF Fail, Ends
    <2>2. CASE Proceed(s)
      BY <2>1, <2>2 DEF Proceed, SessionStep, GoesOn, InPost, DedupKnown, EventExists, LedgerRaises, Ends
    <2>3. CASE Lock(s)
      BY <2>1, <2>3 DEF Lock, SessionStep, GoesOn, InPost, RefundRefused
    <2> QED  BY <1>1, <2>1, <2>2, <2>3 DEF SessionStep, Dies, Victim
  <1> QED  BY <1>1 DEF HandlersNext

\* What a step of session s leaves of the other sessions' handlers.
HandlerFrame(s) ==
    \A t \in Sessions \ {s} :
        /\ job'[t] = job[t] /\ at'[t] = at[t] /\ want'[t] = want[t] /\ chosen'[t] = chosen[t]
        /\ \A p \in Payments : rowlock'[p] = t <=> rowlock[p] = t
        /\ \A e \in EventIds : claimant'[e] = t <=> claimant[e] = t

\* And of their transactions in the ledger.
LedgerFrame(s) ==
    \A t \in Sessions \ {s} :
        /\ pc'[t] = pc[t] /\ posts'[t] = posts[t] /\ postings'[t] = postings[t]
        /\ todo'[t] = todo[t] /\ idx'[t] = idx[t] /\ staged'[t] = staged[t]
        /\ \A a \in Accounts : owner'[a] = t <=> owner[a] = t

\* The rows and ids of one session are not another's.
LEMMA HandlerStepFrame ==
    ASSUME HandlersTypes, NEW s \in Sessions, SessionStep(s)
    PROVE  HandlerFrame(s)
  <1> USE LedgerAssumption DEF HandlersTypes
  <1>1. CASE BeginAny(s)
    <2>1. ASSUME NEW j, NEW b, NEW c, NEW d, Begin(s, j, b, c, d)
          PROVE  HandlerFrame(s)
      BY <2>1 DEF Begin, HandlerFrame
    <2> QED  BY <1>1, <2>1 DEF BeginAny, BeginHold, BeginFinish, BeginRefund, BeginWebhook, BeginSweep
  <1>2. ASSUME Release(s) PROVE HandlerFrame(s)
    BY <1>2 DEF Release, Unlock, HandlerFrame
  <1>3. CASE Ends(s) \/ CommitJob(s)
    BY <1>2, <1>3 DEF Ends, CommitJob
  <1>4. CASE DedupNew(s) \/ NotFound(s)
    BY <1>4 DEF DedupNew, NotFound, Goto, HandlerFrame
  <1>5. CASE InsertEvent(s)
    BY <1>5 DEF InsertEvent, Goto, HandlerFrame, EventIds
  <1>6. CASE LockPayment(s)
    BY <1>6 DEF LockPayment, Goto, HandlerFrame
  <1>7. CASE PostNext(s) \/ InPost(s)
    BY <1>7 DEF PostNext, InPost, LedgerStatement, LedgerLock, handling, HandlerFrame
  <1> QED  BY <1>1, <1>3, <1>4, <1>5, <1>6, <1>7 DEF SessionStep, GoesOn

\* Nor are its balance rows.
LEMMA LedgerStepFrame ==
    ASSUME TypeOK, NEW s \in Sessions, SessionStep(s)
    PROVE  LedgerFrame(s)
  <1> USE LedgerAssumption DEF TypeOK
  <1>1. ASSUME UNCHANGED vars PROVE LedgerFrame(s)
    BY <1>1 DEF vars, LedgerFrame
  <1>2. ASSUME EndTransaction(s) PROVE LedgerFrame(s)
    BY <1>2 DEF EndTransaction, Unlocked, LedgerFrame
  <1>3. ASSUME NEW ps, post(s, ps) PROVE LedgerFrame(s)
    BY <1>3 DEF post, LedgerFrame
  <1>4. ASSUME NEW a \in Accounts, MissRow(s, a) PROVE LedgerFrame(s)
    BY <1>4 DEF MissRow, LedgerFrame
  <1>5. ASSUME NEW a \in Accounts, LockRow(s, a) \/ InsertRow(s, a) PROVE LedgerFrame(s)
    BY <1>5 DEF LockRow, InsertRow, Lockable, Advance, LedgerFrame
  <1>6. ASSUME ApplyPosting(s) PROVE LedgerFrame(s)
    <2>1. \A t \in Sessions \ {s} : staged'[t] = staged[t]
      BY <1>6 DEF ApplyPosting
    <2> QED  BY <1>6, <2>1 DEF ApplyPosting, LedgerFrame
  <1>7. CASE BeginAny(s)
    <2>1. ASSUME NEW j, NEW b, NEW c, NEW d, Begin(s, j, b, c, d)
          PROVE  UNCHANGED vars
      BY <2>1 DEF Begin
    <2> QED  BY <1>1, <1>7, <2>1 DEF BeginAny, BeginHold, BeginFinish, BeginRefund, BeginWebhook, BeginSweep
  <1>8. CASE Ends(s) \/ CommitJob(s)
    BY <1>1, <1>2, <1>8 DEF Ends, Abort, CommitJob, Commit
  <1>9. CASE GoesOn(s)
    BY <1>1, <1>9 DEF GoesOn, DedupNew, InsertEvent, NotFound, LockPayment
  <1>10. CASE PostNext(s)
    BY <1>3, <1>10 DEF PostNext
  <1>11. CASE InPost(s)
    BY <1>4, <1>5, <1>6, <1>11 DEF InPost, LedgerStatement, LedgerLock, Acquire
  <1> QED  BY <1>7, <1>8, <1>9, <1>10, <1>11 DEF SessionStep

-------------------------------------------------------------------------------
\* The new status of a payment, kind by kind.
LEMMA NewStatusOf ==
    ASSUME NEW s \in Sessions, JobFits(job[s]), NEW p
    PROVE  /\ job[s].kind = "hold" => NewStatus(s, p) = "PROCESSING"
           /\ job[s].kind = "finish" =>
                 /\ job[s].outcome = "CAPTURED" => NewStatus(s, p) = "SUCCEEDED"
                 /\ job[s].outcome = "DECLINED" => NewStatus(s, p) = "FAILED"
                 /\ job[s].outcome = "PENDING" => NewStatus(s, p) = "AUTHORIZED"
           /\ job[s].kind = "webhook" =>
                 NewStatus(s, p) = IF job[s].event.type = "capture" THEN "SUCCEEDED" ELSE "FAILED"
           /\ job[s].kind = "sweep" => NewStatus(s, p) = "FAILED"
           /\ job[s].kind = "refund" =>
                 NewStatus(s, p) = IF refunded[p] + job[s].amount = Orders[p].amount
                                   THEN "REFUNDED" ELSE status[p]
  <1>1. CASE job[s].kind = "hold"
    BY <1>1 DEF NewStatus
  <1>2. CASE job[s].kind = "finish"
    <2>1. NewStatus(s, p) = Outcome[job[s].outcome]
      BY <1>2 DEF NewStatus
    <2> QED  BY <1>2, <2>1 DEF Outcome
  <1>3. CASE job[s].kind = "webhook"
    BY <1>3 DEF NewStatus
  <1>4. CASE job[s].kind = "sweep"
    BY <1>4 DEF NewStatus
  <1>5. CASE job[s].kind = "refund"
    BY <1>5 DEF NewStatus
  <1>6. CASE job[s].kind = "none"
    BY <1>6
  <1> QED  BY <1>1, <1>2, <1>3, <1>4, <1>5, <1>6 DEF JobFits, Kinds

\* The list posted for a payment depends on the job alone.
LEMMA ListOfJob ==
    ASSUME NEW s \in Sessions, JobFits(job[s]), job[s].kind # "none", NEW p
    PROVE  PostingList(s, p) = Transfer(From(job[s], p), To(job[s], p), Amount(job[s], p))
  <1> USE DEF From, To, Amount
  <1>1. CASE job[s].kind = "hold"
    BY <1>1 DEF PostingList
  <1>2. CASE job[s].kind = "refund"
    BY <1>2 DEF PostingList
  <1>3. CASE job[s].kind \in {"finish", "webhook", "sweep"}
    <2>1. NewStatus(s, p) = "SUCCEEDED" <=> Captures(job[s])
      BY <1>3, NewStatusOf DEF Captures, JobFits
    <2>2. CASE Captures(job[s])
      BY <1>3, <2>1, <2>2 DEF PostingList
    <2>3. CASE ~ Captures(job[s])
      BY <1>3, <2>1, <2>3 DEF PostingList
    <2> QED  BY <2>2, <2>3
  <1> QED  BY <1>1, <1>2, <1>3 DEF JobFits, Kinds

\* Who pays, who gets and how much, for a payment that a job may choose.
LEMMA JobTransfer ==
    ASSUME NEW j, JobFits(j), NEW p \in Payments, j.kind = "refund" => p = j.payment
    PROVE  /\ From(j, p) \in Accounts /\ To(j, p) \in Accounts /\ Amount(j, p) \in Nat \ {0}
           /\ Transfer(From(j, p), To(j, p), Amount(j, p)) \in PostingLists
  <1>1. /\ Orders[p].payer \in Accounts /\ Orders[p].payee \in Accounts
        /\ Orders[p].amount \in Nat \ {0} /\ Suspense \in Accounts
    BY HandlersAssumption
  <1>2. j.kind = "refund" => j.amount \in 1 .. Orders[p].amount
    BY DEF JobFits
  <1>3. /\ From(j, p) \in Accounts /\ To(j, p) \in Accounts /\ Amount(j, p) \in Nat \ {0}
    BY <1>1, <1>2 DEF From, To, Amount
  <1>4. Transfer(From(j, p), To(j, p), Amount(j, p)) \in PostingLists
    BY <1>2, HandlersPostAssumption DEF From, To, Amount
  <1> QED  BY <1>3, <1>4

\* The two postings of a transfer.
LEMMA TransferFields ==
    ASSUME NEW d, NEW c, NEW m \in Int
    PROVE  LET l == Transfer(d, c, m)
           IN  /\ Len(l) = 2 /\ DOMAIN l = {1, 2}
               /\ l[1].account_id = d /\ l[1].amount = m /\ l[1].direction = "DEBIT"
               /\ l[2].account_id = c /\ l[2].amount = m /\ l[2].direction = "CREDIT"
               /\ Delta(l[1]) = 0 - m /\ Delta(l[2]) = m
               /\ AccountsOf(l) = {d, c}
  <1> DEFINE l == Transfer(d, c, m)
  <1>1. /\ Len(l) = 2 /\ DOMAIN l = {1, 2}
        /\ l[1].account_id = d /\ l[1].amount = m /\ l[1].direction = "DEBIT"
        /\ l[2].account_id = c /\ l[2].amount = m /\ l[2].direction = "CREDIT"
    BY DEF Transfer
  <1> HIDE DEF l
  <1>2. Delta(l[1]) = 0 - m /\ Delta(l[2]) = m
    BY <1>1 DEF Delta
  <1>3. AccountsOf(l) = {d, c}
    BY <1>1 DEF AccountsOf
  <1> QED  BY <1>1, <1>2, <1>3 DEF l

\* What a session chooses is a payment, and a refund chooses its own.
LEMMA ChosenPayment ==
    ASSUME HandlersTypes, NEW s \in Sessions, Statement(s), NEW i \in 1 .. Len(chosen[s])
    PROVE  /\ chosen[s][i] \in Payments /\ chosen[s][i] \in Chosen(s)
           /\ job[s].kind # "none"
           /\ job[s].kind \in {"finish", "webhook", "refund", "hold"} =>
                 chosen[s] = <<Subject(job[s])>> /\ i = 1
           /\ job[s].kind = "refund" => chosen[s][i] = job[s].payment
  <1>1. chosen[s] \in Seq(Payments) /\ DOMAIN chosen[s] = 1 .. Len(chosen[s])
    BY DEF HandlersTypes
  <1>2. chosen[s] # <<>>
    BY <1>1
  <1>3. chosen[s][i] \in Payments /\ chosen[s][i] \in Chosen(s)
    BY <1>1 DEF Chosen
  <1>4. at[s] \in {"lock", "post"} /\ job[s].kind # "none"
    BY <1>2 DEF Statement, HandlersTypes
  <1>5. job[s].kind \in {"finish", "webhook", "refund", "hold"} => chosen[s] = <<Subject(job[s])>>
    BY <1>2, <1>4 DEF Statement, Subject
  <1> QED  BY <1>3, <1>4, <1>5 DEF Subject

-------------------------------------------------------------------------------
\* The list that the next post() of a session is given.
LEMMA NextList ==
    ASSUME IInv, HandlersTypes, NEW s \in Sessions, Statement(s), PostNext(s)
    PROVE  LET i == posts[s] + 1
               j == job[s]
               l == Transfer(From(j, chosen[s][i]), To(j, chosen[s][i]), Amount(j, chosen[s][i]))
           IN  /\ i \in 1 .. Len(chosen[s]) /\ ~ Pending(s) /\ at[s] = "post"
               /\ l \in PostingLists /\ post(s, l)
  <1> DEFINE i == posts[s] + 1
  <1>1. i \in 1 .. Len(chosen[s]) /\ ~ Pending(s) /\ at[s] = "post"
    <2>1. posts[s] \in Nat /\ Len(chosen[s]) \in Nat
      BY DEF IInv, TypeOK, HandlersTypes
    <2> QED  BY <2>1 DEF PostNext, Unposted
  <1>2. /\ chosen[s][i] \in Payments /\ job[s].kind # "none" /\ JobFits(job[s])
        /\ job[s].kind = "refund" => chosen[s][i] = job[s].payment
    BY <1>1, ChosenPayment DEF HandlersTypes
  <1> QED  BY <1>1, <1>2, JobTransfer, ListOfJob DEF PostNext

\* The handlers drive the ledger as its callers do, so its invariant holds.
LEMMA LedgerKept ==
    ASSUME IInv, HandlersTypes, NEW s \in Sessions, Statement(s), SessionStep(s)
    PROVE  IInv'
  <1>1. ASSUME UNCHANGED vars PROVE IInv'
    BY <1>1, NextIInv
  <1>2. CASE BeginAny(s)
    <2>1. ASSUME NEW j, NEW b, NEW c, NEW d, Begin(s, j, b, c, d)
          PROVE  UNCHANGED vars
      BY <2>1 DEF Begin
    <2> QED  BY <1>1, <1>2, <2>1 DEF BeginAny, BeginHold, BeginFinish, BeginRefund, BeginWebhook, BeginSweep
  <1>3. CASE Ends(s) \/ CommitJob(s)
    BY <1>1, <1>3, AbortIInv, CommitIInv DEF Ends, CommitJob
  <1>4. CASE GoesOn(s)
    BY <1>1, <1>4 DEF GoesOn, DedupNew, InsertEvent, NotFound, LockPayment
  <1>5. CASE PostNext(s)
    BY <1>5, NextList, PostIInv
  <1>6. CASE InPost(s)
    BY <1>6, MissRowIInv, LockRowIInv, InsertRowIInv, ApplyPostingIInv DEF InPost, LedgerStatement, LedgerLock, Acquire
  <1> QED  BY <1>2, <1>3, <1>4, <1>5, <1>6 DEF SessionStep

\* A scan is a list of payments.
LEMMA ScanTyped ==
    ASSUME NEW scan \in Scans({p \in Payments : status[p] = "AUTHORIZED"})
    PROVE  /\ scan \in Seq(Payments) /\ scan # <<>>
           /\ \A i \in DOMAIN scan : status[scan[i]] = "AUTHORIZED"
  <1> DEFINE S == {p \in Payments : status[p] = "AUTHORIZED"}
  <1>1. PICK n \in 1 .. Cardinality(S) : scan \in [1 .. n -> S]
    BY DEF Scans
  <1>2. n \in Nat /\ n >= 1
    <2>1. IsFiniteSet(S)
      BY HandlersAssumption, FS_Subset
    <2>2. Cardinality(S) \in Nat
      BY <2>1, FS_CardinalityType
    <2> QED  BY <2>2
  <1>3. scan \in Seq(S) /\ Len(scan) = n
    BY <1>1, <1>2, SeqDef, LenProperties
  <1> QED  BY <1>1, <1>2, <1>3

\* How a transaction begins: job j at statement b, with rows c to lock and
\* payments d chosen.
BeginsAs(s, j, b, c, d) ==
    /\ Begin(s, j, b, c, d) /\ JobFits(j) /\ c \in Seq(Payments) /\ d \in Seq(Payments)
    /\ \/ b = "post" /\ j.kind = "hold" /\ c = <<>> /\ d = <<j.payment>>
       \/ b = "lock" /\ j.kind \in {"finish", "refund"} /\ c = <<j.payment>> /\ d = <<>>
       \/ b = "lock" /\ j.kind = "sweep" /\ c # <<>> /\ d = <<>>
       \/ b = "dedup" /\ j.kind = "webhook" /\ c = <<>> /\ d = <<>>
    /\ \A i \in DOMAIN c : status[c[i]] # "none"
    /\ j.kind = "webhook" => status[j.event.payment] # "none"
    /\ j.kind = "hold" => status[j.payment] = "none" /\ \A t \in Sessions : j.payment \notin Chosen(t)
    /\ j.kind = "finish" => j.payment \in calling /\ calling' = calling \ {j.payment}
    /\ j.kind # "finish" => UNCHANGED calling

\* It begins in one of these ways.
LEMMA BeginShape ==
    ASSUME HandlersTypes, PaymentRows, NEW s \in Sessions, BeginAny(s)
    PROVE  \E j, b, c, d : BeginsAs(s, j, b, c, d)
  <1>1. ASSUME NEW p \in Payments, BeginHold(s, p)
        PROVE  BeginsAs(s, [kind |-> "hold", payment |-> p], "post", <<>>, <<p>>)
    BY <1>1 DEF BeginHold, BeginsAs, JobFits, Kinds
  <1>2. ASSUME NEW p \in Payments, NEW o \in DOMAIN Outcome, BeginFinish(s, p, o)
        PROVE  BeginsAs(s, [kind |-> "finish", payment |-> p, outcome |-> o], "lock", <<p>>, <<>>)
    <2>1. o \in {"CAPTURED", "DECLINED", "PENDING"}
      BY DEF Outcome
    <2>2. status[p] # "none"
      BY <1>2 DEF BeginFinish, PaymentRows
    <2> QED  BY <1>2, <2>1, <2>2 DEF BeginFinish, BeginsAs, JobFits, Kinds
  <1>3. ASSUME NEW p \in Payments, NEW m \in 1 .. Orders[p].amount, BeginRefund(s, p, m)
        PROVE  BeginsAs(s, [kind |-> "refund", payment |-> p, amount |-> m], "lock", <<p>>, <<>>)
    BY <1>3 DEF BeginRefund, BeginsAs, JobFits, Kinds
  <1>4. ASSUME NEW e \in Events, BeginWebhook(s, e)
        PROVE  BeginsAs(s, [kind |-> "webhook", event |-> e], "dedup", <<>>, <<>>)
    BY <1>4 DEF BeginWebhook, BeginsAs, JobFits, Kinds
  <1>5. ASSUME BeginSweep(s)
        PROVE  \E scan : BeginsAs(s, [kind |-> "sweep"], "lock", scan, <<>>)
    <2>1. PICK scan \in Scans({p \in Payments : status[p] = "AUTHORIZED"}) :
             Begin(s, [kind |-> "sweep"], "lock", scan, <<>>)
      BY <1>5 DEF BeginSweep
    <2>2. scan \in Seq(Payments) /\ scan # <<>> /\ \A i \in DOMAIN scan : status[scan[i]] = "AUTHORIZED"
      BY ScanTyped
    <2>3. BeginsAs(s, [kind |-> "sweep"], "lock", scan, <<>>)
      BY <1>5, <2>1, <2>2 DEF BeginSweep, BeginsAs, JobFits, Kinds
    <2> QED  BY <2>3
  <1> QED  BY <1>1, <1>2, <1>3, <1>4, <1>5 DEF BeginAny

\* The empty list is the one of length zero.
LEMMA NoLength ==
    ASSUME NEW S, NEW q \in Seq(S)
    PROVE  q = <<>> <=> Len(q) = 0
  BY EmptySeq

\* What a locked row does to its session's list of rows and of payments.
LEMMA LockShape ==
    ASSUME HandlersTypes, NEW s \in Sessions, Statement(s), LockPayment(s)
    PROVE  LET p == Head(want[s])
           IN  /\ p \in Payments /\ p = want[s][1] /\ 1 \in DOMAIN want[s]
               /\ Tail(want[s]) \in Seq(Payments) /\ Len(want[s]) \in Nat
               /\ Len(want[s]) = 1 => Tail(want[s]) = <<>>
               /\ Len(want[s]) # 1 => Tail(want[s]) # <<>>
               /\ \A i \in DOMAIN Tail(want[s]) : i + 1 \in DOMAIN want[s] /\ Tail(want[s])[i] = want[s][i + 1]
               /\ job[s].kind # "sweep" => Len(want[s]) = 1 /\ p = Subject(job[s])
               /\ chosen'[s] = IF Takes(s, p) THEN Append(chosen[s], p) ELSE chosen[s]
               /\ chosen'[s] \in Seq(Payments)
  <1>1. want[s] \in Seq(Payments) /\ want[s] # <<>> /\ at[s] = "lock"
    BY DEF LockPayment, Statement, HandlersTypes
  <1>2. /\ Head(want[s]) \in Payments /\ Tail(want[s]) \in Seq(Payments) /\ Len(want[s]) \in Nat \ {0}
        /\ Len(Tail(want[s])) = Len(want[s]) - 1
        /\ \A i \in 1 .. Len(Tail(want[s])) : Tail(want[s])[i] = want[s][i + 1]
        /\ Head(want[s]) = want[s][1]
    BY <1>1, HeadTailProperties, EmptySeq, LenProperties
  <1>3. Tail(want[s]) = <<>> <=> Len(Tail(want[s])) = 0
    BY <1>2, NoLength
  <1>4. /\ Len(want[s]) = 1 => Tail(want[s]) = <<>>
        /\ Len(want[s]) # 1 => Tail(want[s]) # <<>>
    BY <1>2, <1>3
  <1>5. \A i \in DOMAIN Tail(want[s]) : i + 1 \in DOMAIN want[s] /\ Tail(want[s])[i] = want[s][i + 1]
    BY <1>1, <1>2
  <1>6. job[s].kind # "sweep" => Len(want[s]) = 1 /\ Head(want[s]) = Subject(job[s])
    <2>1. job[s].kind # "sweep" => want[s] = <<Subject(job[s])>>
      BY <1>1 DEF Statement
    <2>2. \A x : Len(<<x>>) = 1 /\ <<x>>[1] = x
      OBVIOUS
    <2> QED  BY <1>2, <2>1, <2>2
  <1>7. chosen'[s] = IF Takes(s, Head(want[s])) THEN Append(chosen[s], Head(want[s])) ELSE chosen[s]
    BY DEF LockPayment, HandlersTypes
  <1>8. chosen'[s] \in Seq(Payments)
    BY <1>2, <1>7 DEF HandlersTypes
  <1>9. 1 \in DOMAIN want[s]
    BY <1>1, <1>2
  <1> QED  BY <1>2, <1>3, <1>4, <1>5, <1>6, <1>7, <1>8, <1>9

-------------------------------------------------------------------------------
\* Every step keeps the types.
LEMMA TypesKept ==
    ASSUME HandlersTypes, PaymentRows, NEW s \in Sessions, Statement(s), SessionStep(s)
    PROVE  HandlersTypes'
  <1> USE LedgerAssumption
  <1>0. Free \in Sessions \cup {Free} /\ <<>> \in Seq(Payments) /\ JobFits(NoJob)
    BY DEF JobFits, NoJob, Kinds
  <1>1. ASSUME Release(s), status' \in [Payments -> Statuses], refunded' \in [Payments -> Nat],
               calling' \subseteq Payments
        PROVE  HandlersTypes'
    <2>1. DOMAIN job' = Sessions /\ \A t \in Sessions : JobFits(job'[t])
      BY <1>0, <1>1 DEF Release, HandlersTypes
    <2>2. /\ at' \in [Sessions -> {"idle", "dedup", "insert", "lock", "post"}]
          /\ want' \in [Sessions -> Seq(Payments)] /\ chosen' \in [Sessions -> Seq(Payments)]
      BY <1>0, <1>1 DEF Release, HandlersTypes
    <2>3. /\ rowlock' \in [Payments -> Sessions \cup {Free}]
          /\ claimant' \in [EventIds -> Sessions \cup {Free}]
      BY <1>1 DEF Release, Unlock, HandlersTypes
    <2> QED  BY <1>1, <2>1, <2>2, <2>3 DEF HandlersTypes
  <1>2. CASE BeginAny(s)
    <2>1. PICK j, b, c, d : BeginsAs(s, j, b, c, d)
      BY <1>2, BeginShape
    <2>2. DOMAIN job' = Sessions /\ \A t \in Sessions : JobFits(job'[t])
      BY <2>1 DEF BeginsAs, Begin, HandlersTypes
    <2>3. calling' \subseteq Payments
      BY <2>1 DEF BeginsAs, HandlersTypes
    <2> QED  BY <2>1, <2>2, <2>3 DEF BeginsAs, Begin, committed, HandlersTypes
  <1>3. CASE Ends(s)
    BY <1>1, <1>3 DEF Ends, committed, HandlersTypes
  <1>4. CASE CommitJob(s)
    <2>1. JobFits(job[s]) /\ job[s].kind # "none" /\ Chosen(s) \subseteq Payments
      BY <1>4 DEF CommitJob, HandlersTypes, Statement, Chosen
    <2>2. \A p \in Payments : NewStatus(s, p) \in Statuses
      <3> SUFFICES ASSUME NEW p \in Payments PROVE NewStatus(s, p) \in Statuses
        OBVIOUS
      <3>1. status[p] \in Statuses
        BY DEF HandlersTypes
      <3> QED  BY <2>1, <3>1, NewStatusOf DEF JobFits, Kinds, Statuses
    <2>3. status' \in [Payments -> Statuses]
      BY <1>4, <2>2 DEF CommitJob, HandlersTypes
    <2>4. refunded' \in [Payments -> Nat]
      <3>1. job[s].kind = "refund" => job[s].amount \in Nat
        BY <2>1, HandlersAssumption DEF JobFits
      <3> QED  BY <1>4, <3>1 DEF CommitJob, HandlersTypes
    <2>5. calling' \subseteq Payments
      BY <1>4, <2>1 DEF CommitJob, HandlersTypes
    <2> QED  BY <1>1, <1>4, <2>3, <2>4, <2>5 DEF CommitJob
  <1>5. CASE DedupNew(s) \/ NotFound(s)
    <2>1. want' \in [Sessions -> Seq(Payments)]
      <3>1. want \in [Sessions -> Seq(Payments)] /\ <<>> \in Seq(Payments)
        BY DEF HandlersTypes
      <3> QED  BY <1>5, <3>1 DEF DedupNew, NotFound
    <2>2. at' \in [Sessions -> {"idle", "dedup", "insert", "lock", "post"}]
      BY <1>5 DEF DedupNew, NotFound, Goto, HandlersTypes
    <2>3. UNCHANGED <<committed, calling, job, chosen, rowlock, claimant>>
      BY <1>5 DEF DedupNew, NotFound
    <2> QED  BY <2>1, <2>2, <2>3 DEF committed, HandlersTypes
  <1>6. CASE InsertEvent(s)
    <2>1. job[s].event.payment \in Payments
      BY <1>6, HandlersAssumption DEF InsertEvent, Statement, HandlersTypes, JobFits
    <2>2. <<job[s].event.payment>> \in Seq(Payments)
      BY <2>1
    <2> QED  BY <1>6, <2>2 DEF InsertEvent, Goto, committed, HandlersTypes
  <1>7. CASE LockPayment(s)
    <2>1. Tail(want[s]) \in Seq(Payments) /\ chosen'[s] \in Seq(Payments)
      BY <1>7, LockShape
    <2>2. want' \in [Sessions -> Seq(Payments)]
      BY <1>7, <2>1 DEF LockPayment, HandlersTypes
    <2>3. chosen' \in [Sessions -> Seq(Payments)]
      BY <1>7, <2>1 DEF LockPayment, HandlersTypes
    <2> QED  BY <1>7, <2>2, <2>3 DEF LockPayment, Goto, committed, HandlersTypes
  <1>8. CASE PostNext(s) \/ InPost(s)
    BY <1>8 DEF PostNext, InPost, LedgerStatement, LedgerLock, committed, handling, HandlersTypes
  <1> QED  BY <1>2, <1>3, <1>4, <1>5, <1>6, <1>7, <1>8 DEF SessionStep, GoesOn

\* Every step leaves every session at a statement it can be at.
LEMMA StatementsKept ==
    ASSUME HandlersTypes, PaymentRows, \A t \in Sessions : Statement(t),
           NEW s \in Sessions, SessionStep(s)
    PROVE  \A t \in Sessions : Statement(t)'
  <1> USE LedgerAssumption
  <1>1. ASSUME NEW t \in Sessions \ {s} PROVE Statement(t)'
    <2>1. /\ job'[t] = job[t] /\ at'[t] = at[t] /\ want'[t] = want[t] /\ chosen'[t] = chosen[t]
          /\ \A p \in Payments : rowlock'[p] = t <=> rowlock[p] = t
          /\ \A e \in EventIds : claimant'[e] = t <=> claimant[e] = t
      BY HandlerStepFrame DEF HandlerFrame
    <2> QED  BY <2>1 DEF Statement
  <1>2. ASSUME Release(s) PROVE Statement(s)'
    BY <1>2 DEF Release, Unlock, Statement, HandlersTypes, NoJob
  <1>3. CASE BeginAny(s)
    <2>1. PICK j, b, c, d : BeginsAs(s, j, b, c, d)
      BY <1>3, BeginShape
    <2>2. /\ job'[s] = j /\ at'[s] = b /\ want'[s] = c /\ chosen'[s] = d
          /\ UNCHANGED <<rowlock, claimant>>
      BY <2>1 DEF BeginsAs, Begin, HandlersTypes
    <2>3. /\ \A p \in Payments : rowlock[p] # s
          /\ \A e \in EventIds : claimant[e] # s
      BY <2>1 DEF BeginsAs, Begin, Statement
    <2>4. Statement(s)'
      BY <2>1, <2>2, <2>3 DEF BeginsAs, Statement, Subject
    <2> QED  BY <1>1, <2>4
  <1>4. CASE Ends(s) \/ CommitJob(s)
    BY <1>1, <1>2, <1>4 DEF Ends, CommitJob
  <1>5. CASE DedupNew(s)
    <2>1. Statement(s)'
      BY <1>5 DEF DedupNew, Goto, HandlersTypes, Statement
    <2> QED  BY <1>1, <2>1
  <1>6. CASE NotFound(s)
    <2>1. Statement(s)'
      BY <1>6 DEF NotFound, Goto, HandlersTypes, Statement, Found
    <2> QED  BY <1>1, <2>1
  <1>7. CASE InsertEvent(s)
    <2>1. Statement(s)'
      BY <1>7 DEF InsertEvent, Goto, HandlersTypes, Statement, Subject
    <2> QED  BY <1>1, <2>1
  <1>8. CASE LockPayment(s)
    <2>1. /\ job'[s] = job[s] /\ at[s] = "lock"
          /\ want'[s] = Tail(want[s])
          /\ at'[s] = IF Len(want[s]) = 1 THEN "post" ELSE "lock"
      BY <1>8 DEF LockPayment, Goto, HandlersTypes
    <2>2. /\ Len(want[s]) # 1 => Tail(want[s]) # <<>>
          /\ job[s].kind # "sweep" => Len(want[s]) = 1 /\ Head(want[s]) = Subject(job[s])
          /\ chosen'[s] = IF Takes(s, Head(want[s])) THEN Append(chosen[s], Head(want[s])) ELSE chosen[s]
      BY <1>8, LockShape
    <2>3. job[s].kind # "sweep" => chosen[s] = <<>>
      BY <2>1 DEF Statement
    <2>4. job[s].kind # "sweep" => chosen'[s] \in {<<>>, <<Subject(job[s])>>}
      <3>1. \A x : Append(<<>>, x) = <<x>>
        OBVIOUS
      <3> QED  BY <2>2, <2>3, <3>1
    <2>5. Statement(s)'
      BY <2>1, <2>2, <2>4 DEF Statement
    <2> QED  BY <1>1, <2>5
  <1>9. CASE PostNext(s) \/ InPost(s)
    BY <1>9 DEF PostNext, InPost, LedgerStatement, LedgerLock, handling, Statement
  <1> QED  BY <1>3, <1>4, <1>5, <1>6, <1>7, <1>8, <1>9 DEF SessionStep, GoesOn

\* Every step leaves every post() in its place.
LEMMA ProgressKept ==
    ASSUME IInv, HandlersTypes, PaymentRows, \A t \in Sessions : Statement(t) /\ Progress(t),
           NEW s \in Sessions, SessionStep(s)
    PROVE  \A t \in Sessions : Progress(t)'
  <1>0. TypeOK
    BY DEF IInv
  <1>1. ASSUME NEW t \in Sessions \ {s} PROVE Progress(t)'
    <2>1. /\ job'[t] = job[t] /\ at'[t] = at[t] /\ chosen'[t] = chosen[t]
          /\ pc'[t] = pc[t] /\ posts'[t] = posts[t] /\ postings'[t] = postings[t]
      BY <1>0, HandlerStepFrame, LedgerStepFrame DEF HandlerFrame, LedgerFrame
    <2> QED  BY <2>1 DEF Progress, Pending
  <1>2. ASSUME pc'[s] = "idle", posts'[s] = 0 PROVE Progress(s)'
    BY <1>2 DEF Progress
  <1>3. ASSUME EndTransaction(s) PROVE pc'[s] = "idle" /\ posts'[s] = 0
    BY <1>0, <1>3 DEF EndTransaction, TypeOK
  <1>4. ASSUME UNCHANGED vars, at[s] # "post" \/ pc[s] = "idle" PROVE pc'[s] = "idle" /\ posts'[s] = 0
    BY <1>4 DEF vars, Progress
  <1>5. CASE BeginAny(s)
    <2>1. PICK j, b, c, d : Begin(s, j, b, c, d)
      BY <1>5, BeginShape DEF BeginsAs
    <2> QED  BY <1>1, <1>2, <1>4, <2>1 DEF Begin
  <1>6. CASE Ends(s) \/ CommitJob(s)
    BY <1>1, <1>2, <1>3, <1>4, <1>6 DEF Ends, Abort, CommitJob, Commit
  <1>7. CASE GoesOn(s)
    BY <1>1, <1>2, <1>4, <1>7 DEF GoesOn, DedupNew, InsertEvent, NotFound, LockPayment
  <1>8. CASE PostNext(s)
    <2> DEFINE i == posts[s] + 1
               l == Transfer(From(job[s], chosen[s][i]), To(job[s], chosen[s][i]), Amount(job[s], chosen[s][i]))
    <2>1. i \in 1 .. Len(chosen[s]) /\ ~ Pending(s) /\ at[s] = "post" /\ post(s, l)
      BY <1>8, NextList
    <2>2. UNCHANGED <<job, at, chosen>>
      BY <1>8 DEF PostNext, handling
    <2>3. pc'[s] = "lock" /\ posts'[s] = i /\ postings'[s] = l
      BY <1>0, <2>1 DEF post, TypeOK
    <2>4. Progress(s)'
      BY <2>1, <2>2, <2>3 DEF Progress, Pending
    <2> QED  BY <1>1, <2>4
  <1>9. CASE InPost(s)
    <2>1. UNCHANGED <<job, at, chosen>>
      BY <1>9 DEF InPost, LedgerStatement, LedgerLock, handling
    <2>2. pc[s] # "idle" /\ pc'[s] # "idle" /\ posts' = posts /\ postings' = postings
      BY <1>0, <1>9 DEF InPost, LedgerStatement, LedgerLock, Acquire, MissRow, ApplyPosting, LockRow, InsertRow, Advance, TypeOK
    <2>3. Progress(s)'
      BY <2>1, <2>2 DEF Progress, Pending
    <2> QED  BY <1>1, <2>3
  <1> QED  BY <1>5, <1>6, <1>7, <1>8, <1>9 DEF SessionStep

\* A session that is no sweep posts once, and takes the rows of that post in
\* ascending order.
LEMMA AscendsKept ==
    ASSUME IInv, HandlersTypes, PaymentRows,
           \A t \in Sessions : Statement(t) /\ Progress(t) /\ Ascends(t),
           NEW s \in Sessions, SessionStep(s)
    PROVE  \A t \in Sessions : Ascends(t)'
  <1>0. TypeOK /\ Positioned
    BY DEF IInv
  <1>1. ASSUME NEW t \in Sessions \ {s} PROVE Ascends(t)'
    <2>1. /\ job'[t] = job[t] /\ todo'[t] = todo[t]
          /\ \A a \in Accounts : owner'[a] = t <=> owner[a] = t
      BY <1>0, HandlerStepFrame, LedgerStepFrame DEF HandlerFrame, LedgerFrame
    <2> QED  BY <2>1 DEF Ascends
  <1>2. ASSUME \A a \in Accounts : owner'[a] # s PROVE Ascends(s)'
    BY <1>2 DEF Ascends
  <1>3. ASSUME EndTransaction(s) PROVE Ascends(s)'
    BY <1>0, <1>2, <1>3, LedgerAssumption DEF EndTransaction, Unlocked, TypeOK
  <1>4. ASSUME UNCHANGED vars, at[s] # "post" \/ pc[s] = "idle" PROVE Ascends(s)'
    BY <1>0, <1>2, <1>4 DEF vars, Progress, Positioned
  <1>5. CASE BeginAny(s)
    <2>1. PICK j, b, c, d : Begin(s, j, b, c, d)
      BY <1>5, BeginShape DEF BeginsAs
    <2> QED  BY <1>1, <1>4, <2>1 DEF Begin
  <1>6. CASE Ends(s) \/ CommitJob(s)
    BY <1>1, <1>3, <1>4, <1>6 DEF Ends, Abort, CommitJob, Commit
  <1>7. CASE GoesOn(s)
    BY <1>1, <1>4, <1>7 DEF GoesOn, DedupNew, InsertEvent, NotFound, LockPayment
  <1>8. CASE PostNext(s)
    <2>1. posts[s] + 1 \in 1 .. Len(chosen[s])
      BY <1>8, NextList
    <2>2. CASE job[s].kind = "sweep"
      BY <1>1, <1>8, <2>2 DEF PostNext, handling, Ascends
    <2>3. CASE job[s].kind # "sweep"
      <3>1. posts[s] + 1 = 1
        BY <2>1, <2>3, ChosenPayment DEF HandlersTypes, JobFits, Kinds
      <3>2. pc[s] = "idle"
        BY <1>0, <3>1 DEF Progress, TypeOK
      <3>3. \A a \in Accounts : owner'[a] # s
        BY <1>0, <1>8, <3>2 DEF Positioned, PostNext, post
      <3> QED  BY <1>1, <1>2, <3>3
    <2> QED  BY <2>2, <2>3
  <1>9. CASE InPost(s)
    <2>0. UNCHANGED job
      BY <1>9 DEF InPost, LedgerStatement, LedgerLock, handling
    <2>1. ASSUME UNCHANGED <<owner, todo>> PROVE Ascends(s)'
      BY <2>0, <2>1 DEF Ascends
    <2>2. ASSUME NEW a \in Accounts, NextRow(s, a), Advance(s, a), owner' = [owner EXCEPT ![a] = s]
          PROVE  Ascends(s)'
      <3> SUFFICES ASSUME job[s].kind # "sweep", NEW b \in Accounts, NEW c \in Accounts,
                          owner'[b] = s, c \in todo'[s]
                   PROVE  b < c
        BY <2>0 DEF Ascends
      <3>1. c \in todo[s] /\ c # a
        BY <1>0, <2>2 DEF Advance, TypeOK
      <3>2. CASE b = a
        <4>1. a =< c /\ a \in Nat /\ c \in Nat
          BY <2>2, <3>1, PostingsAssumption DEF NextRow
        <4> QED  BY <3>1, <3>2, <4>1
      <3>3. CASE b # a
        BY <1>0, <2>2, <3>1, <3>3 DEF Ascends, TypeOK
      <3> QED  BY <3>2, <3>3
    <2>3. Ascends(s)'
      BY <1>9, <2>1, <2>2 DEF InPost, LedgerStatement, LedgerLock, Acquire, MissRow, ApplyPosting, LockRow, InsertRow
    <2> QED  BY <1>1, <2>3
  <1> QED  BY <1>5, <1>6, <1>7, <1>8, <1>9 DEF SessionStep

-------------------------------------------------------------------------------
(***************************************************************************)
(* Payments.  The lock on its row, or its being new, gives a payment to    *)
(* one session at a time, so its status stays what the session found.      *)
(***************************************************************************)

\* No payment is chosen by two sessions.
LEMMA ChosenApart ==
    ASSUME HandlersTypes, PaymentRows, \A t \in Sessions : Statement(t),
           NEW s \in Sessions, NEW t \in Sessions, s # t
    PROVE  Chosen(s) \cap Chosen(t) = {}
  <1> SUFFICES ASSUME NEW p, p \in Chosen(s), p \in Chosen(t) PROVE FALSE
    OBVIOUS
  <1>1. ASSUME NEW u \in Sessions, job[u].kind = "hold", NEW q, q \in Chosen(u)
        PROVE  q = job[u].payment
    BY <1>1 DEF Statement, Chosen
  <1>2. CASE job[s].kind = "hold" \/ job[t].kind = "hold"
    BY <1>1, <1>2 DEF PaymentRows, Creating
  <1>3. CASE job[s].kind # "hold" /\ job[t].kind # "hold"
    BY <1>3 DEF PaymentRows, Choice
  <1> QED  BY <1>2, <1>3

\* A payment whose provider is being asked is chosen by its own call only.
LEMMA AskedUntouched ==
    ASSUME HandlersTypes, PaymentRows, NEW s \in Sessions, Statement(s),
           NEW p \in Payments, status[p] = "PROCESSING", p \in Chosen(s)
    PROVE  job[s].kind = "finish" /\ job[s].payment = p
  <1>1. PICK i \in DOMAIN chosen[s] : chosen[s][i] = p
    BY DEF Chosen
  <1>2. i \in 1 .. Len(chosen[s]) /\ job[s].kind \in Kinds
    BY DEF HandlersTypes, JobFits
  <1>3. job[s].kind # "none" /\ (job[s].kind = "finish" => chosen[s] = <<Subject(job[s])>> /\ i = 1)
    BY <1>2, ChosenPayment
  <1>4. job[s].kind = "finish"
    BY <1>2, <1>3 DEF PaymentRows, Choice, Kinds
  <1> QED  BY <1>1, <1>3, <1>4 DEF Subject

\* What other sessions rely on, when neither payments nor calls change.
LEMMA OthersUndisturbed ==
    ASSUME HandlersTypes, PaymentRows, NEW s \in Sessions, HandlerFrame(s),
           UNCHANGED <<status, refunded>>, NEW t \in Sessions \ {s}
    PROVE  Choice(t)' /\ Known(t)'
  <1>1. /\ job'[t] = job[t] /\ want'[t] = want[t] /\ chosen'[t] = chosen[t]
        /\ \A p \in Payments : rowlock'[p] = t <=> rowlock[p] = t
    BY DEF HandlerFrame
  <1>2. Chosen(t)' = Chosen(t) /\ Chosen(t) \subseteq Payments
    BY <1>1 DEF Chosen, HandlersTypes
  <1> QED  BY <1>1, <1>2 DEF PaymentRows, Choice, Known

\* A transaction begins.
LEMMA BeginPayments ==
    ASSUME HandlersTypes, PaymentRows, \A t \in Sessions : Statement(t),
           NEW s \in Sessions, BeginAny(s)
    PROVE  PaymentRows'
  <1>1. PICK j, b, c, d : BeginsAs(s, j, b, c, d)
    BY BeginShape
  <1>2. HandlerFrame(s)
    BY HandlerStepFrame DEF SessionStep
  <1>3. /\ job'[s] = j /\ at'[s] = b /\ want'[s] = c /\ chosen'[s] = d
        /\ UNCHANGED <<status, refunded, rowlock>>
    BY <1>1 DEF BeginsAs, Begin, committed, HandlersTypes
  <1>4. \A t \in Sessions \ {s} : job'[t] = job[t] /\ Chosen(t)' = Chosen(t)
    BY <1>2 DEF HandlerFrame, Chosen
  <1>5. (j.kind # "hold" => Chosen(s)' = {}) /\ (j.kind = "hold" => Chosen(s)' = {j.payment})
    <2>1. (j.kind # "hold" => d = <<>>) /\ (j.kind = "hold" => d = <<j.payment>>)
      BY <1>1 DEF BeginsAs
    <2> QED  BY <1>3, <2>1 DEF Chosen
  <1>6. \A t \in Sessions \ {s} : Choice(t)' /\ Known(t)'
    BY <1>2, <1>3, OthersUndisturbed
  <1>7. Choice(s)' /\ Known(s)'
    <2>1. \A i, k \in DOMAIN d : d[i] = d[k] => i = k
      BY <1>1 DEF BeginsAs
    <2>2. Choice(s)'
      BY <1>1, <1>3, <1>5, <2>1 DEF Choice, BeginsAs
    <2> QED  BY <1>1, <1>3, <2>2 DEF Known, BeginsAs
  <1>8. calling' \subseteq calling /\ (j.kind = "finish" => j.payment \in calling /\ j.payment \notin calling')
    BY <1>1 DEF BeginsAs
  <1>9. \A t \in Sessions : Finishing(t)'
    <2>1. ASSUME NEW t \in Sessions \ {s} PROVE Finishing(t)'
      BY <1>3, <1>4, <1>8 DEF PaymentRows, Finishing
    <2>2. Finishing(s)'
      BY <1>3, <1>4, <1>8 DEF PaymentRows, Finishing
    <2> QED  BY <2>1, <2>2
  <1>10. \A t \in Sessions : Creating(t)'
    <2>1. ASSUME NEW t \in Sessions \ {s} PROVE Creating(t)'
      <3>1. job[t].kind = "hold" => job[t].payment \in Chosen(t)
        BY DEF Statement, Chosen
      <3> QED  BY <1>1, <1>3, <1>4, <1>5, <3>1 DEF PaymentRows, Creating, BeginsAs
    <2>2. Creating(s)'
      BY <1>1, <1>3, <1>4 DEF PaymentRows, Creating, BeginsAs
    <2> QED  BY <2>1, <2>2
  <1> QED  BY <1>3, <1>6, <1>7, <1>8, <1>9, <1>10 DEF PaymentRows

\* A transaction ends without publishing anything.
LEMMA EndPayments ==
    ASSUME HandlersTypes, PaymentRows, NEW s \in Sessions, Ends(s)
    PROVE  PaymentRows'
  <1>1. HandlerFrame(s)
    BY HandlerStepFrame DEF SessionStep
  <1>2. /\ job'[s] = NoJob /\ want'[s] = <<>> /\ chosen'[s] = <<>>
        /\ UNCHANGED <<status, refunded, calling>>
    BY DEF Ends, Release, committed, HandlersTypes
  <1>3. \A t \in Sessions \ {s} : job'[t] = job[t] /\ Chosen(t)' = Chosen(t)
    BY <1>1 DEF HandlerFrame, Chosen
  <1>4. Chosen(s)' = {}
    BY <1>2 DEF Chosen
  <1>5. \A t \in Sessions \ {s} : Choice(t)' /\ Known(t)'
    BY <1>1, <1>2, OthersUndisturbed
  <1>6. Choice(s)' /\ Known(s)'
    BY <1>2, <1>4 DEF Choice, Known, NoJob
  <1>7. \A t \in Sessions : Finishing(t)'
    BY <1>2, <1>3 DEF PaymentRows, Finishing, NoJob
  <1>8. \A t \in Sessions : Creating(t)'
    BY <1>2, <1>3, <1>4 DEF PaymentRows, Creating, NoJob
  <1> QED  BY <1>2, <1>5, <1>6, <1>7, <1>8 DEF PaymentRows

\* A transaction commits: the payments it chose move on, no other does.
LEMMA CommitPayments ==
    ASSUME HandlersTypes, PaymentRows, \A t \in Sessions : Statement(t),
           NEW s \in Sessions, CommitJob(s)
    PROVE  PaymentRows'
  <1>1. HandlerFrame(s)
    BY HandlerStepFrame DEF SessionStep
  <1>2. /\ job'[s] = NoJob /\ want'[s] = <<>> /\ chosen'[s] = <<>>
        /\ status' = [p \in Payments |-> IF p \in Chosen(s) THEN NewStatus(s, p) ELSE status[p]]
        /\ \A p \in Payments : p \notin Chosen(s) => refunded'[p] = refunded[p]
        /\ calling' = IF job[s].kind = "hold" THEN calling \cup Chosen(s) ELSE calling
    BY DEF CommitJob, Release, HandlersTypes
  <1>3. \A t \in Sessions \ {s} :
           /\ job'[t] = job[t] /\ want'[t] = want[t] /\ chosen'[t] = chosen[t] /\ Chosen(t)' = Chosen(t)
           /\ \A p \in Payments : rowlock'[p] = t <=> rowlock[p] = t
    BY <1>1 DEF HandlerFrame, Chosen
  <1>4. Chosen(s)' = {} /\ \A t \in Sessions : Chosen(t) \subseteq Payments
    BY <1>2 DEF Chosen, HandlersTypes
  <1>5. \A p \in Payments : status[p] # "none" => status'[p] # "none"
    <2> SUFFICES ASSUME NEW p \in Payments, p \in Chosen(s), status[p] # "none" PROVE NewStatus(s, p) # "none"
      BY <1>2
    <2>1. job[s].kind # "none" /\ JobFits(job[s])
      BY DEF CommitJob, Statement, HandlersTypes
    <2> QED  BY <2>1, NewStatusOf DEF JobFits, Kinds
  <1>6. \A p \in Payments : status[p] = "PROCESSING" /\ p \in Chosen(s) =>
           job[s].kind = "finish" /\ job[s].payment = p
    BY AskedUntouched
  <1>7. ASSUME NEW t \in Sessions \ {s} PROVE Choice(t)' /\ Known(t)'
    <2>1. \A p \in Chosen(t) : status'[p] = status[p] /\ refunded'[p] = refunded[p]
      BY <1>2, <1>4, ChosenApart
    <2>2. Choice(t)'
      BY <1>3, <1>4, <2>1 DEF PaymentRows, Choice
    <2>3. \A i \in DOMAIN want[t] : want[t][i] \in Payments
      BY DEF HandlersTypes
    <2>4. job[t].kind = "webhook" => job[t].event.payment \in Payments
      BY HandlersAssumption DEF HandlersTypes, JobFits
    <2>5. Known(t)'
      BY <1>3, <1>5, <2>3, <2>4 DEF PaymentRows, Known
    <2> QED  BY <2>2, <2>5
  <1>8. Choice(s)' /\ Known(s)'
    BY <1>2, <1>4 DEF Choice, Known, NoJob
  <1>9. \A t \in Sessions : Finishing(t)'
    <2> SUFFICES ASSUME NEW t \in Sessions \ {s}, job[t].kind = "finish"
                 PROVE  /\ status'[job[t].payment] = "PROCESSING" /\ job[t].payment \notin calling'
                        /\ \A u \in Sessions : u # t /\ job'[u].kind = "finish" => job'[u].payment # job[t].payment
      BY <1>2, <1>3 DEF Finishing, NoJob
    <2>1. /\ job[t].payment \in Payments /\ status[job[t].payment] = "PROCESSING" /\ job[t].payment \notin calling
          /\ \A u \in Sessions : u # t /\ job[u].kind = "finish" => job[u].payment # job[t].payment
      BY DEF PaymentRows, Finishing, HandlersTypes, JobFits
    <2>2. job[t].payment \notin Chosen(s)
      BY <1>6, <2>1
    <2> QED  BY <1>2, <1>3, <2>1, <2>2 DEF NoJob
  <1>10. \A t \in Sessions : Creating(t)'
    BY <1>2, <1>3, <1>4 DEF PaymentRows, Creating, NoJob
  <1>11. \A p \in calling' : status'[p] = "PROCESSING"
    <2>1. ASSUME NEW p \in calling PROVE status'[p] = "PROCESSING"
      <3>1. p \in Payments /\ status[p] = "PROCESSING"
        BY DEF PaymentRows, HandlersTypes
      <3>2. p \notin Chosen(s)
        BY <1>6, <3>1 DEF PaymentRows, Finishing
      <3> QED  BY <1>2, <3>1, <3>2
    <2>2. ASSUME job[s].kind = "hold", NEW p \in Chosen(s) PROVE status'[p] = "PROCESSING"
      BY <1>2, <1>4, <2>2, NewStatusOf DEF HandlersTypes
    <2> QED  BY <1>2, <2>1, <2>2
  <1> QED  BY <1>7, <1>8, <1>9, <1>10, <1>11 DEF PaymentRows

\* Only the list of rows to lock changes.
LEMMA ScanPayments ==
    ASSUME HandlersTypes, PaymentRows, NEW s \in Sessions,
           UNCHANGED <<status, refunded, calling, job, chosen, rowlock>>,
           want' = [want EXCEPT ![s] = want'[s]],
           \A i \in DOMAIN want'[s] : status[want'[s][i]] # "none"
    PROVE  PaymentRows'
  <1>1. \A t \in Sessions : Chosen(t)' = Chosen(t)
    BY DEF Chosen
  <1>2. \A t \in Sessions : Choice(t)' /\ Finishing(t)' /\ Creating(t)'
    BY <1>1 DEF PaymentRows, Choice, Finishing, Creating
  <1>3. \A t \in Sessions \ {s} : want'[t] = want[t]
    BY DEF HandlersTypes
  <1>4. \A t \in Sessions : Known(t)'
    BY <1>3 DEF PaymentRows, Known
  <1> QED  BY <1>2, <1>4 DEF PaymentRows

\* A payment row is locked, and the payment chosen if it is as it should be.
LEMMA LockPayments ==
    ASSUME HandlersTypes, PaymentRows, \A t \in Sessions : Statement(t),
           NEW s \in Sessions, LockPayment(s)
    PROVE  PaymentRows'
  <1> DEFINE p == Head(want[s])
  <1>0. /\ p \in Payments /\ p = want[s][1] /\ 1 \in DOMAIN want[s]
        /\ \A i \in DOMAIN Tail(want[s]) : i + 1 \in DOMAIN want[s] /\ Tail(want[s])[i] = want[s][i + 1]
        /\ chosen'[s] = IF Takes(s, p) THEN Append(chosen[s], p) ELSE chosen[s]
    BY LockShape
  <1>1. /\ UNCHANGED <<status, refunded, calling, job>> /\ at[s] = "lock"
        /\ rowlock[p] = Free /\ rowlock' = [rowlock EXCEPT ![p] = s]
        /\ want'[s] = Tail(want[s])
        /\ job[s].kind = "refund" => RefundAllowed(s, p)
    BY DEF LockPayment, committed, HandlersTypes
  <1>2. HandlerFrame(s)
    BY HandlerStepFrame DEF SessionStep, GoesOn
  <1>3. \A t \in Sessions \ {s} : Choice(t)' /\ Known(t)'
    BY <1>1, <1>2, OthersUndisturbed
  <1> HIDE DEF p
  <1>4. Known(s)'
    BY <1>0, <1>1 DEF PaymentRows, Known
  <1>5. /\ Chosen(s)' = IF Takes(s, p) THEN Chosen(s) \cup {p} ELSE Chosen(s)
        /\ \A i, k \in DOMAIN chosen'[s] : chosen'[s][i] = chosen'[s][k] => i = k
    <2>1. p \notin Chosen(s) /\ \A i, k \in DOMAIN chosen[s] : chosen[s][i] = chosen[s][k] => i = k
      <3>1. job[s].kind # "hold"
        BY <1>1 DEF Statement
      <3> QED  BY <1>1, <3>1, LedgerAssumption DEF PaymentRows, Choice
    <2>2. CASE ~ Takes(s, p)
      BY <1>0, <2>1, <2>2 DEF Chosen
    <2>3. CASE Takes(s, p)
      <3> DEFINE n == Len(chosen[s])
                 q == Append(chosen[s], p)
      <3>1. /\ chosen[s] \in Seq(Payments) /\ n \in Nat /\ DOMAIN chosen[s] = 1 .. n
            /\ DOMAIN q = 1 .. n + 1 /\ q[n + 1] = p /\ \A i \in 1 .. n : q[i] = chosen[s][i]
        BY <1>0 DEF HandlersTypes
      <3> HIDE DEF n, q
      <3>2. chosen'[s] = q
        BY <1>0, <2>3 DEF q
      <3>3. {q[i] : i \in DOMAIN q} = {chosen[s][i] : i \in DOMAIN chosen[s]} \cup {p}
        <4>1. \A i \in 1 .. n + 1 : i = n + 1 \/ i \in 1 .. n
          BY <3>1
        <4>2. n + 1 \in 1 .. n + 1 /\ \A i \in 1 .. n : i \in 1 .. n + 1
          BY <3>1
        <4> QED  BY <3>1, <4>1, <4>2
      <3>4. \A i, k \in DOMAIN q : q[i] = q[k] => i = k
        <4>1. \A i \in 1 .. n + 1 : i = n + 1 \/ i \in 1 .. n
          BY <3>1
        <4>2. \A i \in 1 .. n : q[i] # p
          BY <2>1, <3>1 DEF Chosen
        <4> QED  BY <2>1, <3>1, <4>1, <4>2
      <3> QED  BY <2>3, <3>2, <3>3, <3>4 DEF Chosen
    <2> QED  BY <2>2, <2>3
  <1>6. Choice(s)'
    <2>0. Chosen(s) \subseteq Payments
      BY DEF Chosen, HandlersTypes
    <2>1. \A q \in Chosen(s)' : rowlock'[q] = s
      <3>1. \A q \in Chosen(s) : rowlock[q] = s
        BY <1>1 DEF PaymentRows, Choice, Statement
      <3> QED  BY <1>0, <1>1, <1>5, <2>0, <3>1 DEF HandlersTypes
    <2>2. job'[s] = job[s] /\ job[s].kind # "hold"
      BY <1>1 DEF Statement
    <2>3. Takes(s, p) =>
             /\ job[s].kind = "webhook" => status[p] = "AUTHORIZED" /\ job[s].event.type # "other"
             /\ job[s].kind = "sweep" => status[p] = "AUTHORIZED"
      BY DEF Takes
    <2>4. job[s].kind = "refund" => status[p] = "SUCCEEDED" /\ refunded[p] + job[s].amount =< Orders[p].amount
      BY <1>1 DEF RefundAllowed
    <2>5. \A q \in Chosen(s)' :
             /\ job[s].kind = "webhook" => status[q] = "AUTHORIZED" /\ job[s].event.type # "other"
             /\ job[s].kind = "sweep" => status[q] = "AUTHORIZED"
             /\ job[s].kind = "refund" =>
                   status[q] = "SUCCEEDED" /\ refunded[q] + job[s].amount =< Orders[q].amount
      BY <1>5, <2>3, <2>4 DEF PaymentRows, Choice
    <2> QED  BY <1>1, <1>5, <2>1, <2>2, <2>5 DEF Choice
  <1>7. \A t \in Sessions : Finishing(t)'
    BY <1>1 DEF PaymentRows, Finishing
  <1>8. \A t \in Sessions : Creating(t)'
    <2> SUFFICES ASSUME NEW t \in Sessions, job[t].kind = "hold", NEW u \in Sessions, u # t
                 PROVE  job[t].payment \notin Chosen(u)'
      BY <1>1 DEF Creating
    <2>1. job[t].payment \notin Chosen(u) /\ job[t].payment \in Chosen(t) /\ status[job[t].payment] = "none"
      BY DEF PaymentRows, Creating, Choice, Statement, Chosen
    <2>2. CASE u # s
      BY <1>2, <2>1, <2>2 DEF HandlerFrame, Chosen
    <2>3. CASE u = s
      <3>1. status[p] # "none"
        BY <1>0 DEF PaymentRows, Known
      <3> QED  BY <1>5, <2>1, <2>3, <3>1
    <2> QED  BY <2>2, <2>3
  <1>9. \A q \in calling' : status'[q] = "PROCESSING"
    BY <1>1 DEF PaymentRows
  <1> QED  BY <1>3, <1>4, <1>6, <1>7, <1>8, <1>9 DEF PaymentRows

\* Every step keeps what is known of the payments.
LEMMA PaymentsKept ==
    ASSUME HandlersTypes, PaymentRows, \A t \in Sessions : Statement(t),
           NEW s \in Sessions, SessionStep(s)
    PROVE  PaymentRows'
  <1>1. CASE DedupNew(s) \/ NotFound(s) \/ InsertEvent(s)
    <2>1. /\ UNCHANGED <<status, refunded, calling, job, chosen, rowlock>>
          /\ \/ want' = want
             \/ want' = [want EXCEPT ![s] = <<>>]
             \/ at[s] = "insert" /\ want' = [want EXCEPT ![s] = <<job[s].event.payment>>]
      BY <1>1 DEF DedupNew, NotFound, InsertEvent, committed
    <2>2. want' = [want EXCEPT ![s] = want'[s]]
      BY <2>1 DEF HandlersTypes
    <2>3. \A i \in DOMAIN want'[s] : status[want'[s][i]] # "none"
      <3>1. CASE want' = want
        BY <3>1 DEF PaymentRows, Known
      <3>2. CASE want' = [want EXCEPT ![s] = <<>>]
        BY <3>2 DEF HandlersTypes
      <3>3. CASE at[s] = "insert" /\ want' = [want EXCEPT ![s] = <<job[s].event.payment>>]
        <4>1. status[job[s].event.payment] # "none"
          BY <3>3 DEF PaymentRows, Known, Statement
        <4>2. want'[s] = <<job[s].event.payment>>
          BY <3>3 DEF HandlersTypes
        <4> QED  BY <4>1, <4>2
      <3> QED  BY <2>1, <3>1, <3>2, <3>3
    <2> QED  BY <2>1, <2>2, <2>3, ScanPayments
  <1>2. CASE PostNext(s) \/ InPost(s)
    <2>1. UNCHANGED <<status, refunded, calling, job, chosen, rowlock, want>>
      BY <1>2 DEF PostNext, InPost, LedgerStatement, LedgerLock, committed, handling
    <2>2. want' = [want EXCEPT ![s] = want'[s]] /\ \A i \in DOMAIN want'[s] : status[want'[s][i]] # "none"
      BY <2>1 DEF HandlersTypes, PaymentRows, Known
    <2> QED  BY <2>1, <2>2, ScanPayments
  <1> QED  BY <1>1, <1>2, BeginPayments, EndPayments, CommitPayments, LockPayments DEF SessionStep, GoesOn

-------------------------------------------------------------------------------
\* The inductive invariant of the locks.
LockInv ==
    /\ IInv /\ HandlersTypes /\ PaymentRows
    /\ \A s \in Sessions : Statement(s) /\ Progress(s) /\ Ascends(s)

\* It holds of the database the engine comes up over.
LEMMA InitLockInv == HandlersInit => LockInv
  <1> SUFFICES ASSUME HandlersInit PROVE LockInv
    OBVIOUS
  <1> USE LedgerAssumption, HandlersAssumption DEF HandlersInit
  <1>1. IInv
    BY InitIInv
  <1>2. HandlersTypes
    <2>1. JobFits(NoJob) /\ <<>> \in Seq(Payments)
      BY DEF JobFits, NoJob, Kinds
    <2> QED  BY <2>1 DEF HandlersTypes
  <1>3. \A s \in Sessions : Chosen(s) = {} /\ job[s].kind = "none" /\ want[s] = <<>> /\ chosen[s] = <<>>
    BY DEF Chosen, NoJob
  <1>4. PaymentRows
    BY <1>3 DEF PaymentRows, Choice, Known, Finishing, Creating
  <1>5. \A s \in Sessions : Statement(s)
    BY <1>3 DEF Statement
  <1>6. \A s \in Sessions : Progress(s) /\ Ascends(s)
    BY DEF Init, Progress, Ascends
  <1> QED  BY <1>1, <1>2, <1>4, <1>5, <1>6 DEF LockInv

\* A call that dies between its transactions takes nothing with it.
LEMMA CallDiesLockInv ==
    ASSUME LockInv, NEW p \in Payments, CallDies(p)
    PROVE  LockInv'
  <1>1. UNCHANGED <<vars, committed, handling>> /\ calling' \subseteq calling
    BY DEF CallDies
  <1>2. IInv'
    BY <1>1, NextIInv DEF LockInv
  <1>3. HandlersTypes'
    BY <1>1 DEF LockInv, HandlersTypes, committed, handling
  <1>4. \A s \in Sessions : Chosen(s)' = Chosen(s)
    BY <1>1 DEF Chosen, handling
  <1>5. \A s \in Sessions : Choice(s)' /\ Known(s)' /\ Finishing(s)' /\ Creating(s)'
    BY <1>1, <1>4 DEF LockInv, PaymentRows, Choice, Known, Finishing, Creating, committed, handling
  <1>6. PaymentRows'
    BY <1>1, <1>5 DEF LockInv, PaymentRows, committed
  <1>7. \A s \in Sessions : Statement(s)' /\ Progress(s)' /\ Ascends(s)'
    BY <1>1 DEF LockInv, Statement, Progress, Pending, Ascends, handling, vars
  <1> QED  BY <1>2, <1>3, <1>6, <1>7 DEF LockInv

\* Every step preserves it.
LEMMA NextLockInv == LockInv /\ [HandlersNext]_allvars => LockInv'
  <1> SUFFICES ASSUME LockInv, [HandlersNext]_allvars PROVE LockInv'
    OBVIOUS
  <1>1. ASSUME NEW s \in Sessions, SessionStep(s) PROVE LockInv'
    BY <1>1, LedgerKept, TypesKept, StatementsKept, ProgressKept, AscendsKept, PaymentsKept DEF LockInv
  <1>2. CASE UNCHANGED allvars
    <2>1. UNCHANGED <<vars, status, refunded, calling, handling>>
      BY <1>2 DEF allvars, committed
    <2>2. IInv'
      BY <2>1, NextIInv DEF LockInv
    <2>3. HandlersTypes'
      BY <2>1 DEF LockInv, HandlersTypes, handling
    <2>4. \A s \in Sessions : Chosen(s)' = Chosen(s)
      BY <2>1 DEF Chosen, handling
    <2>5. \A s \in Sessions : Choice(s)' /\ Known(s)' /\ Finishing(s)' /\ Creating(s)'
      BY <2>1, <2>4 DEF LockInv, PaymentRows, Choice, Known, Finishing, Creating, handling
    <2>6. \A s \in Sessions : Statement(s)' /\ Progress(s)' /\ Ascends(s)'
      BY <2>1 DEF LockInv, Statement, Progress, Pending, Ascends, handling, vars
    <2>7. PaymentRows'
      BY <2>1, <2>5 DEF LockInv, PaymentRows
    <2> QED  BY <2>2, <2>3, <2>6, <2>7 DEF LockInv
  <1> QED  BY <1>1, <1>2, StepKinds, CallDiesLockInv

(***************************************************************************)
(* Three kinds of lock, taken in one order: a session waits for an event   *)
(* id with nothing in hand, for a payment row with at most an event id,    *)
(* and for a balance row with only lower ones.  So a ring of sessions that *)
(* lock one payment each would have to run through balance rows alone, and *)
(* the awaited rows climb along it.                                        *)
(***************************************************************************)

\* Who can be in the way of whom.
LEMMA BlockersHold ==
    ASSUME LockInv, NEW D \in SUBSET Sessions, Cycle(D), \A s \in D : job[s].kind # "sweep"
    PROVE  /\ \E t \in D, a \in Accounts : owner[a] = t
           /\ \A a \in Accounts : owner[a] \in D =>
                 \E b \in Accounts : owner[b] \in D /\ b \in todo[owner[a]]
  <1> USE DEF LockInv
  <1>1. \A s \in Sessions : (\E a \in Accounts : owner[a] = s) => at[s] = "post"
    BY DEF IInv, Positioned, Progress
  <1>2. \A s \in D : (\E p \in Payments : rowlock[p] = s) => at[s] = "post"
    BY DEF Statement, HandlersTypes
  <1>3. \A s \in D : (\E e \in EventIds : claimant[e] = s) => at[s] \in {"lock", "post"}
    BY DEF Statement, HandlersTypes
  <1>4. ASSUME NEW s \in D, at[s] = "post"
        PROVE  \E b \in Accounts : owner[b] \in D /\ b \in todo[s]
    <2>1. PICK t \in D : WaitsFor(s, t)
      BY <1>4 DEF Cycle, BlockedBy
    <2> QED  BY <2>1 DEF WaitsFor, Awaits, NextRow
  <1>5. ASSUME NEW s \in D, at[s] = "lock"
        PROVE  \E t \in D : at[t] = "post"
    <2>1. PICK t \in D : BlockedBy(s, t)
      BY DEF Cycle
    <2>2. CASE WaitsFor(s, t)
      BY <1>1, <2>2 DEF WaitsFor
    <2>3. CASE rowlock[Head(want[s])] = t
      <3>1. Head(want[s]) \in Payments
        BY <1>5, HeadTailProperties DEF Statement, HandlersTypes
      <3> QED  BY <1>2, <2>3, <3>1
    <2> QED  BY <1>5, <2>1, <2>2, <2>3 DEF BlockedBy
  <1>6. ASSUME NEW s \in D
        PROVE  \E t \in D : at[t] = "post"
    <2>1. PICK t \in D : BlockedBy(s, t)
      BY DEF Cycle
    <2>2. CASE WaitsFor(s, t)
      BY <1>1, <2>2 DEF WaitsFor
    <2>3. CASE at[s] = "lock"
      BY <1>5, <2>3
    <2>4. CASE at[s] = "insert" /\ job[s].event.id # NoId /\ claimant[job[s].event.id] = t
      <3>1. job[s].event.id \in EventIds
        BY <2>4 DEF Statement, HandlersTypes, JobFits, EventIds
      <3>2. at[t] \in {"lock", "post"}
        BY <1>3, <2>4, <3>1
      <3> QED  BY <1>5, <3>2
    <2> QED  BY <2>1, <2>2, <2>3, <2>4 DEF BlockedBy
  <1>7. \E t \in D, a \in Accounts : owner[a] = t
    <2>1. PICK s \in D : at[s] = "post"
      BY <1>6 DEF Cycle
    <2> QED  BY <1>4, <2>1
  <1> QED  BY <1>1, <1>4, <1>7

\* In a finite set of accounts the awaited rows cannot climb for ever.
LEMMA RowsEnd ==
    ASSUME NEW A \in SUBSET Accounts, A # {}
    PROVE  \E a \in A : \A b \in A : ~ (a < b)
  <1> DEFINE Above(a) == {b \in A : a < b}
             T == {Above(a) : a \in A}
  <1>1. IsFiniteSet(A) /\ A \subseteq Nat
    BY PostingsAssumption, FS_Subset
  <1>2. T \subseteq SUBSET A /\ T # {}
    OBVIOUS
  <1>3. PICK U \in T : \A V \in SUBSET U : V # U => V \notin T
    <2> HIDE DEF T
    <2> QED  BY <1>1, <1>2, SmallestCulprit
  <1>4. PICK a \in A : U = Above(a)
    OBVIOUS
  <1>5. ASSUME NEW b \in A, a < b PROVE FALSE
    <2>0. a \in Nat /\ b \in Nat /\ ~ (b < b) /\ \A c \in A : b < c => a < c
      BY <1>1, <1>5
    <2>1. Above(b) \subseteq U /\ b \in U /\ b \notin Above(b)
      BY <1>4, <1>5, <2>0
    <2>2. Above(b) \in T
      OBVIOUS
    <2> QED  BY <1>3, <2>1, <2>2
  <1> QED  BY <1>5

\* Only transactions that lock several payments can deadlock: for any number
\* of create(), webhook and refund transactions, over payment rows, event ids
\* and balance rows together, no set of them waits for each other in a ring.
THEOREM NoRingWithoutSweep == HandlersSpec => []DeadlockNeedsSweep
  <1>1. LockInv => DeadlockNeedsSweep
    <2> SUFFICES ASSUME LockInv, NEW D \in SUBSET Sessions, Cycle(D), \A s \in D : job[s].kind # "sweep"
                 PROVE  FALSE
      BY DEF DeadlockNeedsSweep
    <2> DEFINE A == {a \in Accounts : owner[a] \in D}
    <2>1. A # {} /\ \A a \in A : \E b \in A : b \in todo[owner[a]]
      BY BlockersHold
    <2>2. \A a \in A : \E b \in A : a < b
      BY <2>1 DEF LockInv, Ascends
    <2>3. A \in SUBSET Accounts
      OBVIOUS
    <2> QED  BY <2>1, <2>2, <2>3, RowsEnd
  <1> QED  BY <1>1, InitLockInv, NextLockInv, PTL DEF HandlersSpec

-------------------------------------------------------------------------------
(***************************************************************************)
(* Money.  What a transaction has written is what its posts for the chosen *)
(* payments have moved so far.                                             *)
(***************************************************************************)

\* The list under way is a transfer between two accounts.
LEMMA ListUnderWay ==
    ASSUME LockInv, NEW s \in Sessions, pc[s] # "idle"
    PROVE  LET j == job[s]
               p == chosen[s][posts[s]]
           IN  /\ posts[s] \in 1 .. Len(chosen[s])
               /\ From(j, p) \in Accounts /\ To(j, p) \in Accounts /\ Amount(j, p) \in Nat \ {0}
               /\ postings[s] = Transfer(From(j, p), To(j, p), Amount(j, p))
  <1>1. /\ posts[s] \in 1 .. Len(chosen[s])
        /\ LET p == chosen[s][posts[s]]
           IN  postings[s] = Transfer(From(job[s], p), To(job[s], p), Amount(job[s], p))
    BY DEF LockInv, Progress
  <1>2. /\ chosen[s][posts[s]] \in Payments /\ JobFits(job[s])
        /\ job[s].kind = "refund" => chosen[s][posts[s]] = job[s].payment
    BY <1>1, ChosenPayment DEF LockInv, HandlersTypes
  <1> QED  BY <1>1, <1>2, JobTransfer

\* The moves of a session are whole amounts.
LEMMA MovesTyped ==
    ASSUME LockInv, NEW s \in Sessions, NEW a, NEW i \in 1 .. Len(chosen[s])
    PROVE  LET j == job[s]
               p == chosen[s][i]
           IN  /\ Moves(s, a)[i] \in Int
               /\ Moves(s, a)[i] = (IF a = To(j, p) THEN Amount(j, p) ELSE 0)
                                   - (IF a = From(j, p) THEN Amount(j, p) ELSE 0)
  <1>1. /\ chosen[s][i] \in Payments /\ JobFits(job[s])
        /\ job[s].kind = "refund" => chosen[s][i] = job[s].payment
    BY ChosenPayment DEF LockInv, HandlersTypes
  <1>2. Amount(job[s], chosen[s][i]) \in Nat
    BY <1>1, JobTransfer
  <1> QED  BY <1>2 DEF Moves, Money!Change

\* One more move.
LEMMA MovesStep ==
    ASSUME LockInv, NEW s \in Sessions, NEW a, NEW n \in 1 .. Len(chosen[s])
    PROVE  SumOver(Moves(s, a), 1 .. n) = SumOver(Moves(s, a), 1 .. (n - 1)) + Moves(s, a)[n]
  <1> DEFINE f == Moves(s, a)
             S == 1 .. (n - 1)
  <1>0. Len(chosen[s]) \in Nat
    BY DEF LockInv, HandlersTypes
  <1>1. IsFiniteSet(S) /\ n \notin S /\ 1 .. n = S \cup {n}
    <2>1. n \in Nat /\ n - 1 \in Int
      BY <1>0
    <2>2. IsFiniteSet(S)
      BY <2>1, FS_Interval
    <2> QED  BY <1>0, <2>2
  <1>2. \A i \in S \cup {n} : f[i] \in Int
    BY <1>0, MovesTyped
  <1> HIDE DEF f, S
  <1>3. SumOver(f, S \cup {n}) = SumOver(f, S) + f[n]
    BY <1>1, <1>2, SumAdd
  <1> QED  BY <1>1, <1>3 DEF f, S

\* A balance row that a session has locked is changed by nobody else.
LEMMA LockedBalance ==
    ASSUME LockInv, NEW s \in Sessions, SessionStep(s), NEW a \in Accounts, owner[a] # s
    PROVE  balance'[a] = balance[a]
  <1>1. ASSUME UNCHANGED tables PROVE balance'[a] = balance[a]
    BY <1>1 DEF tables
  <1>2. ASSUME UNCHANGED vars PROVE UNCHANGED tables
    BY <1>2 DEF vars, tables
  <1>3. CASE BeginAny(s)
    <2>1. PICK j, b, c, d : Begin(s, j, b, c, d)
      BY <1>3, BeginShape DEF BeginsAs, LockInv
    <2> QED  BY <1>1, <1>2, <2>1 DEF Begin
  <1>4. CASE Ends(s)
    BY <1>1, <1>2, <1>4 DEF Ends, Abort
  <1>5. CASE CommitJob(s)
    BY <1>1, <1>2, <1>5 DEF CommitJob, Commit
  <1>6. CASE GoesOn(s)
    BY <1>1, <1>2, <1>6 DEF GoesOn, DedupNew, InsertEvent, NotFound, LockPayment
  <1>7. CASE PostNext(s)
    BY <1>1, <1>7 DEF PostNext, post
  <1>8. CASE InPost(s)
    BY <1>1, <1>8 DEF InPost, LedgerStatement, LedgerLock, Acquire, MissRow, ApplyPosting, LockRow, InsertRow
  <1> QED  BY <1>3, <1>4, <1>5, <1>6, <1>7, <1>8 DEF SessionStep

\* Other sessions' entries, and the balance under their first post, stay.
LEMMA OthersBooked ==
    ASSUME LockInv, NEW s \in Sessions, SessionStep(s), NEW t \in Sessions \ {s}, Booked(t)
    PROVE  Booked(t)'
  <1>1. /\ job'[t] = job[t] /\ chosen'[t] = chosen[t]
        /\ pc'[t] = pc[t] /\ posts'[t] = posts[t] /\ postings'[t] = postings[t]
        /\ idx'[t] = idx[t] /\ staged'[t] = staged[t]
        /\ \A a \in Accounts : owner'[a] = t <=> owner[a] = t
    BY HandlerStepFrame, LedgerStepFrame DEF HandlerFrame, LedgerFrame, LockInv, IInv
  <1>2. \A a : Moves(t, a)' = Moves(t, a) /\ Half(t, a)' = Half(t, a)
    BY <1>1 DEF Moves, Half
  <1>3. Through(t)' = Through(t)
    BY <1>1 DEF Through
  <1>4. ASSUME pc[t] = "posted" PROVE \A a \in AccountsOf(postings[t]) : a \in Accounts /\ owner[a] = t
    <2>1. \A a \in AccountsOf(postings[t]) : a \in Accounts
      BY <1>4, ListUnderWay, TransferFields
    <2> QED  BY <1>4, <2>1 DEF Booked
  <1>5. ASSUME posts[t] = 1, pc[t] = "posted" \/ pc[t] = "apply"
        PROVE  LET d == From(job[t], chosen[t][1]) IN d \in Accounts /\ balance'[d] = balance[d]
    <2> DEFINE d == From(job[t], chosen[t][1])
    <2>1. d \in Accounts /\ d \in AccountsOf(postings[t])
      BY <1>5, ListUnderWay, TransferFields
    <2>2. owner[d] = t
      BY <1>4, <1>5, <2>1 DEF LockInv, IInv, Covered, Positioned
    <2> QED  BY <2>1, <2>2, LockedBalance
  <1>6. \A a \in Accounts : staged'[t][a] = SumOver(Moves(t, a)', 1 .. Through(t)') + Half(t, a)'
    BY <1>1, <1>2, <1>3 DEF Booked
  <1> QED  BY <1>1, <1>4, <1>5, <1>6 DEF Booked

\* A session without an open post() has written nothing.
LEMMA IdleBooked ==
    ASSUME LockInv, LockInv', NEW s \in Sessions, pc'[s] = "idle"
    PROVE  Booked(s)'
  <1>1. posts'[s] = 0 /\ \A a \in Accounts : owner'[a] # s
    BY DEF LockInv, Progress, IInv, Positioned
  <1>2. \A a \in Accounts : staged'[s][a] = 0 /\ Half(s, a)' = 0
    BY <1>1 DEF LockInv, IInv, LockedView, Half
  <1>3. 1 .. Through(s)' = {}
    BY <1>1 DEF Through
  <1>4. \A a \in Accounts : SumOver(Moves(s, a)', 1 .. Through(s)') = 0
    BY <1>3, SumEmpty
  <1>5. \A a \in Accounts : staged'[s][a] = SumOver(Moves(s, a)', 1 .. Through(s)') + Half(s, a)'
    BY <1>2, <1>4
  <1> QED  BY <1>1, <1>5 DEF Booked

\* The next post() begins with the entries of those before.
LEMMA PostBooked ==
    ASSUME LockInv, NEW s \in Sessions, PostNext(s), Booked(s)
    PROVE  Booked(s)'
  <1>0. TypeOK
    BY DEF LockInv, IInv
  <1>1. PICK l : post(s, l)
    BY DEF PostNext
  <1>2. /\ pc'[s] = "lock" /\ idx'[s] = 1 /\ posts'[s] = posts[s] + 1 /\ pc[s] \in {"idle", "posted"}
        /\ staged' = staged /\ job' = job /\ chosen' = chosen
    BY <1>0, <1>1 DEF post, CanPost, TypeOK, PostNext, handling
  <1>3. Through(s)' = Through(s)
    BY <1>0, <1>2 DEF Through, TypeOK
  <1>4. \A a : Moves(s, a)' = Moves(s, a) /\ Half(s, a)' = 0 /\ Half(s, a) = 0
    BY <1>2 DEF Moves, Half
  <1>5. \A a \in Accounts : staged'[s][a] = SumOver(Moves(s, a)', 1 .. Through(s)') + Half(s, a)'
    BY <1>2, <1>3, <1>4 DEF Booked
  <1> QED  BY <1>2, <1>5 DEF Booked

\* Locking rows writes nothing.
LEMMA LockBooked ==
    ASSUME LockInv, NEW s \in Sessions, InPost(s), ~ ApplyPosting(s), Booked(s)
    PROVE  Booked(s)'
  <1>0. TypeOK
    BY DEF LockInv, IInv
  <1>1. /\ pc[s] \in {"lock", "insert"} /\ pc'[s] \in {"lock", "insert", "apply"} /\ idx' = idx /\ posts' = posts
        /\ staged' = staged /\ job' = job /\ chosen' = chosen
    BY <1>0 DEF InPost, LedgerStatement, LedgerLock, Acquire, MissRow, LockRow, InsertRow, Advance, TypeOK, handling
  <1>2. idx[s] = 1
    BY <1>1 DEF Booked
  <1>3. Through(s)' = Through(s)
    BY <1>1 DEF Through
  <1>4. \A a : Moves(s, a)' = Moves(s, a) /\ Half(s, a)' = 0 /\ Half(s, a) = 0
    BY <1>1, <1>2 DEF Moves, Half
  <1>5. \A a \in Accounts : staged'[s][a] = SumOver(Moves(s, a)', 1 .. Through(s)') + Half(s, a)'
    BY <1>1, <1>3, <1>4 DEF Booked
  <1> QED  BY <1>1, <1>2, <1>5 DEF Booked

\* The debit is applied, if the balance bears it, and then the credit.
LEMMA ApplyBooked ==
    ASSUME LockInv, NEW s \in Sessions, InPost(s), ApplyPosting(s), Booked(s)
    PROVE  Booked(s)'
  <1> DEFINE n == posts[s]
             d == From(job[s], chosen[s][n])
             c == To(job[s], chosen[s][n])
             m == Amount(job[s], chosen[s][n])
             l == postings[s]
  <1>0. TypeOK /\ pc[s] = "apply" /\ pc[s] # "idle"
    BY DEF LockInv, IInv, ApplyPosting
  <1>1. /\ n \in 1 .. Len(chosen[s]) /\ d \in Accounts /\ c \in Accounts /\ m \in Nat \ {0}
        /\ l = Transfer(d, c, m)
    BY <1>0, ListUnderWay
  <1> HIDE DEF n, d, c, m
  <1>2. /\ Len(l) = 2 /\ l[1].account_id = d /\ l[1].amount = m /\ l[1].direction = "DEBIT"
        /\ l[2].account_id = c /\ Delta(l[1]) = 0 - m /\ Delta(l[2]) = m /\ AccountsOf(l) = {d, c}
    BY <1>1, TransferFields
  <1>3. idx[s] \in {1, 2}
    <2>1. idx[s] \in 1 .. Len(l)
      BY <1>0 DEF LockInv, IInv, Positioned
    <2> QED  BY <1>2, <2>1
  <1>4. \A a \in AccountsOf(l) : owner[a] = s
    BY <1>0, <1>1, <1>2 DEF LockInv, IInv, Covered, Positioned
  <1>5. /\ staged' = [staged EXCEPT ![s][l[idx[s]].account_id] = staged[s][l[idx[s]].account_id] + Delta(l[idx[s]])]
        /\ idx'[s] = idx[s] + 1 /\ pc'[s] = IF idx[s] = 2 THEN "posted" ELSE "apply"
        /\ UNCHANGED <<balance, owner, postings, posts, job, chosen>>
    BY <1>0, <1>2 DEF ApplyPosting, InPost, LedgerStatement, LedgerLock, Acquire, LockRow, InsertRow, tables, TypeOK, handling
  <1>6. /\ staged \in [Sessions -> [Accounts -> Int]]
        /\ \A a \in Accounts : staged[s][a] \in Int
    BY <1>0 DEF TypeOK
  <1>7. \A a : Moves(s, a)' = Moves(s, a)
    BY <1>5 DEF Moves
  <1>8. \A a \in Accounts : staged[s][a] = SumOver(Moves(s, a), 1 .. (n - 1)) + Half(s, a)
    BY <1>0 DEF Booked, Through, n
  <1>9. CASE idx[s] = 1
    <2>1. staged' = [staged EXCEPT ![s][d] = staged[s][d] + (0 - m)]
      BY <1>2, <1>5, <1>9
    <2>2. /\ staged'[s][d] = staged[s][d] + (0 - m)
          /\ \A a \in Accounts : a # d => staged'[s][a] = staged[s][a]
      <3>1. staged[s][d] + (0 - m) \in Int
        BY <1>1, <1>6
      <3> QED  BY <1>1, <1>6, <2>1, <3>1, UpdateEntry
    <2>3. pc'[s] = "apply" /\ idx'[s] = 2 /\ Through(s)' = n - 1
      BY <1>5, <1>9 DEF Through, n
    <2>4. \A a : Half(s, a) = 0 /\ Half(s, a)' = IF a = d THEN 0 - m ELSE 0
      BY <1>2, <1>5, <1>9, <2>3 DEF Half
    <2>5. \A a \in Accounts : staged'[s][a] = SumOver(Moves(s, a)', 1 .. Through(s)') + Half(s, a)'
      <3> SUFFICES ASSUME NEW a \in Accounts
                   PROVE  staged'[s][a] = SumOver(Moves(s, a), 1 .. (n - 1)) + (IF a = d THEN 0 - m ELSE 0)
        BY <1>7, <2>3, <2>4
      <3>1. staged[s][a] = SumOver(Moves(s, a), 1 .. (n - 1)) + 0
        BY <1>8, <2>4
      <3>2. SumOver(Moves(s, a), 1 .. (n - 1)) \in Int
        <4>1. \A i \in 1 .. (n - 1) : Moves(s, a)[i] \in Int
          BY <1>1, MovesTyped DEF LockInv, HandlersTypes
        <4>2. n - 1 \in Int /\ 1 \in Int
          BY <1>1
        <4>3. IsFiniteSet(1 .. (n - 1))
          BY <4>2, FS_Interval
        <4> QED  BY <4>1, <4>3, SumInt
      <3> QED  BY <1>1, <1>6, <2>2, <3>1, <3>2
    <2>6. n = 1 => balance[d] >= m
      <3> SUFFICES ASSUME n = 1 PROVE balance[d] >= m
        OBVIOUS
      <3>1. work[s][d] >= m
        BY <1>2, <1>9 DEF ApplyPosting, Affordable
      <3>2. work[s][d] = balance[d] + staged[s][d]
        BY <1>1, <1>2, <1>4 DEF LockInv, IInv, LockedView
      <3>3. 1 .. (n - 1) = {}
        OBVIOUS
      <3>4. SumOver(Moves(s, d), 1 .. (n - 1)) = 0
        BY <3>3, SumEmpty
      <3>5. staged[s][d] = 0
        BY <1>1, <1>8, <2>4, <3>4
      <3>6. balance[d] \in Int
        BY <1>0, <1>1 DEF TypeOK
      <3> QED  BY <3>1, <3>2, <3>5, <3>6
    <2> QED  BY <1>5, <2>3, <2>5, <2>6 DEF Booked, n, d, m
  <1>10. CASE idx[s] = 2
    <2>1. staged' = [staged EXCEPT ![s][c] = staged[s][c] + m]
      BY <1>2, <1>5, <1>10
    <2>2. /\ staged'[s][c] = staged[s][c] + m
          /\ \A a \in Accounts : a # c => staged'[s][a] = staged[s][a]
      <3>1. staged[s][c] + m \in Int
        BY <1>1, <1>6
      <3> QED  BY <1>1, <1>6, <2>1, <3>1, UpdateEntry
    <2>3. pc'[s] = "posted" /\ Through(s)' = n
      BY <1>5, <1>10 DEF Through, n
    <2>4. \A a : Half(s, a)' = 0 /\ Half(s, a) = IF a = d THEN 0 - m ELSE 0
      BY <1>0, <1>2, <1>10, <2>3 DEF Half
    <2>5. \A a \in Accounts : staged'[s][a] = SumOver(Moves(s, a)', 1 .. Through(s)') + Half(s, a)'
      <3> SUFFICES ASSUME NEW a \in Accounts
                   PROVE  staged'[s][a] = SumOver(Moves(s, a), 1 .. n) + 0
        BY <1>7, <2>3, <2>4
      <3>1. staged[s][a] = SumOver(Moves(s, a), 1 .. (n - 1)) + (IF a = d THEN 0 - m ELSE 0)
        BY <1>8, <2>4
      <3>2. SumOver(Moves(s, a), 1 .. (n - 1)) \in Int
        <4>1. \A i \in 1 .. (n - 1) : Moves(s, a)[i] \in Int
          BY <1>1, MovesTyped DEF LockInv, HandlersTypes
        <4>2. n - 1 \in Int /\ 1 \in Int
          BY <1>1
        <4>3. IsFiniteSet(1 .. (n - 1))
          BY <4>2, FS_Interval
        <4> QED  BY <4>1, <4>3, SumInt
      <3>3. SumOver(Moves(s, a), 1 .. n) = SumOver(Moves(s, a), 1 .. (n - 1))
                + ((IF a = c THEN m ELSE 0) - (IF a = d THEN m ELSE 0))
        BY <1>1, MovesStep, MovesTyped DEF c, d, m
      <3> QED  BY <1>1, <1>6, <2>2, <3>1, <3>2, <3>3
    <2>6. n = 1 => balance[d] >= m
      BY <1>0, <1>10 DEF Booked, n, d, m
    <2> QED  BY <1>4, <1>5, <2>3, <2>5, <2>6 DEF Booked, n, d, m
  <1> QED  BY <1>3, <1>9, <1>10

\* Every step keeps the books.
LEMMA BookedKept ==
    ASSUME LockInv, LockInv', \A t \in Sessions : Booked(t), NEW s \in Sessions, SessionStep(s)
    PROVE  \A t \in Sessions : Booked(t)'
  <1>0. TypeOK
    BY DEF LockInv, IInv
  <1>1. \A t \in Sessions \ {s} : Booked(t)'
    BY OthersBooked
  <1>2. ASSUME EndTransaction(s) PROVE pc'[s] = "idle"
    BY <1>0, <1>2 DEF EndTransaction, TypeOK
  <1>3. ASSUME UNCHANGED vars, at[s] # "post" \/ pc[s] = "idle" PROVE pc'[s] = "idle"
    BY <1>3 DEF vars, LockInv, Progress
  <1>4. CASE BeginAny(s)
    <2>1. PICK j, b, c, d : Begin(s, j, b, c, d)
      BY <1>4, BeginShape DEF BeginsAs, LockInv
    <2>2. pc'[s] = "idle"
      BY <1>3, <2>1 DEF Begin
    <2> QED  BY <1>1, <2>2, IdleBooked
  <1>5. CASE Ends(s) \/ CommitJob(s) \/ GoesOn(s)
    <2>1. pc'[s] = "idle"
      BY <1>2, <1>3, <1>5 DEF Ends, Abort, CommitJob, Commit, GoesOn, DedupNew, InsertEvent, NotFound, LockPayment
    <2> QED  BY <1>1, <2>1, IdleBooked
  <1>6. CASE PostNext(s) \/ InPost(s)
    BY <1>1, <1>6, PostBooked, LockBooked, ApplyBooked
  <1> QED  BY <1>4, <1>5, <1>6 DEF SessionStep

-------------------------------------------------------------------------------
(***************************************************************************)
(* The refinement.  Only a commit changes what PaymentSpec sees, and it    *)
(* changes it as one step of PaymentSpec.                                  *)
(***************************************************************************)
\* The abstract state of the handlers' tables.
Phased == [p \in Payments |-> Phase(status[p])]
Ordered == [p \in Payments |-> IF status[p] = "none" THEN None ELSE Orders[p]]

\* PaymentSpec sums as the ledger does.
LEMMA SameSums == \A f, S : Money!SumOver(f, S) = SumOver(f, S)
  BY DEF SumOver, Money!SumOver, MapThenSumSet, Money!MapThenSumSet, MapThenFoldSet, Money!MapThenFoldSet

\* The phase of each status.
LEMMA PhaseOf ==
    /\ Phase("none") = "none" /\ Phase("PROCESSING") = "held" /\ Phase("AUTHORIZED") = "held"
    /\ Phase("SUCCEEDED") = "paid" /\ Phase("REFUNDED") = "paid" /\ Phase("FAILED") = "returned"
  BY DEF Phase

\* A commit adds to the balances what its posts have moved, all of them.
LEMMA CommitMoves ==
    ASSUME LockInv, NEW s \in Sessions, Booked(s), CommitJob(s), Commit(s)
    PROVE  /\ posts[s] = Len(chosen[s]) /\ Len(chosen[s]) \in Nat \ {0} /\ ~ Pending(s) /\ pc[s] = "posted"
           /\ balance' = [a \in Accounts |-> balance[a] + SumOver(Moves(s, a), 1 .. Len(chosen[s]))]
           /\ \A a \in Accounts : balance'[a] \in Nat
  <1>1. pc[s] = "posted" /\ pc[s] # "idle" /\ TypeOK
    BY DEF Commit, LockInv, IInv
  <1>2. posts[s] \in 1 .. Len(chosen[s]) /\ ~ Pending(s) /\ Len(chosen[s]) \in Nat
    BY <1>1 DEF LockInv, Progress, HandlersTypes
  <1>3. posts[s] = Len(chosen[s])
    BY <1>2 DEF CommitJob, Unposted
  <1>4. \A a \in Accounts : staged[s][a] = SumOver(Moves(s, a), 1 .. Len(chosen[s]))
    <2>1. \A a \in Accounts : Half(s, a) = 0 /\ staged[s][a] \in Int
      BY <1>1 DEF Half, TypeOK
    <2>2. Through(s) = Len(chosen[s])
      BY <1>1, <1>3 DEF Through
    <2> SUFFICES ASSUME NEW a \in Accounts PROVE staged[s][a] = SumOver(Moves(s, a), 1 .. Len(chosen[s]))
      OBVIOUS
    <2>3. staged[s][a] = SumOver(Moves(s, a), 1 .. Len(chosen[s])) + 0
      BY <2>1, <2>2 DEF Booked
    <2>4. SumOver(Moves(s, a), 1 .. Len(chosen[s])) \in Int
      <3>1. \A i \in 1 .. Len(chosen[s]) : Moves(s, a)[i] \in Int
        BY MovesTyped
      <3>2. IsFiniteSet(1 .. Len(chosen[s]))
        BY <1>2, FS_Interval
      <3> QED  BY <3>1, <3>2, SumInt
    <2> QED  BY <2>3, <2>4
  <1>5. balance' = [a \in Accounts |-> IF owner[a] = s THEN work[s][a] ELSE balance[a]]
    BY DEF Commit
  <1>6. \A a \in Accounts : (IF owner[a] = s THEN work[s][a] ELSE balance[a]) = balance[a] + staged[s][a]
    BY <1>1 DEF LockInv, IInv, LockedView, TypeOK
  <1>7. \A a \in Accounts : balance'[a] \in Nat
    BY CommitIInv DEF LockInv, IInv, TypeOK
  <1> QED  BY <1>1, <1>2, <1>3, <1>4, <1>5, <1>6, <1>7

\* When a job has chosen one payment, its one transfer is what it moves.
LEMMA SingleMove ==
    ASSUME LockInv, NEW s \in Sessions, Booked(s), CommitJob(s), Commit(s),
           job[s].kind \in {"hold", "finish", "webhook", "refund"}
    PROVE  \E p \in Payments :
              /\ chosen[s] = <<p>> /\ Chosen(s) = {p} /\ p = Subject(job[s])
              /\ From(job[s], p) \in Accounts /\ balance[From(job[s], p)] >= Amount(job[s], p)
              /\ balance' = [a \in Accounts |->
                    balance[a] + Money!Change(From(job[s], p), To(job[s], p), Amount(job[s], p), a)]
  <1>1. /\ posts[s] = Len(chosen[s]) /\ Len(chosen[s]) \in Nat \ {0} /\ pc[s] = "posted"
        /\ balance' = [a \in Accounts |-> balance[a] + SumOver(Moves(s, a), 1 .. Len(chosen[s]))]
    BY CommitMoves
  <1>2. 1 \in 1 .. Len(chosen[s])
    BY <1>1
  <1> DEFINE p == chosen[s][1]
  <1>3. p \in Payments /\ chosen[s] = <<Subject(job[s])>>
    BY <1>2, ChosenPayment DEF LockInv
  <1>4. p = Subject(job[s]) /\ chosen[s] = <<p>> /\ Chosen(s) = {p} /\ Len(chosen[s]) = 1
    BY <1>3 DEF Chosen
  <1>5. From(job[s], p) \in Accounts
    BY <1>1, <1>4, ListUnderWay
  <1>6. balance[From(job[s], p)] >= Amount(job[s], p)
    BY <1>1, <1>4 DEF Booked
  <1>7. \A a \in Accounts : SumOver(Moves(s, a), 1 .. Len(chosen[s]))
                               = Money!Change(From(job[s], p), To(job[s], p), Amount(job[s], p), a)
    <2> SUFFICES ASSUME NEW a \in Accounts
                 PROVE  SumOver(Moves(s, a), 1 .. 1) = Money!Change(From(job[s], p), To(job[s], p), Amount(job[s], p), a)
      BY <1>4
    <2>1. Moves(s, a)[1] \in Int
      BY <1>2, MovesTyped
    <2>2. Moves(s, a)[1] = Money!Change(From(job[s], p), To(job[s], p), Amount(job[s], p), a)
      BY <1>2 DEF Moves
    <2>3. SumOver(Moves(s, a), {1}) = Moves(s, a)[1]
      BY <2>1, SumSingle
    <2>4. 1 .. 1 = {1}
      OBVIOUS
    <2> QED  BY <2>2, <2>3, <2>4
  <1> HIDE DEF p
  <1>8. balance' = [a \in Accounts |->
           balance[a] + Money!Change(From(job[s], p), To(job[s], p), Amount(job[s], p), a)]
    BY <1>1, <1>7
  <1> QED  BY <1>3, <1>4, <1>5, <1>6, <1>8 DEF p

\* A payment that is given back was held, and nothing but its status moves.
LEMMA ReturnIsMoney ==
    ASSUME LockInv, NEW s \in Sessions, Booked(s), CommitJob(s), Commit(s),
           job[s].kind \in {"finish", "webhook", "sweep"}, ~ Captures(job[s])
    PROVE  Money!Next
  <1> DEFINE S == Chosen(s)
             n == Len(chosen[s])
             Back(a) == [p \in S |-> Money!Change(Suspense, Orders[p].payer, Orders[p].amount, a)]
  <1>0. /\ HandlersTypes /\ PaymentRows /\ Statement(s) /\ JobFits(job[s])
        /\ chosen[s] \in Seq(Payments) /\ DOMAIN chosen[s] = 1 .. n
    BY DEF LockInv, HandlersTypes
  <1>1. /\ n \in Nat \ {0} /\ ~ Pending(s)
        /\ balance' = [a \in Accounts |-> balance[a] + SumOver(Moves(s, a), 1 .. n)]
        /\ \A a \in Accounts : balance'[a] \in Nat
    BY CommitMoves
  <1>2. S \subseteq Payments /\ S # {} /\ S = {chosen[s][i] : i \in 1 .. n}
    <2>1. S = {chosen[s][i] : i \in 1 .. n}
      BY <1>0 DEF Chosen
    <2>2. 1 \in 1 .. n
      BY <1>1
    <2>3. \A i \in 1 .. n : chosen[s][i] \in Payments
      BY <1>0
    <2> HIDE DEF S, n
    <2> QED  BY <2>1, <2>2, <2>3
  <1>3. \A p \in S : NewStatus(s, p) = "FAILED" /\ status[p] \in {"PROCESSING", "AUTHORIZED"}
    <2> SUFFICES ASSUME NEW p \in S
                 PROVE  NewStatus(s, p) = "FAILED" /\ status[p] \in {"PROCESSING", "AUTHORIZED"}
      OBVIOUS
    <2>1. NewStatus(s, p) = "FAILED"
      BY <1>0, <1>1, NewStatusOf DEF Captures, Pending, JobFits
    <2>2. job[s].kind = "finish" => status[p] = "PROCESSING"
      <3>1. PICK i \in 1 .. n : p = chosen[s][i]
        BY <1>2
      <3>2. job[s].kind = "finish" => p = job[s].payment
        BY <1>0, <3>1, ChosenPayment DEF Subject
      <3> QED  BY <1>0, <3>2 DEF PaymentRows, Finishing
    <2> QED  BY <1>0, <2>1, <2>2 DEF PaymentRows, Choice
  <1>4. /\ \A p \in S : Phased[p] = "held" /\ Ordered[p] = Orders[p]
        /\ Phased' = [p \in Payments |-> IF p \in S THEN "returned" ELSE Phased[p]]
        /\ Ordered' = Ordered /\ refunded' = refunded
    <2>1. \A p \in Payments : status'[p] = IF p \in S THEN "FAILED" ELSE status[p]
      BY <1>3 DEF CommitJob
    <2>2. refunded' = refunded
      BY <1>0 DEF CommitJob, HandlersTypes
    <2>3. \A p \in S : Phased[p] = "held" /\ Ordered[p] = Orders[p]
      BY <1>2, <1>3, PhaseOf DEF Phased, Ordered
    <2>4. Phased' = [p \in Payments |-> IF p \in S THEN "returned" ELSE Phased[p]]
      BY <2>1, PhaseOf DEF Phased
    <2>5. Ordered' = Ordered
      BY <1>3, <2>1 DEF Ordered
    <2> QED  BY <2>2, <2>3, <2>4, <2>5
  <1>5. Suspense \in Accounts /\ balance'[Suspense] \in Nat
    BY <1>1, HandlersAssumption
  <1>6. ASSUME NEW a \in Accounts
        PROVE  SumOver(Moves(s, a), 1 .. n) = SumOver(Back(a), S)
    <2> DEFINE f == Moves(s, a)
               g == Back(a)
               q == chosen[s]
               I == 1 .. n
    <2>1. IsFiniteSet(I)
      BY <1>1, FS_Interval
    <2>2. \A i \in I : f[i] \in Int /\ f[i] = g[q[i]]
      <3> SUFFICES ASSUME NEW i \in I PROVE f[i] \in Int /\ f[i] = g[q[i]]
        OBVIOUS
      <3>1. f[i] \in Int
        BY MovesTyped
      <3>2. q[i] \in S
        BY <1>2
      <3>3. From(job[s], q[i]) = Suspense /\ To(job[s], q[i]) = Orders[q[i]].payer /\ Amount(job[s], q[i]) = Orders[q[i]].amount
        BY DEF From, To, Amount
      <3>4. f[i] = Money!Change(From(job[s], q[i]), To(job[s], q[i]), Amount(job[s], q[i]), a)
        BY DEF Moves
      <3> QED  BY <3>1, <3>2, <3>3, <3>4
    <2>3. \A i, k \in I : q[i] = q[k] => i = k
      BY <1>0 DEF PaymentRows, Choice
    <2>4. S = {q[i] : i \in I}
      BY <1>2
    <2> HIDE DEF f, g, q, I, S
    <2>5. SumOver(f, I) = SumOver(g, {q[i] : i \in I})
      BY <2>1, <2>2, <2>3, SumReindex
    <2>6. SumOver(f, I) = SumOver(g, S)
      BY <2>4, <2>5
    <2> QED  BY <2>6 DEF f, g, I
  <1>7. balance' = [a \in Accounts |-> balance[a] + SumOver(Back(a), S)]
    BY <1>1, <1>6
  <1>8. \A a : [p \in S |-> Money!Change(Suspense, Ordered[p].payer, Ordered[p].amount, a)] = Back(a)
    BY <1>4
  <1> HIDE DEF S
  <1>9. Money!Return(S)
    <2>1. balance' = [a \in Accounts |-> balance[a] + Money!SumOver(
             [p \in S |-> Money!Change(Suspense, Ordered[p].payer, Ordered[p].amount, a)], S)]
      BY <1>7, <1>8, SameSums
    <2>2. balance'[Suspense] >= 0
      BY <1>5
    <2> HIDE DEF Back
    <2> QED  BY <1>4, <2>1, <2>2 DEF Money!Return, Phased, Ordered
  <1> QED  BY <1>2, <1>9 DEF Money!Next

\* A payment that is created, paid out or refunded moves its money once.
LEMMA TransferIsMoney ==
    ASSUME LockInv, NEW s \in Sessions, Booked(s), CommitJob(s), Commit(s),
           \/ job[s].kind \in {"hold", "refund"}
           \/ job[s].kind \in {"finish", "webhook"} /\ Captures(job[s])
    PROVE  Money!Next
  <1> DEFINE j == job[s]
  <1>0. HandlersTypes /\ PaymentRows /\ Statement(s) /\ JobFits(j)
    BY DEF LockInv, HandlersTypes
  <1>1. PICK p \in Payments :
           /\ Chosen(s) = {p} /\ p = Subject(j)
           /\ balance[From(j, p)] >= Amount(j, p)
           /\ balance' = [a \in Accounts |->
                 balance[a] + Money!Change(From(j, p), To(j, p), Amount(j, p), a)]
    BY SingleMove
  <1>2. /\ \A q \in Payments : status'[q] = IF q = p THEN NewStatus(s, p) ELSE status[q]
        /\ refunded' = [q \in Payments |-> IF q = p /\ j.kind = "refund" THEN refunded[q] + j.amount ELSE refunded[q]]
    BY <1>1 DEF CommitJob
  <1>3. status \in [Payments -> Statuses] /\ refunded \in [Payments -> Nat] /\ p \in Chosen(s)
    BY <1>0, <1>1 DEF HandlersTypes
  <1>4. Orders[p] # None /\ Orders[p].amount \in Nat
    BY HandlersAssumption
  <1>5. CASE j.kind = "hold"
    <2>1. status[p] = "none" /\ NewStatus(s, p) = "PROCESSING"
      BY <1>0, <1>3, <1>5, NewStatusOf DEF PaymentRows, Choice
    <2>2. From(j, p) = Orders[p].payer /\ To(j, p) = Suspense /\ Amount(j, p) = Orders[p].amount
      BY <1>5 DEF From, To, Amount
    <2>3. Phased[p] = "none" /\ Phased' = [Phased EXCEPT ![p] = "held"]
      BY <1>2, <2>1, PhaseOf DEF Phased
    <2>4. Ordered' = [Ordered EXCEPT ![p] = Orders[p]]
      BY <1>2, <2>1 DEF Ordered
    <2>5. refunded' = refunded
      BY <1>2, <1>3, <1>5
    <2>6. Money!Hold(p, Orders[p])
      BY <1>1, <2>2, <2>3, <2>4, <2>5 DEF Money!Hold, Phased, Ordered
    <2> QED  BY <2>6 DEF Money!Next
  <1>6. CASE j.kind \in {"finish", "webhook"} /\ Captures(j)
    <2>1. NewStatus(s, p) = "SUCCEEDED"
      BY <1>0, <1>6, NewStatusOf DEF Captures
    <2>2. status[p] \in {"PROCESSING", "AUTHORIZED"}
      BY <1>0, <1>1, <1>3, <1>6 DEF PaymentRows, Choice, Finishing, Subject
    <2>3. From(j, p) = Suspense /\ To(j, p) = Orders[p].payee /\ Amount(j, p) = Orders[p].amount
      BY <1>6 DEF From, To, Amount
    <2>4. Phased[p] = "held" /\ Phased' = [Phased EXCEPT ![p] = "paid"]
      BY <1>2, <2>1, <2>2, PhaseOf DEF Phased
    <2>5. Ordered[p] = Orders[p] /\ Ordered' = Ordered
      BY <1>2, <2>1, <2>2 DEF Ordered
    <2>6. refunded' = refunded
      BY <1>2, <1>3, <1>6
    <2>7. Money!Settle(p)
      BY <1>1, <2>3, <2>4, <2>5, <2>6 DEF Money!Settle, Phased, Ordered
    <2> QED  BY <2>7 DEF Money!Next
  <1>7. CASE j.kind = "refund"
    <2>1. status[p] = "SUCCEEDED" /\ refunded[p] + j.amount =< Orders[p].amount
      BY <1>0, <1>3, <1>7 DEF PaymentRows, Choice
    <2>2. NewStatus(s, p) \in {"SUCCEEDED", "REFUNDED"}
      BY <1>0, <1>7, <2>1, NewStatusOf
    <2>3. From(j, p) = Orders[p].payee /\ To(j, p) = Orders[p].payer /\ Amount(j, p) = j.amount
      BY <1>7 DEF From, To, Amount
    <2>4. Phased[p] = "paid" /\ Phased' = Phased
      BY <1>2, <2>1, <2>2, PhaseOf DEF Phased
    <2>5. Ordered[p] = Orders[p] /\ Ordered' = Ordered
      BY <1>2, <2>1, <2>2 DEF Ordered
    <2>6. refunded' = [refunded EXCEPT ![p] = @ + j.amount]
      BY <1>2, <1>3, <1>7
    <2>7. Money!Refund(p, j.amount)
      BY <1>1, <2>1, <2>3, <2>4, <2>5, <2>6 DEF Money!Refund, Phased, Ordered
    <2>8. j.amount \in 1 .. Ordered[p].amount
      BY <1>0, <1>1, <1>7, <2>5 DEF JobFits, Subject
    <2> QED  BY <2>4, <2>7, <2>8 DEF Money!Next, Phased, Ordered
  <1> QED  BY <1>5, <1>6, <1>7

\* Every step is a step of PaymentSpec or none.
LEMMA StepIsMoney ==
    ASSUME LockInv, \A s \in Sessions : Booked(s), [HandlersNext]_allvars
    PROVE  [Money!Next]_(Money!vars)
  <1> DEFINE Abstract == Money!Next \/ UNCHANGED Money!vars
  <1>1. ASSUME UNCHANGED <<balance, status, refunded>>
        PROVE  Abstract
    BY <1>1 DEF Money!vars
  <1>2. ASSUME NEW s \in Sessions, CommitJob(s), Commit(s)
        PROVE  Abstract
    <2>1. posts[s] = Len(chosen[s]) /\ Len(chosen[s]) \in Nat \ {0}
      BY <1>2, CommitMoves
    <2>2. job[s].kind # "none" /\ job[s].kind \in Kinds
      BY <1>2 DEF CommitJob, LockInv, Statement, HandlersTypes, JobFits
    <2>3. CASE job[s].kind \in {"finish", "webhook", "sweep"} /\ ~ Captures(job[s])
      BY <1>2, <2>3, ReturnIsMoney
    <2>4. CASE \/ job[s].kind \in {"hold", "refund"}
               \/ job[s].kind \in {"finish", "webhook"} /\ Captures(job[s])
      BY <1>2, <2>4, TransferIsMoney
    <2>5. job[s].kind = "sweep" => ~ Captures(job[s])
      BY DEF Captures
    <2> QED  BY <2>2, <2>3, <2>4, <2>5 DEF Kinds
  <1>3. ASSUME NEW s \in Sessions, CommitJob(s), pc[s] = "idle", UNCHANGED vars
        PROVE  Abstract
    <2>0. HandlersTypes /\ PaymentRows /\ Statement(s) /\ JobFits(job[s])
      BY DEF LockInv, HandlersTypes
    <2>1. posts[s] = 0 /\ UNCHANGED balance /\ Len(chosen[s]) \in Nat
      BY <1>3 DEF LockInv, Progress, HandlersTypes, vars
    <2>2. /\ \A p \in Payments : status'[p] = IF p \in Chosen(s) THEN NewStatus(s, p) ELSE status[p]
          /\ refunded' = [p \in Payments |->
                IF p \in Chosen(s) /\ job[s].kind = "refund" THEN refunded[p] + job[s].amount ELSE refunded[p]]
          /\ DOMAIN status' = Payments
      BY <1>3 DEF CommitJob
    <2>3. \A p \in Payments : p \in Chosen(s) =>
             /\ job[s].kind = "finish" /\ status[p] = "PROCESSING" /\ NewStatus(s, p) = "AUTHORIZED"
      <3> SUFFICES ASSUME NEW p \in Payments, p \in Chosen(s)
                   PROVE  job[s].kind = "finish" /\ status[p] = "PROCESSING" /\ NewStatus(s, p) = "AUTHORIZED"
        OBVIOUS
      <3>1. PICK i \in 1 .. Len(chosen[s]) : p = chosen[s][i]
        BY <2>0 DEF Chosen, HandlersTypes
      <3>2. Pending(s)
        BY <1>3, <2>1, <3>1 DEF CommitJob, Unposted
      <3>3. p = job[s].payment
        BY <2>0, <3>1, <3>2, ChosenPayment DEF Pending, Subject
      <3> QED  BY <2>0, <3>2, <3>3, NewStatusOf DEF Pending, PaymentRows, Finishing
    <2>4. refunded' = refunded
      BY <2>0, <2>2, <2>3 DEF HandlersTypes
    <2>5. Phased' = Phased
      BY <2>2, <2>3, PhaseOf DEF Phased
    <2>6. Ordered' = Ordered
      BY <2>2, <2>3 DEF Ordered
    <2> QED  BY <2>1, <2>4, <2>5, <2>6 DEF Money!vars, Phased, Ordered
  <1>4. ASSUME UNCHANGED <<tables, committed>>
        PROVE  UNCHANGED <<balance, status, refunded>>
    BY <1>4 DEF tables, committed
  <1>5. ASSUME UNCHANGED vars PROVE UNCHANGED tables
    BY <1>5 DEF vars, tables
  <1> HIDE DEF Abstract
  <1>6. ASSUME NEW s \in Sessions, SessionStep(s)
        PROVE  Abstract
    <2>1. CASE BeginAny(s)
      <3>1. PICK j, b, c, d : Begin(s, j, b, c, d)
        BY <2>1, BeginShape DEF BeginsAs, LockInv
      <3>2. UNCHANGED <<tables, committed>>
        BY <1>5, <3>1 DEF Begin
      <3> QED  BY <1>1, <1>4, <3>2
    <2>2. CASE Ends(s)
      BY <1>1, <1>4, <1>5, <2>2 DEF Ends, Abort
    <2>3. CASE CommitJob(s)
      <3>1. Commit(s) \/ (pc[s] = "idle" /\ UNCHANGED vars)
        BY <2>3 DEF CommitJob
      <3> QED  BY <1>2, <1>3, <2>3, <3>1
    <2>4. CASE GoesOn(s)
      BY <1>1, <1>4, <1>5, <2>4 DEF GoesOn, DedupNew, InsertEvent, NotFound, LockPayment
    <2>5. CASE PostNext(s)
      BY <1>1, <1>4, <2>5 DEF PostNext, post
    <2>6. CASE InPost(s)
      BY <1>1, <1>4, <2>6 DEF InPost, LedgerStatement, LedgerLock, Acquire, MissRow, ApplyPosting, LockRow, InsertRow
    <2> QED  BY <1>6, <2>1, <2>2, <2>3, <2>4, <2>5, <2>6 DEF SessionStep
  <1>7. ASSUME NEW p \in Payments, CallDies(p)
        PROVE  Abstract
    BY <1>1, <1>4, <1>5, <1>7 DEF CallDies
  <1>8. ASSUME UNCHANGED allvars
        PROVE  Abstract
    BY <1>1, <1>4, <1>5, <1>8 DEF allvars
  <1>9. Abstract
    BY <1>6, <1>7, <1>8, StepKinds
  <1> QED  BY <1>9 DEF Abstract

\* The books stay right in every step.
LEMMA NextBooked ==
    ASSUME LockInv, LockInv', \A s \in Sessions : Booked(s), [HandlersNext]_allvars
    PROVE  \A s \in Sessions : Booked(s)'
  <1>1. ASSUME UNCHANGED <<vars, handling>>
        PROVE  \A s \in Sessions : Booked(s)'
    <2>1. \A s \in Sessions, a \in Accounts : Moves(s, a)' = Moves(s, a) /\ Half(s, a)' = Half(s, a)
      BY <1>1 DEF Moves, Half, vars, handling
    <2>2. \A s \in Sessions : Through(s)' = Through(s)
      BY <1>1 DEF Through, vars
    <2>3. UNCHANGED <<balance, owner, pc, postings, idx, staged, posts, job, chosen>>
      BY <1>1 DEF vars, handling
    <2>4. \A s \in Sessions : \A a \in Accounts :
             staged'[s][a] = SumOver(Moves(s, a)', 1 .. Through(s)') + Half(s, a)'
      BY <2>1, <2>2, <2>3 DEF Booked
    <2> QED  BY <2>3, <2>4 DEF Booked
  <1>2. ASSUME NEW p \in Payments, CallDies(p) PROVE \A s \in Sessions : Booked(s)'
    BY <1>1, <1>2 DEF CallDies
  <1>3. CASE UNCHANGED allvars
    BY <1>1, <1>3 DEF allvars
  <1> QED  BY <1>2, <1>3, StepKinds, BookedKept

\* Whatever the statements of any number of concurrent create(), webhook,
\* refund and sweep transactions do to each other, the committed tables
\* behave as if each transaction were one step: a payment is held once, then
\* paid out or given back once, then refunded up to its amount, and the money
\* moves in the commit that says so.
THEOREM HandlersImplementPaymentSpec == HandlersSpec => HandlersMoveMoneyOnce
  <1> DEFINE Inv == LockInv /\ \A s \in Sessions : Booked(s)
  <1>1. HandlersInit => Inv
    <2> SUFFICES ASSUME HandlersInit, NEW s \in Sessions PROVE Booked(s)
      BY InitLockInv
    <2>1. /\ pc[s] = "idle" /\ posts[s] = 0 /\ \A a \in Accounts : staged[s][a] = 0
      BY DEF HandlersInit, Init, NoMoney
    <2>2. 1 .. Through(s) = {} /\ \A a \in Accounts : Half(s, a) = 0
      BY <2>1 DEF Through, Half
    <2>3. \A a \in Accounts : SumOver(Moves(s, a), 1 .. Through(s)) = 0
      BY <2>2, SumEmpty
    <2> QED  BY <2>1, <2>2, <2>3 DEF Booked
  <1>2. Inv /\ [HandlersNext]_allvars => Inv'
    BY NextLockInv, NextBooked
  <1>3. HandlersInit => Money!Init
    <2> SUFFICES ASSUME HandlersInit PROVE Money!Init
      OBVIOUS
    <2>1. status \in [Payments -> Statuses]
      BY HandlersAssumption DEF HandlersInit
    <2>2. \A p \in Payments : Phase(status[p]) \in Money!Phases /\ (Phase(status[p]) = "none" <=> status[p] = "none")
      BY <2>1, PhaseOf DEF Statuses, Money!Phases
    <2>3. \A p \in Payments : Orders[p] # None
      BY HandlersAssumption
    <2> QED  BY <2>2, <2>3 DEF HandlersInit, Init, Money!Init
  <1>4. Inv /\ [HandlersNext]_allvars => [Money!Next]_(Money!vars)
    BY StepIsMoney
  <1> QED  BY <1>1, <1>2, <1>3, <1>4, PTL DEF HandlersSpec, HandlersMoveMoneyOnce, Money!Spec
===============================================================================
