----------------------------- MODULE Idempotency ------------------------------
(***************************************************************************)
(* The idempotency_keys table under concurrent requests, statement by      *)
(* statement: claim_or_replay selects the record of the key, and inserts   *)
(* it if it found none.  Between the two statements other requests run;    *)
(* the unique index makes the second insert of a key wait for the first    *)
(* transaction and fail if that one commits.                               *)
(*                                                                         *)
(* A payment commits its claim, works, and completes the record in a       *)
(* second transaction.  A refund does all of it in one.  A retry is        *)
(* another request with the same key.  The Redis lock is not here: the     *)
(* value that acquire() returns is not used.                               *)
(***************************************************************************)
EXTENDS Integers, FiniteSets

CONSTANTS Requests,     \* POST requests, retries included
          kind,         \* "payment" or "refund"
          merchant,     \* the merchant a request is made for
          idem_key,     \* its Idempotency-Key header
          payload,      \* its body, of which the record keeps a hash
          Merchants, IdemKeys, Payloads,
          None          \* no request, no value

ASSUME IdempotencyAssumption ==
    /\ kind \in [Requests -> {"payment", "refund"}]
    /\ merchant \in [Requests -> Merchants]
    /\ idem_key \in [Requests -> IdemKeys]
    /\ payload \in [Requests -> Payloads]
    /\ None \notin Requests \cup Payloads
    /\ "merchant_refund" \notin Merchants

\* For the mutants: the merchant is not part of the key.
Scope_KeyOnly(r) == <<kind[r], idem_key[r]>>

\* The (merchant_id, idem_key) pair of the record.  Refunds pass a constant
\* for the merchant.
Scope(r) == <<IF kind[r] = "refund" THEN "merchant_refund" ELSE merchant[r], idem_key[r]>>

Scopes == {Scope(r) : r \in Requests}

VARIABLES record,       \* idempotency_keys.status as committed, "none" without a row
          request_hash, \* its request_hash
          response,     \* its response_body: the request it answers
          inserting,    \* the open transaction that has inserted the record
          pc,           \* where the request stands, at the end its outcome
          answer        \* the response a 201 request was given

vars == <<record, request_hash, response, inserting, pc, answer>>
table == <<record, request_hash, response>>

Init ==
    /\ record = [s \in Scopes |-> "none"]
    /\ request_hash = [s \in Scopes |-> None]
    /\ response = [s \in Scopes |-> None]
    /\ inserting = [s \in Scopes |-> None]
    /\ pc = [r \in Requests |-> "new"]
    /\ answer = [r \in Requests |-> None]
-------------------------------------------------------------------------------
(* claim_or_replay *)

\* The SELECT: no lock is taken, a record not yet committed is not seen.
SelectNone(r) ==
    /\ pc[r] = "new" /\ record[Scope(r)] = "none"
    /\ pc' = [pc EXCEPT ![r] = "insert"]
    /\ UNCHANGED <<table, inserting, answer>>

\* For the mutants: the payload is not compared.
SameBody_Ignored(r) == TRUE

SameBody(r) == request_hash[Scope(r)] = payload[r]

SelectMismatch(r) ==
    /\ pc[r] = "new" /\ record[Scope(r)] # "none"
    /\ ~ SameBody(r)
    /\ pc' = [pc EXCEPT ![r] = "422"]
    /\ UNCHANGED <<table, inserting, answer>>

SelectConflict(r) ==
    /\ pc[r] = "new" /\ record[Scope(r)] = "IN_PROGRESS"
    /\ SameBody(r)
    /\ pc' = [pc EXCEPT ![r] = "409"]
    /\ UNCHANGED <<table, inserting, answer>>

SelectReplay(r) ==
    /\ pc[r] = "new" /\ record[Scope(r)] = "COMPLETED"
    /\ SameBody(r)
    /\ pc' = [pc EXCEPT ![r] = "replayed"]
    /\ answer' = [answer EXCEPT ![r] = response[Scope(r)]]
    /\ UNCHANGED <<table, inserting>>

\* For the mutants: no unique constraint on (merchant_id, idem_key).
Unique_Dropped(r) == TRUE

\* Nobody has inserted the record, committed or not.
Unique(r) == inserting[Scope(r)] = None /\ record[Scope(r)] = "none"

\* The INSERT: it waits while another open transaction has the same record.
Insert(r) ==
    /\ pc[r] = "insert"
    /\ Unique(r)
    /\ inserting' = [inserting EXCEPT ![Scope(r)] = r]
    /\ pc' = [pc EXCEPT ![r] = "claimed"]
    /\ UNCHANGED <<table, answer>>

\* The other transaction has committed: IntegrityError, which no handler of
\* the application turns into a domain error.
InsertFails(r) ==
    /\ pc[r] = "insert" /\ record[Scope(r)] # "none"
    /\ pc' = [pc EXCEPT ![r] = "500"]
    /\ UNCHANGED <<table, inserting, answer>>
-------------------------------------------------------------------------------
(* The rest of the request *)

\* For the mutants: a rolled back claim keeps its index entry.
Unclaim_Keep(r) == UNCHANGED inserting

\* The open transaction that inserted the record ends.
Unclaim(r) == inserting' = [inserting EXCEPT ![Scope(r)] = IF @ = r THEN None ELSE @]

\* The first transaction of create() commits the claim with the hold.
CommitClaim(r) ==
    /\ pc[r] = "claimed" /\ kind[r] = "payment"
    /\ record' = [record EXCEPT ![Scope(r)] = "IN_PROGRESS"]
    /\ request_hash' = [request_hash EXCEPT ![Scope(r)] = payload[r]]
    /\ pc' = [pc EXCEPT ![r] = "working"]
    /\ Unclaim(r)
    /\ UNCHANGED <<response, answer>>

Answer(r) ==
    /\ record' = [record EXCEPT ![Scope(r)] = "COMPLETED"]
    /\ response' = [response EXCEPT ![Scope(r)] = r]
    /\ pc' = [pc EXCEPT ![r] = "done"]
    /\ answer' = [answer EXCEPT ![r] = r]

\* The second transaction of create() completes the record.
Complete(r) ==
    /\ pc[r] = "working"
    /\ Answer(r)
    /\ UNCHANGED <<request_hash, inserting>>

\* refund() commits claim, work and completion at once.
CommitRefund(r) ==
    /\ pc[r] = "claimed" /\ kind[r] = "refund"
    /\ request_hash' = [request_hash EXCEPT ![Scope(r)] = payload[r]]
    /\ Answer(r)
    /\ Unclaim(r)

\* A business error in the claiming transaction: the claim is rolled back.
Refused(r) ==
    /\ pc[r] = "claimed"
    /\ pc' = [pc EXCEPT ![r] = "refused"]
    /\ Unclaim(r)
    /\ UNCHANGED <<table, answer>>

\* The process dies, the PSP call raises, or the second transaction of create()
\* is refused: an open transaction is rolled back, a committed claim stays.
Dies(r) ==
    /\ pc[r] \in {"new", "insert", "claimed", "working"}
    /\ pc' = [pc EXCEPT ![r] = IF pc[r] = "working" THEN "abandoned" ELSE "dead"]
    /\ Unclaim(r)
    /\ UNCHANGED <<table, answer>>

Claim(r) ==
    \/ SelectNone(r) \/ SelectMismatch(r) \/ SelectConflict(r) \/ SelectReplay(r)
    \/ Insert(r) \/ InsertFails(r)

Proceed(r) == CommitClaim(r) \/ Complete(r) \/ CommitRefund(r)

Next == \E r \in Requests : Claim(r) \/ Proceed(r) \/ Refused(r) \/ Dies(r)

Spec == Init /\ [][Next]_vars

\* A request that is running goes on to its next statement.
Fairness == \A r \in Requests : WF_vars(Claim(r)) /\ WF_vars(Proceed(r))

LiveSpec == Spec /\ Fairness
-------------------------------------------------------------------------------
(* Properties *)

Outcomes == {"done", "replayed", "409", "422", "500", "refused", "dead", "abandoned"}

\* The values every variable ranges over; a record is COMPLETED exactly when
\* it has a response, so a replay always has something to answer.
TypeOK ==
    /\ record \in [Scopes -> {"none", "IN_PROGRESS", "COMPLETED"}]
    /\ request_hash \in [Scopes -> Payloads \cup {None}]
    /\ response \in [Scopes -> Requests \cup {None}]
    /\ \A s \in Scopes : record[s] = "COMPLETED" <=> response[s] # None
    /\ inserting \in [Scopes -> Requests \cup {None}]
    /\ pc \in [Requests -> Outcomes \cup {"new", "insert", "claimed", "working"}]
    /\ answer \in [Requests -> Requests \cup {None}]

\* The request's claim has been committed: its side effects are in the
\* database.
Owns(r) == pc[r] \in {"working", "done", "abandoned"}

\* Exactly-once: of all requests with one key, retries and racing duplicates,
\* at most one gets its claim committed; the others change nothing.
OneOwnerPerKey ==
    \A r, t \in Requests : Owns(r) /\ Owns(t) /\ Scope(r) = Scope(t) => r = t

\* A replayed answer is that of the request which did the work, under the
\* same key and with the same body.
ReplaysAreFaithful ==
    \A r \in Requests : pc[r] = "replayed" =>
        \E t \in Requests :
            answer[r] = t /\ pc[t] = "done" /\ Scope(t) = Scope(r) /\ payload[t] = payload[r]

\* A request is replayed or turned away only on account of one that took
\* effect under the same key: a payment on account of a payment of the same
\* merchant, a refund on account of any refund.  docs/LLD.md has keys "scoped
\* by (merchant_id, idem_key)", but refunds pass a constant for the merchant.
RefusalsHaveOwners ==
    \A r \in Requests : pc[r] \in {"replayed", "409", "422", "500"} =>
        \E t \in Requests \ {r} :
            /\ Owns(t) /\ kind[t] = kind[r] /\ idem_key[t] = idem_key[r]
            /\ kind[r] = "payment" => merchant[t] = merchant[r]

\* A key is never freed or taken over: a record only goes forward, and its
\* hash and response stay what they first were.  The documents say otherwise:
\* docs/LLD.md has keys "pruned after **24h**", and by docs/PLAN.md a claim is
\* released "on operation failure".  No code does either, so that the record of
\* a request that was abandoned stays IN_PROGRESS and refuses its retries.
RecordsMoveForward ==
    [][\A s \in Scopes :
          /\ record[s] = "IN_PROGRESS" => record'[s] # "none"
          /\ record[s] = "COMPLETED" => record'[s] = "COMPLETED" /\ response'[s] = response[s]
          /\ record[s] # "none" => request_hash'[s] = request_hash[s]]_vars

\* Every request gets an answer or dies; none waits for ever on the unique
\* index, whether the transaction it waits for commits, rolls back or dies.
RequestsEnd == \A r \in Requests : <>(pc[r] \in Outcomes)

\* README.md: "concurrent duplicates conflict, completed ones replay".
DuplicatesConflictOrReplay == \A r \in Requests : pc[r] # "500"
===============================================================================
