-------------------------- MODULE IdempotencyProofs ---------------------------
(***************************************************************************)
(* Proofs about Idempotency for any number of requests, keys and payloads. *)
(***************************************************************************)
EXTENDS Idempotency, TLAPS

\* A request that has inserted its record is the only one that has, and no
\* record of the key is committed.
ClaimsHeld ==
    \A r \in Requests : pc[r] = "claimed" =>
        inserting[Scope(r)] = r /\ record[Scope(r)] = "none"

\* The committed record of a key is that of the request that owns it.
OwnersRecorded ==
    \A r \in Requests :
        /\ Owns(r) => record[Scope(r)] # "none" /\ request_hash[Scope(r)] = payload[r]
        /\ pc[r] = "working" => record[Scope(r)] = "IN_PROGRESS"

\* A stored response is that of the request that did the work.
ResponsesSound ==
    \A s \in Scopes : response[s] # None =>
        /\ response[s] \in Requests /\ pc[response[s]] = "done"
        /\ Scope(response[s]) = s /\ payload[response[s]] = request_hash[s]

\* The inductive invariant.
IInv ==
    /\ TypeOK
    /\ ClaimsHeld
    /\ OwnersRecorded
    /\ ResponsesSound
    /\ OneOwnerPerKey
    /\ ReplaysAreFaithful
-------------------------------------------------------------------------------
\* The scope of a request is one of the table's.
LEMMA ScopeTyped == \A r \in Requests : Scope(r) \in Scopes
  BY DEF Scopes

\* The empty table satisfies the inductive invariant.
LEMMA InitIInv == Init => IInv
  <1> SUFFICES ASSUME Init PROVE IInv
    OBVIOUS
  <1> USE IdempotencyAssumption DEF Init
  <1>1. TypeOK
    BY DEF TypeOK, Outcomes
  <1>2. ClaimsHeld /\ OwnersRecorded /\ ResponsesSound /\ OneOwnerPerKey /\ ReplaysAreFaithful
    BY DEF ClaimsHeld, OwnersRecorded, ResponsesSound, OneOwnerPerKey, ReplaysAreFaithful, Owns
  <1> QED  BY <1>1, <1>2 DEF IInv

\* A request without a committed claim moves on without one.  This is every
\* step of a request that leaves the table alone.
LEMMA QuietIInv ==
    ASSUME IInv, NEW r \in Requests, NEW v \in Outcomes \cup {"insert", "claimed"},
           v \notin {"done", "working", "replayed"},
           UNCHANGED <<table, answer>>,
           pc' = [pc EXCEPT ![r] = v],
           v = "abandoned" => pc[r] = "working",
           v # "abandoned" => ~ Owns(r),
           inserting' \in [Scopes -> Requests \cup {None}],
           \A t \in Requests : t # r /\ inserting[Scope(t)] = t => inserting'[Scope(t)] = t,
           v = "claimed" => inserting'[Scope(r)] = r /\ record[Scope(r)] = "none"
    PROVE  IInv'
  <1> USE DEF table
  <1>0. TypeOK /\ pc[r] # "done" /\ pc \in [Requests -> Outcomes \cup {"new", "insert", "claimed", "working"}]
    BY DEF IInv, TypeOK, Owns
  <1>1. TypeOK'
    BY <1>0 DEF TypeOK
  <1>2. /\ pc'[r] = v
        /\ \A t \in Requests : t # r => pc'[t] = pc[t]
    BY <1>0
  <1>3. ClaimsHeld'
    BY <1>2 DEF IInv, ClaimsHeld
  <1>4. OwnersRecorded'
    BY <1>2 DEF IInv, OwnersRecorded, Owns
  <1>5. ResponsesSound'
    BY <1>0, <1>2 DEF IInv, ResponsesSound
  <1>6. OneOwnerPerKey'
    BY <1>2 DEF IInv, OneOwnerPerKey, Owns
  <1>7. ReplaysAreFaithful'
    <2> SUFFICES ASSUME NEW q \in Requests, pc'[q] = "replayed"
                 PROVE  \E t \in Requests : /\ answer'[q] = t /\ pc'[t] = "done"
                                            /\ Scope(t) = Scope(q) /\ payload[t] = payload[q]
      BY DEF ReplaysAreFaithful
    <2>1. pc[q] = "replayed"
      BY <1>2
    <2>2. PICK t \in Requests : /\ answer[q] = t /\ pc[t] = "done"
                                /\ Scope(t) = Scope(q) /\ payload[t] = payload[q]
      BY <2>1 DEF IInv, ReplaysAreFaithful
    <2>3. pc'[t] = "done"
      BY <1>0, <1>2, <2>2
    <2> QED  BY <2>2, <2>3
  <1> QED  BY <1>1, <1>3, <1>4, <1>5, <1>6, <1>7 DEF IInv

\* The SELECT that finds nothing or refuses, and the INSERT.
LEMMA ClaimIInv ==
    ASSUME IInv, NEW r \in Requests,
           SelectNone(r) \/ SelectMismatch(r) \/ SelectConflict(r) \/ Insert(r) \/ InsertFails(r)
    PROVE  IInv'
  <1>0. TypeOK
    BY DEF IInv
  <1>1. CASE SelectNone(r)
    BY <1>0, <1>1, QuietIInv DEF SelectNone, TypeOK, Owns, Outcomes
  <1>2. CASE SelectMismatch(r)
    BY <1>0, <1>2, QuietIInv DEF SelectMismatch, SameBody, TypeOK, Owns, Outcomes
  <1>3. CASE SelectConflict(r)
    BY <1>0, <1>3, QuietIInv DEF SelectConflict, SameBody, TypeOK, Owns, Outcomes
  <1>4. CASE Insert(r)
    <2>1. /\ inserting' \in [Scopes -> Requests \cup {None}]
          /\ \A t \in Requests : t # r /\ inserting[Scope(t)] = t => inserting'[Scope(t)] = t
          /\ inserting'[Scope(r)] = r
      BY <1>0, <1>4, ScopeTyped, IdempotencyAssumption DEF Insert, Unique, TypeOK
    <2> QED  BY <1>4, <2>1, QuietIInv DEF Insert, Unique, Owns, Outcomes
  <1>5. CASE InsertFails(r)
    BY <1>0, <1>5, QuietIInv DEF InsertFails, TypeOK, Owns, Outcomes
  <1> QED  BY <1>1, <1>2, <1>3, <1>4, <1>5

\* The end of the claiming transaction of one request leaves the claims of
\* the others alone.
LEMMA UnclaimKeepsOthers ==
    ASSUME TypeOK, NEW r \in Requests, Unclaim(r)
    PROVE  /\ inserting' \in [Scopes -> Requests \cup {None}]
           /\ \A t \in Requests : t # r /\ inserting[Scope(t)] = t => inserting'[Scope(t)] = t
  BY ScopeTyped DEF TypeOK, Unclaim

\* A request that is refused or dies.
LEMMA StopIInv ==
    ASSUME IInv, NEW r \in Requests, Refused(r) \/ Dies(r)
    PROVE  IInv'
  <1>0. TypeOK
    BY DEF IInv
  <1>1. CASE Refused(r)
    BY <1>0, <1>1, QuietIInv, UnclaimKeepsOthers DEF Refused, Owns, Outcomes
  <1>2. CASE Dies(r)
    <2>1. CASE pc[r] = "working"
      BY <1>0, <1>2, <2>1, QuietIInv, UnclaimKeepsOthers DEF Dies, Outcomes
    <2>2. CASE pc[r] # "working"
      BY <1>0, <1>2, <2>2, QuietIInv, UnclaimKeepsOthers DEF Dies, Owns, Outcomes
    <2> QED  BY <2>1, <2>2
  <1> QED  BY <1>1, <1>2

\* A replay hands out the stored response.
LEMMA ReplayIInv ==
    ASSUME IInv, NEW r \in Requests, SelectReplay(r)
    PROVE  IInv'
  <1> USE DEF table
  <1> DEFINE t == response[Scope(r)]
  <1>0. TypeOK /\ Scope(r) \in Scopes
    BY ScopeTyped DEF IInv
  <1>1. /\ pc[r] = "new" /\ record[Scope(r)] = "COMPLETED" /\ request_hash[Scope(r)] = payload[r]
        /\ pc' = [pc EXCEPT ![r] = "replayed"] /\ answer' = [answer EXCEPT ![r] = t]
        /\ UNCHANGED <<record, request_hash, response, inserting>>
    BY DEF SelectReplay, SameBody
  <1>2. t \in Requests /\ pc[t] = "done" /\ Scope(t) = Scope(r) /\ payload[t] = payload[r]
    BY <1>0, <1>1 DEF IInv, TypeOK, ResponsesSound
  <1>3. /\ pc'[r] = "replayed" /\ \A q \in Requests : q # r => pc'[q] = pc[q]
        /\ answer'[r] = t /\ \A q \in Requests : q # r => answer'[q] = answer[q]
    BY <1>0, <1>1 DEF TypeOK
  <1>4. TypeOK'
    BY <1>0, <1>1, <1>2 DEF TypeOK, Outcomes
  <1>5. ClaimsHeld' /\ OwnersRecorded' /\ OneOwnerPerKey'
    BY <1>1, <1>3 DEF IInv, ClaimsHeld, OwnersRecorded, OneOwnerPerKey, Owns
  <1>6. ResponsesSound'
    BY <1>1, <1>3 DEF IInv, ResponsesSound
  <1>7. ReplaysAreFaithful'
    <2> SUFFICES ASSUME NEW q \in Requests, pc'[q] = "replayed"
                 PROVE  \E u \in Requests : /\ answer'[q] = u /\ pc'[u] = "done"
                                            /\ Scope(u) = Scope(q) /\ payload[u] = payload[q]
      BY DEF ReplaysAreFaithful
    <2>1. CASE q = r
      <3>1. pc'[t] = "done"
        BY <1>1, <1>2, <1>3
      <3> QED  BY <1>2, <1>3, <2>1, <3>1
    <2>2. CASE q # r
      <3>1. PICK u \in Requests : /\ answer[q] = u /\ pc[u] = "done"
                                  /\ Scope(u) = Scope(q) /\ payload[u] = payload[q]
        BY <1>3, <2>2 DEF IInv, ReplaysAreFaithful
      <3>2. pc'[u] = "done" /\ answer'[q] = u
        BY <1>1, <1>3, <2>2, <3>1
      <3> QED  BY <3>1, <3>2
    <2> QED  BY <2>1, <2>2
  <1> QED  BY <1>4, <1>5, <1>6, <1>7 DEF IInv

\* While a request holds or owns its key no other request of the key does,
\* and the key has no response yet.
LEMMA NoRival ==
    ASSUME IInv, NEW r \in Requests, pc[r] \in {"claimed", "working"}
    PROVE  /\ \A t \in Requests : t # r /\ Scope(t) = Scope(r) => ~ Owns(t) /\ pc[t] # "claimed"
           /\ record[Scope(r)] # "COMPLETED" /\ response[Scope(r)] = None
  <1>0. TypeOK /\ Scope(r) \in Scopes
    BY ScopeTyped DEF IInv
  <1>1. CASE pc[r] = "claimed"
    BY <1>0, <1>1 DEF IInv, ClaimsHeld, OwnersRecorded, TypeOK
  <1>2. CASE pc[r] = "working"
    <2>1. Owns(r) /\ record[Scope(r)] = "IN_PROGRESS"
      BY <1>2 DEF IInv, OwnersRecorded, Owns
    <2> QED  BY <1>0, <2>1 DEF IInv, OneOwnerPerKey, ClaimsHeld, TypeOK
  <1> QED  BY <1>1, <1>2

\* A commit that records the request as the owner of its key.
LEMMA OwnIInv ==
    ASSUME IInv, NEW r \in Requests, NEW v \in {"working", "done"},
           pc[r] \in {"claimed", "working"},
           pc' = [pc EXCEPT ![r] = v],
           record' = [record EXCEPT ![Scope(r)] = IF v = "done" THEN "COMPLETED" ELSE "IN_PROGRESS"],
           request_hash' \in [Scopes -> Payloads \cup {None}],
           request_hash'[Scope(r)] = payload[r],
           \A s \in Scopes : s # Scope(r) => request_hash'[s] = request_hash[s],
           response' = IF v = "done" THEN [response EXCEPT ![Scope(r)] = r] ELSE response,
           answer' \in [Requests -> Requests \cup {None}],
           \A t \in Requests : t # r => answer'[t] = answer[t],
           inserting' \in [Scopes -> Requests \cup {None}],
           \A t \in Requests : t # r /\ inserting[Scope(t)] = t => inserting'[Scope(t)] = t
    PROVE  IInv'
  <1>0. TypeOK /\ Scope(r) \in Scopes
    BY ScopeTyped DEF IInv
  <1>1. /\ pc'[r] = v /\ \A q \in Requests : q # r => pc'[q] = pc[q]
        /\ record'[Scope(r)] = (IF v = "done" THEN "COMPLETED" ELSE "IN_PROGRESS")
        /\ \A s \in Scopes : s # Scope(r) => record'[s] = record[s]
        /\ response'[Scope(r)] = IF v = "done" THEN r ELSE None
        /\ \A s \in Scopes : s # Scope(r) => response'[s] = response[s]
    BY <1>0, NoRival DEF TypeOK
  <1>2. TypeOK'
    <2>1. \A s \in Scopes : record'[s] = "COMPLETED" <=> response'[s] # None
      BY <1>0, <1>1, IdempotencyAssumption DEF TypeOK
    <2> QED  BY <1>0, <2>1 DEF TypeOK, Outcomes
  <1>3. ClaimsHeld'
    <2> SUFFICES ASSUME NEW t \in Requests, pc'[t] = "claimed"
                 PROVE  inserting'[Scope(t)] = t /\ record'[Scope(t)] = "none"
      BY DEF ClaimsHeld
    <2>1. t # r /\ pc[t] = "claimed" /\ Scope(t) # Scope(r)
      BY <1>1, NoRival
    <2> QED  BY <1>1, <2>1, ScopeTyped DEF IInv, ClaimsHeld
  <1>4. OwnersRecorded'
    <2> SUFFICES ASSUME NEW t \in Requests
                 PROVE  /\ Owns(t)' => record'[Scope(t)] # "none" /\ request_hash'[Scope(t)] = payload[t]
                        /\ pc'[t] = "working" => record'[Scope(t)] = "IN_PROGRESS"
      BY DEF OwnersRecorded
    <2>1. CASE t = r
      BY <1>1, <2>1
    <2>2. CASE t # r
      <3>1. Owns(t)' => Owns(t) /\ Scope(t) # Scope(r)
        BY <1>1, <2>2, NoRival DEF Owns
      <3>2. pc'[t] = "working" => pc[t] = "working" /\ Owns(t)'
        BY <1>1, <2>2 DEF Owns
      <3> QED  BY <1>1, <3>1, <3>2, ScopeTyped DEF IInv, OwnersRecorded
    <2> QED  BY <2>1, <2>2
  <1>5. ResponsesSound'
    <2> SUFFICES ASSUME NEW s \in Scopes, response'[s] # None
                 PROVE  /\ response'[s] \in Requests /\ pc'[response'[s]] = "done"
                        /\ Scope(response'[s]) = s /\ payload[response'[s]] = request_hash'[s]
      BY DEF ResponsesSound
    <2>1. CASE s = Scope(r)
      BY <1>1, <2>1
    <2>2. CASE s # Scope(r)
      <3>1. /\ response[s] \in Requests /\ pc[response[s]] = "done"
            /\ Scope(response[s]) = s /\ payload[response[s]] = request_hash[s]
        BY <1>1, <2>2 DEF IInv, ResponsesSound
      <3> QED  BY <1>1, <2>2, <3>1
    <2> QED  BY <2>1, <2>2
  <1>6. OneOwnerPerKey'
    <2>1. \A t \in Requests : t # r /\ Owns(t)' => Owns(t) /\ Scope(t) # Scope(r)
      BY <1>1, NoRival DEF Owns
    <2> QED  BY <2>1 DEF IInv, OneOwnerPerKey
  <1>7. ReplaysAreFaithful'
    <2> SUFFICES ASSUME NEW q \in Requests, pc'[q] = "replayed"
                 PROVE  \E u \in Requests : /\ answer'[q] = u /\ pc'[u] = "done"
                                            /\ Scope(u) = Scope(q) /\ payload[u] = payload[q]
      BY DEF ReplaysAreFaithful
    <2>1. q # r /\ pc[q] = "replayed"
      BY <1>1
    <2>2. PICK u \in Requests : /\ answer[q] = u /\ pc[u] = "done"
                                /\ Scope(u) = Scope(q) /\ payload[u] = payload[q]
      BY <2>1 DEF IInv, ReplaysAreFaithful
    <2>3. pc'[u] = "done" /\ answer'[q] = u
      BY <1>1, <2>1, <2>2
    <2> QED  BY <2>2, <2>3
  <1> QED  BY <1>2, <1>3, <1>4, <1>5, <1>6, <1>7 DEF IInv

\* The three commits.
LEMMA ProceedIInv ==
    ASSUME IInv, NEW r \in Requests, Proceed(r)
    PROVE  IInv'
  <1>0. TypeOK /\ Scope(r) \in Scopes /\ payload[r] \in Payloads
    BY ScopeTyped, IdempotencyAssumption DEF IInv
  <1>1. ASSUME request_hash' = [request_hash EXCEPT ![Scope(r)] = payload[r]]
        PROVE  /\ request_hash' \in [Scopes -> Payloads \cup {None}]
               /\ request_hash'[Scope(r)] = payload[r]
               /\ \A s \in Scopes : s # Scope(r) => request_hash'[s] = request_hash[s]
    BY <1>0, <1>1 DEF TypeOK
  <1>2. ASSUME answer' = [answer EXCEPT ![r] = r]
        PROVE  /\ answer' \in [Requests -> Requests \cup {None}]
               /\ \A t \in Requests : t # r => answer'[t] = answer[t]
    BY <1>0, <1>2 DEF TypeOK
  <1>3. answer \in [Requests -> Requests \cup {None}] /\ inserting \in [Scopes -> Requests \cup {None}]
    BY <1>0 DEF TypeOK
  <1>4. CASE CommitClaim(r)
    BY <1>0, <1>1, <1>3, <1>4, UnclaimKeepsOthers, OwnIInv DEF CommitClaim
  <1>5. CASE Complete(r)
    <2>1. request_hash[Scope(r)] = payload[r] /\ request_hash \in [Scopes -> Payloads \cup {None}]
      BY <1>0, <1>5 DEF IInv, OwnersRecorded, Owns, TypeOK, Complete
    <2> QED  BY <1>2, <1>3, <1>5, <2>1, OwnIInv DEF Complete, Answer
  <1>6. CASE CommitRefund(r)
    BY <1>0, <1>1, <1>2, <1>6, UnclaimKeepsOthers, OwnIInv DEF CommitRefund, Answer
  <1> QED  BY <1>4, <1>5, <1>6 DEF Proceed

\* A step that changes nothing preserves the inductive invariant.
LEMMA StutterIInv == IInv /\ UNCHANGED vars => IInv'
  <1> SUFFICES ASSUME IInv, UNCHANGED vars PROVE IInv'
    OBVIOUS
  <1> USE DEF vars
  <1>1. TypeOK'
    BY DEF IInv, TypeOK
  <1>2. ClaimsHeld' /\ OwnersRecorded' /\ ResponsesSound'
    BY DEF IInv, ClaimsHeld, OwnersRecorded, ResponsesSound, Owns
  <1>3. OneOwnerPerKey' /\ ReplaysAreFaithful'
    BY DEF IInv, OneOwnerPerKey, ReplaysAreFaithful, Owns
  <1> QED  BY <1>1, <1>2, <1>3 DEF IInv

\* Every step of every request preserves the inductive invariant.
LEMMA NextIInv == IInv /\ [Next]_vars => IInv'
  <1> SUFFICES ASSUME IInv, [Next]_vars PROVE IInv'
    OBVIOUS
  <1>1. ASSUME NEW r \in Requests, Claim(r) PROVE IInv'
    BY <1>1, ClaimIInv, ReplayIInv DEF Claim
  <1>2. ASSUME NEW r \in Requests, Proceed(r) PROVE IInv'
    BY <1>2, ProceedIInv
  <1>3. ASSUME NEW r \in Requests, Refused(r) \/ Dies(r) PROVE IInv'
    BY <1>3, StopIInv
  <1> QED  BY <1>1, <1>2, <1>3, StutterIInv DEF Next

\* Race-safe idempotency.  However requests with one key interleave, wait on
\* the unique index, fail and die, at most one of them takes effect, and every
\* replayed answer is that one's, given to the same body.  A record has a
\* response as soon as it is COMPLETED, so a replay always has its answer.
THEOREM OneOwner == Spec => [](TypeOK /\ OneOwnerPerKey /\ ReplaysAreFaithful)
  <1>1. IInv => TypeOK /\ OneOwnerPerKey /\ ReplaysAreFaithful
    BY DEF IInv
  <1> QED  BY <1>1, InitIInv, NextIInv, PTL DEF Spec

\* A committed record has an owner, and so has every refusal.
RecordsOwned ==
    \A s \in Scopes : record[s] # "none" => \E t \in Requests : Owns(t) /\ Scope(t) = s

RefusalsOwned ==
    \A r \in Requests : pc[r] \in {"replayed", "409", "422", "500"} => record[Scope(r)] # "none"

\* Whoever owns a record keeps it, and a request is refused only once there is
\* one.
LEMMA NextOwned ==
    IInv /\ RecordsOwned /\ RefusalsOwned /\ [Next]_vars => RecordsOwned' /\ RefusalsOwned'
  <1> SUFFICES ASSUME IInv, RecordsOwned, RefusalsOwned, [Next]_vars
               PROVE  RecordsOwned' /\ RefusalsOwned'
    OBVIOUS
  <1>0. TypeOK
    BY DEF IInv
  <1>1. ASSUME NEW r \in Requests, Claim(r)
        PROVE  /\ UNCHANGED record
               /\ ~ Owns(r)
               /\ \E v \in {"insert", "422", "409", "replayed", "claimed", "500"} :
                     /\ pc' = [pc EXCEPT ![r] = v]
                     /\ v \in {"replayed", "409", "422", "500"} => record[Scope(r)] # "none"
    BY <1>1 DEF Claim, SelectNone, SelectMismatch, SelectConflict, SelectReplay, Insert,
                InsertFails, Owns, table
  <1>2. ASSUME NEW r \in Requests, Refused(r) \/ Dies(r)
        PROVE  /\ UNCHANGED record
               /\ \E v \in {"refused", "abandoned", "dead"} :
                     /\ pc' = [pc EXCEPT ![r] = v]
                     /\ Owns(r) => v = "abandoned"
    BY <1>2 DEF Refused, Dies, Owns, table
  <1>3. ASSUME NEW r \in Requests, Proceed(r)
        PROVE  \E v \in {"IN_PROGRESS", "COMPLETED"}, w \in {"working", "done"} :
                     /\ record' = [record EXCEPT ![Scope(r)] = v]
                     /\ pc' = [pc EXCEPT ![r] = w]
    BY <1>3 DEF Proceed, CommitClaim, Complete, CommitRefund, Answer
  <1>4. ASSUME NEW r \in Requests, Claim(r) PROVE RecordsOwned' /\ RefusalsOwned'
    BY <1>0, <1>1, <1>4 DEF RecordsOwned, RefusalsOwned, Owns, TypeOK
  <1>5. ASSUME NEW r \in Requests, Refused(r) \/ Dies(r) PROVE RecordsOwned' /\ RefusalsOwned'
    BY <1>0, <1>2, <1>5 DEF RecordsOwned, RefusalsOwned, Owns, TypeOK
  <1>6. ASSUME NEW r \in Requests, Proceed(r) PROVE RecordsOwned' /\ RefusalsOwned'
    BY <1>0, <1>3, <1>6, ScopeTyped DEF RecordsOwned, RefusalsOwned, Owns, TypeOK
  <1>7. CASE UNCHANGED vars
    BY <1>7 DEF RecordsOwned, RefusalsOwned, Owns, vars
  <1> QED  BY <1>4, <1>5, <1>6, <1>7 DEF Next

\* Two requests meet in a record only under one key, and payments only within
\* one merchant.
LEMMA ScopesApart ==
    ASSUME NEW r \in Requests, NEW t \in Requests, Scope(t) = Scope(r)
    PROVE  /\ kind[t] = kind[r] /\ idem_key[t] = idem_key[r]
           /\ kind[r] = "payment" => merchant[t] = merchant[r]
  BY IdempotencyAssumption DEF Scope

\* Nobody is refused, or given another's answer, without an owner of the same
\* key, for payments one of the same merchant.
THEOREM RefusalsAreJustified == Spec => []RefusalsHaveOwners
  <1>1. Init => RecordsOwned /\ RefusalsOwned
    BY DEF Init, RecordsOwned, RefusalsOwned
  <1>2. IInv /\ RecordsOwned /\ RefusalsOwned => RefusalsHaveOwners
    <2> SUFFICES ASSUME IInv, RecordsOwned, RefusalsOwned, NEW r \in Requests,
                        pc[r] \in {"replayed", "409", "422", "500"}
                 PROVE  \E t \in Requests \ {r} :
                           /\ Owns(t) /\ kind[t] = kind[r] /\ idem_key[t] = idem_key[r]
                           /\ kind[r] = "payment" => merchant[t] = merchant[r]
      BY DEF RefusalsHaveOwners
    <2>1. PICK t \in Requests : Owns(t) /\ Scope(t) = Scope(r)
      BY ScopeTyped DEF RecordsOwned, RefusalsOwned
    <2>2. t # r
      BY <2>1 DEF Owns
    <2> QED  BY <2>1, <2>2, ScopesApart
  <1> QED  BY <1>1, <1>2, InitIInv, NextIInv, NextOwned, PTL DEF Spec

\* A key that was used stays used: no step frees a committed record, changes
\* the hash it was claimed with or replaces its response.
THEOREM KeysStayUsed == Spec => RecordsMoveForward
  <1> DEFINE Forward ==
        \A s \in Scopes :
          /\ record[s] = "IN_PROGRESS" => record'[s] # "none"
          /\ record[s] = "COMPLETED" => record'[s] = "COMPLETED" /\ response'[s] = response[s]
          /\ record[s] # "none" => request_hash'[s] = request_hash[s]
  <1>1. ASSUME UNCHANGED table PROVE Forward
    BY <1>1 DEF table
  <1>2. ASSUME IInv, NEW r \in Requests, Proceed(r) PROVE Forward
    <2>0. TypeOK /\ Scope(r) \in Scopes
      BY <1>2, ScopeTyped DEF IInv
    <2>1. CASE CommitClaim(r)
      <3>1. record[Scope(r)] = "none"
        BY <1>2, <2>1 DEF IInv, ClaimsHeld, CommitClaim
      <3> QED  BY <2>0, <2>1, <3>1 DEF CommitClaim, TypeOK
    <2>2. CASE Complete(r)
      <3>1. record[Scope(r)] = "IN_PROGRESS"
        BY <1>2, <2>2 DEF IInv, OwnersRecorded, Complete
      <3> QED  BY <2>0, <2>2, <3>1 DEF Complete, Answer, TypeOK
    <2>3. CASE CommitRefund(r)
      <3>1. record[Scope(r)] = "none"
        BY <1>2, <2>3 DEF IInv, ClaimsHeld, CommitRefund
      <3> QED  BY <2>0, <2>3, <3>1 DEF CommitRefund, Answer, TypeOK
    <2> QED  BY <1>2, <2>1, <2>2, <2>3 DEF Proceed
  <1>3. ASSUME NEW r \in Requests, Claim(r) \/ Refused(r) \/ Dies(r) PROVE UNCHANGED table
    BY <1>3 DEF Claim, SelectNone, SelectMismatch, SelectConflict, SelectReplay, Insert,
                InsertFails, Refused, Dies
  <1>4. IInv /\ [Next]_vars => [Forward]_vars
    BY <1>1, <1>2, <1>3 DEF Next
  <1>5. Spec => []IInv
    BY InitIInv, NextIInv, PTL DEF Spec
  <1> QED  BY <1>4, <1>5, PTL DEF Spec, RecordsMoveForward
===============================================================================
