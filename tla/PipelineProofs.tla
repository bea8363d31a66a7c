---------------------------- MODULE PipelineProofs ----------------------------
(***************************************************************************)
(* Proofs about Pipeline: what one relay tells the consumers, for any      *)
(* number of payments, refunds, rows in a batch and failures.              *)
(***************************************************************************)
EXTENDS Pipeline, PaymentsProofs

\* The application runs in one process.
OneRelay == \A r, q \in Relays : r = q

\* The values the relay's variables range over; it publishes rows it has locked.
RelayTypes ==
    /\ created_at \in [Rows -> Nat]
    /\ published_at \subseteq Rows
    /\ holder \in [Rows -> Relays \cup {Nobody}]
    /\ events \in [Relays -> SUBSET Rows]
    /\ \A r \in Relays : \A e \in events[r] : holder[e] = r
    /\ ready \subseteq Relays
    /\ published \in [Rows -> Nat]

\* Only written rows are locked or told; a row that is marked, or has left the
\* list of the batch it is locked for, was told; a relay is ready with a batch
\* it has told to the end.
Delivered ==
    /\ \A e \in Rows :
          /\ holder[e] # Nobody \/ Told(e) => Written(e)
          /\ e \in published_at => Told(e)
          /\ \A r \in Relays : holder[e] = r /\ e \notin events[r] => Told(e)
    /\ \A r \in ready : events[r] = {} /\ \E e \in Rows : holder[e] = r

WrittenRows == {e \in Rows : Written(e)}

\* The stamps follow the order of the transactions: no stamp exceeds the number
\* of rows, a payment's second row is later than its first, and the row of a
\* refund is later than the second row of its payment.
Stamped ==
    /\ \A e \in Rows : Written(e) => created_at[e] =< Cardinality(WrittenRows)
    /\ \A p \in Payments :
          Written(<<p, 2>>) => created_at[<<p, 1>>] < created_at[<<p, 2>>]
    /\ \A r \in RefundKeys : refunds[r] # None =>
          /\ status[refunds[r].payment] \in Paid
          /\ created_at[<<refunds[r].payment, 2>>] < created_at[<<r, 1>>]

\* No row is told, or locked, before the older ones: they were told or are in
\* the same batch.
OldestFirst ==
    \A e, f \in Rows : Written(e) /\ created_at[e] < created_at[f] =>
        /\ Told(f) => Told(e)
        /\ holder[f] # Nobody => e \in published_at \/ holder[e] = holder[f]

\* The inductive invariant; IInv is that of PaymentsProofs.
PipelineInv == IInv /\ RelayTypes /\ Delivered /\ Stamped /\ OldestFirst
-------------------------------------------------------------------------------
\* What the rows say of payments and refunds.
RowsTell ==
    /\ \A p \in Payments :
          /\ Written(<<p, 1>>) <=> status[p] # "none"
          /\ Written(<<p, 2>>) <=> status[p] \in Paid \cup {"FAILED"}
    /\ \A r \in RefundKeys : Written(<<r, 1>>) <=> refunds[r] # None

\* The outbox matches the status, so do the rows.
LEMMA RowsAreTrue == IInv => RowsTell
  <1> SUFFICES ASSUME IInv PROVE RowsTell
    OBVIOUS
  <1>1. ASSUME NEW p \in Payments
        PROVE  /\ Written(<<p, 1>>) <=> status[p] # "none"
               /\ Written(<<p, 2>>) <=> status[p] \in Paid \cup {"FAILED"}
    <2>1. status[p] \in Statuses
      BY DEF IInv, TypeOK
    <2>2. CASE status[p] = "none"
      BY <2>2 DEF IInv, OutboxMatchesStatus, Written, Paid, Held
    <2>3. CASE status[p] \in Held
      BY <2>3 DEF IInv, OutboxMatchesStatus, Written, Paid, Held
    <2>4. CASE status[p] \in Paid
      BY <2>4 DEF IInv, OutboxMatchesStatus, Written, Paid, Held
    <2>5. CASE status[p] = "FAILED"
      BY <2>5 DEF IInv, OutboxMatchesStatus, Written, Paid, Held
    <2> QED  BY <2>1, <2>2, <2>3, <2>4, <2>5 DEF Statuses, Held, Paid
  <1>2. ASSUME NEW r \in RefundKeys
        PROVE  Written(<<r, 1>>) <=> refunds[r] # None
    BY DEF IInv, OutboxMatchesStatus, Written
  <1> QED  BY <1>1, <1>2 DEF RowsTell

\* The rows are finitely many.
LEMMA RowsFinite ==
    /\ IsFiniteSet(Rows)
    /\ Cardinality(WrittenRows) \in Nat /\ IsFiniteSet(WrittenRows)
  <1>1. IsFiniteSet({1, 2}) /\ IsFiniteSet({1})
    BY FS_AddElement, FS_EmptySet, FS_Singleton
  <1>2. IsFiniteSet(Payments \X {1, 2}) /\ IsFiniteSet(RefundKeys \X {1})
    BY <1>1, FS_Product, PaymentsAssumption
  <1>3. IsFiniteSet(Rows)
    BY <1>2, FS_Union DEF Rows
  <1>4. IsFiniteSet(WrittenRows)
    BY <1>3, FS_Subset DEF WrittenRows
  <1> QED  BY <1>3, <1>4, FS_CardinalityType

\* A refund is recorded once, for a payment that has succeeded.
LEMMA RefundsFollowSuccess ==
    IInv /\ Next =>
        \A r \in RefundKeys : refunds'[r] # refunds[r] =>
            refunds[r] = None /\ refunds'[r] \in [payment : Payments, amount : Nat]
               /\ status[refunds'[r].payment] = "SUCCEEDED"
  <1> SUFFICES ASSUME IInv, Next, NEW r \in RefundKeys, refunds'[r] # refunds[r]
               PROVE  refunds[r] = None /\ refunds'[r] \in [payment : Payments, amount : Nat]
                         /\ status[refunds'[r].payment] = "SUCCEEDED"
    OBVIOUS
  <1>1. ~ UNCHANGED refunds
    OBVIOUS
  <1>2. Refund
    BY <1>1, ZenonT(40) DEF Next, Replay, CreateHold, Finish, FinishCaptured, FinishDeclined, FinishPending,
                FinishRefused, complete, HandlerDies, Provider, PspDecide, Age, PspSend, Webhook, WebhookCaptures,
                WebhookFails, WebhookIgnored, Record, expire_stale_holds
  <1>3. PICK k \in RefundKeys, p \in Payments :
           status[p] = "SUCCEEDED" /\ \E m \in 1 .. body[p].amount : refund(k, p, m)
    BY <1>2 DEF Refund
  <1>4. PICK m \in 1 .. body[p].amount : refund(k, p, m)
    BY <1>3
  <1>5. m \in Nat
    BY <1>3, BodyTyped, PaymentsAssumption DEF IInv, TypeOK
  <1>6. refunds[k] = None /\ refunds' = [refunds EXCEPT ![k] = [payment |-> p, amount |-> m]]
    BY <1>4 DEF refund
  <1>7. refunds \in [RefundKeys -> [payment : Payments, amount : Nat] \cup {None}]
    BY DEF IInv, TypeOK
  <1>8. r = k
    BY <1>6, <1>7
  <1>9. refunds'[r] = [payment |-> p, amount |-> m]
    BY <1>6, <1>7, <1>8
  <1> QED  BY <1>3, <1>5, <1>6, <1>8, <1>9


\* Rows are never taken back, and a payment's second row comes with a
\* transaction after that of the first.
LEMMA EngineWrites ==
    IInv /\ Next =>
        /\ IInv'
        /\ \A e \in Rows : Written(e) => Written(e)'
        /\ \A p \in Payments :
              /\ status[p] \in Paid => status'[p] \in Paid /\ Written(<<p, 2>>)
              /\ Written(<<p, 2>>)' => Written(<<p, 1>>)
        /\ \A r \in RefundKeys : Written(<<r, 1>>)' <=> refunds'[r] # None
  <1>1. (IInv => RowsTell)'
    BY RowsAreTrue, PTL
  <1> SUFFICES ASSUME IInv, Next
               PROVE  /\ IInv'
                      /\ \A e \in Rows : Written(e) => Written(e)'
                      /\ \A p \in Payments :
                            /\ status[p] \in Paid => status'[p] \in Paid /\ Written(<<p, 2>>)
                            /\ Written(<<p, 2>>)' => Written(<<p, 1>>)
                      /\ \A r \in RefundKeys : Written(<<r, 1>>)' <=> refunds'[r] # None
    OBVIOUS
  <1>2. IInv' /\ RowsTell /\ RowsTell'
    BY <1>1, NextIInv, RowsAreTrue
  <1>3. \A p \in Payments : status'[p] # status[p] => <<status[p], status'[p]>> \in Lifecycle
    BY StepMoves
  <1>4. \A r \in RefundKeys : refunds[r] # None => refunds'[r] # None
    BY RefundsFollowSuccess
  <1>5. ASSUME NEW p \in Payments
        PROVE  /\ status[p] # "none" => status'[p] # "none"
               /\ status[p] \in Paid \cup {"FAILED"} => status'[p] \in Paid \cup {"FAILED"}
               /\ status[p] \in Paid => status'[p] \in Paid
               /\ status'[p] \in Paid \cup {"FAILED"} => status[p] # "none"
    BY <1>3 DEF Lifecycle, Paid
  <1>6. ASSUME NEW p \in Payments
        PROVE  /\ Written(<<p, 1>>)' <=> status'[p] # "none"
               /\ Written(<<p, 2>>)' <=> status'[p] \in Paid \cup {"FAILED"}
               /\ Written(<<p, 1>>) <=> status[p] # "none"
               /\ Written(<<p, 2>>) <=> status[p] \in Paid \cup {"FAILED"}
    BY <1>2 DEF RowsTell
  <1>7. ASSUME NEW r \in RefundKeys
        PROVE  /\ Written(<<r, 1>>) <=> refunds[r] # None
               /\ Written(<<r, 1>>)' <=> refunds'[r] # None
    BY <1>2 DEF RowsTell
  <1>8. ASSUME NEW e \in Rows, Written(e)
        PROVE  Written(e)'
    <2>1. CASE \E p \in Payments : e = <<p, 1>> \/ e = <<p, 2>>
      BY <1>5, <1>6, <1>8, <2>1
    <2>2. CASE \E r \in RefundKeys : e = <<r, 1>>
      BY <1>4, <1>7, <1>8, <2>2
    <2> QED  BY <2>1, <2>2 DEF Rows
  <1> QED  BY <1>2, <1>5, <1>6, <1>7, <1>8

\* The rows a transaction writes are stamped later than all there are, and
\* their number has grown at least to that stamp.
LEMMA NewStamps ==
    ASSUME RelayTypes, IInv, Next, Stamp
    PROVE  /\ created_at' \in [Rows -> Nat]
           /\ \A e \in Rows : Written(e) => created_at'[e] = created_at[e]
           /\ \A e \in Rows : ~ Written(e) /\ ~ Written(e)' => created_at'[e] = created_at[e]
           /\ \A e \in Rows : ~ Written(e) /\ Written(e)' =>
                 created_at'[e] = 1 + Cardinality(WrittenRows)
           /\ Cardinality(WrittenRows)' \in Nat
           /\ Cardinality(WrittenRows) =< Cardinality(WrittenRows)'
           /\ (\E e \in Rows : ~ Written(e) /\ Written(e)') =>
                 1 + Cardinality(WrittenRows) =< Cardinality(WrittenRows)'
  <1> DEFINE n == Cardinality(WrittenRows)
             W == WrittenRows
             V == WrittenRows'
  <1>1. n \in Nat /\ IsFiniteSet(W)
    BY RowsFinite
  <1>2. W \subseteq V /\ V \subseteq Rows
    BY EngineWrites DEF WrittenRows
  <1>3. IsFiniteSet(V) /\ Cardinality(V) \in Nat
    BY <1>2, RowsFinite, FS_Subset, FS_CardinalityType
  <1>4. n =< Cardinality(V)
    BY <1>2, <1>3, FS_Subset
  <1>5. ASSUME NEW e \in Rows, ~ Written(e), Written(e)'
        PROVE  1 + n =< Cardinality(V)
    <2>1. e \notin W /\ W \cup {e} \subseteq V
      BY <1>2, <1>5 DEF WrittenRows
    <2>2. Cardinality(W \cup {e}) = n + 1 /\ IsFiniteSet(W \cup {e})
      BY <1>1, <2>1, FS_AddElement
    <2>3. Cardinality(W \cup {e}) =< Cardinality(V)
      BY <1>3, <2>1, FS_Subset
    <2> QED  BY <1>1, <1>3, <2>2, <2>3
  <1>6. created_at' = [e \in Rows |-> IF Written(e)' /\ ~ Written(e) THEN 1 + n ELSE created_at[e]]
    BY DEF Stamp, WrittenRows
  <1>7. created_at \in [Rows -> Nat]
    BY DEF RelayTypes
  <1> HIDE DEF n, W, V
  <1>8. created_at' \in [Rows -> Nat]
    BY <1>1, <1>6, <1>7
  <1>9. /\ \A e \in Rows : Written(e) => created_at'[e] = created_at[e]
        /\ \A e \in Rows : ~ Written(e) /\ ~ Written(e)' => created_at'[e] = created_at[e]
        /\ \A e \in Rows : ~ Written(e) /\ Written(e)' => created_at'[e] = 1 + n
    BY <1>6
  <1> QED  BY <1>3, <1>4, <1>5, <1>8, <1>9 DEF n, V

\* A transaction of the engine locks nothing and tells nothing, and its rows are
\* the newest.
LEMMA EngineKeeps ==
    ASSUME PipelineInv, EngineStep
    PROVE  PipelineInv'
  <1> DEFINE n == Cardinality(WrittenRows)
  <1>0. IInv /\ RelayTypes /\ Delivered /\ Stamped /\ OldestFirst /\ Next /\ Stamp
    BY DEF PipelineInv, EngineStep
  <1>1. /\ IInv'
        /\ \A e \in Rows : Written(e) => Written(e)'
        /\ \A p \in Payments :
              /\ status[p] \in Paid => status'[p] \in Paid /\ Written(<<p, 2>>)
              /\ Written(<<p, 2>>)' => Written(<<p, 1>>)
        /\ \A r \in RefundKeys : Written(<<r, 1>>)' <=> refunds'[r] # None
    BY <1>0, EngineWrites
  <1>2. UNCHANGED relay
    BY <1>0 DEF Stamp
  <1>3. /\ created_at' \in [Rows -> Nat]
        /\ \A e \in Rows : Written(e) => created_at'[e] = created_at[e]
        /\ \A e \in Rows : ~ Written(e) /\ ~ Written(e)' => created_at'[e] = created_at[e]
        /\ \A e \in Rows : ~ Written(e) /\ Written(e)' => created_at'[e] = 1 + n
        /\ n' \in Nat /\ n =< n'
        /\ (\E e \in Rows : ~ Written(e) /\ Written(e)') => 1 + n =< n'
    BY <1>0, NewStamps
  <1>4. n \in Nat
    BY RowsFinite
  <1>5. created_at \in [Rows -> Nat] /\ \A e \in Rows : Written(e) => created_at[e] =< n
    BY <1>0 DEF RelayTypes, Stamped
  <1>6. RelayTypes'
    BY <1>0, <1>2, <1>3 DEF RelayTypes, relay
  <1>7. Delivered'
    BY <1>0, <1>1, <1>2 DEF Delivered, Told, relay
  <1>8. OldestFirst'
    <2> SUFFICES ASSUME NEW e \in Rows, NEW f \in Rows, Written(e)', created_at'[e] < created_at'[f]
                 PROVE  /\ Told(f)' => Told(e)'
                        /\ holder'[f] # Nobody => e \in published_at' \/ holder'[e] = holder'[f]
      BY DEF OldestFirst
    <2>1. CASE ~ Written(f)
      BY <1>0, <1>2, <2>1 DEF Delivered, Told, relay
    <2>2. CASE Written(f)
      <3>1. created_at'[f] = created_at[f] /\ created_at[f] =< n /\ created_at[f] \in Nat
        BY <1>3, <1>5, <2>2
      <3>2. Written(e)
        <4> SUFFICES ASSUME ~ Written(e) PROVE FALSE
          OBVIOUS
        <4>1. created_at'[e] = 1 + n
          BY <1>3
        <4> HIDE DEF n
        <4> QED  BY <1>4, <3>1, <4>1
      <3>3. created_at[e] < created_at[f]
        BY <1>3, <3>1, <3>2
      <3> QED  BY <1>0, <1>2, <3>2, <3>3 DEF OldestFirst, Told, relay
    <2> QED  BY <2>1, <2>2
  <1> HIDE DEF n
  <1>9. \A e \in Rows : Written(e)' => created_at'[e] =< n'
    <2> SUFFICES ASSUME NEW e \in Rows, Written(e)' PROVE created_at'[e] =< n'
      OBVIOUS
    <2>1. CASE Written(e)
      BY <1>3, <1>4, <1>5, <2>1
    <2>2. CASE ~ Written(e)
      BY <1>3, <1>4, <2>2
    <2> QED  BY <2>1, <2>2
  <1>10. ASSUME NEW e \in Rows, NEW f \in Rows, Written(e), Written(f)',
                Written(f) => created_at[e] < created_at[f]
         PROVE  created_at'[e] < created_at'[f]
    <2>1. CASE Written(f)
      BY <1>3, <1>10, <2>1
    <2>2. CASE ~ Written(f)
      BY <1>3, <1>4, <1>5, <1>10, <2>2
    <2> QED  BY <2>1, <2>2
  <1>11. ASSUME NEW p \in Payments, Written(<<p, 2>>)'
         PROVE  created_at'[<<p, 1>>] < created_at'[<<p, 2>>]
    <2>1. <<p, 1>> \in Rows /\ <<p, 2>> \in Rows
      BY DEF Rows
    <2>2. Written(<<p, 2>>) => created_at[<<p, 1>>] < created_at[<<p, 2>>]
      BY <1>0 DEF Stamped
    <2>3. Written(<<p, 1>>)
      BY <1>1, <1>11
    <2> QED  BY <1>10, <1>11, <2>1, <2>2, <2>3
  <1>12. ASSUME NEW r \in RefundKeys, refunds'[r] # None
         PROVE  /\ status'[refunds'[r].payment] \in Paid
                /\ created_at'[<<refunds'[r].payment, 2>>] < created_at'[<<r, 1>>]
    <2> DEFINE p == refunds'[r].payment
    <2>1. p \in Payments
      BY <1>1, <1>12 DEF IInv, TypeOK
    <2>2. <<p, 2>> \in Rows /\ <<r, 1>> \in Rows
      BY <2>1 DEF Rows
    <2>3. status[p] \in Paid
      BY <1>0, <1>12, RefundsFollowSuccess DEF Stamped, Paid
    <2>4. Written(<<r, 1>>)' /\ Written(<<p, 2>>) /\ status'[p] \in Paid
      BY <1>1, <1>12, <2>1, <2>3
    <2>5. Written(<<r, 1>>) => created_at[<<p, 2>>] < created_at[<<r, 1>>]
      <3> SUFFICES ASSUME Written(<<r, 1>>) PROVE created_at[<<p, 2>>] < created_at[<<r, 1>>]
        OBVIOUS
      <3>1. refunds[r] # None
        BY <1>0, RowsAreTrue DEF RowsTell
      <3>2. refunds'[r] = refunds[r]
        BY <1>0, <3>1, RefundsFollowSuccess
      <3> QED  BY <1>0, <3>1, <3>2 DEF Stamped
    <2> HIDE DEF p
    <2> QED  BY <1>10, <2>2, <2>4, <2>5 DEF p
  <1>13. Stamped'
    BY <1>9, <1>11, <1>12 DEF Stamped, n
  <1> QED  BY <1>1, <1>6, <1>7, <1>8, <1>13 DEF PipelineInv

-------------------------------------------------------------------------------
(* The relay. *)

\* Rows, stamps and the engine's state stay as they are in a step of the relay.
LEMMA RelayLeaves ==
    ASSUME IInv, Stamped, UNCHANGED <<vars, created_at>>
    PROVE  /\ IInv' /\ Stamped'
           /\ \A e \in Rows : Written(e)' <=> Written(e)
  <1>1. UNCHANGED <<outbox, status, refunds>> /\ UNCHANGED vars
    BY DEF vars, row, books
  <1>2. \A e \in Rows : Written(e)' <=> Written(e)
    BY <1>1 DEF Written
  <1>3. WrittenRows' = WrittenRows
    BY <1>2 DEF WrittenRows
  <1>4. Cardinality(WrittenRows)' = Cardinality(WrittenRows)
    BY <1>3
  <1>5. \A p \in Payments : Written(<<p, 2>>)' <=> Written(<<p, 2>>)
    BY <1>1 DEF Written
  <1>6. Stamped'
    BY <1>1, <1>2, <1>4, <1>5 DEF Stamped
  <1>7. IInv'
    BY <1>1, NextIInv
  <1> QED  BY <1>2, <1>6, <1>7

\* The one relay takes the oldest rows that are not marked: nobody else has
\* locked any.
LEMMA DrainKeeps ==
    ASSUME PipelineInv, OneRelay, NEW r \in Relays, UNCHANGED vars, Relay!drain_batch(r)
    PROVE  PipelineInv'
  <1> DEFINE S == {e \in Rows : Relay!Selectable(e)}
  <1>0. IInv /\ RelayTypes /\ Delivered /\ Stamped /\ OldestFirst
    BY DEF PipelineInv
  <1>1. /\ Relay!Idle(r)
        /\ UNCHANGED <<created_at, published_at, ready, published>>
    BY DEF Relay!drain_batch
  <1>2. PICK B \in SUBSET S :
           /\ Relay!Oldest(S, B)
           /\ events' = [events EXCEPT ![r] = B]
           /\ holder' = [e \in Rows |-> IF e \in B THEN r ELSE holder[e]]
    BY DEF Relay!drain_batch
  <1>3. IInv' /\ Stamped' /\ \A e \in Rows : Written(e)' <=> Written(e)
    BY <1>0, <1>1, RelayLeaves
  <1>4. \A e \in Rows : holder[e] = Nobody
    BY <1>0, <1>1 DEF Relay!Idle, Relay!Held, RelayTypes, OneRelay
  <1>5. \A e \in Rows : e \in S <=> Written(e) /\ e \notin published_at
    BY <1>4 DEF Relay!Selectable, Relay!Committed
  <1>6. \A e \in B, f \in S \ B : created_at[e] =< created_at[f]
    BY <1>2 DEF Relay!Oldest, Relay!InOrder
  <1>7. B \subseteq Rows /\ \A e \in B : Written(e)
    BY <1>2, <1>5
  <1> HIDE DEF S
  <1>8. \A e \in Rows : holder'[e] = IF e \in B THEN r ELSE Nobody
    BY <1>2, <1>4
  <1>9. \A q \in Relays : q = r
    BY DEF OneRelay
  <1>10. events'[r] = B
    BY <1>0, <1>2 DEF RelayTypes
  <1>11. RelayTypes'
    BY <1>0, <1>1, <1>2, <1>7, <1>8, <1>9, <1>10 DEF RelayTypes
  <1>12. Delivered'
    <2>1. \A e \in Rows : Told(e)' <=> Told(e)
      BY <1>1 DEF Told
    <2>2. r \notin ready'
      BY <1>0, <1>1, <1>4, PipelineAssumption DEF Delivered, RelayTypes
    <2>3. ready' = {}
      BY <1>0, <1>1, <1>9, <2>2 DEF RelayTypes
    <2>4. ASSUME NEW e \in Rows
          PROVE  /\ holder'[e] # Nobody \/ Told(e)' => Written(e)'
                 /\ e \in published_at' => Told(e)'
                 /\ \A q \in Relays : holder'[e] = q /\ e \notin events'[q] => Told(e)'
      BY <1>0, <1>1, <1>3, <1>7, <1>8, <1>9, <1>10, <2>1, PipelineAssumption DEF Delivered
    <2> QED  BY <2>3, <2>4 DEF Delivered
  <1>13. OldestFirst'
    <2> SUFFICES ASSUME NEW e \in Rows, NEW f \in Rows, Written(e)', created_at'[e] < created_at'[f]
                 PROVE  /\ Told(f)' => Told(e)'
                        /\ holder'[f] # Nobody => e \in published_at' \/ holder'[e] = holder'[f]
      BY DEF OldestFirst
    <2>1. Told(f)' => Told(e)'
      BY <1>0, <1>1, <1>3 DEF OldestFirst, Told
    <2>2. ASSUME holder'[f] # Nobody, e \notin published_at
          PROVE  holder'[e] = holder'[f]
      <3>1. f \in B /\ e \in S
        BY <1>3, <1>5, <1>8, <2>2
      <3>2. created_at[e] \in Nat /\ created_at[f] \in Nat /\ created_at[e] < created_at[f]
        BY <1>0, <1>1 DEF RelayTypes
      <3>3. e \in B
        BY <1>6, <3>1, <3>2
      <3> QED  BY <1>8, <3>1, <3>3
    <2> QED  BY <1>1, <2>1, <2>2
  <1> QED  BY <1>3, <1>11, <1>12, <1>13 DEF PipelineInv

\* The oldest row of the batch is told when all older ones have been.
LEMMA PublishKeeps ==
    ASSUME PipelineInv, OneRelay, NEW r \in Relays, UNCHANGED vars, Relay!Publish(r)
    PROVE  PipelineInv'
  <1>0. IInv /\ RelayTypes /\ Delivered /\ Stamped /\ OldestFirst
    BY DEF PipelineInv
  <1>1. PICK e \in events[r] :
           /\ \A f \in events[r] : Relay!InOrder(e, f)
           /\ events' = [events EXCEPT ![r] = @ \ {e}]
           /\ published' = [published EXCEPT ![e] = @ + 1]
           /\ ready' = IF events[r] = {e} THEN ready \cup {r} ELSE ready
           /\ UNCHANGED <<created_at, published_at, holder>>
    BY DEF Relay!Publish
  <1>2. IInv' /\ Stamped' /\ \A f \in Rows : Written(f)' <=> Written(f)
    BY <1>0, <1>1, RelayLeaves
  <1>3. e \in Rows /\ holder[e] = r /\ events[r] \subseteq Rows
    BY <1>0, <1>1 DEF RelayTypes
  <1>4. \A q \in Relays : q = r
    BY DEF OneRelay
  <1>5. events'[r] = events[r] \ {e}
    BY <1>0, <1>1 DEF RelayTypes
  <1>6. published' \in [Rows -> Nat] /\ Told(e)' /\ \A f \in Rows : Told(f) => Told(f)'
    BY <1>0, <1>1, <1>3 DEF RelayTypes, Told
  <1>7. \A f \in Rows : f # e => (Told(f)' <=> Told(f))
    BY <1>0, <1>1, <1>3 DEF RelayTypes, Told
  <1>8. RelayTypes'
    BY <1>0, <1>1, <1>3, <1>4, <1>5, <1>6 DEF RelayTypes
  <1>9. Delivered'
    <2>1. ASSUME NEW f \in Rows
          PROVE  /\ holder'[f] # Nobody \/ Told(f)' => Written(f)'
                 /\ f \in published_at' => Told(f)'
                 /\ \A q \in Relays : holder'[f] = q /\ f \notin events'[q] => Told(f)'
      BY <1>0, <1>1, <1>2, <1>3, <1>4, <1>5, <1>6, <1>7, PipelineAssumption DEF Delivered
    <2>2. ASSUME NEW q \in ready'
          PROVE  events'[q] = {} /\ \E f \in Rows : holder'[f] = q
      <3>1. q = r
        BY <1>0, <1>1, <1>4, <2>2 DEF RelayTypes
      <3>2. events[r] = {e}
        BY <1>0, <1>1, <2>2, <3>1 DEF Delivered
      <3> QED  BY <1>1, <1>3, <1>5, <3>1, <3>2
    <2> QED  BY <2>1, <2>2 DEF Delivered
  <1>10. OldestFirst'
    <2> SUFFICES ASSUME NEW d \in Rows, NEW f \in Rows, Written(d)', created_at'[d] < created_at'[f]
                 PROVE  /\ Told(f)' => Told(d)'
                        /\ holder'[f] # Nobody => d \in published_at' \/ holder'[d] = holder'[f]
      BY DEF OldestFirst
    <2>1. created_at[d] < created_at[f] /\ Written(d)
      BY <1>1, <1>2
    <2>2. CASE f # e
      BY <1>0, <1>1, <1>6, <1>7, <2>1, <2>2 DEF OldestFirst
    <2>3. CASE f = e
      <3>1. d \in published_at \/ holder[d] = r
        BY <1>0, <1>3, <2>1, <2>3, PipelineAssumption DEF OldestFirst
      <3>2. d \notin events[r]
        <4> SUFFICES ASSUME d \in events[r] PROVE FALSE
          OBVIOUS
        <4>1. created_at[e] =< created_at[d]
          BY <1>1 DEF Relay!InOrder
        <4> QED  BY <1>0, <1>3, <2>1, <2>3, <4>1 DEF RelayTypes
      <3>3. Told(d)
        BY <1>0, <3>1, <3>2 DEF Delivered
      <3> QED  BY <1>1, <1>3, <1>6, <2>3, <3>1, <3>3
    <2> QED  BY <2>2, <2>3
  <1> QED  BY <1>2, <1>8, <1>9, <1>10 DEF PipelineInv

\* The batch of the one relay ends: no row stays locked, and what was told or
\* marked stays so.
LEMMA ReleaseKeeps ==
    ASSUME PipelineInv, OneRelay, NEW r \in Relays, UNCHANGED <<vars, created_at, published>>,
           Relay!Release(r), published_at' \in SUBSET Rows,
           published_at \subseteq published_at', \A e \in published_at' : Told(e)
    PROVE  PipelineInv'
  <1>0. IInv /\ RelayTypes /\ Delivered /\ Stamped /\ OldestFirst
    BY DEF PipelineInv
  <1>1. IInv' /\ Stamped' /\ \A f \in Rows : Written(f)' <=> Written(f)
    BY <1>0, RelayLeaves
  <1>2. \A q \in Relays : q = r
    BY DEF OneRelay
  <1>3. holder' = [e \in Rows |-> Nobody]
    <2>1. holder' = [e \in Rows |-> IF holder[e] = r THEN Nobody ELSE holder[e]]
      BY DEF Relay!Release, Relay!Unlocked
    <2>2. \A e \in Rows : holder[e] = r \/ holder[e] = Nobody
      BY <1>0, <1>2 DEF RelayTypes
    <2> QED  BY <2>1, <2>2
  <1>4. ready' = {} /\ events' = [events EXCEPT ![r] = {}]
    BY <1>0, <1>2 DEF Relay!Release, RelayTypes
  <1>5. RelayTypes'
    BY <1>0, <1>2, <1>3, <1>4 DEF RelayTypes
  <1>6. \A e \in Rows : Told(e)' <=> Told(e)
    BY DEF Told
  <1>7. Delivered'
    BY <1>0, <1>1, <1>3, <1>4, <1>6, PipelineAssumption DEF Delivered
  <1>8. OldestFirst'
    BY <1>0, <1>1, <1>3, <1>6 DEF OldestFirst
  <1> QED  BY <1>1, <1>5, <1>7, <1>8 DEF PipelineInv

\* Every step of the pipeline keeps the inductive invariant.
LEMMA PipelineKeeps ==
    ASSUME PipelineInv, OneRelay, [PipelineNext]_pipe
    PROVE  PipelineInv'
  <1>0. IInv /\ RelayTypes /\ Delivered /\ Stamped /\ OldestFirst
    BY DEF PipelineInv
  <1>1. CASE EngineStep
    BY <1>1, EngineKeeps
  <1>2. ASSUME NEW r \in Relays, UNCHANGED vars, Relay!CommitBatch(r)
        PROVE  PipelineInv'
    <2>1. /\ r \in ready /\ Relay!Release(r)
          /\ published_at' = published_at \cup Relay!Held(r)
          /\ UNCHANGED <<vars, created_at, published>>
      BY <1>2 DEF Relay!CommitBatch, Relay!Drained
    <2>2. Relay!Held(r) \subseteq Rows /\ \A e \in Relay!Held(r) : Told(e)
      BY <1>0, <2>1 DEF Relay!Held, Delivered
    <2>3. published_at \subseteq Rows /\ \A e \in published_at : Told(e)
      BY <1>0 DEF RelayTypes, Delivered
    <2> QED  BY <2>1, <2>2, <2>3, ReleaseKeeps
  <1>3. ASSUME NEW r \in Relays, UNCHANGED vars, Relay!Lose(r)
        PROVE  PipelineInv'
    <2>1. Relay!Release(r) /\ UNCHANGED <<vars, created_at, published, published_at>>
      BY <1>3 DEF Relay!Lose
    <2>2. published_at \subseteq Rows /\ \A e \in published_at : Told(e)
      BY <1>0 DEF RelayTypes, Delivered
    <2> QED  BY <2>1, <2>2, ReleaseKeeps
  <1>4. ASSUME UNCHANGED <<vars, created_at, published_at, holder, events, ready, published>>
        PROVE  PipelineInv'
    <2>1. IInv' /\ Stamped' /\ \A e \in Rows : Written(e)' <=> Written(e)
      BY <1>0, <1>4, RelayLeaves
    <2>2. RelayTypes'
      BY <1>0, <1>4 DEF RelayTypes
    <2>3. Delivered' /\ OldestFirst'
      BY <1>0, <1>4, <2>1 DEF Delivered, OldestFirst, Told
    <2> QED  BY <2>1, <2>2, <2>3 DEF PipelineInv
  <1>5. ASSUME NEW r \in Relays, RelayRuns(r)
        PROVE  PipelineInv'
    BY <1>2, <1>5, DrainKeeps, PublishKeeps DEF RelayRuns, Relay!run_loop
  <1>6. ASSUME NEW r \in Relays, RelayDisturbed(r)
        PROVE  PipelineInv'
    <2>1. CASE Relay!BatchFails(r) \/ Relay!Killed(r)
      BY <1>3, <1>6, <2>1 DEF RelayDisturbed, Relay!BatchFails, Relay!Killed
    <2>2. CASE Relay!Restart(r)
      BY <1>4, <1>6, <2>2 DEF RelayDisturbed, Relay!Restart
    <2> QED  BY <1>6, <2>1, <2>2 DEF RelayDisturbed
  <1>7. CASE UNCHANGED pipe
    BY <1>4, <1>7 DEF pipe, relay
  <1> QED  BY <1>1, <1>5, <1>6, <1>7 DEF PipelineNext

\* The empty database and the idle relay satisfy the inductive invariant.
LEMMA InitPipeline == PipelineInit => PipelineInv
  <1> SUFFICES ASSUME PipelineInit PROVE PipelineInv
    OBVIOUS
  <1>1. Init /\ Relay!Init /\ IInv
    BY InitIInv DEF PipelineInit
  <1>2. RelayTypes
    BY <1>1 DEF Relay!Init, RelayTypes
  <1>3. \A e \in Rows : ~ Told(e) /\ holder[e] = Nobody
    BY <1>1 DEF Relay!Init, Told
  <1>4. Delivered /\ OldestFirst
    BY <1>1, <1>3, PipelineAssumption DEF Relay!Init, Delivered, OldestFirst
  <1>5. \A e \in Rows : ~ Written(e)
    <2>1. \A p \in Payments : status[p] = "none"
      BY <1>1 DEF Init
    <2>2. \A p \in Payments : ~ Written(<<p, 1>>) /\ ~ Written(<<p, 2>>)
      BY <1>1, <2>1, RowsAreTrue DEF RowsTell, Paid
    <2>3. \A r \in RefundKeys : ~ Written(<<r, 1>>)
      BY <1>1, RowsAreTrue DEF RowsTell, Init
    <2>4. ASSUME NEW e \in Rows
          PROVE  ~ Written(e)
      <3>1. CASE \E p \in Payments : e = <<p, 1>> \/ e = <<p, 2>>
        BY <2>2, <3>1
      <3>2. CASE \E r \in RefundKeys : e = <<r, 1>>
        BY <2>3, <3>2
      <3> QED  BY <3>1, <3>2 DEF Rows
    <2> QED  BY <2>4
  <1>6. \A p \in Payments : ~ Written(<<p, 2>>)
    BY <1>5 DEF Rows
  <1>7. \A r \in RefundKeys : refunds[r] = None
    BY <1>1 DEF Init
  <1>8. Stamped
    BY <1>5, <1>6, <1>7 DEF Stamped
  <1> QED  BY <1>1, <1>2, <1>4, <1>8 DEF PipelineInv

\* With one relay a consumer is never misled: no success or failure before the
\* payment itself, no refund before the success of its payment, and nothing the
\* payment has not become, for any number of payments and refunds, any batch
\* size and any failures of the relay between publishing and marking.
THEOREM ConsumersAreNeverMisled ==
    ASSUME OneRelay
    PROVE  PipelineSpec => []StreamTellsTheStory
  <1>1. PipelineInv => StreamTellsTheStory
    <2> SUFFICES ASSUME PipelineInv PROVE StreamTellsTheStory
      OBVIOUS
    <2>0. IInv /\ Delivered /\ Stamped /\ OldestFirst /\ RowsTell
      BY RowsAreTrue DEF PipelineInv
    <2>1. ASSUME NEW p \in Payments, Told(<<p, 2>>)
          PROVE  Told(<<p, 1>>) /\ status[p] \in Paid \cup {"FAILED"}
      <3>1. <<p, 1>> \in Rows /\ <<p, 2>> \in Rows
        BY DEF Rows
      <3>2. Written(<<p, 2>>)
        BY <2>0, <2>1, <3>1 DEF Delivered
      <3>3. status[p] \in Paid \cup {"FAILED"}
        BY <2>0, <3>2 DEF RowsTell
      <3>4. Written(<<p, 1>>)
        BY <2>0, <3>3 DEF RowsTell, Paid
      <3>5. created_at[<<p, 1>>] < created_at[<<p, 2>>]
        BY <2>0, <3>2 DEF Stamped
      <3> QED  BY <2>0, <2>1, <3>1, <3>3, <3>4, <3>5 DEF OldestFirst
    <2>2. ASSUME NEW r \in RefundKeys, Told(<<r, 1>>)
          PROVE  refunds[r] # None /\ status[refunds[r].payment] \in Paid
                    /\ Told(<<refunds[r].payment, 2>>)
      <3> DEFINE p == refunds[r].payment
      <3>1. <<r, 1>> \in Rows
        BY DEF Rows
      <3>2. refunds[r] # None
        BY <2>0, <2>2, <3>1 DEF Delivered, RowsTell
      <3>3. p \in Payments /\ status[p] \in Paid
        BY <2>0, <3>2 DEF Stamped, IInv, TypeOK
      <3>4. <<p, 2>> \in Rows /\ Written(<<p, 2>>)
        BY <2>0, <3>3 DEF Rows, RowsTell
      <3>5. created_at[<<p, 2>>] < created_at[<<r, 1>>]
        BY <2>0, <3>2 DEF Stamped
      <3> HIDE DEF p
      <3>6. Told(<<p, 2>>)
        BY <2>0, <2>2, <3>1, <3>4, <3>5 DEF OldestFirst
      <3> QED  BY <3>2, <3>3, <3>6 DEF p
    <2> QED  BY <2>1, <2>2 DEF StreamTellsTheStory
  <1>2. PipelineInv /\ [PipelineNext]_pipe => PipelineInv'
    BY PipelineKeeps
  <1> QED  BY <1>1, <1>2, InitPipeline, PTL DEF PipelineSpec
===============================================================================
