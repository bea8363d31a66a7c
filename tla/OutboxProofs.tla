----------------------------- MODULE OutboxProofs -----------------------------
(***************************************************************************)
(* Proofs about Outbox for any number of events, relays and failures.      *)
(***************************************************************************)
EXTENDS Outbox, FiniteSetTheorems, TLAPS

\* A locked row is committed and not yet marked.
LockedRows == \A e \in Events : holder[e] \in Relays => Committed(e) /\ e \notin published_at

\* A relay that is ready to commit has a batch and has published all of it.
ReadyBatches ==
    \A r \in Relays : r \in ready =>
        /\ \A e \in Events : e \notin events[r]
        /\ \E e \in Events : holder[e] = r

\* The copy of an event that the sink has seen from a batch still open.
InFlight(e) == holder[e] \in Relays /\ e \notin events[holder[e]]

\* Where each copy at the sink comes from: one copy per failed batch, and one
\* more if the event is marked or its batch has just published it.
Accounted ==
    \A e \in Events :
        /\ InFlight(e) => published[e] > 0
        /\ e \in published_at \/ InFlight(e) => published[e] =< 1 + failures
        /\ ~ (e \in published_at \/ InFlight(e)) => published[e] =< failures

\* The inductive invariant.
IInv ==
    /\ TypeOK
    /\ LockedRows
    /\ ReadyBatches
    /\ Accounted
    /\ MarkedMeansPublished
-------------------------------------------------------------------------------
\* Writing a number in a table of numbers.
LEMMA PutNat ==
    ASSUME NEW S, NEW f \in [S -> Nat], NEW x \in S, NEW v \in Nat
    PROVE  [f EXCEPT ![x] = v] \in [S -> Nat]
  OBVIOUS

\* The empty outbox satisfies the inductive invariant.
LEMMA InitIInv == Init => IInv
  <1> SUFFICES ASSUME Init PROVE IInv
    OBVIOUS
  <1> USE OutboxAssumption DEF Init
  <1>1. TypeOK
    BY DEF TypeOK
  <1>2. LockedRows /\ ReadyBatches /\ Accounted
    BY DEF LockedRows, ReadyBatches, Accounted, InFlight
  <1>3. MarkedMeansPublished
    BY DEF MarkedMeansPublished
  <1> QED  BY <1>1, <1>2, <1>3 DEF IInv

\* A new row is neither locked nor published.
LEMMA AddIInv ==
    ASSUME IInv, NEW e \in Events, Add(e)
    PROVE  IInv'
  <1> USE DEF Add
  <1>0. TypeOK
    BY DEF IInv
  <1>1. Cardinality({f \in Events : written[f] # "no"}) \in Nat
    <2>1. IsFiniteSet({f \in Events : written[f] # "no"})
      BY FS_Subset, OutboxAssumption
    <2> QED  BY <2>1, FS_CardinalityType
  <1>2. TypeOK'
    <2>1. PICK n \in Nat : created_at' = [created_at EXCEPT ![e] = 1 + n]
      BY <1>1
    <2>2. created_at' \in [Events -> Nat]
      <3>1. created_at \in [Events -> Nat]
        BY <1>0 DEF TypeOK
      <3>2. 1 + n \in Nat
        OBVIOUS
      <3> QED  BY <2>1, <3>1, <3>2, PutNat
    <2>3. written' \in [Events -> {"no", "open", "committed", "rolled back"}]
      BY <1>0 DEF TypeOK
    <2> QED  BY <1>0, <2>2, <2>3 DEF TypeOK
  <1>3. LockedRows'
    BY <1>0 DEF IInv, TypeOK, LockedRows, Committed
  <1>4. Accounted' /\ ReadyBatches' /\ MarkedMeansPublished'
    BY DEF IInv, Accounted, InFlight, ReadyBatches, MarkedMeansPublished
  <1> QED  BY <1>2, <1>3, <1>4 DEF IInv

\* A transaction that ends was open: its row is not locked or published.
LEMMA EndIInv ==
    ASSUME IInv, NEW e \in Events, NEW how \in {"committed", "rolled back"}, End(e, how)
    PROVE  IInv'
  <1> USE DEF End
  <1>0. TypeOK
    BY DEF IInv
  <1>1. TypeOK'
    BY <1>0 DEF TypeOK
  <1>2. LockedRows'
    BY <1>0 DEF IInv, TypeOK, LockedRows, Committed
  <1>3. Accounted' /\ ReadyBatches' /\ MarkedMeansPublished'
    BY DEF IInv, Accounted, InFlight, ReadyBatches, MarkedMeansPublished
  <1> QED  BY <1>1, <1>2, <1>3 DEF IInv

\* A batch consists of unlocked rows, none of them in flight.
LEMMA DrainIInv ==
    ASSUME IInv, NEW r \in Relays, drain_batch(r)
    PROVE  IInv'
  <1>0. TypeOK
    BY DEF IInv
  <1>1. PICK B \in SUBSET {e \in Events : Selectable(e)} :
           /\ events' = [events EXCEPT ![r] = B]
           /\ holder' = [e \in Events |-> IF e \in B THEN r ELSE holder[e]]
    BY DEF drain_batch
  <1>2. /\ Held(r) = {}
        /\ UNCHANGED <<written, created_at, published_at, ready, running, published, failures>>
    BY DEF drain_batch, Idle
  <1>3. \A e \in B : e \in Events /\ Committed(e) /\ e \notin published_at /\ holder[e] = Nobody
    BY DEF Selectable
  <1>4. \A q \in Relays : \A e \in events'[q] : holder'[e] = q
    BY <1>0, <1>1, <1>2, <1>3, OutboxAssumption DEF TypeOK
  <1>5. TypeOK'
    BY <1>0, <1>1, <1>2, <1>3, <1>4 DEF TypeOK
  <1>6. LockedRows'
    BY <1>0, <1>1, <1>2, <1>3 DEF IInv, LockedRows, Committed, TypeOK
  <1>7. ReadyBatches'
    <2>1. r \notin ready
      BY <1>2 DEF IInv, ReadyBatches, Held
    <2>2. ASSUME NEW q \in Relays, q \in ready
          PROVE  events'[q] = events[q] /\ \A e \in Events : holder[e] = q => holder'[e] = q
      BY <1>0, <1>1, <1>3, <2>1, <2>2, OutboxAssumption DEF TypeOK
    <2> QED  BY <1>2, <2>2 DEF IInv, ReadyBatches
  <1>8. \A e \in Events : InFlight(e)' => InFlight(e)
    <2> SUFFICES ASSUME NEW e \in Events, InFlight(e)' PROVE InFlight(e)
      OBVIOUS
    <2>1. e \notin B
      BY <1>0, <1>1 DEF InFlight, TypeOK
    <2>2. holder'[e] = holder[e] /\ holder[e] # r
      BY <1>1, <1>2, <2>1 DEF Held
    <2> QED  BY <1>0, <1>1, <2>2 DEF InFlight, TypeOK
  <1>9. \A e \in Events : InFlight(e) => InFlight(e)'
    <2> SUFFICES ASSUME NEW e \in Events, InFlight(e) PROVE InFlight(e)'
      OBVIOUS
    <2>1. e \notin B /\ holder[e] # r
      BY <1>2, <1>3, OutboxAssumption DEF InFlight, Held
    <2> QED  BY <1>0, <1>1, <2>1 DEF InFlight, TypeOK
  <1>10. Accounted'
    BY <1>2, <1>8, <1>9 DEF IInv, Accounted
  <1>11. MarkedMeansPublished'
    BY <1>2 DEF IInv, MarkedMeansPublished, Committed
  <1> QED  BY <1>5, <1>6, <1>7, <1>10, <1>11 DEF IInv

\* The published row was locked and not in flight; now it is.
LEMMA PublishIInv ==
    ASSUME IInv, NEW r \in Relays, Publish(r)
    PROVE  IInv'
  <1>0. TypeOK
    BY DEF IInv
  <1>1. PICK e \in events[r] :
           /\ events' = [events EXCEPT ![r] = @ \ {e}]
           /\ published' = [published EXCEPT ![e] = @ + 1]
           /\ ready' = IF events[r] = {e} THEN ready \cup {r} ELSE ready
           /\ UNCHANGED <<written, created_at, published_at, holder, running, failures>>
    BY DEF Publish, InOrder
  <1>2. e \in Events /\ holder[e] = r /\ Committed(e) /\ e \notin published_at /\ ~ InFlight(e)
    BY <1>0 DEF IInv, TypeOK, Held, LockedRows, InFlight
  <1>3. published[e] \in Nat /\ published[e] =< failures
    BY <1>0, <1>2 DEF IInv, TypeOK, Accounted
  <1>4. TypeOK'
    <2>1. published' \in [Events -> Nat]
      <3>1. published \in [Events -> Nat]
        BY <1>0 DEF TypeOK
      <3>2. published[e] + 1 \in Nat
        BY <1>3
      <3> QED  BY <1>1, <1>2, <3>1, <3>2, PutNat
    <2>2. /\ events' \in [Relays -> SUBSET Events]
          /\ \A q \in Relays : \A f \in events'[q] : holder'[f] = q
          /\ ready' \subseteq Relays
      BY <1>0, <1>1 DEF TypeOK
    <2> QED  BY <1>0, <1>1, <2>1, <2>2 DEF TypeOK
  <1>5. LockedRows'
    BY <1>1 DEF IInv, LockedRows, Committed
  <1>6. ReadyBatches'
    BY <1>0, <1>1, <1>2 DEF IInv, ReadyBatches, TypeOK, Held
  <1>7. Accounted'
    <2> SUFFICES ASSUME NEW f \in Events
                 PROVE  /\ InFlight(f)' => published'[f] > 0
                        /\ f \in published_at' \/ InFlight(f)' => published'[f] =< 1 + failures'
                        /\ ~ (f \in published_at' \/ InFlight(f)') => published'[f] =< failures'
      BY DEF Accounted
    <2>1. CASE f = e
      <3>1. InFlight(e)'
        BY <1>0, <1>1, <1>2 DEF InFlight, TypeOK
      <3>2. published'[e] = published[e] + 1 /\ failures' = failures /\ failures \in Nat
        BY <1>0, <1>1, <1>2 DEF TypeOK
      <3> QED  BY <1>3, <2>1, <3>1, <3>2
    <2>2. CASE f # e
      <3>1. InFlight(f)' <=> InFlight(f)
        BY <1>0, <1>1, <2>2 DEF InFlight, TypeOK
      <3>2. published'[f] = published[f]
        BY <1>0, <1>1, <2>2 DEF TypeOK
      <3> QED  BY <1>1, <3>1, <3>2 DEF IInv, Accounted
    <2> QED  BY <2>1, <2>2
  <1>8. MarkedMeansPublished'
    BY <1>0, <1>1, <1>2, <1>3 DEF IInv, MarkedMeansPublished, TypeOK
  <1> QED  BY <1>4, <1>5, <1>6, <1>7, <1>8 DEF IInv

\* What the end of a batch does to the rows of the relay and of the others.
LEMMA ReleaseRows ==
    ASSUME TypeOK, NEW r \in Relays, Release(r)
    PROVE  /\ holder' \in [Events -> Relays \cup {Nobody}]
           /\ events' \in [Relays -> SUBSET Events]
           /\ \A q \in Relays : \A e \in events'[q] : holder'[e] = q
           /\ ready' \subseteq Relays
           /\ \A e \in Events :
                 /\ holder'[e] \in Relays => holder'[e] = holder[e] /\ holder[e] # r
                 /\ InFlight(e)' <=> InFlight(e) /\ holder[e] # r
           /\ \A q \in ready' : q # r /\ q \in ready /\ events'[q] = events[q]
           /\ \A e \in Events, q \in Relays : q # r /\ holder[e] = q => holder'[e] = q
  <1> USE OutboxAssumption DEF Release, Unlocked, TypeOK, Held
  <1>1. /\ holder' \in [Events -> Relays \cup {Nobody}]
        /\ events' \in [Relays -> SUBSET Events]
        /\ ready' \subseteq Relays
    OBVIOUS
  <1>2. \A q \in Relays : \A e \in events'[q] : holder'[e] = q
    OBVIOUS
  <1>3. \A e \in Events : holder'[e] \in Relays => holder'[e] = holder[e] /\ holder[e] # r
    OBVIOUS
  <1>4. \A e \in Events : InFlight(e)' <=> InFlight(e) /\ holder[e] # r
    BY DEF InFlight
  <1>5. \A q \in ready' : q # r /\ q \in ready /\ events'[q] = events[q]
    OBVIOUS
  <1>6. \A e \in Events, q \in Relays : q # r /\ holder[e] = q => holder'[e] = q
    OBVIOUS
  <1> QED  BY <1>1, <1>2, <1>3, <1>4, <1>5, <1>6

\* The rows of a batch that is committed were all in flight.
LEMMA CommitIInv ==
    ASSUME IInv, NEW r \in Relays, CommitBatch(r)
    PROVE  IInv'
  <1>0. /\ TypeOK /\ Release(r) /\ r \in ready /\ published_at' = published_at \cup Held(r)
        /\ UNCHANGED <<written, created_at, running, published, failures>>
    BY DEF IInv, CommitBatch, Drained
  <1>1. \A e \in Held(r) : e \in Events /\ InFlight(e)
    BY <1>0 DEF IInv, ReadyBatches, Held, InFlight
  <1>2. TypeOK'
    BY <1>0, <1>1, ReleaseRows DEF TypeOK
  <1>3. LockedRows'
    BY <1>0, ReleaseRows DEF IInv, LockedRows, Committed, Held
  <1>4. ReadyBatches'
    BY <1>0, ReleaseRows DEF IInv, ReadyBatches
  <1>5. Accounted'
    <2> SUFFICES ASSUME NEW e \in Events
                 PROVE  /\ InFlight(e)' => published'[e] > 0
                        /\ e \in published_at' \/ InFlight(e)' => published'[e] =< 1 + failures'
                        /\ ~ (e \in published_at' \/ InFlight(e)') => published'[e] =< failures'
      BY DEF Accounted
    <2>1. e \in published_at' \/ InFlight(e)' <=> e \in published_at \/ InFlight(e)
      BY <1>0, <1>1, ReleaseRows DEF Held
    <2>2. InFlight(e)' => InFlight(e)
      BY <1>0, ReleaseRows
    <2> QED  BY <1>0, <2>1, <2>2 DEF IInv, Accounted
  <1>6. MarkedMeansPublished'
    BY <1>0, <1>1 DEF IInv, MarkedMeansPublished, Accounted
  <1> QED  BY <1>2, <1>3, <1>4, <1>5, <1>6 DEF IInv

\* A failed batch turns copies in flight into copies owed to the failure.
LEMMA LoseIInv ==
    ASSUME IInv, NEW r \in Relays, Lose(r), running' \subseteq Relays
    PROVE  IInv'
  <1>0. /\ TypeOK /\ Release(r) /\ failures < MaxFailures /\ failures' = failures + 1
        /\ UNCHANGED <<written, created_at, published_at, published>>
    BY DEF IInv, Lose
  <1>1. failures \in Nat /\ failures' \in Nat /\ failures' = failures + 1
    <2>1. failures \in Nat
      BY <1>0 DEF TypeOK
    <2> QED  BY <1>0, <2>1
  <1>2. TypeOK'
    BY <1>0, <1>1, ReleaseRows DEF TypeOK
  <1>3. LockedRows'
    BY <1>0, ReleaseRows DEF IInv, LockedRows, Committed
  <1>4. ReadyBatches'
    BY <1>0, ReleaseRows DEF IInv, ReadyBatches
  <1>5. Accounted'
    <2> SUFFICES ASSUME NEW e \in Events
                 PROVE  /\ InFlight(e)' => published'[e] > 0
                        /\ e \in published_at' \/ InFlight(e)' => published'[e] =< 1 + failures'
                        /\ ~ (e \in published_at' \/ InFlight(e)') => published'[e] =< failures'
      BY DEF Accounted
    <2>1. InFlight(e)' => InFlight(e)
      BY <1>0, ReleaseRows
    <2>2. published[e] \in Nat /\ published[e] =< 1 + failures /\ (InFlight(e) => published[e] > 0)
      <3>1. published[e] \in Nat
        BY <1>0 DEF TypeOK
      <3> QED  BY <1>1, <3>1 DEF IInv, Accounted
    <2> QED  BY <1>0, <1>1, <2>1, <2>2
  <1>6. MarkedMeansPublished'
    BY <1>0 DEF IInv, MarkedMeansPublished, Committed
  <1> QED  BY <1>2, <1>3, <1>4, <1>5, <1>6 DEF IInv

\* Steps that change no row.
LEMMA QuietIInv ==
    ASSUME IInv, running' \subseteq Relays,
           UNCHANGED <<written, created_at, published_at, holder, events, ready, published, failures>>
    PROVE  IInv'
  <1>1. TypeOK'
    BY DEF IInv, TypeOK
  <1>2. LockedRows' /\ ReadyBatches' /\ Accounted'
    BY DEF IInv, LockedRows, ReadyBatches, Accounted, InFlight, Committed
  <1>3. MarkedMeansPublished'
    BY DEF IInv, MarkedMeansPublished, Committed
  <1> QED  BY <1>1, <1>2, <1>3 DEF IInv

\* Every step of the outbox preserves the inductive invariant.
LEMMA NextIInv == IInv /\ [Next]_vars => IInv'
  <1> SUFFICES ASSUME IInv, [Next]_vars PROVE IInv'
    OBVIOUS
  <1>0. running \subseteq Relays
    BY DEF IInv, TypeOK
  <1>1. ASSUME NEW e \in Events, Add(e) PROVE IInv'
    BY <1>1, AddIInv
  <1>2. ASSUME NEW e \in Events, End(e, "committed") \/ End(e, "rolled back") PROVE IInv'
    BY <1>2, EndIInv
  <1>3. ASSUME NEW r \in Relays, run_loop(r) PROVE IInv'
    BY <1>3, DrainIInv, PublishIInv, CommitIInv DEF run_loop
  <1>4. ASSUME NEW r \in Relays, BatchFails(r) \/ Killed(r) PROVE IInv'
    BY <1>0, <1>4, LoseIInv DEF BatchFails, Killed
  <1>5. ASSUME NEW r \in Relays, Restart(r) PROVE IInv'
    BY <1>0, <1>5, QuietIInv DEF Restart
  <1>6. CASE UNCHANGED vars
    BY <1>0, <1>6, QuietIInv DEF vars
  <1> QED  BY <1>1, <1>2, <1>3, <1>4, <1>5, <1>6 DEF Next

\* At-least-once delivery.  Whatever fails and however many relays drain the
\* table, a marked event has been published, and copies beyond the first are
\* owed to failed batches.
THEOREM DeliveryIsSound ==
    Spec => [](TypeOK /\ MarkedMeansPublished /\ DuplicatesFromFailures)
  <1>1. IInv => TypeOK /\ MarkedMeansPublished /\ DuplicatesFromFailures
    <2> SUFFICES ASSUME IInv
                 PROVE  TypeOK /\ MarkedMeansPublished /\ DuplicatesFromFailures
      OBVIOUS
    <2>1. \A e \in Events : published[e] \in Nat /\ failures \in Nat
      BY OutboxAssumption DEF IInv, TypeOK
    <2>2. DuplicatesFromFailures
      BY <2>1 DEF IInv, Accounted, DuplicatesFromFailures
    <2> QED  BY <2>2 DEF IInv
  <1> QED  BY <1>1, InitIInv, NextIInv, PTL DEF Spec

-------------------------------------------------------------------------------
(***************************************************************************)
(* Order within an aggregate.  Rows of one payment are stamped one after   *)
(* another, and a batch holds no row without the older ones it found       *)
(* unlocked.                                                               *)
(***************************************************************************)

AddedRows == {e \in Events : written[e] # "no"}

\* A row is stamped after the one before it, which has committed.
Stamped ==
    \A e \in AddedRows :
        /\ created_at[e] =< Cardinality(AddedRows)
        /\ Earlier[e] \in Events => Committed(Earlier[e]) /\ created_at[Earlier[e]] < created_at[e]

\* How the row before e may still be unpublished once e is.
Overtaken(b) == Cardinality(Relays) > 1 /\ (holder[b] # Nobody \/ failures > 0)

\* A row that is locked or published while the one before it has not reached
\* the sink: both are in one batch, or two relays are at work.
Together ==
    \A e \in Events :
        LET b == Earlier[e]
        IN  b \in Events /\ published[b] = 0 =>
                /\ holder[e] \in Relays => holder[b] = holder[e] \/ Overtaken(b)
                /\ published[e] > 0 => Overtaken(b)

\* Two relays are more than one.
LEMMA TwoRelays ==
    ASSUME NEW q \in Relays, NEW r \in Relays, q # r
    PROVE  Cardinality(Relays) > 1
  <1>1. IsFiniteSet(Relays)
    BY OutboxAssumption
  <1>2. IsFiniteSet(Relays \ {q}) /\ Cardinality(Relays \ {q}) = Cardinality(Relays) - 1
    BY <1>1, FS_RemoveElement
  <1>3. Cardinality(Relays) \in Nat /\ Cardinality(Relays \ {q}) \in Nat
    BY <1>1, <1>2, FS_CardinalityType
  <1>4. Cardinality(Relays \ {q}) # 0
    BY <1>2, FS_EmptySet
  <1> QED  BY <1>2, <1>3, <1>4

\* A new row gets the highest stamp.
LEMMA AddStamped ==
    ASSUME TypeOK, Stamped, NEW x \in Events, Add(x)
    PROVE  Stamped'
  <1> DEFINE n == Cardinality(AddedRows)
  <1>1. /\ written[x] = "no" /\ (Earlier[x] \in Events => Committed(Earlier[x]))
        /\ written' = [written EXCEPT ![x] = "open"]
        /\ created_at' = [created_at EXCEPT ![x] = 1 + n]
    BY DEF Add, AddedRows
  <1>2. IsFiniteSet(AddedRows) /\ x \notin AddedRows
    BY <1>1, OutboxAssumption, FS_Subset DEF AddedRows
  <1>3. AddedRows' = AddedRows \cup {x}
    BY <1>1 DEF TypeOK, AddedRows
  <1>4. n \in Nat /\ Cardinality(AddedRows') = n + 1
    BY <1>2, <1>3, FS_CardinalityType, FS_AddElement
  <1> HIDE DEF n
  <1>5. \A e \in Events : e # x => created_at'[e] = created_at[e] /\ written'[e] = written[e]
    BY <1>1 DEF TypeOK
  <1>6. created_at'[x] = n + 1 /\ \A e \in Events : created_at[e] \in Nat
    <2>1. created_at \in [Events -> Nat]
      BY DEF TypeOK
    <2>2. 1 + n = n + 1
      BY <1>4
    <2> QED  BY <1>1, <2>1, <2>2
  <1> SUFFICES ASSUME NEW e \in AddedRows'
               PROVE  /\ created_at'[e] =< n + 1
                      /\ Earlier[e] \in Events =>
                            written'[Earlier[e]] = "committed" /\ created_at'[Earlier[e]] < created_at'[e]
    BY <1>4 DEF Stamped, Committed
  <1>7. CASE e = x
    <2>1. ASSUME Earlier[x] \in Events
          PROVE  written'[Earlier[x]] = "committed" /\ created_at'[Earlier[x]] < created_at'[x]
      <3>1. written[Earlier[x]] = "committed" /\ Earlier[x] # x /\ Earlier[x] \in AddedRows
        BY <1>1, <2>1 DEF Committed, AddedRows
      <3>2. created_at[Earlier[x]] =< n
        BY <3>1 DEF Stamped, n
      <3> QED  BY <1>4, <1>5, <1>6, <2>1, <3>1, <3>2
    <2> QED  BY <1>4, <1>6, <1>7, <2>1
  <1>8. CASE e # x
    <2>1. e \in AddedRows /\ e \in Events
      BY <1>3, <1>8 DEF AddedRows
    <2>2. /\ created_at[e] =< n
          /\ Earlier[e] \in Events => written[Earlier[e]] = "committed" /\ created_at[Earlier[e]] < created_at[e]
      BY <2>1 DEF Stamped, Committed, n
    <2>3. Earlier[e] \in Events => Earlier[e] # x
      BY <1>1, <2>2
    <2> QED  BY <1>4, <1>5, <1>6, <1>8, <2>1, <2>2, <2>3
  <1> QED  BY <1>7, <1>8

\* No other step touches a stamp or reopens a transaction.
LEMMA NextStamped == TypeOK /\ Stamped /\ [Next]_vars => Stamped'
  <1> SUFFICES ASSUME TypeOK, Stamped, [Next]_vars PROVE Stamped'
    OBVIOUS
  <1>1. ASSUME NEW x \in Events, NEW how \in {"committed", "rolled back"}, End(x, how)
        PROVE  Stamped'
    <2>1. AddedRows' = AddedRows
      BY <1>1 DEF End, AddedRows, TypeOK
    <2>2. \A e \in Events : Committed(e) => Committed(e)'
      BY <1>1 DEF End, Committed, TypeOK
    <2> QED  BY <1>1, <2>1, <2>2 DEF End, Stamped
  <1>2. ASSUME UNCHANGED <<written, created_at>>
        PROVE  Stamped'
    BY <1>2 DEF Stamped, AddedRows, Committed
  <1>3. ASSUME NEW r \in Relays, run_loop(r) \/ BatchFails(r) \/ Killed(r) \/ Restart(r)
        PROVE  UNCHANGED <<written, created_at>>
    BY <1>3 DEF run_loop, drain_batch, Publish, CommitBatch, BatchFails, Killed, Lose, Restart
  <1>4. CASE UNCHANGED vars
    BY <1>2, <1>4 DEF vars
  <1> QED  BY <1>1, <1>2, <1>3, <1>4, AddStamped DEF Next

\* A batch takes the row before along, unless another relay has it.
LEMMA DrainTogether ==
    ASSUME IInv, Stamped, Together, NEW r \in Relays, drain_batch(r)
    PROVE  Together'
  <1> DEFINE S == {e \in Events : Selectable(e)}
  <1>0. TypeOK
    BY DEF IInv
  <1>1. PICK B \in SUBSET S :
           /\ \A e \in B, f \in S \ B : InOrder(e, f)
           /\ holder' = [e \in Events |-> IF e \in B THEN r ELSE holder[e]]
    BY DEF drain_batch, Oldest
  <1>2. Held(r) = {} /\ UNCHANGED <<published, failures>>
    BY DEF drain_batch, Idle
  <1>3. \A b \in Events : Overtaken(b) => Overtaken(b)'
    BY <1>0, <1>1, <1>2, OutboxAssumption DEF Overtaken, TypeOK
  <1> SUFFICES ASSUME NEW e \in Events, Earlier[e] \in Events, published[Earlier[e]] = 0
               PROVE  /\ holder'[e] \in Relays => holder'[Earlier[e]] = holder'[e] \/ Overtaken(Earlier[e])'
                      /\ published[e] > 0 => Overtaken(Earlier[e])'
    BY <1>2 DEF Together
  <1> DEFINE b == Earlier[e]
  <1>4. b \in Events /\ published[b] = 0
    OBVIOUS
  <1>5. published[e] > 0 => Overtaken(b)'
    BY <1>3, <1>4 DEF Together
  <1>6. CASE e \in B
    <2>1. Committed(b) /\ created_at[b] < created_at[e]
      BY <1>4, <1>6 DEF Stamped, AddedRows, Selectable, Committed
    <2>2. b \notin published_at
      BY <1>4 DEF IInv, MarkedMeansPublished
    <2>3. CASE b \in B
      BY <1>1, <1>4, <1>5, <1>6, <2>3
    <2>4. CASE b \notin B
      <3>1. b \notin S
        <4>1. ~ InOrder(e, b)
          <5>1. e \in Events /\ created_at[b] \in Nat /\ created_at[e] \in Nat
            BY <1>0, <1>4 DEF TypeOK
          <5> HIDE DEF b
          <5> QED  BY <2>1, <5>1 DEF InOrder
        <4> QED  BY <1>1, <1>6, <2>4, <4>1
      <3>2. holder[b] # Nobody /\ holder[b] # r /\ holder[b] \in Relays
        BY <1>0, <1>2, <1>4, <2>1, <2>2, <3>1 DEF Selectable, Held, TypeOK
      <3>3. Overtaken(b)
        BY <3>2, TwoRelays DEF Overtaken
      <3> QED  BY <1>3, <1>4, <1>5, <3>3
    <2> QED  BY <2>3, <2>4
  <1>7. CASE e \notin B
    <2>1. holder'[e] = holder[e]
      BY <1>1, <1>7
    <2>2. holder[e] \in Relays /\ holder[b] = holder[e] => holder'[b] = holder[b]
      BY <1>1, <1>4, OutboxAssumption DEF Selectable
    <2> QED  BY <1>3, <1>4, <1>5, <2>1, <2>2 DEF Together
  <1> QED  BY <1>6, <1>7

\* The oldest row of the batch goes first, so the one before is not waiting
\* behind it.
LEMMA PublishTogether ==
    ASSUME IInv, Stamped, Together, NEW r \in Relays, Publish(r)
    PROVE  Together'
  <1>0. TypeOK
    BY DEF IInv
  <1>1. PICK x \in events[r] :
           /\ \A f \in events[r] : InOrder(x, f)
           /\ published' = [published EXCEPT ![x] = @ + 1]
           /\ UNCHANGED <<holder, failures>>
    BY DEF Publish
  <1>2. x \in Events /\ holder[x] = r /\ x \in AddedRows
    <2>1. x \in Events /\ holder[x] = r
      BY <1>0 DEF TypeOK
    <2> QED  BY <2>1 DEF IInv, LockedRows, Committed, AddedRows
  <1> SUFFICES ASSUME NEW e \in Events, Earlier[e] \in Events, published'[Earlier[e]] = 0
               PROVE  /\ holder[e] \in Relays => holder[Earlier[e]] = holder[e] \/ Overtaken(Earlier[e])
                      /\ published'[e] > 0 => Overtaken(Earlier[e])
    BY <1>1 DEF Together, Overtaken
  <1> DEFINE b == Earlier[e]
  <1>3. \A f \in Events : published[f] \in Nat /\ published'[f] = IF f = x THEN published[f] + 1 ELSE published[f]
    BY <1>0, <1>1, <1>2 DEF TypeOK
  <1>4. published[b] = 0 /\ b \in Events
    BY <1>3
  <1>5. CASE e = x
    <2>1. created_at[b] < created_at[x]
      BY <1>2, <1>4, <1>5 DEF Stamped
    <2>2. b \notin events[r]
      <3>1. created_at[b] \in Nat /\ created_at[x] \in Nat
        BY <1>0, <1>2, <1>4 DEF TypeOK
      <3> HIDE DEF b
      <3> QED  BY <1>1, <2>1, <3>1 DEF InOrder
    <2>3. holder[b] # r
      BY <1>4, <2>2 DEF IInv, Accounted, InFlight
    <2> QED  BY <1>2, <1>4, <1>5, <2>3 DEF Together
  <1>6. CASE e # x
    BY <1>3, <1>4, <1>6 DEF Together
  <1> QED  BY <1>5, <1>6

\* Rows of a batch that ends were published, or are owed to a failure.
LEMMA ReleaseTogether ==
    ASSUME IInv, Together, NEW r \in Relays, Release(r), UNCHANGED published,
           \/ UNCHANGED failures /\ \A e \in Events : holder[e] = r => published[e] > 0
           \/ failures' = failures + 1
    PROVE  Together'
  <1>0. TypeOK
    BY DEF IInv
  <1> SUFFICES ASSUME NEW e \in Events, Earlier[e] \in Events, published[Earlier[e]] = 0
               PROVE  /\ holder'[e] \in Relays => holder'[Earlier[e]] = holder'[e] \/ Overtaken(Earlier[e])'
                      /\ published[e] > 0 => Overtaken(Earlier[e])'
    BY DEF Together
  <1> DEFINE b == Earlier[e]
  <1>1. b \in Events /\ published[b] = 0 /\ failures \in Nat
    BY <1>0 DEF TypeOK
  <1>2. /\ holder'[e] \in Relays => holder'[e] = holder[e] /\ holder[e] # r
        /\ holder[b] # r => holder'[b] = holder[b]
    <2>1. \A f \in Events : holder'[f] = IF holder[f] = r THEN Nobody ELSE holder[f]
      BY DEF Release, Unlocked
    <2> HIDE DEF b
    <2> QED  BY <1>1, <2>1, OutboxAssumption
  <1>3. Overtaken(b) => Overtaken(b)'
    <2>1. CASE failures' = failures + 1
      BY <1>1, <2>1 DEF Overtaken
    <2>2. CASE UNCHANGED failures /\ \A f \in Events : holder[f] = r => published[f] > 0
      BY <1>1, <1>2, <2>2 DEF Overtaken
    <2> QED  BY <2>1, <2>2
  <1> QED  BY <1>1, <1>2, <1>3 DEF Together

\* Every step keeps rows of an aggregate together.
LEMMA NextTogether == IInv /\ Stamped /\ Together /\ [Next]_vars => Together'
  <1> SUFFICES ASSUME IInv, Stamped, Together, [Next]_vars PROVE Together'
    OBVIOUS
  <1>1. ASSUME UNCHANGED <<holder, published, failures>>
        PROVE  Together'
    BY <1>1 DEF Together, Overtaken
  <1>2. ASSUME NEW r \in Relays, CommitBatch(r)
        PROVE  Together'
    <2>1. Release(r) /\ r \in ready /\ UNCHANGED <<published, failures>>
      BY <1>2 DEF CommitBatch, Drained
    <2>2. \A e \in Events : holder[e] = r => published[e] > 0
      BY <2>1 DEF IInv, ReadyBatches, Accounted, InFlight
    <2> QED  BY <2>1, <2>2, ReleaseTogether
  <1>3. ASSUME NEW r \in Relays, Lose(r)
        PROVE  Together'
    BY <1>3, ReleaseTogether DEF Lose
  <1>4. ASSUME NEW r \in Relays, run_loop(r) \/ BatchFails(r) \/ Killed(r) \/ Restart(r)
        PROVE  Together'
    BY <1>1, <1>2, <1>3, <1>4, DrainTogether, PublishTogether DEF run_loop, BatchFails, Killed, Restart
  <1>5. ASSUME NEW e \in Events, Add(e) \/ End(e, "committed") \/ End(e, "rolled back")
        PROVE  Together'
    BY <1>1, <1>5 DEF Add, End
  <1>6. CASE UNCHANGED vars
    BY <1>1, <1>6 DEF vars
  <1> QED  BY <1>4, <1>5, <1>6 DEF Next

\* The events of a payment reach the sink for the first time in the order they
\* were written: without exception from one relay, whatever fails, and from
\* several unless another relay has the row before or a batch has failed.
THEOREM EventsKeepTheirOrder == Spec => []AggregateOrder
  <1>1. Init => Stamped /\ Together
    BY OutboxAssumption DEF Init, Stamped, AddedRows, Together
  <1>2. Together => AggregateOrder
    BY DEF Together, Overtaken, AggregateOrder
  <1>3. IInv => TypeOK
    BY DEF IInv
  <1> QED  BY <1>1, <1>2, <1>3, InitIInv, NextIInv, NextStamped, NextTogether, PTL DEF Spec
===============================================================================
