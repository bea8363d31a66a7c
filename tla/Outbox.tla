-------------------------------- MODULE Outbox --------------------------------
(***************************************************************************)
(* The outbox table and the relays that drain it (outbox_relay.py).        *)
(*                                                                         *)
(* A business transaction adds an event, then commits or rolls back.  A    *)
(* relay selects the oldest unpublished rows FOR UPDATE SKIP LOCKED in a   *)
(* transaction of its own, publishes them one by one and marks them with   *)
(* its commit.  Publishing cannot be undone: if the relay fails before the *)
(* commit, the marks are lost and what was published stays published.      *)
(***************************************************************************)
EXTENDS Integers, FiniteSets

CONSTANTS Events,       \* outbox rows
          Earlier,      \* the row written before it for the same payment
          First,        \* Earlier of a payment's first row
          Relays,       \* one run_loop per application process
          BatchSize,    \* LIMIT of the query
          MaxFailures,  \* bound: batches that fail
          Nobody        \* the holder of a row that is not locked

ASSUME OutboxAssumption ==
    /\ IsFiniteSet(Events) /\ First \notin Events
    /\ Earlier \in [Events -> Events \cup {First}]
    /\ BatchSize \in Nat \ {0} /\ MaxFailures \in Nat
    /\ IsFiniteSet(Relays) /\ Nobody \notin Relays

VARIABLES written,      \* state of the transaction that adds the row
          created_at,   \* the row's time stamp
          published_at, \* rows whose published_at is set, as committed
          holder,       \* the relay that has the row locked
          events,       \* rows of the relay's batch it has still to publish
          ready,        \* relays that have published their whole batch
          running,      \* relays whose loop runs
          published,    \* how often the sink has seen the event
          failures      \* batches that failed so far

vars == <<written, created_at, published_at, holder, events, ready, running, published, failures>>

Init ==
    /\ written = [e \in Events |-> "no"]
    /\ created_at = [e \in Events |-> 0]
    /\ published_at = {}
    /\ holder = [e \in Events |-> Nobody]
    /\ events = [r \in Relays |-> {}]
    /\ ready = {}
    /\ running = Relays
    /\ published = [e \in Events |-> 0]
    /\ failures = 0
-------------------------------------------------------------------------------
(* The transactions that add events. *)

Committed(e) == written[e] = "committed"

\* session.add(Outbox(...)): the row is stamped, later than every row before
\* it, and nobody else sees it yet.
\* Transactions on one payment lock its row, so a later one starts after the
\* earlier one has committed.
Add(e) ==
    /\ written[e] = "no"
    /\ Earlier[e] \in Events => Committed(Earlier[e])
    /\ written' = [written EXCEPT ![e] = "open"]
    /\ created_at' = [created_at EXCEPT
                          ![e] = 1 + Cardinality({f \in Events : written[f] # "no"})]
    /\ UNCHANGED <<published_at, holder, events, ready, running, published, failures>>

End(e, how) ==
    /\ written[e] = "open"
    /\ written' = [written EXCEPT ![e] = how]
    /\ UNCHANGED <<created_at, published_at, holder, events, ready, running, published, failures>>
-------------------------------------------------------------------------------
(* OutboxRelay *)

Held(r) == {e \in Events : holder[e] = r}
Idle(r) == r \in running /\ Held(r) = {}

\* For the mutants: rows another relay has locked are not skipped.
Selectable_NoSkip(e) == Committed(e) /\ e \notin published_at

\* WHERE published_at IS NULL, FOR UPDATE SKIP LOCKED.
Selectable(e) == Committed(e) /\ e \notin published_at /\ holder[e] = Nobody

\* For the mutants: no ORDER BY.
InOrder_Any(e, f) == TRUE

InOrder(e, f) == created_at[e] =< created_at[f]

\* B is what ORDER BY created_at LIMIT batch_size keeps of S.
Oldest(S, B) ==
    /\ B \subseteq S
    /\ Cardinality(B) = IF Cardinality(S) < BatchSize THEN Cardinality(S) ELSE BatchSize
    /\ \A e \in B, f \in S \ B : InOrder(e, f)

\* drain_batch selects and locks its rows.  An empty answer ends the call.
drain_batch(r) ==
    LET S == {e \in Events : Selectable(e)}
    IN  /\ Idle(r) /\ S # {}
        /\ \E B \in SUBSET S :
              /\ Oldest(S, B)
              /\ events' = [events EXCEPT ![r] = B]
              /\ holder' = [e \in Events |-> IF e \in B THEN r ELSE holder[e]]
        /\ UNCHANGED <<written, created_at, published_at, ready, running, published, failures>>

\* One turn of the loop over the batch, oldest row first.
Publish(r) ==
    \E e \in events[r] :
        /\ \A f \in events[r] : InOrder(e, f)
        /\ events' = [events EXCEPT ![r] = @ \ {e}]
        /\ published' = [published EXCEPT ![e] = @ + 1]
        /\ ready' = IF events[r] = {e} THEN ready \cup {r} ELSE ready
        /\ UNCHANGED <<written, created_at, published_at, holder, running, failures>>

\* For the mutants: the connection goes back to the pool with its locks.
Unlocked_Keep(r) == holder

Unlocked(r) == [e \in Events |-> IF holder[e] = r THEN Nobody ELSE holder[e]]

\* The relay's transaction is over: its locks go.
Release(r) ==
    /\ holder' = Unlocked(r)
    /\ events' = [events EXCEPT ![r] = {}]
    /\ ready' = ready \ {r}

\* For the mutants: the marks are committed before the loop has run.
Drained_Early(r) == Held(r) # {}

Drained(r) == r \in ready

\* session.begin() ends: all rows of the batch are marked at once.
CommitBatch(r) ==
    /\ Drained(r)
    /\ published_at' = published_at \cup Held(r)
    /\ Release(r)
    /\ UNCHANGED <<written, created_at, running, published, failures>>

\* The transaction of the batch rolls back.
Lose(r) ==
    /\ Held(r) # {} /\ failures < MaxFailures
    /\ failures' = failures + 1
    /\ Release(r)
    /\ UNCHANGED <<written, created_at, published_at, published>>

\* An exception: run_loop logs it, sleeps and goes on.
BatchFails(r) == Lose(r) /\ UNCHANGED running

\* stop() and cancel(), or the process dies, in the middle of a batch.
Killed(r) == Lose(r) /\ running' = running \ {r}

\* lifespan() starts the loop when the application comes up again.
Restart(r) ==
    /\ r \notin running
    /\ running' = running \cup {r}
    /\ UNCHANGED <<written, created_at, published_at, holder, events, ready, published, failures>>

run_loop(r) == drain_batch(r) \/ Publish(r) \/ CommitBatch(r)

Next ==
    \/ \E e \in Events : Add(e) \/ End(e, "committed") \/ End(e, "rolled back")
    \/ \E r \in Relays : run_loop(r) \/ BatchFails(r) \/ Killed(r) \/ Restart(r)

Spec == Init /\ [][Next]_vars

\* The loop polls for ever, and a process that went down is started again.
\* Nothing is assumed of the transactions that add events.
Fairness == \A r \in Relays : WF_vars(run_loop(r)) /\ WF_vars(Restart(r))

LiveSpec == Spec /\ Fairness
-------------------------------------------------------------------------------
(* Properties *)

\* The values every variable ranges over; a relay publishes and marks only
\* rows it has locked.
TypeOK ==
    /\ written \in [Events -> {"no", "open", "committed", "rolled back"}]
    /\ created_at \in [Events -> Nat]
    /\ published_at \subseteq Events
    /\ holder \in [Events -> Relays \cup {Nobody}]
    /\ events \in [Relays -> SUBSET Events]
    /\ \A r \in Relays : \A e \in events[r] : holder[e] = r
    /\ ready \subseteq Relays
    /\ running \subseteq Relays
    /\ published \in [Events -> Nat]
    /\ failures \in Nat

\* At least once: an event that is marked, and so never selected again, has
\* reached the sink, also after batches that failed half way.
MarkedMeansPublished == \A e \in published_at : published[e] > 0

\* Duplicates come from failed batches only: without a failure no event is
\* published twice, by one relay or by several, and each failure adds at most
\* one copy of an event.
DuplicatesFromFailures == \A e \in Events : published[e] =< 1 + failures

\* Every committed event is published and marked in the end, failures,
\* restarts, newer events and other relays notwithstanding.
EventuallyPublished == \A e \in Events : Committed(e) ~> e \in published_at

\* The events of a payment, its refunds included, reach the sink for the first
\* time in the order they were written.  With one relay there is no exception;
\* with several, an event overtakes the one before it only while another relay
\* has that one in its hands, or after a batch has failed.
AggregateOrder ==
    \A e \in Events :
        LET before == Earlier[e]
        IN  published[e] > 0 /\ before \in Events /\ published[before] = 0 =>
                /\ Cardinality(Relays) > 1
                /\ holder[before] # Nobody \/ failures > 0
===============================================================================
