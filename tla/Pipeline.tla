------------------------------- MODULE Pipeline -------------------------------
(***************************************************************************)
(* Payments and Outbox together: the rows the relay delivers are those the *)
(* payment transactions write, and what a consumer has been told is        *)
(* compared with the payments themselves.                                  *)
(*                                                                         *)
(* A row is named by its aggregate, a payment or a refund, and its place   *)
(* among the rows of that aggregate.  A transaction writes its row with    *)
(* the state change, so the row appears committed; the relay then works on *)
(* it as in Outbox while payments go on.                                   *)
(***************************************************************************)
EXTENDS Payments

CONSTANTS Relays,       \* one run_loop per application process
          BatchSize,    \* LIMIT of the relay's query
          MaxFailures,  \* bound: batches that fail
          Nobody,       \* the holder of a row that is not locked
          First         \* what comes before an aggregate's first row

ASSUME PipelineAssumption ==
    /\ BatchSize \in Nat \ {0} /\ MaxFailures \in Nat
    /\ IsFiniteSet(Relays) /\ Nobody \notin Relays

VARIABLES created_at, published_at, holder, events, ready, running, published, failures

relay == <<published_at, holder, events, ready, running, published, failures>>
pipe  == <<vars, created_at, relay>>

Rows == (Payments \X {1, 2}) \cup (RefundKeys \X {1})
Written(r) == r[2] =< Len(outbox[r[1]])

Relay == INSTANCE Outbox WITH
            Events <- Rows,
            Earlier <- [r \in Rows |-> IF r[2] = 2 THEN <<r[1], 1>> ELSE First],
            written <- [r \in Rows |-> IF Written(r) THEN "committed" ELSE "no"]

PipelineInit == Init /\ Relay!Init

\* A transaction of the engine stamps the rows it writes.
Stamp ==
    /\ created_at' = [r \in Rows |->
                         IF Written(r)' /\ ~ Written(r)
                         THEN 1 + Cardinality({q \in Rows : Written(q)}) ELSE created_at[r]]
    /\ UNCHANGED relay

EngineStep == Next /\ Stamp

RelayRuns(r) == UNCHANGED vars /\ Relay!run_loop(r)

\* lifespan() ends or begins, and run_loop survives an exception.
RelayDisturbed(r) ==
    UNCHANGED vars /\ (Relay!BatchFails(r) \/ Relay!Killed(r) \/ Relay!Restart(r))

PipelineNext == EngineStep \/ \E r \in Relays : RelayRuns(r) \/ RelayDisturbed(r)

\* Each part as in its own module.
PipelineFairness ==
    /\ \A p \in Payments :
          WF_pipe(Finish(p) /\ Stamp) /\ WF_pipe(psp[p] = "none" /\ HandlerDies(p) /\ Stamp)
    /\ \A e \in Event : WF_pipe(e \notin acked /\ Webhook(e) /\ Stamp)
    /\ \A r \in Relays : WF_pipe(RelayRuns(r)) /\ WF_pipe(UNCHANGED vars /\ Relay!Restart(r))

PipelineSpec == PipelineInit /\ [][PipelineNext]_pipe /\ PipelineFairness
-------------------------------------------------------------------------------
(* Properties *)

Told(r) == published[r] > 0

\* With one relay, a consumer that adds up the stream is never misled,
\* whatever fails and is repeated: it hears of a payment before it hears of
\* its success or failure, hears only of what the payment has become, and
\* never of a refund before the success of the payment it refunds.
StreamTellsTheStory ==
    /\ \A p \in Payments :
          Told(<<p, 2>>) => Told(<<p, 1>>) /\ status[p] \in Paid \cup {"FAILED"}
    /\ \A r \in RefundKeys :
          Told(<<r, 1>>) => refunds[r] # None /\ status[refunds[r].payment] \in Paid
                               /\ Told(<<refunds[r].payment, 2>>)

\* From the provider to the consumers: if a capture or failure of an AUTHORIZED
\* payment was not yet answered with 200, the payment is released in the end
\* and consumers hear of it, whichever event or sweep released it and however
\* often the relay fails or dies in between.
DecisionsReachConsumers ==
    \A e \in Event :
        e \in sent \ acked /\ e.type # "other" /\ status[e.payment] = "AUTHORIZED"
            ~> Told(<<e.payment, 2>>) \/ Drawn
===============================================================================
