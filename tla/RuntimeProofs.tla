---------------------------- MODULE RuntimeProofs -----------------------------
(***************************************************************************)
(* Proofs about Runtime for any number of processes, clients and relays    *)
(* and any pool.                                                           *)
(***************************************************************************)
EXTENDS Runtime, SequenceTheorems, TLAPS

Awaits == {"redis", "checkout", "query", "lock", "end", "checkin", "psp"}

\* Which await may come behind which, within a route and after an exception.
Follows(x, y) ==
    CASE x \in {"redis", "psp"} -> y = "checkout"
      [] x = "checkout" -> y \in {"query", "lock"}
      [] x \in {"query", "lock"} -> y = "end"
      [] x = "end" -> y = "checkin"
      [] x = "checkin" -> y = "psp"

\* A list of awaits as a route, or what is left of one, has it: it never stops
\* with a connection in hand.
WellFormed(q) ==
    /\ q \in Seq(Awaits)
    /\ \A i \in 1 .. Len(q) - 1 : Follows(q[i], q[i + 1])
    /\ q # <<>> => q[Len(q)] = "checkin"

\* The first await of a list.
First(q) == IF q = <<>> THEN "none" ELSE Head(q)

\* Where a task is tells what it may hold.
Inv ==
    /\ \A t \in Tasks : WellFormed(todo[t])
    /\ todo = [t \in Tasks |-> todo[t]]
    /\ sent \subseteq Tasks /\ pooled \subseteq Tasks
    /\ \A t \in Tasks :
          /\ Await(t) \in {"none", "redis", "psp", "checkout"} => t \notin pooled
          /\ Await(t) # "end" => row # t
-------------------------------------------------------------------------------
\* Two lists in a row make one, when the second may come behind the first.
LEMMA Joined ==
    ASSUME NEW p, NEW q, WellFormed(p), WellFormed(q), q # <<>>, Head(q) = "psp"
    PROVE  WellFormed(p \o q) /\ p \o q # <<>> /\ (p # <<>> => Head(p \o q) = Head(p))
  <1>1. /\ p \o q \in Seq(Awaits) /\ Len(p) \in Nat /\ Len(q) \in Nat \ {0}
        /\ Len(p \o q) = Len(p) + Len(q)
        /\ \A i \in 1 .. Len(p) + Len(q) : (p \o q)[i] = IF i =< Len(p) THEN p[i] ELSE q[i - Len(p)]
        /\ q[1] = "psp"
    BY DEF WellFormed
  <1>2. ASSUME NEW i \in 1 .. Len(p \o q) - 1
        PROVE  Follows((p \o q)[i], (p \o q)[i + 1])
    <2>1. CASE i < Len(p)
      BY <1>1, <2>1 DEF WellFormed
    <2>2. CASE i = Len(p)
      <3>1. p[i] = "checkin" /\ (p \o q)[i] = p[i] /\ (p \o q)[i + 1] = q[1]
        BY <1>1, <2>2 DEF WellFormed
      <3> QED  BY <1>1, <3>1 DEF Follows
    <2>3. CASE i > Len(p)
      <3>1. i - Len(p) \in 1 .. Len(q) - 1 /\ (i + 1) - Len(p) = (i - Len(p)) + 1
        BY <1>1, <2>3
      <3>2. (p \o q)[i] = q[i - Len(p)] /\ (p \o q)[i + 1] = q[(i - Len(p)) + 1]
        BY <1>1, <2>3, <3>1
      <3> QED  BY <3>1, <3>2 DEF WellFormed
    <2> QED  BY <1>1, <2>1, <2>2, <2>3
  <1>3. (p \o q)[Len(p \o q)] = "checkin"
    BY <1>1 DEF WellFormed
  <1> QED  BY <1>1, <1>2, <1>3 DEF WellFormed

\* One await in front of a list.
LEMMA Prefixed ==
    ASSUME NEW x \in Awaits, NEW q, WellFormed(q), q # <<>>, Follows(x, Head(q))
    PROVE  WellFormed(<<x>> \o q) /\ <<x>> \o q # <<>> /\ Head(<<x>> \o q) = x
  <1> DEFINE p == <<x>>
  <1>1. p \in Seq(Awaits) /\ Len(p) = 1 /\ p[1] = x
    OBVIOUS
  <1>2. q \in Seq(Awaits) /\ Len(q) \in Nat \ {0} /\ Head(q) = q[1]
    BY EmptySeq DEF WellFormed
  <1> HIDE DEF p
  <1>3. /\ p \o q \in Seq(Awaits) /\ Len(p \o q) = 1 + Len(q)
        /\ (p \o q)[1] = x /\ \A i \in 2 .. 1 + Len(q) : (p \o q)[i] = q[i - 1]
    <2>1. /\ p \o q \in Seq(Awaits) /\ Len(p \o q) = Len(p) + Len(q)
          /\ \A i \in 1 .. Len(p) + Len(q) : (p \o q)[i] = IF i =< Len(p) THEN p[i] ELSE q[i - Len(p)]
      BY <1>1, <1>2, ConcatProperties
    <2> QED  BY <1>1, <1>2, <2>1
  <1>4. p \o q # <<>> /\ Head(p \o q) = x
    BY <1>2, <1>3, EmptySeq
  <1>5. (p \o q)[Len(p \o q)] = "checkin"
    BY <1>2, <1>3 DEF WellFormed
  <1>6. ASSUME NEW i \in 1 .. Len(p \o q) - 1
        PROVE  Follows((p \o q)[i], (p \o q)[i + 1])
    <2>1. CASE i = 1
      BY <1>2, <1>3, <2>1
    <2>2. CASE i # 1
      <3>1. i - 1 \in 1 .. Len(q) - 1 /\ i \in 2 .. 1 + Len(q) /\ i + 1 \in 2 .. 1 + Len(q)
        BY <1>2, <1>3, <2>2
      <3>2. (p \o q)[i] = q[i - 1] /\ (p \o q)[i + 1] = q[(i - 1) + 1]
        BY <1>3, <3>1
      <3> QED  BY <3>1, <3>2 DEF WellFormed
    <2> QED  BY <2>1, <2>2
  <1> QED  BY <1>3, <1>4, <1>5, <1>6 DEF WellFormed, p

\* The routes are well formed.
LEMMA RoutesWellFormed ==
    ASSUME NEW r \in DOMAIN Routes
    PROVE  WellFormed(Routes[r]) /\ First(Routes[r]) \in {"redis", "checkout"}
  <1>1. \A x \in {"query", "lock"} : WellFormed(InTransaction(x)) /\ Head(InTransaction(x)) = "checkout"
    <2> SUFFICES ASSUME NEW x \in {"query", "lock"}
                 PROVE  WellFormed(InTransaction(x)) /\ Head(InTransaction(x)) = "checkout"
      OBVIOUS
    <2> DEFINE q == <<"checkout", x, "end", "checkin">>
    <2>1. q \in Seq(Awaits) /\ Len(q) = 4 /\ q # <<>> /\ Head(q) = "checkout"
      BY DEF Awaits
    <2>2. q[1] = "checkout" /\ q[2] = x /\ q[3] = "end" /\ q[4] = "checkin"
      OBVIOUS
    <2>3. Follows(q[1], q[2]) /\ Follows(q[2], q[3]) /\ Follows(q[3], q[4])
      BY <2>2 DEF Follows
    <2> HIDE DEF q
    <2>4. \A i \in 1 .. 3 : i = 1 \/ i = 2 \/ i = 3
      OBVIOUS
    <2>5. \A i \in 1 .. Len(q) - 1 : Follows(q[i], q[i + 1])
      BY <2>1, <2>3, <2>4
    <2> QED  BY <2>1, <2>2, <2>5 DEF WellFormed, InTransaction, q
  <1> DEFINE w == InTransaction("lock")
             q == InTransaction("query")
             p == <<"psp">> \o w
  <1>2. w # <<>> /\ q # <<>>
    BY DEF InTransaction
  <1>3. WellFormed(w) /\ WellFormed(q) /\ Head(w) = "checkout" /\ Head(q) = "checkout"
    BY <1>1
  <1>4. Follows("psp", "checkout") /\ Follows("redis", "checkout")
    BY DEF Follows
  <1> HIDE DEF w, q
  <1>5. WellFormed(p) /\ p # <<>> /\ Head(p) = "psp"
    BY <1>2, <1>3, <1>4, Prefixed DEF Awaits
  <1> HIDE DEF p
  <1>6. WellFormed(w \o p) /\ w \o p # <<>> /\ Head(w \o p) = "checkout"
    BY <1>2, <1>3, <1>5, Joined
  <1>7. WellFormed(<<"redis">> \o (w \o p)) /\ First(<<"redis">> \o (w \o p)) = "redis"
    <2> DEFINE u == w \o p
    <2>1. WellFormed(u) /\ u # <<>> /\ Head(u) = "checkout"
      BY <1>6
    <2> HIDE DEF u
    <2>2. WellFormed(<<"redis">> \o u) /\ First(<<"redis">> \o u) = "redis"
      BY <1>4, <2>1, Prefixed DEF Awaits, First
    <2> QED  BY <2>2 DEF u
  <1>8. WellFormed(<<"redis">> \o q) /\ First(<<"redis">> \o q) = "redis"
    BY <1>2, <1>3, <1>4, Prefixed DEF Awaits, First
  <1>9. <<"redis">> \o (w \o p) = CreateRoute
    <2>1. w \in Seq(Awaits) /\ <<"redis">> \in Seq(Awaits) /\ <<"psp">> \in Seq(Awaits)
      BY <1>3 DEF WellFormed, Awaits
    <2> QED  BY <2>1 DEF CreateRoute, w, p
  <1>10. First(w) = "checkout" /\ First(q) = "checkout"
    BY <1>2, <1>3 DEF First
  <1>11. /\ CreateRoute = <<"redis">> \o (w \o p) /\ RefundRoute = <<"redis">> \o q
         /\ WebhookRoute = w /\ ReadRoute = q /\ DrainRoute = q
    BY <1>9 DEF RefundRoute, WebhookRoute, ReadRoute, DrainRoute, w, q
  <1>12. /\ DOMAIN Routes = {"create", "refund", "webhook", "read", "drain"}
         /\ Routes["create"] = CreateRoute /\ Routes["refund"] = RefundRoute
         /\ Routes["webhook"] = WebhookRoute /\ Routes["read"] = ReadRoute
         /\ Routes["drain"] = DrainRoute
    BY DEF Routes
  <1> QED  BY <1>3, <1>7, <1>8, <1>10, <1>11, <1>12

\* What is left of a list behind its first await.
LEMMA Rest ==
    ASSUME NEW q, WellFormed(q), q # <<>>
    PROVE  /\ WellFormed(Tail(q))
           /\ First(Tail(q)) = "none" => First(q) = "checkin"
           /\ First(Tail(q)) # "none" => Follows(First(q), First(Tail(q)))
  <1>1. /\ q \in Seq(Awaits) /\ Len(q) \in Nat \ {0} /\ Tail(q) \in Seq(Awaits)
        /\ Len(Tail(q)) = Len(q) - 1
        /\ \A i \in 1 .. Len(q) - 1 : Tail(q)[i] = q[i + 1]
        /\ Head(q) = q[1] /\ (\A i \in 1 .. Len(q) : q[i] \in Awaits)
    BY DEF WellFormed
  <1>2. WellFormed(Tail(q))
    BY <1>1 DEF WellFormed
  <1> DEFINE r == Tail(q)
  <1> HIDE DEF r
  <1>3. CASE Len(q) = 1
    <2>1. r \in Seq(Awaits) /\ Len(r) = 0
      BY <1>1, <1>3 DEF r
    <2>2. r = <<>>
      BY <2>1, EmptySeq
    <2>3. q[1] = "checkin"
      BY <1>3 DEF WellFormed
    <2> QED  BY <1>1, <1>2, <2>2, <2>3 DEF First, r
  <1>4. CASE Len(q) > 1
    <2>1. Tail(q) # <<>> /\ Head(Tail(q)) = q[2]
      <3>1. r \in Seq(Awaits) /\ Len(r) >= 1 /\ r[1] = q[1 + 1]
        BY <1>1, <1>4 DEF r
      <3>2. r # <<>>
        BY <3>1, EmptySeq
      <3> QED  BY <3>1, <3>2 DEF r
    <2>2. Follows(q[1], q[2])
      <3>1. 1 \in 1 .. Len(q) - 1 /\ 1 + 1 = 2
        BY <1>1, <1>4
      <3> QED  BY <3>1 DEF WellFormed
    <2>3. q[2] # "none"
      BY <1>1, <1>4 DEF Awaits
    <2> QED  BY <1>1, <1>2, <2>1, <2>2, <2>3 DEF First
  <1> QED  BY <1>1, <1>3, <1>4

-------------------------------------------------------------------------------
\* A task goes to another place, WellFormed and holding what the place allows.
LEMMA TaskStep ==
    ASSUME Inv, NEW t \in Tasks, NEW q, WellFormed(q),
           todo' = [todo EXCEPT ![t] = q],
           sent' \subseteq Tasks, pooled' \subseteq pooled \cup {t},
           row' \in {row, t, Nobody},
           First(q) \in {"none", "redis", "psp", "checkout"} => t \notin pooled',
           First(q) # "end" => row' # t
    PROVE  Inv'
  <1>1. todo' = [u \in Tasks |-> IF u = t THEN q ELSE todo[u]]
    BY DEF Inv
  <1>2. \A u \in Tasks : WellFormed(todo'[u])
    BY <1>1 DEF Inv
  <1>3. todo' = [u \in Tasks |-> todo'[u]] /\ pooled' \subseteq Tasks
    BY <1>1 DEF Inv
  <1>4. ASSUME NEW u \in Tasks
        PROVE  /\ Await(u)' \in {"none", "redis", "psp", "checkout"} => u \notin pooled'
               /\ Await(u)' # "end" => row' # u
    <2>1. CASE u = t
      <3>1. Await(u)' = First(q)
        BY <1>1, <2>1 DEF Await, Idle, First
      <3> QED  BY <2>1, <3>1
    <2>2. CASE u # t
      <3>1. Await(u)' = Await(u)
        BY <1>1, <2>2 DEF Await, Idle
      <3>2. u # Nobody
        BY RuntimeAssumption
      <3> QED  BY <2>2, <3>1, <3>2 DEF Inv
    <2> QED  BY <2>1, <2>2
  <1> QED  BY <1>2, <1>3, <1>4 DEF Inv

\* The next await of a list behind one whose successors are known.
LEMMA DropStep ==
    ASSUME Inv, NEW t \in Tasks, ~ Idle(t), Drop(t)
    PROVE  /\ todo' = [todo EXCEPT ![t] = Tail(todo[t])]
           /\ WellFormed(Tail(todo[t]))
           /\ First(Tail(todo[t])) = "none" => Await(t) = "checkin"
           /\ First(Tail(todo[t])) # "none" => Follows(Await(t), First(Tail(todo[t])))
           /\ Await(t) \in Awaits
  <1>1. todo' = [todo EXCEPT ![t] = Tail(todo[t])]
    BY DEF Drop
  <1>2. WellFormed(todo[t]) /\ todo[t] # <<>> /\ Await(t) = First(todo[t])
    BY DEF Inv, Idle, Await, First
  <1>3. Await(t) \in Awaits
    BY <1>2, HeadTailProperties DEF WellFormed, First
  <1> QED  BY <1>1, <1>2, <1>3, Rest

\* A process that ends takes all that its tasks hold with it.
LEMMA GoneStep ==
    ASSUME Inv, NEW p \in Processes, Gone(p)
    PROVE  Inv'
  <1>1. WellFormed(<<>>)
    BY DEF WellFormed
  <1>2. \A u \in Tasks : WellFormed(todo'[u])
    BY <1>1 DEF Inv, Gone
  <1>3. todo' = [u \in Tasks |-> todo'[u]] /\ sent' \subseteq Tasks /\ pooled' \subseteq Tasks
    BY DEF Inv, Gone
  <1>4. ASSUME NEW u \in Tasks
        PROVE  /\ Await(u)' \in {"none", "redis", "psp", "checkout"} => u \notin pooled'
               /\ Await(u)' # "end" => row' # u
    <2>1. u # Nobody
      BY RuntimeAssumption
    <2>2. CASE u \in In(p)
      BY <2>1, <2>2 DEF Gone
    <2>3. CASE u \notin In(p)
      BY <2>1, <2>3 DEF Inv, Gone, Await, Idle
    <2> QED  BY <2>2, <2>3
  <1> QED  BY <1>2, <1>3, <1>4 DEF Inv

\* Every step of a task or a process preserves the invariant.
LEMMA NextInv == Inv /\ [Next]_vars => Inv'
  <1> SUFFICES ASSUME Inv, [Next]_vars PROVE Inv'
    OBVIOUS
  <1>1. ASSUME UNCHANGED <<todo, pooled, row>>, sent' \subseteq Tasks
        PROVE  Inv'
    BY <1>1 DEF Inv, Await, Idle
  <1>2. CASE UNCHANGED vars
    BY <1>1, <1>2 DEF vars, Inv
  <1>3. ASSUME NEW t \in Tasks, NEW r \in DOMAIN Routes, Idle(t), UNCHANGED <<sent, pooled, row>>,
               todo' = [todo EXCEPT ![t] = Routes[r]]
        PROVE  Inv'
    <2>1. Await(t) = "none"
      BY <1>3 DEF Await
    <2>2. t \notin pooled /\ row # t /\ sent \subseteq Tasks /\ pooled \subseteq Tasks
      BY <2>1 DEF Inv
    <2> QED  BY <1>3, <2>2, RoutesWellFormed, TaskStep
  <1>4. ASSUME NEW t \in Tasks, UNCHANGED <<row>>, todo' = [todo EXCEPT ![t] = <<>>],
               sent' \subseteq sent, UNCHANGED pooled, Await(t) \in {"checkout", "psp"}
        PROVE  Inv'
    <2>1. WellFormed(<<>>) /\ First(<<>>) = "none"
      BY DEF WellFormed, First
    <2>2. t \notin pooled /\ row # t /\ sent \subseteq Tasks
      BY <1>4 DEF Inv
    <2> QED  BY <1>4, <2>1, <2>2, TaskStep
  <1>5. ASSUME NEW t \in Tasks, Proceed(t)
        PROVE  Inv'
    <2> DEFINE q == Tail(todo[t])
    <2>0. sent \subseteq Tasks /\ pooled \subseteq Tasks
      BY DEF Inv
    <2>1. ASSUME Drop(t), Await(t) # "none"
          PROVE  /\ todo' = [todo EXCEPT ![t] = q] /\ WellFormed(q) /\ Await(t) \in Awaits
                 /\ First(q) = "none" => Await(t) = "checkin"
                 /\ First(q) # "none" => Follows(Await(t), First(q))
      BY <2>1, DropStep DEF Await
    <2> HIDE DEF q
    <2>2. CASE Send(t)
      BY <1>1, <2>0, <2>2 DEF Send
    <2>3. CASE Checkout(t)
      <3>1. Await(t) = "checkout" /\ Drop(t) /\ pooled' = pooled \cup {t} /\ UNCHANGED <<sent, row>>
        BY <2>3 DEF Checkout
      <3>2. First(q) \in {"query", "lock"}
        BY <2>1, <3>1 DEF Follows
      <3>3. row # t
        BY <3>1 DEF Inv
      <3> QED  BY <2>0, <2>1, <3>1, <3>2, <3>3, TaskStep
    <2>4. CASE Checkin(t)
      <3>1. Await(t) = "checkin" /\ Drop(t) /\ pooled' = pooled \ {t} /\ UNCHANGED <<sent, row>>
        BY <2>4 DEF Checkin
      <3>2. row # t
        BY <3>1 DEF Inv
      <3> QED  BY <2>0, <2>1, <3>1, <3>2, TaskStep
    <2>5. CASE Answer(t)
      <3>1. Await(t) \in {"redis", "query", "psp"} /\ Drop(t) /\ sent' = sent \ {t} /\ UNCHANGED <<pooled, row>>
        BY <2>5 DEF Answer
      <3>2. First(q) = IF Await(t) = "query" THEN "end" ELSE "checkout"
        BY <2>1, <3>1 DEF Follows
      <3>3. row # t /\ (Await(t) # "query" => t \notin pooled)
        BY <3>1 DEF Inv
      <3> QED  BY <2>0, <2>1, <3>1, <3>2, <3>3, TaskStep
    <2>6. CASE Grant(t)
      <3>1. Await(t) = "lock" /\ Drop(t) /\ sent' = sent \ {t} /\ row' = t /\ UNCHANGED pooled
        BY <2>6 DEF Grant
      <3>2. First(q) = "end"
        BY <2>1, <3>1 DEF Follows
      <3> QED  BY <2>0, <2>1, <3>1, <3>2, TaskStep
    <2>7. CASE EndTransaction(t)
      <3>1. Await(t) = "end" /\ Drop(t) /\ sent' = sent \ {t} /\ row' = Unlocked(t) /\ UNCHANGED pooled
        BY <2>7 DEF EndTransaction
      <3>2. First(q) = "checkin"
        BY <2>1, <3>1 DEF Follows
      <3>3. row' \in {row, t, Nobody} /\ row' # t
        BY <3>1, RuntimeAssumption DEF Unlocked
      <3> QED  BY <2>0, <2>1, <3>1, <3>2, <3>3, TaskStep
    <2>8. CASE ProviderRaises(t)
      BY <1>4, <2>8 DEF ProviderRaises
    <2> QED  BY <1>5, <2>2, <2>3, <2>4, <2>5, <2>6, <2>7, <2>8 DEF Proceed
  <1>6. ASSUME NEW t \in Tasks, Leave(t)
        PROVE  Inv'
    <2>1. WellFormed(Unwind) /\ First(Unwind) = "end"
      <3> DEFINE q == <<"end", "checkin">>
      <3>1. q \in Seq(Awaits) /\ Len(q) = 2 /\ q[1] = "end" /\ q[2] = "checkin" /\ q # <<>>
        BY DEF Awaits
      <3>2. Follows("end", "checkin")
        BY DEF Follows
      <3> HIDE DEF q
      <3> QED  BY <3>1, <3>2 DEF WellFormed, Unwind, First, q
    <2>2. pooled \subseteq Tasks /\ sent \subseteq Tasks
      BY DEF Inv
    <2> QED  BY <1>6, <2>1, <2>2, TaskStep DEF Leave
  <1>7. ASSUME NEW t \in Tasks, NEW r \in DOMAIN Routes, Serve(t, r)
        PROVE  Inv'
    BY <1>3, <1>7 DEF Serve
  <1>8. ASSUME NEW t \in Tasks, DrainAgain(t)
        PROVE  Inv'
    <2>1. DrainRoute = Routes["drain"] /\ "drain" \in DOMAIN Routes
      BY DEF Routes
    <2> QED  BY <1>3, <1>8, <2>1 DEF DrainAgain
  <1>9. ASSUME NEW t \in Tasks, CheckoutTimesOut(t)
        PROVE  Inv'
    BY <1>4, <1>9 DEF CheckoutTimesOut
  <1>10. ASSUME NEW p \in Processes, Crash(p) \/ Stop(p) \/ lifespan_end(p) \/ lifespan_start(p)
         PROVE  Inv'
    BY <1>1, <1>10, GoneStep DEF Crash, Stop, lifespan_end, lifespan_start, Inv
  <1> QED  BY <1>2, <1>5, <1>6, <1>7, <1>8, <1>9, <1>10 DEF Next

\* Redis and the provider are never waited for with a connection or a locked
\* row, and no task ends with either: for any number of processes, clients and
\* connections, and whichever of them fail where.
THEOREM NothingHeldOverNetworkCalls == Spec => []NetworkCallsHoldNothing
  <1>1. Init => Inv
    <2> SUFFICES ASSUME Init PROVE Inv
      OBVIOUS
    <2>1. WellFormed(<<>>)
      BY DEF WellFormed
    <2> QED  BY <2>1, RuntimeAssumption DEF Init, Inv, Await, Idle
  <1>2. Inv => NetworkCallsHoldNothing
    BY DEF Inv, NetworkCallsHoldNothing
  <1> QED  BY <1>1, <1>2, NextInv, PTL DEF Spec
===============================================================================
