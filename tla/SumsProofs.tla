------------------------------ MODULE SumsProofs ------------------------------
(***************************************************************************)
(* What a sum over a finite set is, for every set: the facts the ledger's  *)
(* and the payments' proofs need.  Induction over finite sets is made by   *)
(* taking a smallest set without the property (SmallestCulprit).           *)
(***************************************************************************)
EXTENDS Sums, FiniteSetTheorems, WellFoundedInduction, TLAPS

\* A property that some finite set lacks is lacked by a smallest one: all of
\* its proper subsets have it.  Bad is the set of subsets that lack it.
LEMMA SmallestCulprit ==
    ASSUME NEW S, IsFiniteSet(S), NEW Bad, Bad \subseteq SUBSET S, Bad # {}
    PROVE  \E T \in Bad : \A U \in SUBSET T : U # T => U \notin Bad
  <1>1. IsWellFoundedOn(StrictSubsetOrdering(S), FiniteSubsetsOf(S))
    BY FS_StrictSubsetOrderingWellFounded
  <1>2. Bad \subseteq FiniteSubsetsOf(S)
    BY FS_FiniteSubsetsOfFinite
  <1>3. PICK T \in Bad : \A U \in Bad : <<U, T>> \notin StrictSubsetOrdering(S)
    BY <1>1, <1>2, WFMin
  <1> QED  BY <1>3 DEF StrictSubsetOrdering

\* A set of subsets that has the empty set, and any T with an element more
\* whenever it has T, has them all.
LEMMA SubsetInduction ==
    ASSUME NEW S, IsFiniteSet(S), NEW Good,
           {} \in Good,
           \A T \in SUBSET S : \A x \in T : T \ {x} \in Good => T \in Good
    PROVE  \A T \in SUBSET S : T \in Good
  <1> DEFINE Bad == {T \in SUBSET S : T \notin Good}
  <1> SUFFICES ASSUME Bad # {} PROVE FALSE
    OBVIOUS
  <1>1. PICK T \in Bad : \A U \in SUBSET T : U # T => U \notin Bad
    <2>1. Bad \subseteq SUBSET S
      OBVIOUS
    <2> HIDE DEF Bad
    <2> QED  BY <2>1, SmallestCulprit
  <1>2. PICK x : x \in T
    BY <1>1
  <1>3. T \ {x} \in SUBSET T /\ T \ {x} # T /\ T \ {x} \in SUBSET S
    BY <1>1, <1>2
  <1> QED  BY <1>1, <1>2, <1>3
-------------------------------------------------------------------------------
\* The element a fold takes from a set.
Pick(T) == CHOOSE x \in T : TRUE

\* g is the table of the sums of f over the subsets of S.
Folds(g, f, S) ==
    g = [T \in SUBSET S |-> IF T = {} THEN 0 ELSE f[Pick(T)] + g[T \ {Pick(T)}]]

\* A set that is not empty has the element that is picked from it.
LEMMA PickIn ==
    ASSUME NEW T, T # {}
    PROVE  Pick(T) \in T
  BY DEF Pick

\* What a table says of a set it covers.
LEMMA FoldAt ==
    ASSUME NEW S, NEW f, NEW g, Folds(g, f, S), NEW T \in SUBSET S
    PROVE  g[T] = IF T = {} THEN 0 ELSE f[Pick(T)] + g[T \ {Pick(T)}]
  BY DEF Folds

\* Two tables agree on the sets that both cover.
LEMMA FoldUnique ==
    ASSUME NEW S, IsFiniteSet(S), NEW f, NEW g, NEW h, NEW A, NEW B,
           Folds(g, f, A), Folds(h, f, B), S \subseteq A, S \subseteq B
    PROVE  g[S] = h[S]
  <1> DEFINE Bad == {T \in SUBSET S : g[T] # h[T]}
  <1> SUFFICES ASSUME Bad # {} PROVE FALSE
    OBVIOUS
  <1>1. PICK T \in Bad : \A U \in SUBSET T : U # T => U \notin Bad
    <2>1. Bad \subseteq SUBSET S
      OBVIOUS
    <2> HIDE DEF Bad
    <2> QED  BY <2>1, SmallestCulprit
  <1>2. /\ g[T] = IF T = {} THEN 0 ELSE f[Pick(T)] + g[T \ {Pick(T)}]
        /\ h[T] = IF T = {} THEN 0 ELSE f[Pick(T)] + h[T \ {Pick(T)}]
    <2>1. T \in SUBSET A /\ T \in SUBSET B
      BY <1>1
    <2> QED  BY <2>1, FoldAt
  <1>3. T # {} /\ g[T \ {Pick(T)}] = h[T \ {Pick(T)}]
    <2>1. T # {}
      BY <1>1, <1>2
    <2>2. T \ {Pick(T)} \in SUBSET T /\ T \ {Pick(T)} # T
      BY <2>1, PickIn
    <2> QED  BY <1>1, <2>1, <2>2
  <1> QED  BY <1>1, <1>2, <1>3

\* The recursion by which the community modules define a fold has a solution.
LEMMA FoldExists ==
    ASSUME NEW S, IsFiniteSet(S), NEW f
    PROVE  \E g : Folds(g, f, S)
  <1> DEFINE Bad == {T \in SUBSET S : ~ \E g : Folds(g, f, T)}
             G(T) == CHOOSE g : Folds(g, f, T)
  <1> SUFFICES ASSUME Bad # {} PROVE FALSE
    OBVIOUS
  <1>1. PICK T \in Bad : \A U \in SUBSET T : U # T => U \notin Bad
    <2>1. Bad \subseteq SUBSET S
      OBVIOUS
    <2> HIDE DEF Bad
    <2> QED  BY <2>1, SmallestCulprit
  <1>2. \A U \in SUBSET T : U # T => Folds(G(U), f, U)
    <2> SUFFICES ASSUME NEW U \in SUBSET T, U # T PROVE \E g : Folds(g, f, U)
      OBVIOUS
    <2> QED  BY <1>1
  <1> DEFINE h == [U \in SUBSET T |->
                     IF U = {} THEN 0 ELSE f[Pick(U)] + G(U \ {Pick(U)})[U \ {Pick(U)}]]
  <1> HIDE DEF G
  <1>3. ASSUME NEW U \in SUBSET T, U # T
        PROVE  h[U] = G(U)[U]
    <2>1. Folds(G(U), f, U)
      BY <1>2, <1>3
    <2>2. G(U)[U] = IF U = {} THEN 0 ELSE f[Pick(U)] + G(U)[U \ {Pick(U)}]
      BY <2>1, FoldAt
    <2>3. CASE U = {}
      BY <2>2, <2>3
    <2>4. CASE U # {}
      <3> DEFINE V == U \ {Pick(U)}
      <3>1. V \in SUBSET T /\ V # T /\ V \subseteq U /\ V \in SUBSET S
        BY <1>1, <1>3
      <3>2. Folds(G(V), f, V) /\ IsFiniteSet(V)
        BY <1>2, <3>1, FS_Subset
      <3> HIDE DEF V
      <3>3. G(V)[V] = G(U)[V]
        BY <2>1, <3>1, <3>2, FoldUnique
      <3> QED  BY <2>2, <2>4, <3>3 DEF V
    <2> QED  BY <2>3, <2>4
  <1>4. Folds(h, f, T)
    <2>1. ASSUME NEW U \in SUBSET T, U # {}
          PROVE  h[U] = f[Pick(U)] + h[U \ {Pick(U)}]
      <3> DEFINE V == U \ {Pick(U)}
      <3>1. V \in SUBSET T /\ V # T
        BY <2>1, PickIn
      <3>2. h[U] = f[Pick(U)] + G(V)[V]
        BY <2>1
      <3> HIDE DEF V, h
      <3>3. h[V] = G(V)[V]
        BY <1>3, <3>1
      <3> QED  BY <3>2, <3>3 DEF V
    <2>2. h[{}] = 0 /\ h = [U \in SUBSET T |-> h[U]]
      OBVIOUS
    <2> HIDE DEF h
    <2>3. \A U \in SUBSET T : h[U] = IF U = {} THEN 0 ELSE f[Pick(U)] + h[U \ {Pick(U)}]
      BY <2>1, <2>2
    <2> QED  BY <2>2, <2>3 DEF Folds
  <1> QED  BY <1>1, <1>4
-------------------------------------------------------------------------------
\* SumOver is the value of such a table at the whole set.
LEMMA SumIsFold ==
    ASSUME NEW f, NEW S
    PROVE  SumOver(f, S) = (CHOOSE g : Folds(g, f, S))[S]
  BY DEF SumOver, MapThenSumSet, MapThenFoldSet, Folds, Pick

\* The sum over nothing.
LEMMA SumEmpty ==
    ASSUME NEW f
    PROVE  SumOver(f, {}) = 0
  <1>1. IsFiniteSet({})
    BY FS_EmptySet
  <1>2. Folds(CHOOSE g : Folds(g, f, {}), f, {})
    BY <1>1, FoldExists
  <1> QED  BY <1>2, FoldAt, SumIsFold

\* The element that is picked, and the rest.
LEMMA SumPick ==
    ASSUME NEW f, NEW S, IsFiniteSet(S), S # {}
    PROVE  SumOver(f, S) = f[Pick(S)] + SumOver(f, S \ {Pick(S)})
  <1> DEFINE R == S \ {Pick(S)}
             G(T) == CHOOSE g : Folds(g, f, T)
  <1>1. IsFiniteSet(R) /\ R \subseteq S
    BY FS_Subset
  <1>2. Folds(G(S), f, S) /\ Folds(G(R), f, R)
    <2>1. (\E g : Folds(g, f, S)) /\ (\E g : Folds(g, f, R))
      BY <1>1, FoldExists
    <2> QED  BY <2>1
  <1>3. SumOver(f, S) = G(S)[S] /\ SumOver(f, R) = G(R)[R]
    BY SumIsFold
  <1> HIDE DEF G
  <1>4. G(S)[S] = f[Pick(S)] + G(S)[R]
    BY <1>2, FoldAt
  <1> HIDE DEF R
  <1>5. G(R)[R] = G(S)[R]
    BY <1>1, <1>2, FoldUnique
  <1> QED  BY <1>3, <1>4, <1>5 DEF R

\* A sum of integers is an integer.
LEMMA SumInt ==
    ASSUME NEW f, NEW S, IsFiniteSet(S), \A x \in S : f[x] \in Int
    PROVE  SumOver(f, S) \in Int
  <1> DEFINE Bad == {T \in SUBSET S : SumOver(f, T) \notin Int}
  <1> SUFFICES ASSUME Bad # {} PROVE FALSE
    OBVIOUS
  <1>1. PICK T \in Bad : \A U \in SUBSET T : U # T => U \notin Bad
    <2>1. Bad \subseteq SUBSET S
      OBVIOUS
    <2> HIDE DEF Bad
    <2> QED  BY <2>1, SmallestCulprit
  <1>2. T # {} /\ IsFiniteSet(T)
    <2>1. T \in SUBSET S /\ SumOver(f, T) \notin Int
      BY <1>1
    <2> HIDE DEF Bad
    <2>2. SumOver(f, {}) \in Int
      BY SumEmpty
    <2> QED  BY <2>1, <2>2, FS_Subset
  <1>3. Pick(T) \in T
    BY <1>2, PickIn
  <1>4. SumOver(f, T \ {Pick(T)}) \in Int
    BY <1>1, <1>3
  <1>5. SumOver(f, T) = f[Pick(T)] + SumOver(f, T \ {Pick(T)})
    BY <1>2, SumPick
  <1> QED  BY <1>1, <1>3, <1>4, <1>5

\* Any element, and the rest: the order of summation does not matter.
LEMMA SumElement ==
    ASSUME NEW f, NEW S, IsFiniteSet(S), \A x \in S : f[x] \in Int, NEW x \in S
    PROVE  SumOver(f, S) = f[x] + SumOver(f, S \ {x})
  <1> DEFINE Bad == {T \in SUBSET S : \E y \in T : SumOver(f, T) # f[y] + SumOver(f, T \ {y})}
  <1> SUFFICES ASSUME Bad # {} PROVE FALSE
    OBVIOUS
  <1>1. PICK T \in Bad : \A U \in SUBSET T : U # T => U \notin Bad
    <2>1. Bad \subseteq SUBSET S
      OBVIOUS
    <2> HIDE DEF Bad
    <2> QED  BY <2>1, SmallestCulprit
  <1>2. PICK y \in T : SumOver(f, T) # f[y] + SumOver(f, T \ {y})
    BY <1>1
  <1> DEFINE z == Pick(T)
             Rest == (T \ {y}) \ {z}
  <1>3. z \in T /\ SumOver(f, T) = f[z] + SumOver(f, T \ {z}) /\ IsFiniteSet(T)
    BY <1>1, <1>2, PickIn, SumPick, FS_Subset
  <1> HIDE DEF z
  <1>4. y # z
    BY <1>2, <1>3
  <1>5. SumOver(f, T \ {y}) = f[z] + SumOver(f, Rest)
    <2>1. T \ {y} \in SUBSET T /\ T \ {y} # T /\ z \in T \ {y} /\ T \ {y} \in SUBSET S
      BY <1>1, <1>3, <1>4
    <2> QED  BY <1>1, <2>1
  <1>6. SumOver(f, T \ {z}) = f[y] + SumOver(f, Rest)
    <2>1. T \ {z} \in SUBSET T /\ T \ {z} # T /\ y \in T \ {z} /\ T \ {z} \in SUBSET S
      BY <1>1, <1>3, <1>4
    <2>2. SumOver(f, T \ {z}) = f[y] + SumOver(f, (T \ {z}) \ {y})
      BY <1>1, <2>1
    <2>3. (T \ {z}) \ {y} = Rest
      OBVIOUS
    <2> QED  BY <2>2, <2>3
  <1>7. f[y] \in Int /\ f[z] \in Int /\ SumOver(f, Rest) \in Int
    <2>1. IsFiniteSet(Rest) /\ \A w \in Rest : f[w] \in Int
      BY <1>1, FS_Subset
    <2> QED  BY <1>1, <1>2, <1>3, <2>1, SumInt
  <1> QED  BY <1>2, <1>3, <1>5, <1>6, <1>7
-------------------------------------------------------------------------------
(* Sums of related functions, by induction over the set. *)

\* Only the values on the set count.
LEMMA SumSame ==
    ASSUME NEW f, NEW g, NEW S, IsFiniteSet(S),
           \A x \in S : f[x] \in Int /\ g[x] = f[x]
    PROVE  SumOver(g, S) = SumOver(f, S)
  <1> DEFINE Good == {T \in SUBSET S : SumOver(g, T) = SumOver(f, T)}
  <1>1. {} \in Good
    BY SumEmpty
  <1>2. ASSUME NEW T \in SUBSET S, NEW x \in T, T \ {x} \in Good
        PROVE  T \in Good
    <2>1. IsFiniteSet(T) /\ (\A y \in T : f[y] \in Int) /\ (\A y \in T : g[y] \in Int)
      BY FS_Subset
    <2>2. SumOver(f, T) = f[x] + SumOver(f, T \ {x})
      BY <2>1, SumElement
    <2>3. SumOver(g, T) = g[x] + SumOver(g, T \ {x})
      BY <2>1, SumElement
    <2> QED  BY <1>2, <2>2, <2>3
  <1> HIDE DEF Good
  <1>3. S \in Good
    BY <1>1, <1>2, SubsetInduction
  <1> QED  BY <1>3 DEF Good

\* The sum of two columns added up row by row.
LEMMA SumPlus ==
    ASSUME NEW f, NEW g, NEW h, NEW S, IsFiniteSet(S),
           \A x \in S : f[x] \in Int /\ g[x] \in Int /\ h[x] = f[x] + g[x]
    PROVE  SumOver(h, S) = SumOver(f, S) + SumOver(g, S)
  <1> DEFINE Good == {T \in SUBSET S : SumOver(h, T) = SumOver(f, T) + SumOver(g, T)}
  <1>1. {} \in Good
    BY SumEmpty
  <1>2. ASSUME NEW T \in SUBSET S, NEW x \in T, T \ {x} \in Good
        PROVE  T \in Good
    <2>1. /\ IsFiniteSet(T) /\ IsFiniteSet(T \ {x})
          /\ (\A y \in T : f[y] \in Int) /\ (\A y \in T : g[y] \in Int) /\ (\A y \in T : h[y] \in Int)
      BY FS_Subset
    <2>2. SumOver(f, T) = f[x] + SumOver(f, T \ {x}) /\ SumOver(f, T \ {x}) \in Int
      BY <2>1, SumElement, SumInt
    <2>3. SumOver(g, T) = g[x] + SumOver(g, T \ {x}) /\ SumOver(g, T \ {x}) \in Int
      BY <2>1, SumElement, SumInt
    <2>4. SumOver(h, T) = h[x] + SumOver(h, T \ {x})
      BY <2>1, SumElement
    <2>5. h[x] = f[x] + g[x] /\ f[x] \in Int /\ g[x] \in Int
      OBVIOUS
    <2> QED  BY <1>2, <2>2, <2>3, <2>4, <2>5
  <1> HIDE DEF Good
  <1>3. S \in Good
    BY <1>1, <1>2, SubsetInduction
  <1> QED  BY <1>3 DEF Good

\* A column of zeros.
LEMMA SumZero ==
    ASSUME NEW f, NEW S, IsFiniteSet(S), \A x \in S : f[x] = 0
    PROVE  SumOver(f, S) = 0
  <1>1. SumOver(f, S) = SumOver(f, S) + SumOver(f, S) /\ SumOver(f, S) \in Int
    BY SumPlus, SumInt
  <1>2. ASSUME NEW n \in Int, n = n + n PROVE n = 0
    BY <1>2
  <1> QED  BY <1>1, <1>2, Zenon

\* Sums respect the order, and a sum of naturals is a natural.
LEMMA SumMonotone ==
    ASSUME NEW f, NEW g, NEW S, IsFiniteSet(S),
           \A x \in S : f[x] \in Int /\ g[x] \in Int /\ f[x] =< g[x]
    PROVE  SumOver(f, S) =< SumOver(g, S)
  <1> DEFINE Good == {T \in SUBSET S : SumOver(f, T) =< SumOver(g, T)}
  <1>1. {} \in Good
    BY SumEmpty
  <1>2. ASSUME NEW T \in SUBSET S, NEW x \in T, T \ {x} \in Good
        PROVE  T \in Good
    <2>1. /\ IsFiniteSet(T) /\ IsFiniteSet(T \ {x})
          /\ (\A y \in T : f[y] \in Int) /\ (\A y \in T : g[y] \in Int)
      BY FS_Subset
    <2>2. SumOver(f, T) = f[x] + SumOver(f, T \ {x}) /\ SumOver(f, T \ {x}) \in Int
      BY <2>1, SumElement, SumInt
    <2>3. SumOver(g, T) = g[x] + SumOver(g, T \ {x}) /\ SumOver(g, T \ {x}) \in Int
      BY <2>1, SumElement, SumInt
    <2>4. f[x] =< g[x] /\ f[x] \in Int /\ g[x] \in Int
      OBVIOUS
    <2> QED  BY <1>2, <2>2, <2>3, <2>4
  <1> HIDE DEF Good
  <1>3. S \in Good
    BY <1>1, <1>2, SubsetInduction
  <1> QED  BY <1>3 DEF Good

\* A column without negative entries has no negative sum.
LEMMA SumNat ==
    ASSUME NEW f, NEW S, IsFiniteSet(S), \A x \in S : f[x] \in Nat
    PROVE  SumOver(f, S) \in Nat
  <1> DEFINE z == [x \in S |-> 0]
  <1>1. \A x \in S : z[x] \in Int /\ f[x] \in Int /\ z[x] =< f[x] /\ z[x] = 0
    OBVIOUS
  <1> HIDE DEF z
  <1>2. SumOver(z, S) = 0 /\ SumOver(z, S) =< SumOver(f, S) /\ SumOver(f, S) \in Int
    BY <1>1, SumZero, SumMonotone, SumInt
  <1> QED  BY <1>2

\* Sums over parts of a set of naturals: an element, and any part, is at most
\* the whole.
LEMMA SumPart ==
    ASSUME NEW f, NEW S, IsFiniteSet(S), \A x \in S : f[x] \in Nat
    PROVE  \A x \in S : f[x] =< SumOver(f, S)
  <1> SUFFICES ASSUME NEW x \in S PROVE f[x] =< SumOver(f, S)
    OBVIOUS
  <1>1. SumOver(f, S) = f[x] + SumOver(f, S \ {x})
    BY SumElement
  <1>2. SumOver(f, S \ {x}) \in Nat /\ f[x] \in Nat
    BY FS_Subset, SumNat
  <1> QED  BY <1>1, <1>2

\* One value changes.
LEMMA SumUpdate ==
    ASSUME NEW f, NEW g, NEW S, IsFiniteSet(S), NEW x \in S,
           \A y \in S : f[y] \in Int, g[x] \in Int, \A y \in S \ {x} : g[y] = f[y]
    PROVE  SumOver(g, S) = SumOver(f, S) + g[x] - f[x]
  <1>1. IsFiniteSet(S \ {x}) /\ \A y \in S : g[y] \in Int
    BY FS_Subset
  <1>2. SumOver(f, S) = f[x] + SumOver(f, S \ {x})
    BY SumElement
  <1>3. SumOver(g, S) = g[x] + SumOver(g, S \ {x})
    BY <1>1, SumElement
  <1>4. SumOver(g, S \ {x}) = SumOver(f, S \ {x})
    BY <1>1, SumSame
  <1>5. SumOver(f, S \ {x}) \in Int /\ f[x] \in Int
    BY <1>1, SumInt
  <1> QED  BY <1>2, <1>3, <1>4, <1>5

\* The set gets one more element.
LEMMA SumAdd ==
    ASSUME NEW f, NEW S, IsFiniteSet(S), NEW x, x \notin S,
           \A y \in S \cup {x} : f[y] \in Int
    PROVE  SumOver(f, S \cup {x}) = SumOver(f, S) + f[x]
  <1>1. IsFiniteSet(S \cup {x}) /\ (S \cup {x}) \ {x} = S
    BY FS_AddElement
  <1>2. SumOver(f, S \cup {x}) = f[x] + SumOver(f, (S \cup {x}) \ {x})
    BY <1>1, SumElement
  <1>3. SumOver(f, S \cup {x}) = f[x] + SumOver(f, S)
    BY <1>1, <1>2, Zenon
  <1>4. SumOver(f, S) \in Int /\ f[x] \in Int
    BY SumInt
  <1> QED  BY <1>3, <1>4

\* The sum over one element.
LEMMA SumSingle ==
    ASSUME NEW f, NEW x, f[x] \in Int
    PROVE  SumOver(f, {x}) = f[x]
  <1>1. IsFiniteSet({x}) /\ {x} \ {x} = {}
    BY FS_Singleton
  <1>2. SumOver(f, {x}) = f[x] + SumOver(f, {x} \ {x})
    BY <1>1, SumElement
  <1>3. SumOver(f, {x}) = f[x] + SumOver(f, {})
    BY <1>1, <1>2, Zenon
  <1> QED  BY <1>3, SumEmpty

\* Elements that count for nothing may be left out.
LEMMA SumWithin ==
    ASSUME NEW f, NEW S, IsFiniteSet(S), NEW P \in SUBSET S,
           \A x \in S : f[x] \in Int, \A x \in S \ P : f[x] = 0
    PROVE  SumOver(f, S) = SumOver(f, P)
  <1> DEFINE Good == {T \in SUBSET S : SumOver(f, T) = SumOver(f, T \cap P)}
  <1>1. {} \in Good
    <2>1. {} \cap P = {}
      OBVIOUS
    <2> QED  BY <2>1
  <1>2. ASSUME NEW T \in SUBSET S, NEW x \in T, T \ {x} \in Good
        PROVE  T \in Good
    <2> DEFINE R == T \ {x}
    <2>1. IsFiniteSet(T) /\ IsFiniteSet(T \cap P) /\ f[x] \in Int
      BY FS_Subset
    <2>2. SumOver(f, T) = f[x] + SumOver(f, R) /\ SumOver(f, R) \in Int
      <3>1. IsFiniteSet(R) /\ \A y \in R : f[y] \in Int
        BY <2>1, FS_Subset
      <3>2. \A y \in T : f[y] \in Int
        OBVIOUS
      <3>3. SumOver(f, T) = f[x] + SumOver(f, T \ {x})
        BY <2>1, <3>2, SumElement
      <3> HIDE DEF R
      <3>4. SumOver(f, R) \in Int
        BY <3>1, SumInt
      <3> QED  BY <3>3, <3>4 DEF R
    <2>3. SumOver(f, R) = SumOver(f, R \cap P)
      BY <1>2
    <2>4. CASE x \in P
      <3>1. (T \cap P) \ {x} = R \cap P /\ \A y \in T \cap P : f[y] \in Int
        OBVIOUS
      <3>2. SumOver(f, T \cap P) = f[x] + SumOver(f, (T \cap P) \ {x})
        BY <2>1, <2>4, <3>1, SumElement
      <3>3. SumOver(f, T \cap P) = f[x] + SumOver(f, R \cap P)
        BY <3>1, <3>2, Zenon
      <3>4. SumOver(f, T) = SumOver(f, T \cap P)
        BY <2>2, <2>3, <3>3
      <3> QED  BY <3>4
    <2>5. CASE x \notin P
      <3>1. T \cap P = R \cap P /\ f[x] = 0
        BY <2>5
      <3>2. SumOver(f, T) = SumOver(f, R \cap P)
        BY <2>2, <2>3, <3>1
      <3>3. SumOver(f, T) = SumOver(f, T \cap P)
        BY <3>1, <3>2, Zenon
      <3> QED  BY <3>3
    <2> QED  BY <2>4, <2>5
  <1> HIDE DEF Good
  <1>3. \A T \in SUBSET S : T \in Good
    <2>1. \A T \in SUBSET S : \A x \in T : T \ {x} \in Good => T \in Good
      BY <1>2
    <2> QED  BY <1>1, <2>1, SubsetInduction
  <1>4. S \cap P = P
    OBVIOUS
  <1> QED  BY <1>3, <1>4 DEF Good

\* Summing over a list without repetitions is summing over what is in it.
LEMMA SumReindex ==
    ASSUME NEW f, NEW g, NEW q, NEW S, IsFiniteSet(S),
           \A i \in S : f[i] \in Int /\ f[i] = g[q[i]],
           \A i, k \in S : q[i] = q[k] => i = k
    PROVE  SumOver(f, S) = SumOver(g, {q[i] : i \in S})
  <1> DEFINE Image(T) == {q[i] : i \in T}
             Good == {T \in SUBSET S : IsFiniteSet(Image(T)) /\ SumOver(f, T) = SumOver(g, Image(T))}
  <1>1. {} \in Good
    <2>1. Image({}) = {} /\ IsFiniteSet({})
      BY FS_EmptySet
    <2> QED  BY <2>1, SumEmpty
  <1>2. ASSUME NEW T \in SUBSET S, NEW x \in T, T \ {x} \in Good
        PROVE  T \in Good
    <2>1. IsFiniteSet(T) /\ IsFiniteSet(T \ {x})
      BY FS_Subset
    <2>2. SumOver(f, T) = f[x] + SumOver(f, T \ {x})
      BY <2>1, SumElement
    <2>3. Image(T) = Image(T \ {x}) \cup {q[x]} /\ q[x] \notin Image(T \ {x})
      OBVIOUS
    <2>4. IsFiniteSet(Image(T \ {x}))
      BY <1>2
    <2>5. \A y \in Image(T \ {x}) \cup {q[x]} : g[y] \in Int
      BY <2>3
    <2>6. SumOver(f, T \ {x}) = SumOver(g, Image(T \ {x}))
      BY <1>2
    <2>7. SumOver(g, Image(T \ {x})) \in Int
      <3> HIDE DEF Image
      <3> QED  BY <2>4, <2>5, SumInt
    <2>8. SumOver(g, Image(T \ {x}) \cup {q[x]}) = SumOver(g, Image(T \ {x})) + g[q[x]]
      <3> DEFINE P == Image(T \ {x})
                 y == q[x]
      <3>1. IsFiniteSet(P) /\ y \notin P /\ \A z \in P \cup {y} : g[z] \in Int
        BY <2>3, <2>4, <2>5
      <3> HIDE DEF P, y
      <3>2. SumOver(g, P \cup {y}) = SumOver(g, P) + g[y]
        BY <3>1, SumAdd
      <3> QED  BY <3>2 DEF P, y
    <2>9. f[x] = g[q[x]] /\ f[x] \in Int
      OBVIOUS
    <2>10. SumOver(f, T) = SumOver(g, Image(T))
      <3> HIDE DEF Image
      <3> QED  BY <2>2, <2>3, <2>6, <2>7, <2>8, <2>9
    <2>11. IsFiniteSet(Image(T))
      <3> DEFINE P == Image(T \ {x})
      <3>1. IsFiniteSet(P) /\ Image(T) = P \cup {q[x]}
        BY <2>3, <2>4
      <3> HIDE DEF P, Image
      <3>2. IsFiniteSet(P \cup {q[x]})
        BY <3>1, FS_AddElement
      <3> QED  BY <3>1, <3>2
    <2> QED  BY <2>10, <2>11
  <1>3. S \in Good
    <2> HIDE DEF Good
    <2> QED  BY <1>1, <1>2, SubsetInduction
  <1> QED  BY <1>3
===============================================================================
