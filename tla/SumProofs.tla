------------------------------ MODULE SumProofs ------------------------------
(***************************************************************************)
(* What SumFunction of the Functions module gives for a function whose     *)
(* domain is finite: it takes an element out of the domain after the       *)
(* other, in an order CHOOSE picks, and that order does not matter.        *)
(***************************************************************************)
EXTENDS Functions, FiniteSetTheorems, TLAPS

\* An element of s, and what is left.
First(s) == CHOOSE x \in s : TRUE
Rest(s)  == s \ {First(s)}

\* One step of the sum over s, with the sums g of the smaller sets at hand.
Step(f, g, s) == IF s = {} THEN 0 ELSE f[First(s)] + g[Rest(s)]

\* g gives the sum of f over each subset of S.
Sums(f, S, g) == g = [s \in SUBSET S |-> Step(f, g, s)]

SumsOf(f, S) == CHOOSE g : Sums(f, S, g)

\* The definition, one level down.
LEMMA SumExpands ==
  ASSUME NEW f
  PROVE  SumFunction(f) = SumsOf(f, DOMAIN f)[DOMAIN f]
BY DEF SumFunction, SumFunctionOnSet, FoldFunctionOnSet, MapThenFoldSet, Sums,
       SumsOf, Step, First, Rest

\* Induction on numbers, said of a set of them.
LEMMA NumbersIn ==
  ASSUME NEW G, 0 \in G, \A k \in Nat : k \in G => k + 1 \in G
  PROVE  Nat \subseteq G
<1> SUFFICES ASSUME Nat \ G # {}  PROVE FALSE
  OBVIOUS
<1> DEFINE R == OpToRel(<, Nat)
<1>1. IsWellFoundedOn(R, Nat)
  BY NatLessThanWellFounded
<1>2. \A i, j \in Nat : <<i, j>> \in R <=> i < j
  BY DEF OpToRel
<1> HIDE DEF R
<1>3. Nat \ G \subseteq Nat
  OBVIOUS
<1>4. PICK x \in Nat \ G : \A y \in Nat \ G : <<y, x>> \notin R
  BY <1>1, <1>3, WFMin
<1>5. x # 0 /\ x - 1 \in Nat /\ x - 1 < x /\ (x - 1) + 1 = x
  BY <1>4
<1>6. x - 1 \in G
  BY <1>2, <1>4, <1>5
<1> QED  BY <1>4, <1>5, <1>6

\* Induction on the subsets of a finite set, said of a set of them.
LEMMA SubsetsIn ==
  ASSUME NEW S, IsFiniteSet(S), NEW G,
         \A T \in SUBSET S : (\A x \in T : T \ {x} \in G) => T \in G
  PROVE  SUBSET S \subseteq G
<1> SUFFICES ASSUME (SUBSET S) \ G # {}  PROVE FALSE
  OBVIOUS
<1> DEFINE R == StrictSubsetOrdering(S)
           B == (SUBSET S) \ G
<1>1. IsWellFoundedOn(R, FiniteSubsetsOf(S))
  BY FS_StrictSubsetOrderingWellFounded
<1>2. B \subseteq FiniteSubsetsOf(S) /\ B # {}
  BY FS_Subset DEF FiniteSubsetsOf
<1>3. \A U, T \in SUBSET S : U \subseteq T /\ U # T => <<U, T>> \in R
  BY DEF StrictSubsetOrdering
<1> HIDE DEF R
<1>4. PICK T \in B : \A U \in B : <<U, T>> \notin R
  <2> HIDE DEF B
  <2> QED  BY <1>1, <1>2, WFMin
<1>5. T \in SUBSET S /\ T \notin G
  BY <1>4
<1>6. ASSUME NEW x \in T  PROVE T \ {x} \in G
  <2>1. T \ {x} \in SUBSET S /\ T \ {x} \subseteq T /\ T \ {x} # T
    BY <1>5
  <2>2. <<T \ {x}, T>> \in R
    BY <1>3, <1>5, <2>1
  <2>3. T \ {x} \notin B
    BY <1>4, <2>2
  <2> QED  BY <2>1, <2>3
<1> QED  BY <1>5, <1>6

\* What is left of a set is one element less.
LEMMA RestFact ==
  ASSUME NEW s, s # {}
  PROVE  First(s) \in s /\ Rest(s) \subseteq s
BY DEF First, Rest

\* There are sums of the subsets of a finite set: first of those with no
\* element, then of those with one more.
LEMMA SumsExist ==
  ASSUME NEW f, NEW S, IsFiniteSet(S)
  PROVE  \E g : Sums(f, S, g)
<1> DEFINE Small(k) == {s \in SUBSET S : Cardinality(s) <= k}
           Good(k, g) == g = [s \in Small(k) |-> Step(f, g, s)]
           G == {k \in Nat : \E g : Good(k, g)}
<1>1. 0 \in G
  <2> DEFINE g == [s \in Small(0) |-> 0]
  <2>1. ASSUME NEW s \in Small(0)  PROVE s = {}
    <3>1. IsFiniteSet(s) /\ Cardinality(s) <= 0 /\ Cardinality(s) \in Nat
      BY FS_Subset, FS_CardinalityType
    <3> QED  BY <3>1, FS_EmptySet
  <2>2. g = [s \in Small(0) |-> Step(f, g, s)]
    BY <2>1 DEF Step
  <2>3. Good(0, g)
    BY <2>2
  <2> HIDE DEF Good, g
  <2> QED  BY <2>3
<1>2. ASSUME NEW k \in Nat, k \in G  PROVE k + 1 \in G
  <2>1. PICK g : Good(k, g)
    BY <1>2
  <2> DEFINE h == [s \in Small(k + 1) |-> Step(f, g, s)]
  <2>2. ASSUME NEW s \in Small(k + 1)  PROVE Step(f, g, s) = Step(f, h, s)
    <3>1. CASE s = {}
      BY <3>1 DEF Step
    <3>2. CASE s # {}
      <4>1. IsFiniteSet(s) /\ Cardinality(s) <= k + 1
        BY FS_Subset
      <4>2. First(s) \in s /\ Rest(s) \in SUBSET S
        BY <3>2, RestFact
      <4>3. Cardinality(Rest(s)) = Cardinality(s) - 1
            /\ Cardinality(s) \in Nat
        BY <4>1, <4>2, FS_RemoveElement, FS_CardinalityType DEF Rest
      <4>4. Rest(s) \in Small(k) /\ Rest(s) \in Small(k + 1)
        BY <4>1, <4>2, <4>3
      <4>5. g[Rest(s)] = Step(f, g, Rest(s))
        BY <2>1, <4>4
      <4>6. h[Rest(s)] = Step(f, g, Rest(s))
        BY <4>4
      <4> QED  BY <3>2, <4>5, <4>6 DEF Step
    <3> QED  BY <3>1, <3>2
  <2>3. h = [s \in Small(k + 1) |-> Step(f, h, s)]
    BY <2>2
  <2>4. Good(k + 1, h)
    BY <2>3
  <2> HIDE DEF Good, h
  <2> QED  BY <2>4
<1>3. Cardinality(S) \in Nat /\ Cardinality(S) \in G
  <2> HIDE DEF G
  <2> QED  BY <1>1, <1>2, NumbersIn, FS_CardinalityType
<1>4. PICK g : Good(Cardinality(S), g)
  BY <1>3
<1>5. Small(Cardinality(S)) = SUBSET S
  BY FS_Subset
<1> QED  BY <1>4, <1>5 DEF Sums

LEMMA SumsAreSums ==
  ASSUME NEW f, NEW S, IsFiniteSet(S)
  PROVE  Sums(f, S, SumsOf(f, S))
BY SumsExist DEF SumsOf

\* So the sum over a set is that of an element and the rest.
LEMMA SumsStep ==
  ASSUME NEW f, NEW S, NEW g, Sums(f, S, g), NEW s \in SUBSET S
  PROVE  g[s] = Step(f, g, s)
BY DEF Sums

LEMMA SumsInt ==
  ASSUME NEW S, IsFiniteSet(S), NEW f \in [S -> Int], NEW g, Sums(f, S, g),
         NEW s \in SUBSET S
  PROVE  g[s] \in Int
<1> DEFINE G == {t \in SUBSET S : g[t] \in Int}
<1>1. ASSUME NEW T \in SUBSET S, \A x \in T : T \ {x} \in G
      PROVE  T \in G
  <2>1. g[T] = Step(f, g, T)
    BY SumsStep
  <2>2. CASE T = {}
    BY <2>1, <2>2 DEF Step
  <2>3. CASE T # {}
    <3>1. First(T) \in T /\ Rest(T) \in G
      BY <1>1, <2>3, RestFact DEF Rest
    <3> QED  BY <2>1, <2>3, <3>1 DEF Step
  <2> QED  BY <2>2, <2>3
<1>2. SUBSET S \subseteq G
  <2> HIDE DEF G
  <2> QED  BY <1>1, SubsetsIn
<1> QED  BY <1>2

\* Any element may be taken out first.
LEMMA AnyFirst ==
  ASSUME NEW S, IsFiniteSet(S), NEW f \in [S -> Int], NEW g, Sums(f, S, g),
         NEW s \in SUBSET S, NEW a \in s
  PROVE  g[s] = f[a] + g[s \ {a}]
<1> DEFINE G == {t \in SUBSET S : \A b \in t : g[t] = f[b] + g[t \ {b}]}
<1>1. ASSUME NEW T \in SUBSET S, \A x \in T : T \ {x} \in G
      PROVE  T \in G
  <2> SUFFICES ASSUME NEW b \in T  PROVE g[T] = f[b] + g[T \ {b}]
    OBVIOUS
  <2> DEFINE x == First(T)
  <2>1. x \in T /\ g[T] = f[x] + g[T \ {x}]
    BY SumsStep, RestFact DEF Step, Rest
  <2>2. CASE b = x
    BY <2>1, <2>2
  <2>3. CASE b # x
    <3> HIDE DEF x
    <3>1. g[T \ {x}] = f[b] + g[(T \ {x}) \ {b}]
      BY <1>1, <2>1, <2>3
    <3>2. g[T \ {b}] = f[x] + g[(T \ {b}) \ {x}]
      BY <1>1, <2>1, <2>3
    <3>3. (T \ {x}) \ {b} = (T \ {b}) \ {x}
      OBVIOUS
    <3> DEFINE U == (T \ {x}) \ {b}
    <3>4. g[U] \in Int /\ f[x] \in Int /\ f[b] \in Int
      <4>1. U \in SUBSET S /\ x \in S /\ b \in S
        BY <2>1
      <4> HIDE DEF U
      <4> QED  BY <4>1, SumsInt
    <3>5. g[T \ {x}] = f[b] + g[U] /\ g[T \ {b}] = f[x] + g[U]
      BY <3>1, <3>2, <3>3
    <3> HIDE DEF U
    <3> QED  BY <2>1, <3>4, <3>5
  <2> QED  BY <2>2, <2>3
<1>2. SUBSET S \subseteq G
  <2> HIDE DEF G
  <2> QED  BY <1>1, SubsetsIn
<1> QED  BY <1>2

\* The sum over a set depends on the values there.
LEMMA SameValues ==
  ASSUME NEW S, IsFiniteSet(S), NEW f, NEW g, Sums(f, S, g),
         NEW T, NEW h, NEW k, Sums(h, T, k),
         NEW s \in SUBSET S, s \subseteq T, \A x \in s : f[x] = h[x]
  PROVE  g[s] = k[s]
<1> DEFINE G == {t \in SUBSET s : g[t] = k[t]}
<1>1. IsFiniteSet(s)
  BY FS_Subset
<1>2. ASSUME NEW t \in SUBSET s, \A x \in t : t \ {x} \in G
      PROVE  t \in G
  <2>1. g[t] = Step(f, g, t) /\ k[t] = Step(h, k, t)
    BY SumsStep
  <2>2. CASE t = {}
    BY <2>1, <2>2 DEF Step
  <2>3. CASE t # {}
    <3>1. First(t) \in t /\ Rest(t) \in G
      BY <1>2, <2>3, RestFact DEF Rest
    <3> QED  BY <2>1, <2>3, <3>1 DEF Step
  <2> QED  BY <2>2, <2>3
<1>3. SUBSET s \subseteq G
  <2> HIDE DEF G
  <2> QED  BY <1>1, <1>2, SubsetsIn
<1> QED  BY <1>3

-----------------------------------------------------------------------------
\* A sum of integers is an integer.
LEMMA SumInt ==
  ASSUME NEW S, IsFiniteSet(S), NEW f \in [S -> Int]
  PROVE  SumFunction(f) \in Int
<1>1. SumFunction(f) = SumsOf(f, S)[S]
  BY SumExpands
<1> QED  BY <1>1, SumsAreSums, SumsInt

\* No summand, no sum.
LEMMA SumEmpty ==
  ASSUME NEW f, DOMAIN f = {}
  PROVE  SumFunction(f) = 0
<1>1. SumFunction(f) = SumsOf(f, {})[{}]
  BY SumExpands
<1>2. Sums(f, {}, SumsOf(f, {}))
  BY SumsAreSums, FS_EmptySet
<1> QED  BY <1>1, <1>2, SumsStep DEF Step

\* A summand more.
LEMMA SumMore ==
  ASSUME NEW S, IsFiniteSet(S), NEW a, a \notin S,
         NEW f \in [S -> Int], NEW h \in [S \cup {a} -> Int],
         \A x \in S : h[x] = f[x]
  PROVE  SumFunction(h) = SumFunction(f) + h[a]
<1> DEFINE T == S \cup {a}
           g == SumsOf(f, S)
           k == SumsOf(h, T)
<1>1. IsFiniteSet(T)
  BY FS_AddElement
<1>2. Sums(f, S, g) /\ Sums(h, T, k)
  BY <1>1, SumsAreSums
<1>3. SumFunction(f) = g[S] /\ SumFunction(h) = k[T]
  BY SumExpands
<1> HIDE DEF g, k
<1>4. k[T] = h[a] + k[T \ {a}]
  <2> HIDE DEF T
  <2>1. a \in T /\ T \in SUBSET T
    BY DEF T
  <2>2. h \in [T -> Int]
    BY DEF T
  <2> QED  BY <1>1, <1>2, <2>1, <2>2, AnyFirst
<1>5. T \ {a} = S
  OBVIOUS
<1>6. g[S] = k[S]
  BY <1>2, SameValues
<1>7. g[S] \in Int /\ h[a] \in Int
  BY <1>2, SumsInt
<1>8. k[T] = h[a] + g[S]
  BY <1>4, <1>5, <1>6
<1> HIDE DEF T
<1> QED  BY <1>3, <1>7, <1>8

\* A summand changed.
LEMMA SumChange ==
  ASSUME NEW S, IsFiniteSet(S), NEW f \in [S -> Int], NEW a \in S,
         NEW d \in Int
  PROVE  SumFunction([f EXCEPT ![a] = @ + d]) = SumFunction(f) + d
<1> DEFINE T == S \ {a}
           r == [x \in T |-> f[x]]
           h == [f EXCEPT ![a] = @ + d]
<1>1. IsFiniteSet(T) /\ a \notin T /\ T \cup {a} = S
  BY FS_RemoveElement
<1>2. r \in [T -> Int] /\ h \in [S -> Int] /\ h[a] = f[a] + d
  OBVIOUS
<1>3. (\A x \in T : f[x] = r[x]) /\ (\A x \in T : h[x] = r[x])
  OBVIOUS
<1> HIDE DEF T, r, h
<1>4. SumFunction(f) = SumFunction(r) + f[a]
  BY <1>1, <1>2, <1>3, SumMore
<1>5. SumFunction(h) = SumFunction(r) + h[a]
  BY <1>1, <1>2, <1>3, SumMore
<1>6. SumFunction(r) \in Int /\ f[a] \in Int
  BY <1>1, <1>2, SumInt
<1> QED  BY <1>2, <1>4, <1>5, <1>6 DEF h

\* Nothing but zeros.
LEMMA SumZeros ==
  ASSUME NEW S, IsFiniteSet(S)
  PROVE  SumFunction([x \in S |-> 0]) = 0
<1> DEFINE f == [x \in S |-> 0]
           g == SumsOf(f, S)
           G == {t \in SUBSET S : g[t] = 0}
<1>1. Sums(f, S, g) /\ SumFunction(f) = g[S]
  BY SumsAreSums, SumExpands
<1> HIDE DEF g
<1>2. ASSUME NEW T \in SUBSET S, \A x \in T : T \ {x} \in G
      PROVE  T \in G
  <2>1. g[T] = Step(f, g, T)
    BY <1>1, SumsStep
  <2>2. CASE T = {}
    BY <2>1, <2>2 DEF Step
  <2>3. CASE T # {}
    <3>1. First(T) \in T /\ Rest(T) \in G
      BY <1>2, <2>3, RestFact DEF Rest
    <3>2. f[First(T)] = 0
      BY <3>1
    <3> QED  BY <2>1, <2>3, <3>1, <3>2 DEF Step
  <2> QED  BY <2>2, <2>3
<1>3. SUBSET S \subseteq G
  <2> HIDE DEF G
  <2> QED  BY <1>2, SubsetsIn
<1> QED  BY <1>1, <1>3
=============================================================================
