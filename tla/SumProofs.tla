----------------------------- MODULE SumProofs -----------------------------
(***************************************************************************)
(* What the proofs need to know of sums over finite sets (SumFunctionOnSet), and    *)
(* of functions defined by recursion, for data of any size.  The induction           *)
(* theorems of the library take a predicate, which the provers cannot instantiate;    *)
(* InductionOnNat and FiniteInduction take a set instead and follow from the least      *)
(* element of what is not in it.                                               *)
(***************************************************************************)
EXTENDS Integers, Sequences, FiniteSets, Functions, Folds, FiniteSetTheorems, TLAPS

(* A set with zero and with the successor of each of its numbers has all numbers.  *)
LEMMA InductionOnNat ==
    ASSUME NEW S, 0 \in S, \A n \in Nat : n \in S => n + 1 \in S
    PROVE  Nat \subseteq S
  <1> DEFINE T == Nat \ S
             R == OpToRel(<, Nat)
  <1>1. ASSUME T # {} PROVE FALSE
    <2>1. IsWellFoundedOn(R, Nat)
      BY NatLessThanWellFounded, Zenon
    <2>2. T \subseteq Nat
      OBVIOUS
    <2>3. PICK x \in T : \A y \in T : <<y, x>> \notin R
      <3> HIDE DEF T, R
      <3>. QED
        BY <1>1, <2>1, <2>2, WFMin, Zenon
    <2>4. x - 1 \in Nat /\ x - 1 < x /\ (x - 1) + 1 = x
      OBVIOUS
    <2>5. <<x - 1, x>> \in R
      BY <2>4, Zenon DEF OpToRel
    <2>6. x - 1 \in S
      BY <2>3, <2>4, <2>5
    <2>. QED
      BY <2>4, <2>6
  <1>. QED
    BY <1>1

(* The same for the numbers up to a bound.                                       *)
LEMMA InductionUpTo ==
    ASSUME NEW N \in Nat, NEW S, 0 \in S, \A n \in 0..(N - 1) : n \in S => n + 1 \in S
    PROVE  0..N \subseteq S
  <1> DEFINE T == {n \in Nat : n <= N => n \in S}
  <1>1. 0 \in T
    OBVIOUS
  <1>2. \A n \in Nat : n \in T => n + 1 \in T
    OBVIOUS
  <1>3. Nat \subseteq T
    <2> HIDE DEF T
    <2>. QED
      BY <1>1, <1>2, InductionOnNat
  <1>. QED
    BY <1>3

(* f is defined by recursion on the numbers up to n, from a; the step is itself a      *)
(* function, of what is there and of the number.                                  *)
RecursesUpTo(f, a, G, n) ==
    f = [m \in 0..n |-> IF m = 0 THEN a ELSE G[<<f[m - 1], m>>]]

(* There is such a function.                                                     *)
LEMMA RecursionUpTo ==
    ASSUME NEW A, NEW a \in A, NEW N \in Nat, NEW G \in [A \X (1..N) -> A]
    PROVE  \E f \in [0..N -> A] : RecursesUpTo(f, a, G, N)
  <1> DEFINE UpTo(f, n) == RecursesUpTo(f, a, G, n)
             S == {n \in 0..N : \E f \in [0..n -> A] : UpTo(f, n)}
  <1>1. 0 \in S
    <2> DEFINE f == [m \in 0..0 |-> a]
    <2>1. f \in [0..0 -> A]
      OBVIOUS
    <2>2. UpTo(f, 0)
      BY DEF RecursesUpTo
    <2> HIDE DEF f, UpTo
    <2>. QED
      BY <2>1, <2>2
  <1>2. ASSUME NEW n \in 0..(N - 1), n \in S
        PROVE  n + 1 \in S
    <2>1. PICK f \in [0..n -> A] : UpTo(f, n)
      BY <1>2
    <2> DEFINE x == G[<<f[n], n + 1>>]
               g == [m \in 0..(n + 1) |-> IF m = n + 1 THEN x ELSE f[m]]
    <2>2. x \in A
      <3>1. <<f[n], n + 1>> \in A \X (1..N)
        OBVIOUS
      <3>. QED
        BY <3>1
    <2> HIDE DEF x
    <2>3. g \in [0..(n + 1) -> A]
      BY <2>2
    <2>4. \A m \in 0..(n + 1) : g[m] = IF m = 0 THEN a ELSE G[<<g[m - 1], m>>]
      <3>1. \A m \in 0..n : f[m] = IF m = 0 THEN a ELSE G[<<f[m - 1], m>>]
        BY <2>1 DEF RecursesUpTo
      <3>2. \A m \in 0..n : g[m] = f[m]
        OBVIOUS
      <3>3. g[n + 1] = x
        OBVIOUS
      <3> HIDE DEF g, UpTo
      <3>4. ASSUME NEW m \in 0..(n + 1)
            PROVE  g[m] = IF m = 0 THEN a ELSE G[<<g[m - 1], m>>]
        <4>1. CASE m = n + 1
          <5>1. g[n] = f[n] /\ m - 1 = n /\ m # 0
            BY <3>2, <4>1
          <5>. QED
            BY <3>3, <4>1, <5>1 DEF x
        <4>2. CASE m \in 0..n /\ m # 0
          <5>1. m - 1 \in 0..n
            BY <4>2
          <5>. QED
            BY <3>1, <3>2, <4>2, <5>1
        <4>3. CASE m = 0
          <5>1. 0 \in 0..n
            OBVIOUS
          <5>. QED
            BY <3>1, <3>2, <4>3, <5>1
        <4>. QED
          BY <4>1, <4>2, <4>3
      <3>. QED
        BY <3>4
    <2>5. UpTo(g, n + 1)
      <3>1. g = [m \in 0..(n + 1) |-> g[m]]
        BY <2>3
      <3> HIDE DEF g
      <3>. QED
        BY <2>4, <3>1 DEF RecursesUpTo
    <2> HIDE DEF g, UpTo
    <2>. QED
      BY <2>3, <2>5
  <1>3. 0..N \subseteq S
    <2>1. N \in Nat /\ \A n \in 0..(N - 1) : n \in S => n + 1 \in S
      BY <1>2
    <2> HIDE DEF S
    <2>. QED
      BY <1>1, <2>1, InductionUpTo, Zenon
  <1>4. N \in S
    BY <1>3
  <1>. QED
    BY <1>4, Zenon

-----------------------------------------------------------------------------
(* Finite sets.                                                                *)

(* A family of subsets of S with the empty one, and with every one that has one       *)
(* element more than another of the family, has S itself.                         *)
LEMMA FiniteInduction ==
    ASSUME NEW S, IsFiniteSet(S), NEW F, {} \in F,
           \A T \in SUBSET S : \A x \in S \ T : T \in F => T \cup {x} \in F
    PROVE  S \in F
  <1> DEFINE Bad == (SUBSET S) \ F
             R == StrictSubsetOrdering(S)
  <1>1. ASSUME Bad # {} PROVE FALSE
    <2>1. IsWellFoundedOn(R, FiniteSubsetsOf(S))
      BY FS_StrictSubsetOrderingWellFounded, Zenon
    <2>2. FiniteSubsetsOf(S) = SUBSET S
      BY FS_FiniteSubsetsOfFinite, Zenon
    <2>3. Bad \subseteq SUBSET S
      OBVIOUS
    <2>4. PICK T \in Bad : \A U \in Bad : <<U, T>> \notin R
      <3> HIDE DEF Bad, R
      <3>1. IsWellFoundedOn(R, SUBSET S)
        BY <2>1, <2>2
      <3>. QED
        BY <1>1, <2>3, <3>1, WFMin, Zenon
    <2>5. T # {}
      OBVIOUS
    <2>6. PICK x \in T : TRUE
      BY <2>5
    <2>7. T \ {x} \in SUBSET S /\ x \in S \ (T \ {x}) /\ (T \ {x}) \cup {x} = T
      OBVIOUS
    <2>8. <<T \ {x}, T>> \in R
      BY <2>7 DEF StrictSubsetOrdering
    <2>9. T \ {x} \in F
      BY <2>4, <2>7, <2>8
    <2>. QED
      BY <2>7, <2>9
  <1>. QED
    BY <1>1

LEMMA SmallerByOne ==
    ASSUME NEW S, IsFiniteSet(S), NEW x \in S
    PROVE  /\ IsFiniteSet(S \ {x}) /\ Cardinality(S) \in Nat /\ Cardinality(S \ {x}) \in Nat
           /\ Cardinality(S \ {x}) = Cardinality(S) - 1
  BY FS_RemoveElement, FS_CardinalityType

-----------------------------------------------------------------------------
(* The sum over a finite set takes its elements in some order: the recursion has a      *)
(* solution, by induction on how many elements are left, and the order does not          *)
(* matter.                                                                     *)
AnyOf(T) == CHOOSE x \in T : TRUE

LEMMA AnyOfIn == \A T : T # {} => AnyOf(T) \in T
  BY DEF AnyOf

(* g sums up f over every subset of S with at most n elements.                    *)
SumsUpTo(g, f, S, n) ==
    g = [T \in {T \in SUBSET S : Cardinality(T) <= n} |->
            IF T = {} THEN 0 ELSE f[AnyOf(T)] + g[T \ {AnyOf(T)}]]

SumsAll(g, f, S) ==
    g = [T \in SUBSET S |-> IF T = {} THEN 0 ELSE f[AnyOf(T)] + g[T \ {AnyOf(T)}]]

LEMMA SumsExist ==
    ASSUME NEW S, IsFiniteSet(S), NEW f, \A x \in S : f[x] \in Int
    PROVE  \E g \in [SUBSET S -> Int] : SumsAll(g, f, S)
  <1> DEFINE D(n) == {T \in SUBSET S : Cardinality(T) <= n}
             N == {n \in Nat : \E g \in [D(n) -> Int] : SumsUpTo(g, f, S, n)}
  <1>0. \A T \in SUBSET S : IsFiniteSet(T) /\ Cardinality(T) \in Nat
    BY FS_Subset, FS_CardinalityType
  <1>1. 0 \in N
    <2> DEFINE g == [T \in D(0) |-> 0]
    <2>1. \A T \in D(0) : T = {}
      BY <1>0, FS_EmptySet
    <2>2. g \in [D(0) -> Int]
      OBVIOUS
    <2>3. SumsUpTo(g, f, S, 0)
      BY <2>1 DEF SumsUpTo
    <2>. HIDE DEF g
    <2>. QED
      BY <2>2, <2>3
  <1>2. ASSUME NEW n \in Nat, n \in N
        PROVE  n + 1 \in N
    <2>1. PICK g \in [D(n) -> Int] : SumsUpTo(g, f, S, n)
      BY <1>2
    <2>2. \A T \in D(n) : g[T] = IF T = {} THEN 0 ELSE f[AnyOf(T)] + g[T \ {AnyOf(T)}]
      BY <2>1 DEF SumsUpTo
    <2> DEFINE h == [T \in D(n + 1) |->
                        IF T = {} THEN 0 ELSE f[AnyOf(T)] + g[T \ {AnyOf(T)}]]
    <2>3. \A T \in D(n + 1) : T # {} => /\ AnyOf(T) \in S /\ f[AnyOf(T)] \in Int
                                        /\ T \ {AnyOf(T)} \in D(n)
      <3> SUFFICES ASSUME NEW T \in D(n + 1), T # {}
                   PROVE  AnyOf(T) \in S /\ f[AnyOf(T)] \in Int /\ T \ {AnyOf(T)} \in D(n)
        OBVIOUS
      <3>1. AnyOf(T) \in T
        BY AnyOfIn
      <3>2. /\ Cardinality(T) \in Nat /\ Cardinality(T \ {AnyOf(T)}) \in Nat
            /\ Cardinality(T \ {AnyOf(T)}) = Cardinality(T) - 1
        BY <1>0, <3>1, SmallerByOne
      <3>. QED
        BY <3>1, <3>2
    <2>4. h \in [D(n + 1) -> Int]
      BY <2>3
    <2>5. \A T \in D(n) : T \in D(n + 1) /\ h[T] = g[T]
      <3>1. \A T \in D(n) : T \in D(n + 1)
        BY <1>0
      <3>. QED
        BY <2>2, <3>1
    <2>6. \A T \in D(n + 1) : h[T] = IF T = {} THEN 0 ELSE f[AnyOf(T)] + h[T \ {AnyOf(T)}]
      <3>1. \A T \in D(n + 1) : h[T] = IF T = {} THEN 0 ELSE f[AnyOf(T)] + g[T \ {AnyOf(T)}]
        OBVIOUS
      <3>. HIDE DEF h, D
      <3>. QED
        BY <2>3, <2>5, <3>1
    <2>7. SumsUpTo(h, f, S, n + 1)
      <3>1. h = [T \in D(n + 1) |-> h[T]]
        BY <2>4
      <3>. HIDE DEF h
      <3>. QED
        BY <2>6, <3>1 DEF SumsUpTo
    <2>8. n + 1 \in Nat
      OBVIOUS
    <2>. HIDE DEF h, D
    <2>. QED
      BY <2>4, <2>7, <2>8
  <1>3. Cardinality(S) \in N
    <2>1. Nat \subseteq N
      <3>. HIDE DEF N
      <3>. QED
        BY <1>1, <1>2, InductionOnNat
    <2>. QED
      BY <1>0, <2>1
  <1>4. D(Cardinality(S)) = SUBSET S
    BY FS_Subset, <1>0
  <1>5. PICK g \in [D(Cardinality(S)) -> Int] : SumsUpTo(g, f, S, Cardinality(S))
    BY <1>3
  <1>6. SumsAll(g, f, S)
    BY <1>4, <1>5 DEF SumsUpTo, SumsAll
  <1>. QED
    BY <1>4, <1>5, <1>6

(* What such a function satisfies.                                                *)
Adds(g, f, S) ==
    \A T \in SUBSET S : g[T] = IF T = {} THEN 0 ELSE f[AnyOf(T)] + g[T \ {AnyOf(T)}]

(* Sums over sets that a set contains do not depend on which set that is.           *)
LEMMA SumsAgree ==
    ASSUME NEW S, IsFiniteSet(S), NEW R, NEW f, NEW g, NEW h, S \subseteq R,
           Adds(g, f, R), Adds(h, f, S)
    PROVE  g[S] = h[S]
  <1>9. \A T \in SUBSET S : T = {} => g[T] = h[T]
    BY DEF Adds
  <1> DEFINE N == {n \in Nat : \A T \in SUBSET S : Cardinality(T) <= n => g[T] = h[T]}
  <1>0. \A T \in SUBSET S : IsFiniteSet(T) /\ Cardinality(T) \in Nat
    BY FS_Subset, FS_CardinalityType
  <1>1. 0 \in N
    <2>1. \A T \in SUBSET S : Cardinality(T) <= 0 => T = {}
      BY <1>0, FS_EmptySet
    <2>. QED
      BY <1>9, <2>1
  <1>2. ASSUME NEW n \in Nat, n \in N
        PROVE  n + 1 \in N
    <2>1. ASSUME NEW T \in SUBSET S, Cardinality(T) <= n + 1
          PROVE  g[T] = h[T]
      <3>1. CASE T = {}
        BY <1>9, <3>1
      <3>2. CASE T # {}
        <4>1. AnyOf(T) \in T
          BY <3>2, AnyOfIn
        <4>2. /\ Cardinality(T) \in Nat /\ Cardinality(T \ {AnyOf(T)}) \in Nat
              /\ Cardinality(T \ {AnyOf(T)}) = Cardinality(T) - 1
          BY <1>0, <4>1, SmallerByOne
        <4>3. T \ {AnyOf(T)} \in SUBSET S /\ Cardinality(T \ {AnyOf(T)}) <= n
          BY <2>1, <4>2
        <4>4. g[T \ {AnyOf(T)}] = h[T \ {AnyOf(T)}]
          BY <1>2, <4>3
        <4>5. T \in SUBSET R
          OBVIOUS
        <4>6. g[T] = f[AnyOf(T)] + g[T \ {AnyOf(T)}] /\ h[T] = f[AnyOf(T)] + h[T \ {AnyOf(T)}]
          BY <3>2, <4>5 DEF Adds
        <4>. QED
          BY <4>4, <4>6
      <3>. QED
        BY <3>1, <3>2
    <2>. QED
      BY <2>1
  <1>3. Nat \subseteq N
    <2>. HIDE DEF N
    <2>. QED
      BY <1>1, <1>2, InductionOnNat
  <1>4. Cardinality(S) \in N
    BY <1>0, <1>3
  <1>. QED
    BY <1>0, <1>4

(* What SumFunctionOnSet computes: one element after the other.                    *)
LEMMA SumDef ==
    ASSUME NEW S, IsFiniteSet(S), NEW f, \A x \in S : f[x] \in Int
    PROVE  /\ SumFunctionOnSet(f, S) \in Int
           /\ SumFunctionOnSet(f, S) =
                IF S = {} THEN 0 ELSE f[AnyOf(S)] + SumFunctionOnSet(f, S \ {AnyOf(S)})
  <1> DEFINE sums(T) == CHOOSE g : SumsAll(g, f, T)
  <1>1. \A T : SumFunctionOnSet(f, T) = sums(T)[T]
    BY Zenon DEF SumFunctionOnSet, FoldFunctionOnSet, MapThenFoldSet, SumsAll, AnyOf
  <1>2. \A T \in SUBSET S : Adds(sums(T), f, T)
    <2> SUFFICES ASSUME NEW T \in SUBSET S
                 PROVE  Adds(sums(T), f, T)
      OBVIOUS
    <2>1. IsFiniteSet(T) /\ \A x \in T : f[x] \in Int
      BY FS_Subset
    <2>2. \E g : SumsAll(g, f, T)
      BY <2>1, SumsExist
    <2>3. SumsAll(sums(T), f, T)
      BY <2>2, Zenon
    <2>. HIDE DEF sums
    <2>. QED
      BY <2>3 DEF SumsAll, Adds
  <1>3. sums(S)[S] \in Int
    <2>1. PICK g \in [SUBSET S -> Int] : SumsAll(g, f, S)
      BY SumsExist
    <2>2. Adds(g, f, S)
      BY <2>1 DEF SumsAll, Adds
    <2>. HIDE DEF sums
    <2>3. g[S] = sums(S)[S]
      <3>1. S \in SUBSET S /\ S \subseteq S
        OBVIOUS
      <3>2. Adds(sums(S), f, S)
        BY <1>2, <3>1, Zenon
      <3>. QED
        BY <2>2, <3>1, <3>2, SumsAgree, Zenon
    <2>. QED
      BY <2>1, <2>3
  <1>. HIDE DEF sums
  <1>4. CASE S = {}
    BY <1>1, <1>2, <1>3, <1>4 DEF Adds
  <1>5. CASE S # {}
    <2> DEFINE T == S \ {AnyOf(S)}
    <2>1. T \in SUBSET S /\ IsFiniteSet(T)
      BY FS_Subset
    <2>2. sums(S)[T] = sums(T)[T]
      <3>1. S \in SUBSET S /\ T \subseteq S
        OBVIOUS
      <3>. HIDE DEF T
      <3>2. Adds(sums(S), f, S) /\ Adds(sums(T), f, T)
        BY <1>2, <2>1, <3>1, Zenon
      <3>. QED
        BY <2>1, <3>1, <3>2, SumsAgree
    <2>3. sums(S)[S] = f[AnyOf(S)] + sums(S)[T]
      BY <1>2, <1>5 DEF Adds
    <2>. HIDE DEF T
    <2>4. SumFunctionOnSet(f, S) = f[AnyOf(S)] + SumFunctionOnSet(f, T)
      BY <1>1, <2>2, <2>3
    <2>. QED
      BY <1>1, <1>3, <1>5, <2>4 DEF T
  <1>. QED
    BY <1>4, <1>5

LEMMA SumEmpty == \A f : SumFunctionOnSet(f, {}) = 0
  <1> SUFFICES ASSUME NEW f PROVE SumFunctionOnSet(f, {}) = 0
    OBVIOUS
  <1>1. IsFiniteSet({}) /\ \A x \in {} : f[x] \in Int
    BY FS_EmptySet
  <1>. QED
    BY <1>1, SumDef

LEMMA SumInt ==
    ASSUME NEW S, IsFiniteSet(S), NEW f, \A x \in S : f[x] \in Int
    PROVE  SumFunctionOnSet(f, S) \in Int
  BY SumDef

(* An element more adds its value.                                                *)
LEMMA SumAdd ==
    ASSUME NEW S, IsFiniteSet(S), NEW x, x \notin S, NEW f, \A y \in S \cup {x} : f[y] \in Int
    PROVE  SumFunctionOnSet(f, S \cup {x}) = SumFunctionOnSet(f, S) + f[x]
  <1> DEFINE U == S \cup {x}
             sum(T) == SumFunctionOnSet(f, T)
             Added(T, y) == sum(T \cup {y}) = sum(T) + f[y]
             N == {n \in Nat : \A T \in SUBSET U : \A y \in U \ T :
                                  Cardinality(T) <= n => Added(T, y)}
  <1>1. IsFiniteSet(U) /\ \A y \in U : f[y] \in Int
    BY FS_AddElement
  <1>. HIDE DEF U
  <1>2. \A T \in SUBSET U :
            /\ IsFiniteSet(T) /\ Cardinality(T) \in Nat /\ sum(T) \in Int
            /\ sum(T) = IF T = {} THEN 0 ELSE f[AnyOf(T)] + sum(T \ {AnyOf(T)})
    <2> SUFFICES ASSUME NEW T \in SUBSET U
                 PROVE  /\ IsFiniteSet(T) /\ Cardinality(T) \in Nat /\ sum(T) \in Int
                        /\ sum(T) = IF T = {} THEN 0 ELSE f[AnyOf(T)] + sum(T \ {AnyOf(T)})
      OBVIOUS
    <2>1. IsFiniteSet(T) /\ \A y \in T : f[y] \in Int
      BY <1>1, FS_Subset
    <2>. QED
      BY <2>1, SumDef, FS_CardinalityType
  <1>. HIDE DEF sum
  <1>3. 0 \in N
    <2> SUFFICES ASSUME NEW T \in SUBSET U, NEW y \in U \ T, Cardinality(T) <= 0
                 PROVE  Added(T, y)
      OBVIOUS
    <2>1. T = {}
      <3>1. IsFiniteSet(T) /\ Cardinality(T) \in Nat
        BY <1>2
      <3>2. Cardinality(T) = 0
        BY <3>1
      <3>. QED
        BY <3>1, <3>2, FS_EmptySet
    <2>2. T \cup {y} = {y} /\ {y} \in SUBSET U /\ {} \in SUBSET U /\ {y} # {}
      BY <2>1
    <2>3. AnyOf({y}) = y
      BY AnyOfIn
    <2>4. {y} \ {y} = {}
      OBVIOUS
    <2>5. sum({}) = 0 /\ sum({y}) = f[y] + sum({})
      BY <1>2, <2>2, <2>3, <2>4
    <2>. QED
      BY <1>1, <2>1, <2>2, <2>5
  <1>4. ASSUME NEW n \in Nat, n \in N
        PROVE  n + 1 \in N
    <2> SUFFICES ASSUME NEW T \in SUBSET U, NEW y \in U \ T, Cardinality(T) <= n + 1
                 PROVE  Added(T, y)
      OBVIOUS
    <2> DEFINE V == T \cup {y}
               z == AnyOf(V)
    <2>1. V \in SUBSET U /\ V # {} /\ z \in V
      BY AnyOfIn
    <2>2. sum(V) = f[z] + sum(V \ {z})
      BY <1>2, <2>1
    <2>. HIDE DEF z
    <2>3. CASE z = y
      <3>1. V \ {z} = T
        BY <2>3
      <3>2. sum(T) \in Int /\ f[y] \in Int
        BY <1>1, <1>2
      <3>3. sum(V) = f[y] + sum(T)
        BY <2>2, <2>3, <3>1
      <3>. QED
        BY <3>2, <3>3
    <2>4. CASE z # y
      <3> DEFINE W == T \ {z}
      <3>1. z \in T /\ W \in SUBSET U /\ y \in U \ W /\ z \in U \ W /\ V \ {z} = W \cup {y} /\ W \cup {z} = T
        BY <2>1, <2>4
      <3>2. Cardinality(W) <= n
        <4>1. IsFiniteSet(T)
          BY <1>2
        <4>2. /\ Cardinality(T) \in Nat /\ Cardinality(W) \in Nat
              /\ Cardinality(W) = Cardinality(T) - 1
          BY <3>1, <4>1, SmallerByOne
        <4>. QED
          BY <4>2
      <3>. HIDE DEF W
      <3>3. Added(W, y) /\ Added(W, z)
        BY <1>4, <3>1, <3>2
      <3>4. sum(V) = f[z] + (sum(W) + f[y]) /\ sum(T) = sum(W) + f[z]
        BY <2>2, <3>1, <3>3
      <3>5. sum(W) \in Int /\ f[y] \in Int /\ f[z] \in Int
        BY <1>1, <1>2, <3>1
      <3>6. sum(V) = sum(T) + f[y]
        <4>. HIDE DEF V
        <4>. QED
          BY <3>4, <3>5
      <3>. QED
        BY <3>6
    <2>. QED
      BY <2>3, <2>4
  <1>5. Nat \subseteq N
    <2>. HIDE DEF N
    <2>. QED
      BY <1>3, <1>4, InductionOnNat
  <1>6. S \in SUBSET U /\ x \in U \ S
    BY DEF U
  <1>7. Cardinality(S) \in N
    BY <1>2, <1>5, <1>6
  <1>8. Added(S, x)
    BY <1>2, <1>6, <1>7
  <1>. QED
    BY <1>8 DEF sum

LEMMA SumRemove ==
    ASSUME NEW S, IsFiniteSet(S), NEW x \in S, NEW f, \A y \in S : f[y] \in Int
    PROVE  /\ SumFunctionOnSet(f, S) = SumFunctionOnSet(f, S \ {x}) + f[x]
           /\ SumFunctionOnSet(f, S \ {x}) \in Int
  <1>1. /\ IsFiniteSet(S \ {x}) /\ x \notin S \ {x} /\ (S \ {x}) \cup {x} = S
        /\ \A y \in S \ {x} : f[y] \in Int
    BY SmallerByOne
  <1>. QED
    BY <1>1, SumAdd, SumInt

(* Sums compare as their terms do.                                                *)
LEMMA SumMonotone ==
    ASSUME NEW S, IsFiniteSet(S), NEW f, NEW g,
           \A x \in S : f[x] \in Int /\ g[x] \in Int /\ f[x] <= g[x]
    PROVE  SumFunctionOnSet(f, S) <= SumFunctionOnSet(g, S)
  <1> DEFINE F == {T \in SUBSET S : SumFunctionOnSet(f, T) <= SumFunctionOnSet(g, T)}
  <1>1. {} \in F
    BY SumEmpty
  <1>2. ASSUME NEW T \in SUBSET S, NEW x \in S \ T, T \in F
        PROVE  T \cup {x} \in F
    <2>1. IsFiniteSet(T)
      BY FS_Subset
    <2>2. /\ SumFunctionOnSet(f, T \cup {x}) = SumFunctionOnSet(f, T) + f[x]
          /\ SumFunctionOnSet(g, T \cup {x}) = SumFunctionOnSet(g, T) + g[x]
          /\ SumFunctionOnSet(f, T) \in Int /\ SumFunctionOnSet(g, T) \in Int
      BY <2>1, SumAdd, SumInt
    <2>3. f[x] \in Int /\ g[x] \in Int /\ f[x] <= g[x]
      OBVIOUS
    <2>4. SumFunctionOnSet(f, T) <= SumFunctionOnSet(g, T)
      BY <1>2
    <2>. QED
      BY <2>2, <2>3, <2>4
  <1>3. S \in F
    <2>. HIDE DEF F
    <2>. QED
      BY <1>1, <1>2, FiniteInduction
  <1>. QED
    BY <1>3

LEMMA SumSame ==
    ASSUME NEW S, IsFiniteSet(S), NEW f, NEW g, \A x \in S : f[x] \in Int /\ g[x] = f[x]
    PROVE  SumFunctionOnSet(f, S) = SumFunctionOnSet(g, S)
  <1>1. SumFunctionOnSet(f, S) \in Int /\ SumFunctionOnSet(g, S) \in Int
    BY SumInt
  <1>2. SumFunctionOnSet(f, S) <= SumFunctionOnSet(g, S)
    BY SumMonotone
  <1>3. SumFunctionOnSet(g, S) <= SumFunctionOnSet(f, S)
    BY SumMonotone
  <1>. QED
    BY <1>1, <1>2, <1>3

LEMMA SumStrict ==
    ASSUME NEW S, IsFiniteSet(S), NEW f, NEW g,
           \A x \in S : f[x] \in Int /\ g[x] \in Int /\ f[x] <= g[x],
           NEW x \in S, f[x] < g[x]
    PROVE  SumFunctionOnSet(f, S) < SumFunctionOnSet(g, S)
  <1>1. /\ SumFunctionOnSet(f, S) = SumFunctionOnSet(f, S \ {x}) + f[x]
        /\ SumFunctionOnSet(g, S) = SumFunctionOnSet(g, S \ {x}) + g[x]
        /\ SumFunctionOnSet(f, S \ {x}) \in Int /\ SumFunctionOnSet(g, S \ {x}) \in Int
    BY SumRemove
  <1>2. IsFiniteSet(S \ {x})
    BY SmallerByOne
  <1>3. SumFunctionOnSet(f, S \ {x}) <= SumFunctionOnSet(g, S \ {x})
    BY <1>2, SumMonotone
  <1>4. f[x] \in Int /\ g[x] \in Int
    OBVIOUS
  <1>. QED
    BY <1>1, <1>3, <1>4

(* One term changes by d.                                                         *)
LEMMA SumUpdate ==
    ASSUME NEW S, IsFiniteSet(S), NEW f, \A y \in S : f[y] \in Int,
           NEW x \in S, NEW d \in Int, NEW g, \A y \in S \ {x} : g[y] = f[y], g[x] = f[x] + d
    PROVE  SumFunctionOnSet(g, S) = SumFunctionOnSet(f, S) + d
  <1>1. \A y \in S : g[y] \in Int
    OBVIOUS
  <1>2. /\ SumFunctionOnSet(f, S) = SumFunctionOnSet(f, S \ {x}) + f[x]
        /\ SumFunctionOnSet(g, S) = SumFunctionOnSet(g, S \ {x}) + g[x]
        /\ SumFunctionOnSet(f, S \ {x}) \in Int
    BY <1>1, SumRemove
  <1>3. IsFiniteSet(S \ {x})
    BY SmallerByOne
  <1>4. SumFunctionOnSet(f, S \ {x}) = SumFunctionOnSet(g, S \ {x})
    BY <1>3, SumSame
  <1>5. f[x] \in Int /\ g[x] = f[x] + d
    OBVIOUS
  <1>. QED
    BY <1>2, <1>4, <1>5

LEMMA SumNonNegative ==
    ASSUME NEW S, IsFiniteSet(S), NEW f, \A x \in S : f[x] \in Nat
    PROVE  /\ SumFunctionOnSet(f, S) \in Nat
           /\ \A x \in S : f[x] <= SumFunctionOnSet(f, S)
  <1> DEFINE F == {T \in SUBSET S : SumFunctionOnSet(f, T) \in Nat}
  <1>1. {} \in F
    BY SumEmpty
  <1>2. ASSUME NEW T \in SUBSET S, NEW x \in S \ T, T \in F
        PROVE  T \cup {x} \in F
    <2>1. IsFiniteSet(T) /\ \A y \in T \cup {x} : f[y] \in Int
      BY FS_Subset
    <2>2. SumFunctionOnSet(f, T \cup {x}) = SumFunctionOnSet(f, T) + f[x]
      BY <2>1, SumAdd
    <2>3. SumFunctionOnSet(f, T) \in Nat /\ f[x] \in Nat
      BY <1>2
    <2>. QED
      BY <2>2, <2>3
  <1>3. \A T \in SUBSET S : T \in F
    <2> SUFFICES ASSUME NEW T \in SUBSET S
                 PROVE  T \in F
      OBVIOUS
    <2>1. IsFiniteSet(T)
      BY FS_Subset
    <2>2. \A U \in SUBSET T : \A x \in T \ U : U \in F => U \cup {x} \in F
      BY <1>2
    <2>. HIDE DEF F
    <2>. QED
      BY <1>1, <2>1, <2>2, FiniteInduction
  <1>4. S \in F
    BY <1>3
  <1>5. ASSUME NEW x \in S
        PROVE  f[x] <= SumFunctionOnSet(f, S)
    <2>1. SumFunctionOnSet(f, S) = SumFunctionOnSet(f, S \ {x}) + f[x]
      BY SumRemove
    <2>2. S \ {x} \in F
      BY <1>3
    <2>3. SumFunctionOnSet(f, S \ {x}) \in Nat /\ f[x] \in Nat
      BY <2>2
    <2>. QED
      BY <2>1, <2>3
  <1>. QED
    BY <1>4, <1>5

(* A constant sums to its multiples.                                               *)
LEMMA SumConstant ==
    ASSUME NEW S, IsFiniteSet(S), NEW k \in Int, NEW f, \A x \in S : f[x] = k
    PROVE  SumFunctionOnSet(f, S) = k * Cardinality(S)
  <1> DEFINE K(n) == k * n
             F == {T \in SUBSET S : SumFunctionOnSet(f, T) = K(Cardinality(T))}
  <1>1. K(0) = 0 /\ \A n \in Nat : K(n) \in Int /\ K(n + 1) = K(n) + k
    OBVIOUS
  <1>. HIDE DEF K
  <1>2. {} \in F
    BY <1>1, SumEmpty, FS_EmptySet
  <1>3. ASSUME NEW T \in SUBSET S, NEW x \in S \ T, T \in F
        PROVE  T \cup {x} \in F
    <2>1. IsFiniteSet(T) /\ \A y \in T \cup {x} : f[y] \in Int
      BY FS_Subset
    <2>2. SumFunctionOnSet(f, T \cup {x}) = SumFunctionOnSet(f, T) + k
      <3>1. f[x] = k
        OBVIOUS
      <3>2. SumFunctionOnSet(f, T \cup {x}) = SumFunctionOnSet(f, T) + f[x]
        BY <2>1, SumAdd
      <3>. QED
        BY <3>1, <3>2
    <2>3. Cardinality(T) \in Nat /\ Cardinality(T \cup {x}) = Cardinality(T) + 1
      BY <2>1, FS_AddElement, FS_CardinalityType
    <2>4. SumFunctionOnSet(f, T) = K(Cardinality(T))
      BY <1>3
    <2>5. SumFunctionOnSet(f, T \cup {x}) = K(Cardinality(T \cup {x}))
      BY <1>1, <2>2, <2>3, <2>4
    <2>. QED
      BY <2>5
  <1>4. S \in F
    <2>. HIDE DEF F
    <2>. QED
      BY <1>2, <1>3, FiniteInduction
  <1>. QED
    BY <1>4 DEF K

(* Sums are linear.                                                              *)
LEMMA SumPlus ==
    ASSUME NEW S, IsFiniteSet(S), NEW f, NEW g, NEW h,
           \A x \in S : f[x] \in Int /\ g[x] \in Int /\ h[x] = f[x] + g[x]
    PROVE  SumFunctionOnSet(h, S) = SumFunctionOnSet(f, S) + SumFunctionOnSet(g, S)
  <1> DEFINE F == {T \in SUBSET S : SumFunctionOnSet(h, T)
                                    = SumFunctionOnSet(f, T) + SumFunctionOnSet(g, T)}
  <1>1. {} \in F
    BY SumEmpty
  <1>2. ASSUME NEW T \in SUBSET S, NEW x \in S \ T, T \in F
        PROVE  T \cup {x} \in F
    <2>1. IsFiniteSet(T) /\ \A y \in T \cup {x} : h[y] \in Int
      BY FS_Subset
    <2>2. /\ SumFunctionOnSet(f, T \cup {x}) = SumFunctionOnSet(f, T) + f[x]
          /\ SumFunctionOnSet(g, T \cup {x}) = SumFunctionOnSet(g, T) + g[x]
          /\ SumFunctionOnSet(h, T \cup {x}) = SumFunctionOnSet(h, T) + h[x]
          /\ SumFunctionOnSet(f, T) \in Int /\ SumFunctionOnSet(g, T) \in Int
      BY <2>1, SumAdd, SumInt
    <2>3. f[x] \in Int /\ g[x] \in Int /\ h[x] = f[x] + g[x]
      OBVIOUS
    <2>4. SumFunctionOnSet(h, T) = SumFunctionOnSet(f, T) + SumFunctionOnSet(g, T)
      BY <1>2
    <2>5. SumFunctionOnSet(h, T \cup {x})
          = SumFunctionOnSet(f, T \cup {x}) + SumFunctionOnSet(g, T \cup {x})
      BY <2>2, <2>3, <2>4
    <2>. QED
      BY <2>5
  <1>3. S \in F
    <2>. HIDE DEF F
    <2>. QED
      BY <1>1, <1>2, FiniteInduction
  <1>. QED
    BY <1>3

LEMMA SumTimes ==
    ASSUME NEW S, IsFiniteSet(S), NEW k \in Int, NEW f, NEW g,
           \A x \in S : f[x] \in Int /\ g[x] = k * f[x]
    PROVE  SumFunctionOnSet(g, S) = k * SumFunctionOnSet(f, S)
  <1> DEFINE K(n) == k * n
             F == {T \in SUBSET S : SumFunctionOnSet(g, T) = K(SumFunctionOnSet(f, T))}
  <1>1. K(0) = 0 /\ \A m, n \in Int : K(n) \in Int /\ K(m + n) = K(m) + K(n)
    OBVIOUS
  <1>2. \A x \in S : f[x] \in Int /\ g[x] = K(f[x])
    OBVIOUS
  <1>. HIDE DEF K
  <1>3. {} \in F
    BY <1>1, SumEmpty
  <1>4. ASSUME NEW T \in SUBSET S, NEW x \in S \ T, T \in F
        PROVE  T \cup {x} \in F
    <2>1. IsFiniteSet(T) /\ \A y \in T \cup {x} : g[y] \in Int
      BY <1>1, <1>2, FS_Subset
    <2>2. /\ SumFunctionOnSet(f, T \cup {x}) = SumFunctionOnSet(f, T) + f[x]
          /\ SumFunctionOnSet(g, T \cup {x}) = SumFunctionOnSet(g, T) + g[x]
          /\ SumFunctionOnSet(f, T) \in Int
      BY <1>2, <2>1, SumAdd, SumInt
    <2>3. f[x] \in Int /\ g[x] = K(f[x])
      BY <1>2
    <2>4. SumFunctionOnSet(g, T) = K(SumFunctionOnSet(f, T))
      BY <1>4
    <2>5. SumFunctionOnSet(g, T \cup {x}) = K(SumFunctionOnSet(f, T \cup {x}))
      BY <1>1, <2>2, <2>3, <2>4
    <2>. QED
      BY <2>5
  <1>5. S \in F
    <2>. HIDE DEF F
    <2>. QED
      BY <1>3, <1>4, FiniteInduction
  <1>. QED
    BY <1>5 DEF K

(* The sum over a union of disjoint sets.                                          *)
LEMMA SumUnion ==
    ASSUME NEW S, IsFiniteSet(S), NEW R, IsFiniteSet(R), S \cap R = {}, NEW f,
           \A x \in S \cup R : f[x] \in Int
    PROVE  SumFunctionOnSet(f, R \cup S) = SumFunctionOnSet(f, R) + SumFunctionOnSet(f, S)
  <1> DEFINE F == {T \in SUBSET S : SumFunctionOnSet(f, R \cup T)
                                    = SumFunctionOnSet(f, R) + SumFunctionOnSet(f, T)}
  <1>0. SumFunctionOnSet(f, R) \in Int
    BY SumInt
  <1>1. {} \in F
    <2>1. R \cup {} = R
      OBVIOUS
    <2>2. SumFunctionOnSet(f, {}) = 0
      BY SumEmpty
    <2>3. SumFunctionOnSet(f, R \cup {}) = SumFunctionOnSet(f, R) + SumFunctionOnSet(f, {})
      BY <1>0, <2>1, <2>2
    <2>. QED
      BY <2>3
  <1>2. ASSUME NEW T \in SUBSET S, NEW x \in S \ T, T \in F
        PROVE  T \cup {x} \in F
    <2>1. IsFiniteSet(T) /\ IsFiniteSet(R \cup T)
      BY FS_Subset, FS_Union
    <2>2. R \cup (T \cup {x}) = (R \cup T) \cup {x} /\ x \notin R \cup T
      OBVIOUS
    <2>3. /\ SumFunctionOnSet(f, T \cup {x}) = SumFunctionOnSet(f, T) + f[x]
          /\ SumFunctionOnSet(f, T) \in Int /\ f[x] \in Int
      BY <2>1, SumAdd, SumInt
    <2>4. SumFunctionOnSet(f, (R \cup T) \cup {x}) = SumFunctionOnSet(f, R \cup T) + f[x]
      <3>1. \A y \in (R \cup T) \cup {x} : f[y] \in Int
        OBVIOUS
      <3>. QED
        BY <2>1, <2>2, <3>1, SumAdd
    <2>5. SumFunctionOnSet(f, R \cup T) = SumFunctionOnSet(f, R) + SumFunctionOnSet(f, T)
      BY <1>2
    <2>6. SumFunctionOnSet(f, R \cup (T \cup {x}))
          = SumFunctionOnSet(f, R) + SumFunctionOnSet(f, T \cup {x})
      <3>1. SumFunctionOnSet(f, R \cup (T \cup {x})) = SumFunctionOnSet(f, R \cup T) + f[x]
        BY <2>2, <2>4
      <3>. QED
        BY <1>0, <2>3, <2>5, <3>1
    <2>. QED
      BY <2>6
  <1>3. S \in F
    <2>. HIDE DEF F
    <2>. QED
      BY <1>1, <1>2, FiniteInduction
  <1>. QED
    BY <1>3

(* The sums over the parts of a set add up to the sum over it.                       *)
LEMMA SumParts ==
    ASSUME NEW I, IsFiniteSet(I), NEW J, IsFiniteSet(J), NEW part \in [I -> J],
           NEW f, \A i \in I : f[i] \in Int,
           NEW g, \A j \in J : g[j] = SumFunctionOnSet(f, {i \in I : part[i] = j})
    PROVE  SumFunctionOnSet(g, J) = SumFunctionOnSet(f, I)
  <1> DEFINE Of(T) == {i \in I : part[i] \in T}
             F == {T \in SUBSET J : SumFunctionOnSet(g, T) = SumFunctionOnSet(f, Of(T))}
  <1>0. \A T : IsFiniteSet(Of(T)) /\ SumFunctionOnSet(f, Of(T)) \in Int
    <2> SUFFICES ASSUME NEW T PROVE IsFiniteSet(Of(T)) /\ SumFunctionOnSet(f, Of(T)) \in Int
      OBVIOUS
    <2>1. Of(T) \in SUBSET I
      OBVIOUS
    <2>. HIDE DEF Of
    <2>2. IsFiniteSet(Of(T)) /\ \A i \in Of(T) : f[i] \in Int
      BY <2>1, FS_Subset
    <2>. QED
      BY <2>2, SumInt
  <1>9. \A j \in J : {i \in I : part[i] = j} = Of({j})
    OBVIOUS
  <1>1. {} \in F
    <2>1. Of({}) = {}
      OBVIOUS
    <2>. QED
      BY <2>1, SumEmpty
  <1>2. ASSUME NEW T \in SUBSET J, NEW x \in J \ T, T \in F
        PROVE  T \cup {x} \in F
    <2>1. IsFiniteSet(T)
      BY FS_Subset
    <2>2. \A j \in T \cup {x} : g[j] \in Int
      <3> SUFFICES ASSUME NEW j \in T \cup {x}
                   PROVE  g[j] \in Int
        OBVIOUS
      <3>1. SumFunctionOnSet(f, Of({j})) \in Int
        BY <1>0
      <3>2. g[j] = SumFunctionOnSet(f, Of({j}))
        BY <1>9
      <3>. QED
        BY <3>1, <3>2, Zenon
    <2>3. SumFunctionOnSet(g, T \cup {x}) = SumFunctionOnSet(g, T) + g[x]
      BY <2>1, <2>2, SumAdd
    <2>4. Of(T \cup {x}) = Of(T) \cup Of({x}) /\ Of({x}) \cap Of(T) = {}
          /\ \A i \in Of({x}) \cup Of(T) : f[i] \in Int
      OBVIOUS
    <2>5. g[x] = SumFunctionOnSet(f, Of({x}))
      BY <1>9
    <2>6. SumFunctionOnSet(g, T) = SumFunctionOnSet(f, Of(T))
      BY <1>2
    <2>. HIDE DEF Of
    <2>7. SumFunctionOnSet(f, Of(T) \cup Of({x}))
          = SumFunctionOnSet(f, Of(T)) + SumFunctionOnSet(f, Of({x}))
      BY <1>0, <2>4, SumUnion
    <2>8. SumFunctionOnSet(g, T \cup {x}) = SumFunctionOnSet(f, Of(T \cup {x}))
      BY <2>3, <2>4, <2>5, <2>6, <2>7
    <2>. QED
      BY <2>8
  <1>3. J \in F
    <2>. HIDE DEF F
    <2>. QED
      BY <1>1, <1>2, FiniteInduction
  <1>4. Of(J) = I
    OBVIOUS
  <1>. QED
    BY <1>3, <1>4

-----------------------------------------------------------------------------
(* Mean and deviation of m numbers, without a division: m * f[x] - Y is how far the     *)
(* x-th is from the mean Y/m, times m; m * Q - Y * Y is the variance, times m squared.   *)

LEMMA SquareIsNat == ASSUME NEW n \in Int PROVE n * n \in Nat
  BY SMTT(20)

LEMMA VarianceAlgebra ==
    ASSUME NEW m \in Int, NEW Y \in Int, NEW Q \in Int
    PROVE  (m * m) * Q + ((-(2 * (m * Y))) * Y + (Y * Y) * m) = m * (m * Q - Y * Y)
  BY SMTT(20)

LEMMA DeviationAlgebra ==
    ASSUME NEW m \in Int, NEW Y \in Int, NEW v \in Int
    PROVE  (m * v - Y) * (m * v - Y)
           = (m * m) * (v * v) + ((-(2 * (m * Y))) * v + Y * Y)
  BY SMTT(20)

(* The deviations from the mean add up to nothing, their squares to m times the     *)
(* spread.                                                                        *)
LEMMA Deviations ==
    ASSUME NEW S, IsFiniteSet(S), NEW f, \A x \in S : f[x] \in Int,
           NEW m, m = Cardinality(S), NEW Y, Y = SumFunctionOnSet(f, S),
           NEW q, \A x \in S : q[x] = f[x] * f[x], NEW Q, Q = SumFunctionOnSet(q, S),
           NEW y, \A x \in S : y[x] = m * f[x] - Y,
           NEW z, \A x \in S : z[x] = y[x] * y[x]
    PROVE  /\ m \in Nat /\ Y \in Int /\ Q \in Int
           /\ SumFunctionOnSet(y, S) = 0
           /\ SumFunctionOnSet(z, S) = m * (m * Q - Y * Y)
  <1>1. /\ m \in Nat /\ Y \in Int
        /\ \A x \in S : q[x] \in Int
    BY FS_CardinalityType, SumInt
  <1>2. Q \in Int
    BY <1>1, SumInt
  <1>3. \A x \in S : y[x] \in Int
    BY <1>1
  <1> DEFINE my == [x \in S |-> m * f[x]]
             minus == [x \in S |-> -Y]
  <1>4. SumFunctionOnSet(my, S) = m * Y
    BY <1>1, SumTimes
  <1>5. SumFunctionOnSet(minus, S) = (-Y) * m
    <2>1. -Y \in Int /\ \A x \in S : minus[x] = -Y
      BY <1>1
    <2>. QED
      BY <2>1, SumConstant
  <1>6. SumFunctionOnSet(y, S) = SumFunctionOnSet(my, S) + SumFunctionOnSet(minus, S)
    <2>1. \A x \in S : my[x] \in Int /\ minus[x] \in Int /\ y[x] = my[x] + minus[x]
      BY <1>1
    <2> HIDE DEF my, minus
    <2>. QED
      BY <2>1, SumPlus
  <1>7. SumFunctionOnSet(y, S) = 0
    <2>1. m * Y + (-Y) * m = 0
      BY <1>1, SMTT(20)
    <2>. QED
      BY <1>4, <1>5, <1>6, <2>1
  <1> DEFINE a == m * m
             b == -(2 * (m * Y))
             c == Y * Y
             za == [x \in S |-> a * q[x]]
             zb == [x \in S |-> b * f[x]]
             zc == [x \in S |-> c]
             zbc == [x \in S |-> b * f[x] + c]
  <1>8. a \in Int /\ b \in Int /\ c \in Int
    BY <1>1
  <1>9. \A x \in S : z[x] = a * q[x] + (b * f[x] + c)
    <2> SUFFICES ASSUME NEW x \in S PROVE z[x] = a * q[x] + (b * f[x] + c)
      OBVIOUS
    <2>. QED
      BY <1>1, DeviationAlgebra
  <1>10. m * (m * Q - Y * Y) = a * Q + (b * Y + c * m)
    BY <1>1, <1>2, VarianceAlgebra
  <1> HIDE DEF a, b, c
  <1>11. SumFunctionOnSet(za, S) = a * Q /\ SumFunctionOnSet(zb, S) = b * Y
    BY <1>1, <1>8, SumTimes
  <1>12. SumFunctionOnSet(zc, S) = c * m
    <2>1. \A x \in S : zc[x] = c
      OBVIOUS
    <2> HIDE DEF zc
    <2>. QED
      BY <1>8, <2>1, SumConstant
  <1>13. \A x \in S : /\ za[x] \in Int /\ zb[x] \in Int /\ zc[x] \in Int /\ zbc[x] \in Int
                      /\ zbc[x] = zb[x] + zc[x] /\ z[x] = za[x] + zbc[x]
    BY <1>1, <1>8, <1>9
  <1> HIDE DEF za, zb, zc, zbc
  <1>14. SumFunctionOnSet(zbc, S) = b * Y + c * m
    BY <1>11, <1>12, <1>13, SumPlus
  <1>15. SumFunctionOnSet(z, S) = a * Q + (b * Y + c * m)
    BY <1>11, <1>13, <1>14, SumPlus
  <1>. QED
    BY <1>1, <1>2, <1>7, <1>10, <1>15

(* A spread is not negative.                                                     *)
LEMMA SpreadIsNat ==
    ASSUME NEW S, IsFiniteSet(S), NEW f, \A x \in S : f[x] \in Int,
           NEW m, m = Cardinality(S), NEW Y, Y = SumFunctionOnSet(f, S),
           NEW q, \A x \in S : q[x] = f[x] * f[x], NEW Q, Q = SumFunctionOnSet(q, S)
    PROVE  m * Q - Y * Y \in Nat
  <1> DEFINE y == [x \in S |-> m * f[x] - Y]
             z == [x \in S |-> y[x] * y[x]]
             d == m * Q - Y * Y
  <1>1. /\ \A x \in S : y[x] = m * f[x] - Y
        /\ \A x \in S : z[x] = y[x] * y[x]
    OBVIOUS
  <1>2. m \in Nat /\ Y \in Int
    BY FS_CardinalityType, SumInt
  <1>3. \A x \in S : y[x] \in Int
    BY <1>2
  <1> HIDE DEF y, z
  <1>4. Q \in Int /\ SumFunctionOnSet(z, S) = m * d
    BY <1>1, Deviations
  <1>5. SumFunctionOnSet(z, S) \in Nat
    <2>1. \A x \in S : z[x] \in Nat
      BY <1>1, <1>3, SquareIsNat
    <2>. QED
      BY <2>1, SumNonNegative
  <1>6. CASE m = 0
    <2>1. S = {}
      BY <1>6, FS_EmptySet
    <2>2. Y = 0
      BY <2>1, SumEmpty
    <2>. QED
      BY <1>4, <1>6, <2>2
  <1>7. CASE m > 0
    <2>1. d \in Int
      BY <1>2, <1>4
    <2> HIDE DEF d
    <2>2. ASSUME d < 0 PROVE FALSE
      <3>1. m * d < 0
        BY <1>2, <1>7, <2>1, <2>2, SMTT(20)
      <3>. QED
        BY <1>4, <1>5, <3>1
    <2>3. d \in Nat
      BY <2>1, <2>2
    <2>. QED
      BY <2>3 DEF d
  <1>. QED
    BY <1>2, <1>6, <1>7

LEMMA OneFarAlgebra ==
    ASSUME NEW m \in Int, NEW d \in Int, NEW v \in Int
    PROVE  (m - 1) * (m * d - v) - v = m * ((m - 1) * d - v)
  BY SMTT(20)

(* None of m values is further from the mean than the root of m - 1 deviations.      *)
LEMMA OneFar ==
    ASSUME NEW S, IsFiniteSet(S), NEW f, \A x \in S : f[x] \in Int,
           NEW m, m = Cardinality(S), NEW Y, Y = SumFunctionOnSet(f, S),
           NEW q, \A x \in S : q[x] = f[x] * f[x], NEW Q, Q = SumFunctionOnSet(q, S),
           NEW x \in S
    PROVE  (m * f[x] - Y) * (m * f[x] - Y) <= (m - 1) * (m * Q - Y * Y)
  <1> DEFINE y == [i \in S |-> m * f[i] - Y]
             z == [i \in S |-> y[i] * y[i]]
             d == m * Q - Y * Y
             T == S \ {x}
             v == y[x] * y[x]
  <1>1. /\ \A i \in S : y[i] = m * f[i] - Y
        /\ \A i \in S : z[i] = y[i] * y[i]
    OBVIOUS
  <1>2. m \in Nat /\ Y \in Int
    BY FS_CardinalityType, SumInt
  <1>3. \A i \in S : y[i] \in Int
    BY <1>2
  <1>4. v = z[x] /\ v = (m * f[x] - Y) * (m * f[x] - Y)
    BY <1>1
  <1> HIDE DEF y, z
  <1>5. Q \in Int /\ SumFunctionOnSet(y, S) = 0 /\ SumFunctionOnSet(z, S) = m * d
    BY <1>1, Deviations
  <1>6. d \in Int /\ v \in Int /\ \A i \in S : z[i] \in Int
    BY <1>1, <1>2, <1>3, <1>5
  <1>7. IsFiniteSet(T) /\ Cardinality(T) = m - 1 /\ m > 0
    <2>1. IsFiniteSet(T) /\ Cardinality(T) = m - 1
      BY FS_RemoveElement
    <2>2. m # 0
      BY FS_EmptySet
    <2>. QED
      BY <1>2, <2>1, <2>2
  <1>8. SumFunctionOnSet(y, T) = -y[x] /\ SumFunctionOnSet(z, T) = m * d - v
    <2>1. /\ SumFunctionOnSet(y, S) = SumFunctionOnSet(y, T) + y[x]
          /\ SumFunctionOnSet(y, T) \in Int
      BY <1>3, SumRemove
    <2>2. /\ SumFunctionOnSet(z, S) = SumFunctionOnSet(z, T) + z[x]
          /\ SumFunctionOnSet(z, T) \in Int
      BY <1>6, SumRemove
    <2> HIDE DEF T, v, d
    <2>3. y[x] \in Int
      BY <1>3
    <2>4. m * d \in Int
      BY <1>2, <1>6
    <2> DEFINE md == m * d
    <2> HIDE DEF md
    <2>5. SumFunctionOnSet(z, S) = md /\ md \in Int
      BY <1>5, <2>4 DEF md
    <2>6. SumFunctionOnSet(z, T) = md - v
      BY <1>4, <1>6, <2>2, <2>5
    <2>7. SumFunctionOnSet(y, T) = -y[x]
      BY <1>5, <2>1, <2>3
    <2>8. SumFunctionOnSet(z, T) = m * d - v
      BY <2>6 DEF md
    <2>. QED
      BY <2>7, <2>8
  <1>9. (m - 1) * (m * d - v) - v >= 0
    <2> DEFINE Z == SumFunctionOnSet(z, T)
               V == SumFunctionOnSet(y, T)
    <2>1. \A i \in T : y[i] \in Int /\ z[i] = y[i] * y[i]
      BY <1>1, <1>3
    <2>2. Cardinality(T) * Z - V * V \in Nat
      <3> HIDE DEF T
      <3>. QED
        BY <1>7, <2>1, SpreadIsNat
    <2>3. V * V = v
      <3>1. V = -y[x] /\ y[x] \in Int
        BY <1>3, <1>8
      <3>2. \A n \in Int : (-n) * (-n) = n * n
        OBVIOUS
      <3> HIDE DEF V
      <3>. QED
        BY <3>1, <3>2
    <2>. QED
      BY <1>7, <1>8, <2>2, <2>3
  <1> HIDE DEF v, d
  <1>10. m * ((m - 1) * d - v) >= 0
    BY <1>2, <1>6, <1>9, OneFarAlgebra
  <1>11. v <= (m - 1) * d
    <2> DEFINE e == (m - 1) * d - v
               p == (m - 1) * d
    <2>1. p \in Int /\ e \in Int /\ e = p - v
      BY <1>2, <1>6
    <2>2. m * e >= 0
      BY <1>10
    <2> HIDE DEF e, p
    <2>3. ASSUME e < 0 PROVE FALSE
      <3>1. m * e < 0
        BY <1>2, <1>7, <2>1, <2>3, SMTT(20)
      <3>. QED
        BY <2>2, <3>1, <1>2, <2>1
    <2>4. v <= p
      BY <1>6, <2>1, <2>3
    <2>. QED
      BY <2>4 DEF p
  <1>. QED
    BY <1>4, <1>11 DEF d

(* Fewer than one value in four is further from the mean than two deviations.        *)
LEMMA FewFar ==
    ASSUME NEW S, IsFiniteSet(S), NEW f, \A x \in S : f[x] \in Int,
           NEW m, m = Cardinality(S), NEW Y, Y = SumFunctionOnSet(f, S),
           NEW q, \A x \in S : q[x] = f[x] * f[x], NEW Q, Q = SumFunctionOnSet(q, S),
           m * Q - Y * Y # 0, NEW O \in SUBSET S, O # {},
           \A x \in O : (m * f[x] - Y) * (m * f[x] - Y) > 4 * (m * Q - Y * Y)
    PROVE  4 * Cardinality(O) < m
  <1> DEFINE y == [i \in S |-> m * f[i] - Y]
             z == [i \in S |-> y[i] * y[i]]
             d == m * Q - Y * Y
             k == [i \in O |-> 4 * d]
             n == Cardinality(O)
  <1>1. /\ \A i \in S : y[i] = m * f[i] - Y
        /\ \A i \in S : z[i] = y[i] * y[i]
    OBVIOUS
  <1>2. m \in Nat /\ Y \in Int
    BY FS_CardinalityType, SumInt
  <1>3. \A i \in S : y[i] \in Int
    BY <1>2
  <1>4. d \in Nat
    BY SpreadIsNat
  <1>5. d > 0
    BY <1>4
  <1>6. \A i \in O : z[i] > 4 * d
    BY <1>1
  <1> HIDE DEF y, z
  <1>7. SumFunctionOnSet(z, S) = m * d
    BY <1>1, Deviations
  <1>8. \A i \in S : z[i] \in Nat
    BY <1>1, <1>3, SquareIsNat
  <1>9. IsFiniteSet(O) /\ IsFiniteSet(S \ O) /\ n \in Nat
    BY FS_Subset, FS_CardinalityType
  <1> HIDE DEF d
  <1>10. SumFunctionOnSet(k, O) = (4 * d) * n
    <2>1. 4 * d \in Int /\ \A i \in O : k[i] = 4 * d
      BY <1>4
    <2> HIDE DEF k
    <2>. QED
      BY <1>9, <2>1, SumConstant
  <1>11. SumFunctionOnSet(k, O) < SumFunctionOnSet(z, O)
    <2>1. PICK i \in O : TRUE
      OBVIOUS
    <2>2. \A j \in O : k[j] \in Int /\ z[j] \in Int /\ k[j] < z[j]
      BY <1>4, <1>6, <1>8
    <2> HIDE DEF k
    <2>3. \A j \in O : k[j] \in Int /\ z[j] \in Int /\ k[j] <= z[j]
      BY <2>2
    <2>. QED
      BY <1>9, <2>2, <2>3, SumStrict
  <1> HIDE DEF k
  <1>12. SumFunctionOnSet(z, O) <= SumFunctionOnSet(z, S)
    <2>1. O \cup (S \ O) = S /\ (S \ O) \cap O = {}
      OBVIOUS
    <2>2. SumFunctionOnSet(z, S) = SumFunctionOnSet(z, O) + SumFunctionOnSet(z, S \ O)
      <3>1. \A i \in (S \ O) \cup O : z[i] \in Int
        BY <1>8
      <3>2. SumFunctionOnSet(z, O \cup (S \ O)) = SumFunctionOnSet(z, O) + SumFunctionOnSet(z, S \ O)
        BY <1>9, <2>1, <3>1, SumUnion
      <3>. QED
        BY <2>1, <3>2
    <2>3. SumFunctionOnSet(z, O) \in Nat /\ SumFunctionOnSet(z, S \ O) \in Nat
      BY <1>8, <1>9, SumNonNegative
    <2>. QED
      BY <2>2, <2>3
  <1> HIDE DEF n
  <1>13. (4 * d) * n < m * d
    <2>1. SumFunctionOnSet(z, O) \in Int
      BY <1>8, <1>9, SumInt
    <2>2. (4 * d) * n \in Int /\ m * d \in Int
      BY <1>2, <1>4, <1>9
    <2>. QED
      BY <1>7, <1>10, <1>11, <1>12, <2>1, <2>2
  <1>14. (4 * n) * d < m * d
    <2>1. (4 * d) * n = (4 * n) * d
      BY <1>4, <1>9, SMTT(20)
    <2>. QED
      BY <1>13, <2>1
  <1>15. 4 * n < m
    <2> SUFFICES ASSUME m <= 4 * n PROVE FALSE
      BY <1>2, <1>9
    <2> DEFINE w == 4 * n - m
    <2>1. w \in Nat /\ 4 * n = m + w
      BY <1>2, <1>9
    <2> HIDE DEF w
    <2>2. (m + w) * d = m * d + w * d /\ w * d \in Nat /\ m * d \in Int
      BY <1>2, <1>4, <2>1, SMTT(20)
    <2>. QED
      BY <1>14, <2>1, <2>2
  <1>. QED
    BY <1>15 DEF n

(* Of the shares of a whole one is at most, and one at least, what the whole is.     *)
LEMMA Mediant ==
    ASSUME NEW S, IsFiniteSet(S), S # {}, NEW n, NEW d,
           \A x \in S : n[x] \in Int /\ d[x] \in Int,
           NEW N, N = SumFunctionOnSet(n, S), NEW D, D = SumFunctionOnSet(d, S)
    PROVE  /\ \E x \in S : n[x] * D <= N * d[x]
           /\ \E x \in S : N * d[x] <= n[x] * D
  <1> DEFINE a == [x \in S |-> D * n[x]]
             b == [x \in S |-> N * d[x]]
  <1>1. N \in Int /\ D \in Int
    BY SumInt
  <1>2. \A x \in S : a[x] \in Int /\ b[x] \in Int /\ a[x] = n[x] * D /\ b[x] = N * d[x]
    BY <1>1
  <1>3. SumFunctionOnSet(a, S) = D * N /\ SumFunctionOnSet(b, S) = N * D
    <2>1. /\ \A x \in S : n[x] \in Int /\ a[x] = D * n[x]
          /\ \A x \in S : d[x] \in Int /\ b[x] = N * d[x]
      OBVIOUS
    <2> HIDE DEF a, b
    <2>2. SumFunctionOnSet(a, S) = D * SumFunctionOnSet(n, S)
      BY <1>1, <2>1, SumTimes
    <2>3. SumFunctionOnSet(b, S) = N * SumFunctionOnSet(d, S)
      BY <1>1, <2>1, SumTimes
    <2>. QED
      BY <2>2, <2>3
  <1>4. D * N = N * D /\ N * D \in Int
    BY <1>1
  <1>5. PICK x \in S : TRUE
    OBVIOUS
  <1> HIDE DEF a, b
  <1>6. ASSUME \A i \in S : b[i] < a[i] PROVE FALSE
    <2>1. \A i \in S : b[i] \in Int /\ a[i] \in Int /\ b[i] <= a[i]
      BY <1>2, <1>6
    <2>2. SumFunctionOnSet(b, S) < SumFunctionOnSet(a, S)
      BY <1>5, <1>6, <2>1, SumStrict
    <2>. QED
      BY <1>3, <1>4, <2>2
  <1>7. ASSUME \A i \in S : a[i] < b[i] PROVE FALSE
    <2>1. \A i \in S : b[i] \in Int /\ a[i] \in Int /\ a[i] <= b[i]
      BY <1>2, <1>7
    <2>2. SumFunctionOnSet(a, S) < SumFunctionOnSet(b, S)
      BY <1>5, <1>7, <2>1, SumStrict
    <2>. QED
      BY <1>3, <1>4, <2>2
  <1>8. \E i \in S : a[i] <= b[i]
    BY <1>2, <1>6
  <1>9. \E i \in S : b[i] <= a[i]
    BY <1>2, <1>7
  <1>. QED
    BY <1>2, <1>8, <1>9
=============================================================================
