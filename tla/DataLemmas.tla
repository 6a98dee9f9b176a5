----------------------------- MODULE DataLemmas ------------------------------
(* Facts about numbers, finite sets and sums over finite sets that the     *)
(* proofs about the components share.  Induction is by least               *)
(* counterexample: no lemma takes an operator.                             *)
EXTENDS Integers, FiniteSets, FiniteSetsExt, Functions, FiniteSetTheorems,
        WellFoundedInduction, TLAPS

\* A set of numbers that is not empty has a least element.
LEMMA LeastExists ==
  ASSUME NEW T, T \subseteq Nat, T # {}
  PROVE  \E x \in T : \A y \in T : x <= y
<1>1. PICK R : IsWellFoundedOn(R, Nat) /\ \A x, y \in Nat : <<y, x>> \in R <=> y < x
  <2>1. IsWellFoundedOn(OpToRel(<, Nat), Nat)
    BY NatLessThanWellFounded
  <2>2. \A x, y \in Nat : <<y, x>> \in OpToRel(<, Nat) <=> y < x
    BY DEF OpToRel
  <2> QED
    BY <2>1, <2>2
<1>2. PICK x \in T : \A y \in T : ~ (<<y, x>> \in R)
  BY <1>1, WFMin
<1>3. SUFFICES ASSUME NEW y \in T PROVE x <= y
  OBVIOUS
<1>4. x \in Nat /\ y \in Nat
  OBVIOUS
<1>5. ~ (y < x)
  BY <1>1, <1>2, <1>4
<1> QED
  BY <1>4, <1>5

\* What holds of 0 and of every successor of a number it holds of, holds of all.
LEMMA ByInduction ==
  ASSUME NEW T, 0 \in T, \A n \in Nat : n \in T => n + 1 \in T
  PROVE  Nat \subseteq T
<1> DEFINE left == Nat \ T
<1>1. SUFFICES ASSUME left # {} PROVE FALSE
  OBVIOUS
<1>2. PICK n \in left : \A m \in left : n <= m
  BY <1>1, LeastExists
<1>3. n \in Nat /\ n # 0 /\ n \notin T
  OBVIOUS
<1>4. n - 1 \in Nat /\ n - 1 \notin left
  BY <1>2, <1>3
<1> QED BY <1>3, <1>4

\* A bounded set of integers that is not empty has a least and a greatest element.
LEMMA LeastInteger ==
  ASSUME NEW S, S \subseteq Int, S # {}, NEW b \in Int, \A i \in S : b <= i
  PROVE  \E x \in S : \A y \in S : x <= y
<1> DEFINE T == {i - b : i \in S}
<1>1. T \subseteq Nat
  <2>1. \A i \in S : i - b \in Nat
    BY SMT
  <2> QED BY <2>1
<1>2. T # {}
  OBVIOUS
<1>3. PICK n \in T : \A y \in T : n <= y
  <2> HIDE DEF T
  <2> QED BY <1>1, <1>2, LeastExists
<1>4. PICK x \in S : n = x - b
  OBVIOUS
<1>5. ASSUME NEW y \in S PROVE x <= y
  <2>1. x - b <= y - b
    BY <1>3, <1>4
  <2>2. x \in Int /\ y \in Int
    OBVIOUS
  <2> QED BY <2>1, <2>2
<1> QED BY <1>5

LEMMA GreatestInteger ==
  ASSUME NEW S, S \subseteq Int, S # {}, NEW b \in Int, \A i \in S : i <= b
  PROVE  \E x \in S : \A y \in S : y <= x
<1> DEFINE T == {b - i : i \in S}
<1>1. T \subseteq Nat
  <2>1. \A i \in S : b - i \in Nat
    BY SMT
  <2> QED BY <2>1
<1>2. T # {}
  OBVIOUS
<1>3. PICK n \in T : \A y \in T : n <= y
  <2> HIDE DEF T
  <2> QED BY <1>1, <1>2, LeastExists
<1>4. PICK x \in S : n = b - x
  OBVIOUS
<1>5. ASSUME NEW y \in S PROVE y <= x
  <2>1. b - x <= b - y
    BY <1>3, <1>4
  <2>2. x \in Int /\ y \in Int
    OBVIOUS
  <2> QED BY <2>1, <2>2
<1> QED BY <1>5

LEMMA MinIsLeast ==
  ASSUME NEW S, S \subseteq Int, S # {}, NEW b \in Int, \A i \in S : b <= i
  PROVE  Min(S) \in S /\ \A i \in S : Min(S) <= i
<1>1. \E x \in S : \A y \in S : x <= y
  BY LeastInteger
<1> QED BY <1>1 DEF Min

LEMMA MaxIsGreatest ==
  ASSUME NEW S, S \subseteq Int, S # {}, NEW b \in Int, \A i \in S : i <= b
  PROVE  Max(S) \in S /\ \A i \in S : i <= Max(S)
<1>1. PICK x \in S : \A y \in S : y <= x
  BY GreatestInteger
<1>2. \E z \in S : \A y \in S : z >= y
  BY <1>1
<1>3. Max(S) \in S /\ \A i \in S : Max(S) >= i
  BY <1>2 DEF Max
<1> QED BY <1>3

LEMMA LastPlace ==
  ASSUME NEW n \in Nat, NEW S, S \subseteq 1 .. n, S # {}
  PROVE  Max(S) \in S /\ \A i \in S : i <= Max(S)
<1>1. S \subseteq Int /\ n \in Int /\ \A i \in S : i <= n
  OBVIOUS
<1>2. \E x \in S : \A y \in S : y <= x
  BY <1>1, GreatestInteger
<1>3. \E x \in S : \A y \in S : x >= y
  BY <1>1, <1>2
<1>4. Max(S) \in S /\ \A y \in S : Max(S) >= y
  BY <1>3 DEF Max
<1> QED BY <1>1, <1>4

-----------------------------------------------------------------------------
(* The sum of g over a set is the one of the function that takes out the   *)
(* chosen element of every subset.                                         *)

Choice(s) == CHOOSE x \in s : TRUE
Unfold(g, h, s) == IF s = {} THEN 0 ELSE g[Choice(s)] + h[s \ {Choice(s)}]
Alike(f, g, S) == \A x \in S : f[x] = g[x]
Iterates(g, U, h) == h = [s \in U |-> Unfold(g, h, s)]
SumTable(g, S, h) == Iterates(g, SUBSET S, h)

LEMMA ChoiceIsElement ==
  ASSUME NEW s, IsFiniteSet(s), s # {}
  PROVE  /\ Choice(s) \in s
         /\ IsFiniteSet(s \ {Choice(s)}) /\ Cardinality(s) \in Nat
         /\ Cardinality(s \ {Choice(s)}) = Cardinality(s) - 1
<1>1. Choice(s) \in s
  BY DEF Choice
<1> QED BY <1>1, FS_RemoveElement, FS_CardinalityType

LEMMA IterateExists ==
  ASSUME NEW g, NEW S, IsFiniteSet(S)
  PROVE  \E h : Iterates(g, SUBSET S, h)
<1> DEFINE Small(n) == {s \in SUBSET S : Cardinality(s) <= n}
           T == {n \in Nat : \E h : Iterates(g, Small(n), h)}
<1>1. \A s \in SUBSET S : IsFiniteSet(s) /\ Cardinality(s) \in Nat /\ Cardinality(s) <= Cardinality(S)
  BY FS_Subset, FS_CardinalityType
<1>2. 0 \in T
  <2>1. \A s \in Small(0) : s = {}
    BY <1>1, FS_EmptySet
  <2> DEFINE h == [s \in Small(0) |-> 0]
  <2>2. Iterates(g, Small(0), h)
    BY <2>1 DEF Iterates, Unfold
  <2> QED BY <2>2
<1>3. ASSUME NEW n \in Nat, n \in T PROVE n + 1 \in T
  <2>1. PICK h : Iterates(g, Small(n), h)
    BY <1>3
  <2> DEFINE k == [s \in Small(n + 1) |-> Unfold(g, h, s)]
  <2>2. \A s \in Small(n) : s \in Small(n + 1) /\ k[s] = h[s]
    <3>1. \A s \in Small(n) : s \in Small(n + 1) /\ h[s] = Unfold(g, h, s)
      BY <1>1, <2>1 DEF Iterates
    <3> QED BY <3>1
  <2>3. ASSUME NEW s \in Small(n + 1) PROVE Unfold(g, h, s) = Unfold(g, k, s)
    <3>1. CASE s = {}
      BY <3>1 DEF Unfold
    <3>2. CASE s # {}
      <4>1. s \ {Choice(s)} \in Small(n)
        BY <1>1, <3>2, ChoiceIsElement
      <4> QED BY <2>2, <4>1 DEF Unfold
    <3> QED BY <3>1, <3>2
  <2>4. Iterates(g, Small(n + 1), k)
    BY <2>3 DEF Iterates
  <2> QED BY <2>4
<1>4. Cardinality(S) \in T
  <2>1. Cardinality(S) \in Nat
    BY FS_CardinalityType
  <2> HIDE DEF T
  <2> QED BY <1>2, <1>3, <2>1, ByInduction
<1>5. Small(Cardinality(S)) = SUBSET S
  BY <1>1
<1> QED BY <1>4, <1>5

LEMMA SumIterates ==
  ASSUME NEW g, NEW S, IsFiniteSet(S)
  PROVE  \E h : SumTable(g, S, h) /\ SumFunctionOnSet(g, S) = h[S]
<1>1. SumFunctionOnSet(g, S) = (CHOOSE h : SumTable(g, S, h))[S]
  BY Zenon DEF SumFunctionOnSet, FoldFunctionOnSet, MapThenFoldSet, SumTable, Iterates, Unfold, Choice
<1> QED BY <1>1, IterateExists DEF SumTable

\* Iterations over functions that are alike give the same sums.
LEMMA IteratesAgree ==
  ASSUME NEW f, NEW g, NEW S, NEW R, R \subseteq S, IsFiniteSet(S), Alike(f, g, R),
         NEW h, SumTable(f, S, h), NEW k, SumTable(g, R, k)
  PROVE  h[R] = k[R]
<1> DEFINE T == {n \in Nat : \A s \in SUBSET R : Cardinality(s) = n => h[s] = k[s]}
<1>1. \A s \in SUBSET R : IsFiniteSet(s) /\ Cardinality(s) \in Nat
  BY FS_Subset, FS_CardinalityType
<1>2. \A s \in SUBSET R : h[s] = Unfold(f, h, s) /\ k[s] = Unfold(g, k, s)
  BY DEF SumTable, Iterates
<1>3. 0 \in T
  BY <1>1, <1>2, FS_EmptySet DEF Unfold
<1>4. ASSUME NEW n \in Nat, n \in T PROVE n + 1 \in T
  <2> SUFFICES ASSUME NEW s \in SUBSET R, Cardinality(s) = n + 1 PROVE h[s] = k[s]
    OBVIOUS
  <2>1. s # {}
    BY FS_EmptySet
  <2>2. /\ Choice(s) \in R /\ s \ {Choice(s)} \in SUBSET R
        /\ Cardinality(s \ {Choice(s)}) = n
    BY <1>1, <2>1, ChoiceIsElement
  <2>3. h[s \ {Choice(s)}] = k[s \ {Choice(s)}] /\ f[Choice(s)] = g[Choice(s)]
    BY <1>4, <2>2 DEF Alike
  <2> QED BY <1>2, <2>1, <2>3 DEF Unfold
<1>5. Cardinality(R) \in T
  <2> HIDE DEF T
  <2> QED BY <1>1, <1>3, <1>4, ByInduction
<1> QED BY <1>5

\* Functions that are alike on a set have one sum over it.
LEMMA SumsAgree ==
  ASSUME NEW f, NEW g, NEW S, IsFiniteSet(S), \A x \in S : f[x] = g[x]
  PROVE  SumFunctionOnSet(f, S) = SumFunctionOnSet(g, S)
<1>1. PICK h : SumTable(f, S, h) /\ SumFunctionOnSet(f, S) = h[S]
  BY SumIterates
<1>2. PICK k : SumTable(g, S, k) /\ SumFunctionOnSet(g, S) = k[S]
  BY SumIterates
<1>3. S \subseteq S
  OBVIOUS
<1>4. SumTable(f, S, h) /\ SumTable(g, S, k)
  BY <1>1, <1>2
<1>5. Alike(f, g, S)
  BY DEF Alike
<1> QED BY <1>1, <1>2, <1>3, <1>4, <1>5, IteratesAgree

LEMMA SumUnfolds ==
  ASSUME NEW g, NEW S, IsFiniteSet(S)
  PROVE  SumFunctionOnSet(g, S) = IF S = {} THEN 0
           ELSE g[Choice(S)] + SumFunctionOnSet(g, S \ {Choice(S)})
<1>1. PICK h : SumTable(g, S, h) /\ SumFunctionOnSet(g, S) = h[S]
  BY SumIterates
<1>2. h[S] = Unfold(g, h, S)
  BY <1>1 DEF SumTable, Iterates
<1>3. CASE S = {}
  BY <1>1, <1>2, <1>3 DEF Unfold
<1>4. CASE S # {}
  <2> DEFINE R == S \ {Choice(S)}
  <2>1. IsFiniteSet(R) /\ R \subseteq S
    BY <1>4, ChoiceIsElement
  <2> HIDE DEF R
  <2>2. PICK k : SumTable(g, R, k) /\ SumFunctionOnSet(g, R) = k[R]
    BY <2>1, SumIterates
  <2>3. h[R] = k[R]
    <3>1. Alike(g, g, R)
      BY DEF Alike
    <3> QED BY <1>1, <2>1, <2>2, <3>1, IteratesAgree
  <2>4. h[S] = g[Choice(S)] + h[R]
    BY <1>2, <1>4 DEF Unfold, R
  <2>5. SumFunctionOnSet(g, S) = g[Choice(S)] + SumFunctionOnSet(g, R)
    BY <1>1, <2>2, <2>3, <2>4
  <2> QED BY <1>4, <2>5 DEF R
<1> QED BY <1>3, <1>4

LEMMA SumIsNatural ==
  ASSUME NEW g, NEW S, IsFiniteSet(S), \A x \in S : g[x] \in Nat
  PROVE  SumFunctionOnSet(g, S) \in Nat
<1> DEFINE T == {n \in Nat : \A s \in SUBSET S : Cardinality(s) = n => SumFunctionOnSet(g, s) \in Nat}
<1>1. \A s \in SUBSET S : IsFiniteSet(s) /\ Cardinality(s) \in Nat
  BY FS_Subset, FS_CardinalityType
<1>2. 0 \in T
  BY <1>1, FS_EmptySet, SumUnfolds
<1>3. ASSUME NEW n \in Nat, n \in T PROVE n + 1 \in T
  <2> SUFFICES ASSUME NEW s \in SUBSET S, Cardinality(s) = n + 1 PROVE SumFunctionOnSet(g, s) \in Nat
    OBVIOUS
  <2>1. s # {}
    BY FS_EmptySet
  <2>2. Choice(s) \in S /\ s \ {Choice(s)} \in SUBSET S /\ Cardinality(s \ {Choice(s)}) = n
    BY <1>1, <2>1, ChoiceIsElement
  <2>3. SumFunctionOnSet(g, s \ {Choice(s)}) \in Nat /\ g[Choice(s)] \in Nat
    BY <1>3, <2>2
  <2>4. SumFunctionOnSet(g, s) = g[Choice(s)] + SumFunctionOnSet(g, s \ {Choice(s)})
    BY <1>1, <2>1, SumUnfolds
  <2> QED BY <2>3, <2>4
<1>4. Cardinality(S) \in T
  <2> HIDE DEF T
  <2> QED BY <1>1, <1>2, <1>3, ByInduction
<1> QED BY <1>4

\* Any element may be taken out first.
LEMMA SumTakesOut ==
  ASSUME NEW g, NEW S, IsFiniteSet(S), \A x \in S : g[x] \in Nat, NEW x \in S
  PROVE  SumFunctionOnSet(g, S) = g[x] + SumFunctionOnSet(g, S \ {x})
<1> DEFINE T == {n \in Nat : \A s \in SUBSET S : Cardinality(s) = n =>
                   \A y \in s : SumFunctionOnSet(g, s) = g[y] + SumFunctionOnSet(g, s \ {y})}
<1>1. \A s \in SUBSET S : /\ IsFiniteSet(s) /\ Cardinality(s) \in Nat
                          /\ SumFunctionOnSet(g, s) \in Nat
  BY FS_Subset, FS_CardinalityType, SumIsNatural
<1>2. 0 \in T
  BY <1>1, FS_EmptySet
<1>3. ASSUME NEW n \in Nat, n \in T PROVE n + 1 \in T
  <2> SUFFICES ASSUME NEW s \in SUBSET S, Cardinality(s) = n + 1, NEW y \in s
      PROVE SumFunctionOnSet(g, s) = g[y] + SumFunctionOnSet(g, s \ {y})
    OBVIOUS
  <2> DEFINE c == Choice(s)
  <2>1. /\ c \in s /\ s \ {c} \in SUBSET S /\ Cardinality(s \ {c}) = n
        /\ SumFunctionOnSet(g, s) = g[c] + SumFunctionOnSet(g, s \ {c})
    BY <1>1, ChoiceIsElement, SumUnfolds
  <2> HIDE DEF c
  <2>2. CASE y = c
    BY <2>1, <2>2
  <2>3. CASE y # c
    <3>1. Cardinality(s \ {y}) = n /\ s \ {y} \in SUBSET S
      <4>1. IsFiniteSet(s) /\ s \ {y} \in SUBSET S
        BY <1>1
      <4>2. Cardinality(s \ {y}) = Cardinality(s) - 1
        BY <4>1, FS_RemoveElement
      <4> QED BY <4>1, <4>2
    <3>2. y \in s \ {c} /\ c \in s \ {y} /\ (s \ {c}) \ {y} = (s \ {y}) \ {c}
      BY <2>1, <2>3
    <3>3. SumFunctionOnSet(g, s \ {c}) = g[y] + SumFunctionOnSet(g, (s \ {c}) \ {y})
      BY <1>3, <2>1, <3>2
    <3>4. SumFunctionOnSet(g, s \ {y}) = g[c] + SumFunctionOnSet(g, (s \ {y}) \ {c})
      BY <1>3, <3>1, <3>2
    <3>5. /\ SumFunctionOnSet(g, (s \ {c}) \ {y}) \in Nat
          /\ g[c] \in Nat /\ g[y] \in Nat
      BY <1>1, <2>1
    <3>6. SumFunctionOnSet(g, s) = g[c] + (g[y] + SumFunctionOnSet(g, (s \ {c}) \ {y}))
      BY <2>1, <3>3
    <3>7. SumFunctionOnSet(g, s \ {y}) = g[c] + SumFunctionOnSet(g, (s \ {c}) \ {y})
      BY <3>2, <3>4
    <3> QED BY <3>5, <3>6, <3>7
  <2> QED BY <2>2, <2>3
<1>4. Cardinality(S) \in T
  <2> HIDE DEF T
  <2> QED BY <1>1, <1>2, <1>3, ByInduction
<1> QED BY <1>4
=============================================================================
