----------------------------- MODULE SumTheorems -----------------------------
(***************************************************************************)
(* Induction over numbers and finite sets, stated with sets, and sums of   *)
(* integer functions over finite sets (SumFunctionOnSet), as the accounts  *)
(* of the settlement contract and the answers to the form need them.       *)
(***************************************************************************)
EXTENDS FiniteSetsExt, FiniteSetTheorems, TLAPS

----------------------------------------------------------------------------
\* Induction

\* The order of the natural numbers, as a relation.
Below == {ss \in Nat \X Nat : ss[1] < ss[2]}

\* Descending chains of natural numbers end.
LEMMA BelowWellFounded == IsWellFoundedOn(Below, Nat)
  BY NatLessThanWellFounded DEF OpToRel, Below

\* A set of natural numbers has a least element.
LEMMA LeastNumber ==
  ASSUME NEW T \in SUBSET Nat, T # {}
  PROVE  \E n \in T : \A m \in T : n <= m
<1>1. PICK n \in T : \A m \in T : <<m, n>> \notin Below
  BY BelowWellFounded, WFMin
<1>2. ASSUME NEW m \in T
      PROVE  n <= m
  <2>1. <<m, n>> \in Nat \X Nat /\ <<m, n>>[1] = m /\ <<m, n>>[2] = n
    OBVIOUS
  <2>2. ~ (m < n)
    BY <1>1, <2>1 DEF Below
  <2> QED
    BY <2>2
<1> QED
  BY <1>2

\* Induction on numbers: P is the set of those that have a property.
LEMMA NumberInduction ==
  ASSUME NEW P, 0 \in P, \A n \in Nat : n \in P => n + 1 \in P
  PROVE  \A n \in Nat : n \in P
<1> SUFFICES ASSUME Nat \ P # {} PROVE FALSE
  OBVIOUS
<1>1. PICK n \in Nat \ P : \A m \in Nat \ P : n <= m
  BY LeastNumber
<1>2. n - 1 \in Nat /\ ~ (n <= n - 1) /\ (n - 1) + 1 = n
  BY <1>1
<1> QED
  BY <1>1, <1>2

\* Induction on the subsets of a finite set, one element more at a time.
LEMMA SubsetInduction ==
  ASSUME NEW S, IsFiniteSet(S), NEW P, {} \in P,
         \A T \in SUBSET S : \A x \in S \ T : T \in P => T \cup {x} \in P
  PROVE  S \in P
<1> DEFINE Q == {n \in Nat : \A T \in SUBSET S : Cardinality(T) = n => T \in P}
<1>1. 0 \in Q
  <2>1. \A T \in SUBSET S : IsFiniteSet(T)
    BY FS_Subset
  <2> QED
    BY <2>1, FS_EmptySet
<1>2. ASSUME NEW n \in Nat, n \in Q
      PROVE  n + 1 \in Q
  <2>1. ASSUME NEW T \in SUBSET S, Cardinality(T) = n + 1
        PROVE  T \in P
    <3>1. IsFiniteSet(T)
      BY FS_Subset
    <3>2. PICK x \in T : TRUE
      <4>1. Cardinality({}) = 0 /\ n + 1 # 0
        BY FS_EmptySet
      <4> QED
        BY <2>1, <4>1
    <3>3. Cardinality(T \ {x}) = n
      <4>1. Cardinality(T \ {x}) = Cardinality(T) - 1
        BY <3>1, <3>2, FS_RemoveElement
      <4> QED
        BY <2>1, <4>1
    <3>4. T \ {x} \in P /\ T \ {x} \in SUBSET S
      BY <1>2, <3>3
    <3>5. (T \ {x}) \cup {x} \in P
      BY <3>2, <3>4
    <3>6. (T \ {x}) \cup {x} = T
      BY <3>2
    <3> QED
      BY <3>5, <3>6
  <2> QED
    BY <2>1
<1>3. \A n \in Nat : n \in Q
  <2> HIDE DEF Q
  <2> QED
    BY <1>1, <1>2, NumberInduction
<1>4. Cardinality(S) \in Nat
  BY FS_CardinalityType
<1> QED
  BY <1>3, <1>4

----------------------------------------------------------------------------
\* The recursive function behind a sum exists

PickOne(s) == CHOOSE x \in s : TRUE

\* What the sum over s is, from the sums of smaller sets.
SumStep(f, h, s) == IF s = {} THEN 0 ELSE f[PickOne(s)] + h[s \ {PickOne(s)}]

\* h sums f over the subsets of S.
SumsOf(f, h, S) == h = [s \in SUBSET S |-> SumStep(f, h, s)]

\* The definition of the community modules, unfolded.
LEMMA SumDefinition ==
  ASSUME NEW f, NEW S
  PROVE  SumFunctionOnSet(f, S) = (CHOOSE h : SumsOf(f, h, S))[S]
  BY DEF SumFunctionOnSet, FoldFunctionOnSet, MapThenFoldSet, PickOne, SumStep, SumsOf

\* It is built up for larger and larger subsets.
LEMMA SumsExist ==
  ASSUME NEW f, NEW S, IsFiniteSet(S)
  PROVE  \E h : SumsOf(f, h, S)
<1> DEFINE Upto(h, n) == \A s \in SUBSET S : Cardinality(s) <= n => h[s] = SumStep(f, h, s)
           Q == {n \in Nat : \E h : Upto(h, n)}
<1>0. \A s \in SUBSET S : IsFiniteSet(s) /\ Cardinality(s) \in Nat
  BY FS_Subset, FS_CardinalityType
<1>1. 0 \in Q
  <2>1. Upto([s \in SUBSET S |-> 0], 0)
    BY <1>0, FS_EmptySet DEF SumStep
  <2> QED
    BY <2>1
<1>2. ASSUME NEW n \in Nat, n \in Q
      PROVE  n + 1 \in Q
  <2>1. PICK h : Upto(h, n)
    BY <1>2
  <2> DEFINE g == [s \in SUBSET S |-> SumStep(f, h, s)]
  <2>2. ASSUME NEW s \in SUBSET S, Cardinality(s) <= n + 1
        PROVE  g[s] = SumStep(f, g, s)
    <3>1. CASE s = {}
      BY <3>1 DEF SumStep
    <3>2. CASE s # {}
      <4> DEFINE r == s \ {PickOne(s)}
      <4>1. PickOne(s) \in s
        BY <3>2 DEF PickOne
      <4>2. r \in SUBSET S /\ Cardinality(r) <= n
        BY <1>0, <2>2, <4>1, FS_RemoveElement
      <4>3. g[r] = h[r]
        BY <2>1, <4>2
      <4> QED
        BY <3>2, <4>3 DEF SumStep
    <3> QED
      BY <3>1, <3>2
  <2>3. Upto(g, n + 1)
    BY <2>2
  <2> HIDE DEF g, Upto
  <2>4. \E k : Upto(k, n + 1)
    BY <2>3
  <2> QED
    BY <2>4
<1>3. Cardinality(S) \in Q
  <2>1. \A n \in Nat : n \in Q
    <3> HIDE DEF Q
    <3> QED
      BY <1>1, <1>2, NumberInduction
  <2> QED
    BY <1>0, <2>1
<1>4. PICK h : Upto(h, Cardinality(S))
  BY <1>3
<1> DEFINE g == [s \in SUBSET S |-> h[s]]
<1>5. ASSUME NEW s \in SUBSET S
      PROVE  g[s] = SumStep(f, g, s)
  <2>1. Cardinality(s) <= Cardinality(S)
    BY FS_Subset
  <2>2. g[s] = SumStep(f, h, s)
    BY <1>4, <2>1
  <2>3. s \ {PickOne(s)} \in SUBSET S
    OBVIOUS
  <2> QED
    BY <2>2, <2>3 DEF SumStep
<1>6. SumsOf(f, g, S)
  BY <1>5 DEF SumsOf
<1> QED
  BY <1>6

\* Two such functions agree on what both are about.
LEMMA SumsAgree ==
  ASSUME NEW f, NEW S, IsFiniteSet(S), NEW T \in SUBSET S, NEW g, NEW h,
         SumsOf(f, g, S), SumsOf(f, h, T)
  PROVE  g[T] = h[T]
<1> DEFINE Q == {n \in Nat : \A s \in SUBSET T : Cardinality(s) = n => g[s] = h[s]}
<1>0. \A s \in SUBSET T : IsFiniteSet(s) /\ Cardinality(s) \in Nat /\ s \in SUBSET S
  BY FS_Subset, FS_CardinalityType
<1>1. \A s \in SUBSET T : g[s] = SumStep(f, g, s) /\ h[s] = SumStep(f, h, s)
  BY <1>0 DEF SumsOf
<1>2. 0 \in Q
  BY <1>0, <1>1, FS_EmptySet DEF SumStep
<1>3. ASSUME NEW n \in Nat, n \in Q
      PROVE  n + 1 \in Q
  <2>1. ASSUME NEW s \in SUBSET T, Cardinality(s) = n + 1
        PROVE  g[s] = h[s]
    <3>1. s # {}
      BY <2>1, FS_EmptySet
    <3>2. PickOne(s) \in s
      BY <3>1 DEF PickOne
    <3>3. Cardinality(s \ {PickOne(s)}) = n
      <4>1. Cardinality(s \ {PickOne(s)}) = Cardinality(s) - 1
        BY <1>0, <3>2, FS_RemoveElement
      <4> QED
        BY <2>1, <4>1
    <3>4. g[s \ {PickOne(s)}] = h[s \ {PickOne(s)}]
      BY <1>3, <3>3
    <3> QED
      BY <1>1, <3>4 DEF SumStep
  <2> QED
    BY <2>1
<1>4. \A n \in Nat : n \in Q
  <2> HIDE DEF Q
  <2> QED
    BY <1>2, <1>3, NumberInduction
<1>5. T \in SUBSET T /\ Cardinality(T) \in Nat
  BY <1>0
<1> QED
  BY <1>4, <1>5

----------------------------------------------------------------------------
\* Facts about sums

\* The empty sum.
LEMMA SumEmpty ==
  ASSUME NEW f
  PROVE  SumFunctionOnSet(f, {}) = 0
<1>1. PICK h : SumsOf(f, h, {})
  BY FS_EmptySet, SumsExist
<1>2. SumsOf(f, CHOOSE k : SumsOf(f, k, {}), {})
  BY <1>1
<1> QED
  BY <1>2, SumDefinition DEF SumsOf, SumStep

\* The sum over a set is that over the set without the element it picks.
LEMMA SumPick ==
  ASSUME NEW f, NEW S, IsFiniteSet(S), S # {}
  PROVE  SumFunctionOnSet(f, S) =
           f[PickOne(S)] + SumFunctionOnSet(f, S \ {PickOne(S)})
<1> DEFINE T == S \ {PickOne(S)}
           g == CHOOSE k : SumsOf(f, k, S)
           h == CHOOSE k : SumsOf(f, k, T)
<1>1. IsFiniteSet(T) /\ T \in SUBSET S
  BY FS_Subset
<1>2. SumsOf(f, g, S) /\ SumsOf(f, h, T)
  <2> HIDE DEF T
  <2> QED
    BY <1>1, SumsExist
<1>3. g[T] = h[T]
  <2> HIDE DEF T, g, h
  <2> QED
    BY <1>1, <1>2, SumsAgree
<1>4. SumFunctionOnSet(f, S) = g[S] /\ SumFunctionOnSet(f, T) = h[T]
  <2> HIDE DEF T
  <2> QED
    BY SumDefinition
<1>5. g[S] = f[PickOne(S)] + g[T]
  <2> HIDE DEF g
  <2> QED
    BY <1>2 DEF SumsOf, SumStep
<1> QED
  BY <1>3, <1>4, <1>5

\* A sum of integers is an integer.
LEMMA SumType ==
  ASSUME NEW S, IsFiniteSet(S), NEW f, \A x \in S : f[x] \in Int
  PROVE  SumFunctionOnSet(f, S) \in Int
<1> DEFINE Q == {n \in Nat : \A T \in SUBSET S :
                   Cardinality(T) = n => SumFunctionOnSet(f, T) \in Int}
<1>0. \A T \in SUBSET S : IsFiniteSet(T) /\ Cardinality(T) \in Nat
  BY FS_Subset, FS_CardinalityType
<1>1. 0 \in Q
  <2>1. \A T \in SUBSET S : Cardinality(T) = 0 => T = {}
    BY <1>0, FS_EmptySet
  <2> QED
    BY <2>1, SumEmpty
<1>2. ASSUME NEW n \in Nat, n \in Q
      PROVE  n + 1 \in Q
  <2>1. ASSUME NEW T \in SUBSET S, Cardinality(T) = n + 1
        PROVE  SumFunctionOnSet(f, T) \in Int
    <3>1. T # {}
      <4>1. Cardinality({}) = 0 /\ n + 1 # 0
        BY FS_EmptySet
      <4> QED
        BY <2>1, <4>1
    <3>2. PickOne(T) \in T
      BY <3>1 DEF PickOne
    <3>3. Cardinality(T \ {PickOne(T)}) = n
      <4>1. Cardinality(T \ {PickOne(T)}) = Cardinality(T) - 1
        BY <1>0, <3>2, FS_RemoveElement
      <4> QED
        BY <2>1, <4>1
    <3>4. SumFunctionOnSet(f, T \ {PickOne(T)}) \in Int
      BY <1>2, <3>3
    <3> QED
      BY <1>0, <3>1, <3>2, <3>4, SumPick
  <2> QED
    BY <2>1
<1>3. \A n \in Nat : n \in Q
  <2> HIDE DEF Q
  <2> QED
    BY <1>1, <1>2, NumberInduction
<1>4. S \in SUBSET S /\ Cardinality(S) \in Nat
  BY <1>0
<1> QED
  BY <1>3, <1>4

\* Any element may be taken out of a sum first.
LEMMA SumRemove ==
  ASSUME NEW S, IsFiniteSet(S), NEW f, \A x \in S : f[x] \in Int, NEW y \in S
  PROVE  SumFunctionOnSet(f, S) = f[y] + SumFunctionOnSet(f, S \ {y})
<1> DEFINE Good(T) == \A x \in T : SumFunctionOnSet(f, T)
                                      = f[x] + SumFunctionOnSet(f, T \ {x})
           Q == {n \in Nat : \A T \in SUBSET S : Cardinality(T) = n => Good(T)}
<1>0. \A T \in SUBSET S : /\ IsFiniteSet(T) /\ Cardinality(T) \in Nat
                          /\ SumFunctionOnSet(f, T) \in Int
  BY FS_Subset, FS_CardinalityType, SumType
<1>1. 0 \in Q
  <2>1. \A T \in SUBSET S : Cardinality(T) = 0 => T = {}
    BY <1>0, FS_EmptySet
  <2> QED
    BY <2>1
<1>2. ASSUME NEW n \in Nat, n \in Q
      PROVE  n + 1 \in Q
  <2>1. ASSUME NEW T \in SUBSET S, Cardinality(T) = n + 1
        PROVE  Good(T)
    <3> DEFINE z == PickOne(T)
    <3>1. T # {}
      <4>1. Cardinality({}) = 0 /\ n + 1 # 0
        BY FS_EmptySet
      <4> QED
        BY <2>1, <4>1
    <3>2. z \in T
      BY <3>1 DEF PickOne
    <3>3. \A x \in T : Cardinality(T \ {x}) = n
      <4>1. \A x \in T : Cardinality(T \ {x}) = Cardinality(T) - 1
        BY <1>0, FS_RemoveElement
      <4> QED
        BY <2>1, <4>1
    <3>4. \A x \in T : Good(T \ {x})
      BY <1>2, <3>3
    <3>5. SumFunctionOnSet(f, T) = f[z] + SumFunctionOnSet(f, T \ {z})
      BY <1>0, <3>1, SumPick
    <3> HIDE DEF z
    <3>6. ASSUME NEW x \in T, x # z
          PROVE  SumFunctionOnSet(f, T) = f[x] + SumFunctionOnSet(f, T \ {x})
      <4> DEFINE r == SumFunctionOnSet(f, (T \ {z}) \ {x})
      <4>1. r \in Int /\ f[x] \in Int /\ f[z] \in Int
        BY <1>0, <3>2
      <4>2. SumFunctionOnSet(f, T \ {z}) = f[x] + r
        BY <3>2, <3>4, <3>6
      <4>3. SumFunctionOnSet(f, T \ {x}) = f[z] + r
        <5>1. SumFunctionOnSet(f, T \ {x}) = f[z] + SumFunctionOnSet(f, (T \ {x}) \ {z})
          BY <3>2, <3>4, <3>6
        <5>2. (T \ {x}) \ {z} = (T \ {z}) \ {x}
          OBVIOUS
        <5> QED
          BY <5>1, <5>2
      <4> HIDE DEF r
      <4>4. f[z] + (f[x] + r) = f[x] + (f[z] + r)
        BY <4>1
      <4> QED
        BY <3>5, <4>2, <4>3, <4>4
    <3> QED
      BY <3>5, <3>6
  <2> QED
    BY <2>1
<1>3. \A n \in Nat : n \in Q
  <2> HIDE DEF Q
  <2> QED
    BY <1>1, <1>2, NumberInduction
<1>4. S \in SUBSET S /\ Cardinality(S) \in Nat
  BY <1>0
<1>5. Good(S)
  BY <1>3, <1>4
<1> QED
  BY <1>5

\* One element more.
LEMMA SumInsert ==
  ASSUME NEW S, IsFiniteSet(S), NEW f, \A x \in S : f[x] \in Int,
         NEW T \in SUBSET S, NEW y \in S \ T
  PROVE  /\ SumFunctionOnSet(f, T \cup {y}) = SumFunctionOnSet(f, T) + f[y]
         /\ SumFunctionOnSet(f, T) \in Int
<1> DEFINE U == T \cup {y}
<1>1. IsFiniteSet(T) /\ IsFiniteSet(U) /\ U \subseteq S /\ y \in U /\ U \ {y} = T
  BY FS_Subset
<1>2. SumFunctionOnSet(f, U) = f[y] + SumFunctionOnSet(f, U \ {y})
  <2> HIDE DEF U
  <2> QED
    BY <1>1, SumRemove
<1> DEFINE a == SumFunctionOnSet(f, T)
           b == f[y]
<1>3. a \in Int /\ b \in Int
  BY <1>1, SumType
<1>4. SumFunctionOnSet(f, T \cup {y}) = b + a
  BY <1>1, <1>2
<1> HIDE DEF a, b
<1>5. SumFunctionOnSet(f, T \cup {y}) = a + b
  BY <1>3, <1>4
<1> QED
  BY <1>3, <1>5 DEF a, b

\* The sum of a sum of two functions.
LEMMA SumPlus ==
  ASSUME NEW S, IsFiniteSet(S), NEW f, NEW g, NEW h,
         \A x \in S : f[x] \in Int /\ g[x] \in Int /\ h[x] = f[x] + g[x]
  PROVE  SumFunctionOnSet(h, S) = SumFunctionOnSet(f, S) + SumFunctionOnSet(g, S)
<1> DEFINE P == {T \in SUBSET S : SumFunctionOnSet(h, T)
                                   = SumFunctionOnSet(f, T) + SumFunctionOnSet(g, T)}
<1>1. {} \in P
  BY SumEmpty
<1>2. ASSUME NEW T \in SUBSET S, NEW y \in S \ T, T \in P
      PROVE  T \cup {y} \in P
  <2>1. \A x \in S : f[x] \in Int /\ g[x] \in Int /\ h[x] \in Int
    OBVIOUS
  <2>2. /\ SumFunctionOnSet(f, T \cup {y}) = SumFunctionOnSet(f, T) + f[y]
        /\ SumFunctionOnSet(f, T) \in Int
    BY <2>1, SumInsert
  <2>3. /\ SumFunctionOnSet(g, T \cup {y}) = SumFunctionOnSet(g, T) + g[y]
        /\ SumFunctionOnSet(g, T) \in Int
    BY <2>1, SumInsert
  <2>4. SumFunctionOnSet(h, T \cup {y}) = SumFunctionOnSet(h, T) + h[y]
    BY <2>1, SumInsert
  <2>5. SumFunctionOnSet(h, T) = SumFunctionOnSet(f, T) + SumFunctionOnSet(g, T)
    BY <1>2
  <2> QED
    BY <2>1, <2>2, <2>3, <2>4, <2>5
<1>3. S \in P
  <2> HIDE DEF P
  <2> QED
    BY <1>1, <1>2, SubsetInduction
<1> QED
  BY <1>3

\* A common factor.
LEMMA SumTimes ==
  ASSUME NEW S, IsFiniteSet(S), NEW c \in Int, NEW f, NEW h,
         \A x \in S : f[x] \in Int /\ h[x] = c * f[x]
  PROVE  SumFunctionOnSet(h, S) = c * SumFunctionOnSet(f, S)
<1> DEFINE P == {T \in SUBSET S : SumFunctionOnSet(h, T) = c * SumFunctionOnSet(f, T)}
<1>1. {} \in P
  BY SumEmpty
<1>2. ASSUME NEW T \in SUBSET S, NEW y \in S \ T, T \in P
      PROVE  T \cup {y} \in P
  <2>1. \A x \in S : f[x] \in Int /\ h[x] \in Int
    OBVIOUS
  <2> DEFINE a == SumFunctionOnSet(f, T)
             b == f[y]
  <2>2. SumFunctionOnSet(f, T \cup {y}) = a + b /\ a \in Int
    BY <2>1, SumInsert
  <2>3. SumFunctionOnSet(h, T \cup {y}) = SumFunctionOnSet(h, T) + h[y]
    BY <2>1, SumInsert
  <2>4. SumFunctionOnSet(h, T) = c * a /\ h[y] = c * b
    BY <1>2
  <2> HIDE DEF a, b
  <2>5. c * a + c * b = c * (a + b)
    BY <2>1, <2>2 DEF b
  <2> QED
    BY <2>2, <2>3, <2>4, <2>5
<1>3. S \in P
  <2> HIDE DEF P
  <2> QED
    BY <1>1, <1>2, SubsetInduction
<1> QED
  BY <1>3

\* A constant.
LEMMA SumConstant ==
  ASSUME NEW S, IsFiniteSet(S), NEW c \in Int, NEW f, \A x \in S : f[x] = c
  PROVE  SumFunctionOnSet(f, S) = c * Cardinality(S)
<1> DEFINE P == {T \in SUBSET S : SumFunctionOnSet(f, T) = c * Cardinality(T)}
<1>1. {} \in P
  <2>1. c * 0 = 0
    OBVIOUS
  <2> QED
    BY <2>1, SumEmpty, FS_EmptySet
<1>2. ASSUME NEW T \in SUBSET S, NEW y \in S \ T, T \in P
      PROVE  T \cup {y} \in P
  <2> DEFINE n == Cardinality(T)
  <2>1. \A x \in S : f[x] \in Int
    OBVIOUS
  <2>2. SumFunctionOnSet(f, T \cup {y}) = SumFunctionOnSet(f, T) + c
    BY <2>1, SumInsert
  <2>3. n \in Nat /\ Cardinality(T \cup {y}) = n + 1
    BY FS_Subset, FS_CardinalityType, FS_AddElement
  <2>4. SumFunctionOnSet(f, T) = c * n
    BY <1>2
  <2> HIDE DEF n
  <2>5. c * n + c = c * (n + 1)
    BY <2>3
  <2> QED
    BY <2>2, <2>3, <2>4, <2>5
<1>3. S \in P
  <2> HIDE DEF P
  <2> QED
    BY <1>1, <1>2, SubsetInduction
<1> QED
  BY <1>3

\* Sums compare as their terms do.
LEMMA SumLeq ==
  ASSUME NEW S, IsFiniteSet(S), NEW f, NEW g,
         \A x \in S : f[x] \in Int /\ g[x] \in Int /\ f[x] <= g[x]
  PROVE  SumFunctionOnSet(f, S) <= SumFunctionOnSet(g, S)
<1> DEFINE P == {T \in SUBSET S : SumFunctionOnSet(f, T) <= SumFunctionOnSet(g, T)}
<1>1. {} \in P
  BY SumEmpty
<1>2. ASSUME NEW T \in SUBSET S, NEW y \in S \ T, T \in P
      PROVE  T \cup {y} \in P
  <2>1. /\ SumFunctionOnSet(f, T \cup {y}) = SumFunctionOnSet(f, T) + f[y]
        /\ SumFunctionOnSet(f, T) \in Int
    BY SumInsert
  <2>2. /\ SumFunctionOnSet(g, T \cup {y}) = SumFunctionOnSet(g, T) + g[y]
        /\ SumFunctionOnSet(g, T) \in Int
    BY SumInsert
  <2>3. /\ SumFunctionOnSet(f, T) <= SumFunctionOnSet(g, T)
        /\ f[y] \in Int /\ g[y] \in Int /\ f[y] <= g[y]
    BY <1>2
  <2> QED
    BY <2>1, <2>2, <2>3
<1>3. S \in P
  <2> HIDE DEF P
  <2> QED
    BY <1>1, <1>2, SubsetInduction
<1> QED
  BY <1>3

\* Equal terms, equal sums.
LEMMA SumSame ==
  ASSUME NEW S, IsFiniteSet(S), NEW f, NEW g,
         \A x \in S : f[x] \in Int /\ f[x] = g[x]
  PROVE  SumFunctionOnSet(f, S) = SumFunctionOnSet(g, S)
<1>1. /\ SumFunctionOnSet(f, S) <= SumFunctionOnSet(g, S)
      /\ SumFunctionOnSet(g, S) <= SumFunctionOnSet(f, S)
  BY SumLeq
<1>2. SumFunctionOnSet(f, S) \in Int /\ SumFunctionOnSet(g, S) \in Int
  BY SumType
<1> QED
  BY <1>1, <1>2

\* One term changes.
LEMMA SumChange ==
  ASSUME NEW S, IsFiniteSet(S), NEW f, NEW g, NEW y \in S,
         \A x \in S : f[x] \in Int /\ g[x] \in Int /\ (x # y => f[x] = g[x])
  PROVE  SumFunctionOnSet(g, S) = SumFunctionOnSet(f, S) + (g[y] - f[y])
<1> DEFINE T == S \ {y}
<1>1. IsFiniteSet(T) /\ \A x \in T : f[x] \in Int /\ f[x] = g[x]
  BY FS_Subset
<1>2. SumFunctionOnSet(f, T) = SumFunctionOnSet(g, T) /\ SumFunctionOnSet(f, T) \in Int
  <2> HIDE DEF T
  <2> QED
    BY <1>1, SumSame, SumType
<1>3. SumFunctionOnSet(f, S) = f[y] + SumFunctionOnSet(f, T)
  BY SumRemove
<1>4. SumFunctionOnSet(g, S) = g[y] + SumFunctionOnSet(g, T)
  BY SumRemove
<1>5. f[y] \in Int /\ g[y] \in Int
  OBVIOUS
<1> HIDE DEF T
<1> QED
  BY <1>2, <1>3, <1>4, <1>5

\* A sum of natural numbers is one, and none of its terms exceeds it.
LEMMA SumNat ==
  ASSUME NEW S, IsFiniteSet(S), NEW f, \A x \in S : f[x] \in Nat
  PROVE  /\ SumFunctionOnSet(f, S) \in Nat
         /\ \A x \in S : f[x] <= SumFunctionOnSet(f, S)
<1>1. ASSUME NEW T \in SUBSET S
      PROVE  SumFunctionOnSet(f, T) \in Nat
  <2> DEFINE zero == [x \in T |-> 0]
  <2>1. IsFiniteSet(T) /\ \A x \in T : zero[x] = 0
    BY FS_Subset
  <2>2. SumFunctionOnSet(zero, T) = 0 * Cardinality(T) /\ Cardinality(T) \in Nat
    <3> HIDE DEF zero
    <3> QED
      BY <2>1, SumConstant, FS_CardinalityType
  <2>3. SumFunctionOnSet(zero, T) <= SumFunctionOnSet(f, T)
    <3>1. \A x \in T : zero[x] \in Int /\ f[x] \in Int /\ zero[x] <= f[x]
      BY <2>1
    <3> HIDE DEF zero
    <3> QED
      BY <2>1, <3>1, SumLeq
  <2>4. SumFunctionOnSet(f, T) \in Int
    <3>1. \A x \in T : f[x] \in Int
      OBVIOUS
    <3> QED
      BY <2>1, <3>1, SumType
  <2>5. 0 * Cardinality(T) = 0
    BY <2>2
  <2> HIDE DEF zero
  <2> QED
    BY <2>2, <2>3, <2>4, <2>5
<1>2. ASSUME NEW x \in S
      PROVE  f[x] <= SumFunctionOnSet(f, S)
  <2>1. SumFunctionOnSet(f, S \ {x}) \in Nat
    BY <1>1
  <2>2. SumFunctionOnSet(f, S) = f[x] + SumFunctionOnSet(f, S \ {x})
    BY SumRemove
  <2> QED
    BY <2>1, <2>2
<1> QED
  BY <1>1, <1>2

\* Counting is summing ones.
LEMMA SumCount ==
  ASSUME NEW S, IsFiniteSet(S), NEW T \in SUBSET S, NEW f,
         \A x \in S : f[x] = IF x \in T THEN 1 ELSE 0
  PROVE  SumFunctionOnSet(f, S) = Cardinality(T)
<1> DEFINE P == {U \in SUBSET S : SumFunctionOnSet(f, U) = Cardinality(U \cap T)}
<1>1. {} \in P
  BY SumEmpty, FS_EmptySet
<1>2. ASSUME NEW U \in SUBSET S, NEW x \in S \ U, U \in P
      PROVE  U \cup {x} \in P
  <2>1. SumFunctionOnSet(f, U \cup {x}) = Cardinality(U \cap T) + f[x]
    BY <1>2, SumInsert
  <2>2. IsFiniteSet(U \cap T)
    BY FS_Subset
  <2>3. Cardinality(U \cap T) \in Nat
    BY <2>2, FS_CardinalityType
  <2>4. CASE x \in T
    <3>1. Cardinality((U \cap T) \cup {x}) = Cardinality(U \cap T) + 1
      BY <2>2, FS_AddElement
    <3>2. (U \cap T) \cup {x} = (U \cup {x}) \cap T
      BY <2>4
    <3> QED
      BY <2>1, <2>4, <3>1, <3>2
  <2>5. CASE x \notin T
    <3>1. (U \cup {x}) \cap T = U \cap T
      BY <2>5
    <3>2. f[x] = 0 /\ Cardinality(U \cap T) + 0 = Cardinality(U \cap T)
      BY <2>3, <2>5
    <3>3. SumFunctionOnSet(f, U \cup {x}) = Cardinality((U \cup {x}) \cap T)
      BY <2>1, <3>1, <3>2, Zenon
    <3> QED
      BY <3>3
  <2> QED
    BY <2>4, <2>5
<1> HIDE DEF P
<1>3. S \in P
  BY <1>1, <1>2, SubsetInduction
<1>4. S \cap T = T
  OBVIOUS
<1> QED
  BY <1>3, <1>4 DEF P

\* Of two sums that are equal with no term larger in the first, all terms are
\* equal.
LEMMA SumEqual ==
  ASSUME NEW S, IsFiniteSet(S), NEW f, NEW g,
         \A x \in S : f[x] \in Int /\ g[x] \in Int /\ f[x] <= g[x],
         SumFunctionOnSet(f, S) = SumFunctionOnSet(g, S)
  PROVE  \A x \in S : f[x] = g[x]
<1> DEFINE d == [x \in S |-> g[x] - f[x]]
<1>1. \A x \in S : d[x] \in Nat /\ d[x] = g[x] - f[x] /\ g[x] = f[x] + d[x]
  OBVIOUS
<1> HIDE DEF d
<1>2. SumFunctionOnSet(g, S) = SumFunctionOnSet(f, S) + SumFunctionOnSet(d, S)
  BY <1>1, SumPlus
<1>3. SumFunctionOnSet(d, S) \in Nat /\ (\A x \in S : d[x] <= SumFunctionOnSet(d, S))
  BY <1>1, SumNat
<1>4. SumFunctionOnSet(f, S) \in Int
  BY SumType
<1>5. SumFunctionOnSet(d, S) = 0
  BY <1>2, <1>3, <1>4
<1> QED
  BY <1>1, <1>3, <1>5

\* Nothing adds up to nothing.
LEMMA SumZero ==
  ASSUME NEW S, IsFiniteSet(S), NEW f, \A x \in S : f[x] = 0
  PROVE  SumFunctionOnSet(f, S) = 0
<1>1. Cardinality(S) \in Nat
  BY FS_CardinalityType
<1>2. SumFunctionOnSet(f, S) = 0 * Cardinality(S)
  BY SumConstant
<1> QED
  BY <1>1, <1>2

\* When one term grows by d, so does the sum.
LEMMA SumGrows ==
  ASSUME NEW S, IsFiniteSet(S), NEW f, NEW g, NEW y \in S, NEW d \in Int,
         \A x \in S : f[x] \in Int, \A x \in S \ {y} : g[x] = f[x], g[y] = f[y] + d
  PROVE  SumFunctionOnSet(g, S) = SumFunctionOnSet(f, S) + d
<1>1. IsFiniteSet(S \ {y})
  BY FS_Subset
<1>2. SumFunctionOnSet(g, S \ {y}) = SumFunctionOnSet(f, S \ {y})
  BY <1>1, SumSame
<1>3. SumFunctionOnSet(f, S) = f[y] + SumFunctionOnSet(f, S \ {y})
  BY SumRemove
<1>4. SumFunctionOnSet(g, S) = g[y] + SumFunctionOnSet(g, S \ {y})
  <2>1. \A x \in S : g[x] \in Int
    OBVIOUS
  <2> QED
    BY <2>1, SumRemove
<1>5. SumFunctionOnSet(f, S \ {y}) \in Int /\ f[y] \in Int
  BY <1>1, SumType
<1> QED
  BY <1>2, <1>3, <1>4, <1>5
=============================================================================
