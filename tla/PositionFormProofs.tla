------------------------- MODULE PositionFormProofs -------------------------
(***************************************************************************)
(* Theorems about the position form: what "indexed" says of the page, and  *)
(* what the page says of an attempt that misses.                           *)
(***************************************************************************)
EXTENDS PositionFormProperties, SumTheorems, SequenceTheorems

\* Every stake that something holds: the chain, the index, the page, an answer.
Known ==
  mempool \cup ToSet(chain) \cup ToSet(index)
    \cup ToSet(page.market) \cup ToSet(page.positions)
    \cup (UNION {ToSet(m) : m \in read.market})
    \cup (UNION {ToSet(p) : p \in read.positions})

FormTypes ==
  /\ chain \in Seq(Stake) /\ index \in Seq(Stake) /\ mempool \in SUBSET Stake
  /\ page \in [market : Seq(Stake), positions : Seq(Stake)]
  /\ read \in [market : SUBSET Seq(Stake), positions : SUBSET Seq(Stake)]
  /\ nextId \in Nat \ {0}

\* A pair of requests has one answer each.
OneAnswer ==
  /\ \A m, n \in read.market : m = n
  /\ \A m, n \in read.positions : m = n

Numbered == \A s \in Known : s.id < nextId

\* What the locals of takePosition say while it runs: the page is the one the
\* baseline was taken from, and does not show the transaction; every stake of
\* its number is what was submitted.
Attempted ==
  stage \in Active =>
    /\ detail = "ready"
    /\ tx \in [id : Nat, account : Account, outcome : Outcome, amount : Amounts,
               base : [pool : Int, stake : Int], attempt : Nat]
    /\ tx.base = Baseline(tx.account, tx.outcome)
    /\ tx.id < nextId
    /\ tx.id \notin Ids(page.market) /\ tx.id \notin Ids(page.positions)
    /\ \A s \in Known : s.id = tx.id => s.outcome = tx.outcome /\ s.amount = tx.amount

FormInv == FormTypes /\ OneAnswer /\ Numbered /\ Attempted

----------------------------------------------------------------------------
\* The elements of sequences: parts and prefixes have no new ones.

\* A sequence has finitely many elements, all of its type.
LEMMA ElementsType ==
  ASSUME NEW S, NEW s \in Seq(S)
  PROVE  /\ ToSet(s) \subseteq S /\ IsFiniteSet(ToSet(s))
         /\ \A x : x \in ToSet(s) <=> \E i \in 1 .. Len(s) : x = s[i]
<1>1. DOMAIN s = 1 .. Len(s) /\ Len(s) \in Nat /\ \A i \in 1 .. Len(s) : s[i] \in S
  BY LenProperties
<1>2. ToSet(s) = {s[i] : i \in 1 .. Len(s)}
  BY <1>1 DEF ToSet
<1>3. IsFiniteSet(1 .. Len(s))
  BY <1>1, FS_Interval
<1>4. s \in Surjection(1 .. Len(s), ToSet(s))
  <2>1. s \in [1 .. Len(s) -> ToSet(s)]
    BY <1>1, <1>2, LenProperties
  <2> QED
    BY <1>2, <2>1 DEF Surjection
<1>5. IsFiniteSet(ToSet(s))
  BY <1>3, <1>4, FS_Surjection
<1> QED
  BY <1>1, <1>2, <1>5

\* The empty sequence has none.
LEMMA EmptyElements == ToSet(<<>>) = {} /\ \A S : <<>> \in Seq(S)
  BY DEF ToSet

\* Append adds one.
LEMMA AppendElements ==
  ASSUME NEW S, NEW s \in Seq(S), NEW x \in S
  PROVE  Append(s, x) \in Seq(S) /\ ToSet(Append(s, x)) = ToSet(s) \cup {x}
<1>1. /\ Append(s, x) \in Seq(S) /\ Len(Append(s, x)) = Len(s) + 1 /\ Len(s) \in Nat
      /\ \A i \in 1 .. Len(s) : Append(s, x)[i] = s[i]
      /\ Append(s, x)[Len(s) + 1] = x
  BY AppendProperties, LenProperties
<1>2. /\ \A y : y \in ToSet(s) <=> \E i \in 1 .. Len(s) : y = s[i]
      /\ \A y : y \in ToSet(Append(s, x)) <=> \E i \in 1 .. Len(s) + 1 : y = Append(s, x)[i]
  <2>1. \A y : y \in ToSet(s) <=> \E i \in 1 .. Len(s) : y = s[i]
    BY ElementsType
  <2>2. \A y : y \in ToSet(Append(s, x))
                <=> \E i \in 1 .. Len(Append(s, x)) : y = Append(s, x)[i]
    <3> DEFINE t == Append(s, x)
    <3>1. t \in Seq(S)
      BY <1>1
    <3> HIDE DEF t
    <3>2. \A y : y \in ToSet(t) <=> \E i \in 1 .. Len(t) : y = t[i]
      BY <3>1, ElementsType
    <3> QED
      BY <3>2 DEF t
  <2> QED
    BY <1>1, <2>1, <2>2
<1>3. ASSUME NEW y \in ToSet(Append(s, x))
      PROVE  y \in ToSet(s) \cup {x}
  <2>1. PICK i \in 1 .. Len(s) + 1 : y = Append(s, x)[i]
    BY <1>2, <1>3
  <2>2. i \in 1 .. Len(s) \/ i = Len(s) + 1
    BY <1>1
  <2> QED
    BY <2>1, <2>2, <1>1, <1>2
<1>4. ASSUME NEW y \in ToSet(s) \cup {x}
      PROVE  y \in ToSet(Append(s, x))
  <2>1. Len(s) + 1 \in 1 .. Len(s) + 1 /\ 1 .. Len(s) \subseteq 1 .. Len(s) + 1
    BY <1>1
  <2> QED
    BY <2>1, <1>1, <1>2, <1>4
<1> QED
  BY <1>1, <1>3, <1>4

\* A part of a sequence.
LEMMA PartElements ==
  ASSUME NEW S, NEW s \in Seq(S), NEW m \in Nat \ {0}, NEW n \in Nat, n <= Len(s)
  PROVE  /\ SubSeq(s, m, n) \in Seq(S)
         /\ ToSet(SubSeq(s, m, n)) \subseteq ToSet(s)
         /\ Len(SubSeq(s, 1, n)) = n
         /\ \A i \in 1 .. n : SubSeq(s, 1, n)[i] = s[i]
<1>1. Len(s) \in Nat /\ \A i \in 1 .. Len(s) : s[i] \in S
  BY LenProperties
<1>2. /\ \A i \in m .. n : s[i] \in S
      /\ \A i \in 1 .. n : s[i] \in S
  BY <1>1
<1>3. /\ SubSeq(s, m, n) \in Seq(S)
      /\ Len(SubSeq(s, m, n)) = IF m <= n THEN n - m + 1 ELSE 0
      /\ \A i \in 1 .. n - m + 1 : SubSeq(s, m, n)[i] = s[m + i - 1]
  BY <1>2, SubSeqProperties, m \in Int, n \in Int
<1>4. /\ Len(SubSeq(s, 1, n)) = IF 1 <= n THEN n - 1 + 1 ELSE 0
      /\ \A i \in 1 .. n - 1 + 1 : SubSeq(s, 1, n)[i] = s[1 + i - 1]
  BY <1>2, SubSeqProperties, 1 \in Int, n \in Int
<1>5. ASSUME NEW x \in ToSet(SubSeq(s, m, n))
      PROVE  x \in ToSet(s)
  <2>1. PICK i \in 1 .. Len(SubSeq(s, m, n)) : x = SubSeq(s, m, n)[i]
    BY <1>3, <1>5, ElementsType
  <2>2. m + i - 1 \in 1 .. Len(s) /\ x = s[m + i - 1]
    BY <1>1, <1>3, <2>1
  <2> QED
    BY <2>2, ElementsType
<1> QED
  BY <1>3, <1>4, <1>5

\* A prefix.
LEMMA PrefixElements ==
  ASSUME NEW S, NEW s \in Seq(S), NEW t \in Seq(S), IsPrefix(s, t)
  PROVE  ToSet(s) \subseteq ToSet(t)
<1>1. Len(s) \in Nat /\ Len(t) \in Nat /\ Len(s) <= Len(t)
  BY LenProperties DEF IsPrefix
<1>2. \A i \in 1 .. Len(s) : s[i] = t[i]
  <2>1. /\ \A i \in 1 .. Len(s) : SubSeq(s, 1, Len(s))[i] = s[i]
        /\ \A i \in 1 .. Len(s) : SubSeq(t, 1, Len(s))[i] = t[i]
    BY <1>1, PartElements, 1 \in Nat \ {0}
  <2> QED
    BY <2>1 DEF IsPrefix
<1>3. ASSUME NEW x \in ToSet(s)
      PROVE  x \in ToSet(t)
  <2>1. PICK i \in 1 .. Len(s) : x = s[i]
    BY ElementsType
  <2>2. i \in 1 .. Len(t) /\ x = t[i]
    BY <1>1, <1>2, <2>1
  <2> QED
    BY <2>2, ElementsType
<1> QED
  BY <1>3

\* The common prefix of two sequences is one of both.
LEMMA CommonPrefixElements ==
  ASSUME NEW S, NEW s \in Seq(S), NEW t \in Seq(S)
  PROVE  LET u == LongestCommonPrefix({s, t})
         IN  u \in Seq(S) /\ ToSet(u) \subseteq ToSet(s) /\ ToSet(u) \subseteq ToSet(t)
<1> DEFINE C == CommonPrefixes({s, t})
           u == LongestCommonPrefix({s, t})
<1>1. Len(s) \in Nat /\ Len(t) \in Nat
  BY LenProperties
<1>2. ASSUME NEW v \in C
      PROVE  v \in Seq(S) /\ IsPrefix(v, s) /\ IsPrefix(v, t)
  <2>1. IsPrefix(v, s) /\ IsPrefix(v, t)
    BY <1>2 DEF CommonPrefixes
  <2>2. PICK w \in {s, t} : v \in Prefixes(w)
    BY <1>2 DEF CommonPrefixes
  <2>3. PICK l \in 0 .. Len(w) : v = SubSeq(w, 1, l)
    BY <2>2 DEF Prefixes
  <2>4. w \in Seq(S) /\ l \in Nat /\ l <= Len(w)
    BY <1>1, <2>3
  <2>5. v \in Seq(S)
    BY <2>3, <2>4, PartElements, 1 \in Nat \ {0}
  <2> QED
    BY <2>1, <2>5
<1>3. <<>> \in C
  <2>1. <<>> \in Prefixes(s)
    <3>1. SubSeq(s, 1, 0) = <<>>
      BY SubSeqEmpty
    <3> QED
      BY <3>1, <1>1 DEF Prefixes
  <2>2. ASSUME NEW w \in {s, t}
        PROVE  IsPrefix(<<>>, w)
    <3>1. Len(<<>>) = 0 /\ SubSeq(<<>>, 1, 0) = <<>> /\ SubSeq(w, 1, 0) = <<>>
      BY SubSeqEmpty
    <3> QED
      BY <3>1, <1>1 DEF IsPrefix
  <2> QED
    BY <2>1, <2>2 DEF CommonPrefixes
<1>4. \A v \in C : Len(v) \in Nat /\ Len(v) <= Len(s)
  BY <1>2, LenProperties DEF IsPrefix
<1> HIDE DEF C
<1> DEFINE D == {Len(s) - Len(v) : v \in C}
<1>5. D \in SUBSET Nat /\ D # {}
  BY <1>1, <1>3, <1>4
<1>6. PICK v \in C : \A w \in C : Len(w) <= Len(v)
  <2> HIDE DEF D
  <2>1. PICK n \in D : \A k \in D : n <= k
    BY <1>5, LeastNumber
  <2>2. PICK v \in C : n = Len(s) - Len(v)
    BY <2>1 DEF D
  <2>3. ASSUME NEW w \in C
        PROVE  Len(w) <= Len(v)
    <3>1. Len(s) - Len(w) \in D
      BY DEF D
    <3>2. Len(s) - Len(v) <= Len(s) - Len(w)
      BY <2>1, <2>2, <3>1
    <3> QED
      BY <3>2, <1>1, <1>4
  <2> QED
    BY <2>3
<1>7. u \in C
  BY <1>6 DEF LongestCommonPrefix, C
<1> HIDE DEF u
<1> QED
  BY <1>2, <1>7, PrefixElements DEF u

----------------------------------------------------------------------------
\* Sums of stakes: more stakes, a larger sum.

\* Fewer summands that are not negative.
LEMMA SumMonotone ==
  ASSUME NEW S, IsFiniteSet(S), NEW T \in SUBSET S, NEW f, \A x \in S : f[x] \in Nat
  PROVE  SumFunctionOnSet(f, T) <= SumFunctionOnSet(f, S)
<1> DEFINE P == {U \in SUBSET S : SumFunctionOnSet(f, U \cap T) <= SumFunctionOnSet(f, U)}
<1>1. {} \in P
  <2>1. {} \cap T = {}
    OBVIOUS
  <2> QED
    BY <2>1, SumEmpty
<1>2. ASSUME NEW U \in SUBSET S, NEW y \in S \ U, U \in P
      PROVE  U \cup {y} \in P
  <2>1. \A x \in S : f[x] \in Int
    OBVIOUS
  <2>2. /\ SumFunctionOnSet(f, U \cup {y}) = SumFunctionOnSet(f, U) + f[y]
        /\ SumFunctionOnSet(f, U) \in Int /\ f[y] \in Nat
    BY <2>1, SumInsert
  <2>3. U \cap T \in SUBSET S /\ y \in S \ (U \cap T)
    OBVIOUS
  <2>4. /\ SumFunctionOnSet(f, (U \cap T) \cup {y}) = SumFunctionOnSet(f, U \cap T) + f[y]
        /\ SumFunctionOnSet(f, U \cap T) \in Int
    BY <2>1, <2>3, SumInsert
  <2>5. SumFunctionOnSet(f, U \cap T) <= SumFunctionOnSet(f, U)
    BY <1>2
  <2>6. CASE y \in T
    <3>1. (U \cup {y}) \cap T = (U \cap T) \cup {y}
      BY <2>6
    <3>2. SumFunctionOnSet(f, (U \cap T) \cup {y}) <= SumFunctionOnSet(f, U \cup {y})
      BY <2>2, <2>4, <2>5
    <3> QED
      BY <3>1, <3>2
  <2>7. CASE y \notin T
    <3>1. (U \cup {y}) \cap T = U \cap T
      BY <2>7
    <3>2. SumFunctionOnSet(f, U \cap T) <= SumFunctionOnSet(f, U \cup {y})
      BY <2>2, <2>4, <2>5
    <3> QED
      BY <3>1, <3>2
  <2> QED
    BY <2>6, <2>7
<1>3. S \in P
  <2> HIDE DEF P
  <2> QED
    BY <1>1, <1>2, SubsetInduction
<1>4. S \cap T = T
  OBVIOUS
<1> QED
  BY <1>3, <1>4

\* Amounts are numbers.
LEMMA StakeAmount == \A s \in Stake : s.amount \in Nat /\ s.amount \in Int
<1>1. Amounts \subseteq Nat
  BY FormAssumption
<1>2. ASSUME NEW s \in Stake
      PROVE  s.amount \in Nat /\ s.amount \in Int
  <2>1. s.amount \in Amounts
    BY DEF Stake
  <2>2. s.amount \in Nat
    BY <1>1, <2>1
  <2> QED
    BY <2>2
<1> QED
  BY <1>2

\* AmountOf is the sum of any function that gives the amounts.
LEMMA AmountIsSum ==
  ASSUME NEW S \in SUBSET Stake, IsFiniteSet(S), NEW T \in SUBSET S
  PROVE  AmountOf(T) = SumFunctionOnSet([s \in S |-> s.amount], T)
<1> DEFINE f == [s \in S |-> s.amount]
           g == [s \in T |-> s.amount]
<1>1. IsFiniteSet(T) /\ DOMAIN g = T
  BY FS_Subset
<1>2. \A s \in T : f[s] \in Int /\ g[s] = f[s]
  BY StakeAmount
<1>3. AmountOf(T) = SumFunctionOnSet(g, T)
  BY <1>1 DEF AmountOf, SumFunction
<1> HIDE DEF f, g
<1>4. SumFunctionOnSet(g, T) = SumFunctionOnSet(f, T)
  BY <1>1, <1>2, SumSame
<1> QED
  BY <1>3, <1>4 DEF f

\* Some of the stakes are worth no more than all.
LEMMA AmountMonotone ==
  ASSUME NEW S \in SUBSET Stake, IsFiniteSet(S), NEW T \in SUBSET S
  PROVE  AmountOf(T) \in Int /\ AmountOf(S) \in Int /\ AmountOf(T) <= AmountOf(S)
<1> DEFINE f == [s \in S |-> s.amount]
<1>1. \A s \in S : f[s] \in Nat /\ f[s] \in Int
  BY StakeAmount
<1>2. AmountOf(T) = SumFunctionOnSet(f, T) /\ AmountOf(S) = SumFunctionOnSet(f, S)
  BY AmountIsSum, S \in SUBSET S
<1>3. IsFiniteSet(T) /\ \A s \in T : f[s] \in Int
  BY <1>1, FS_Subset
<1> HIDE DEF f
<1>4. SumFunctionOnSet(f, T) <= SumFunctionOnSet(f, S)
  BY <1>1, SumMonotone
<1>5. SumFunctionOnSet(f, T) \in Int /\ SumFunctionOnSet(f, S) \in Int
  BY <1>1, <1>3, SumType
<1> QED
  BY <1>2, <1>4, <1>5

\* One more stake adds its amount.
LEMMA AmountOfMore ==
  ASSUME NEW S \in SUBSET Stake, IsFiniteSet(S), NEW T \in SUBSET S, NEW y \in S \ T
  PROVE  AmountOf(T) + y.amount <= AmountOf(S)
<1> DEFINE U == T \cup {y}
           f == [s \in S |-> s.amount]
<1>1. U \in SUBSET S /\ y \in S
  OBVIOUS
<1>2. \A s \in S : f[s] \in Int
  BY StakeAmount
<1>3. AmountOf(T) = SumFunctionOnSet(f, T) /\ AmountOf(U) = SumFunctionOnSet(f, U)
  BY <1>1, AmountIsSum
<1>4. f[y] = y.amount
  BY <1>1
<1>5. AmountOf(U) <= AmountOf(S)
  <2> HIDE DEF U
  <2> QED
    BY <1>1, AmountMonotone
<1> HIDE DEF f
<1>6. SumFunctionOnSet(f, T \cup {y}) = SumFunctionOnSet(f, T) + f[y]
  BY <1>2, SumInsert
<1> QED
  BY <1>3, <1>4, <1>5, <1>6

----------------------------------------------------------------------------
\* What the API answers from a version.

\* Pools and stakes are numbers.
LEMMA AnswerTypes ==
  ASSUME NEW s \in Seq(Stake), NEW a, NEW o
  PROVE  PoolIn(s, o) \in Int /\ StakeIn(s, a, o) \in Int
<1> DEFINE A == {x \in ToSet(s) : x.outcome = o}
           B == {x \in ToSet(s) : x.by = a /\ x.outcome = o}
<1>1. ToSet(s) \in SUBSET Stake /\ IsFiniteSet(ToSet(s))
  BY ElementsType
<1>2. A \in SUBSET ToSet(s) /\ B \in SUBSET ToSet(s)
  OBVIOUS
<1>3. AmountOf(A) \in Int /\ AmountOf(B) \in Int
  <2> HIDE DEF A, B
  <2> QED
    BY <1>1, <1>2, AmountMonotone
<1> QED
  BY <1>3 DEF PoolIn, StakeIn

\* A version whose stakes of an account and outcome another has does not show
\* the account more.
LEMMA StakeMonotone ==
  ASSUME NEW s \in Seq(Stake), NEW t \in Seq(Stake), NEW a, NEW o,
         \A x \in ToSet(s) : x.by = a /\ x.outcome = o => x \in ToSet(t)
  PROVE  StakeIn(s, a, o) <= StakeIn(t, a, o)
<1> DEFINE A == {x \in ToSet(s) : x.by = a /\ x.outcome = o}
           B == {x \in ToSet(t) : x.by = a /\ x.outcome = o}
<1>1. ToSet(t) \in SUBSET Stake /\ IsFiniteSet(ToSet(t))
  BY ElementsType
<1>2. A \in SUBSET B /\ B \in SUBSET Stake /\ IsFiniteSet(B)
  BY <1>1, FS_Subset
<1>3. AmountOf(A) <= AmountOf(B)
  <2> HIDE DEF A, B
  <2> QED
    BY <1>2, AmountMonotone
<1> QED
  BY <1>3 DEF StakeIn

\* A version with the stakes of another and one more shows that much more.
LEMMA AnswersGrow ==
  ASSUME NEW s \in Seq(Stake), NEW t \in Seq(Stake), ToSet(s) \subseteq ToSet(t),
         NEW y \in ToSet(t), y \notin ToSet(s)
  PROVE  /\ PoolIn(t, y.outcome) >= PoolIn(s, y.outcome) + y.amount
         /\ StakeIn(t, y.by, y.outcome) >= StakeIn(s, y.by, y.outcome) + y.amount
<1> DEFINE A(u) == {x \in ToSet(u) : x.outcome = y.outcome}
           B(u) == {x \in ToSet(u) : x.by = y.by /\ x.outcome = y.outcome}
           A1 == A(s)
           A2 == A(t)
           B1 == B(s)
           B2 == B(t)
<1>1. ToSet(t) \in SUBSET Stake /\ IsFiniteSet(ToSet(t))
  BY ElementsType
<1>2. /\ A1 \in SUBSET A2 /\ A2 \in SUBSET Stake /\ IsFiniteSet(A2) /\ y \in A2 \ A1
      /\ B1 \in SUBSET B2 /\ B2 \in SUBSET Stake /\ IsFiniteSet(B2) /\ y \in B2 \ B1
  BY <1>1, FS_Subset
<1>3. /\ PoolIn(s, y.outcome) = AmountOf(A1) /\ PoolIn(t, y.outcome) = AmountOf(A2)
      /\ StakeIn(s, y.by, y.outcome) = AmountOf(B1)
      /\ StakeIn(t, y.by, y.outcome) = AmountOf(B2)
  BY DEF PoolIn, StakeIn
<1>4. /\ AmountOf(A1) + y.amount <= AmountOf(A2)
      /\ AmountOf(B1) + y.amount <= AmountOf(B2)
  <2> HIDE DEF A1, A2, B1, B2
  <2> QED
    BY <1>2, AmountOfMore
<1>5. /\ AmountOf(A1) \in Int /\ AmountOf(A2) \in Int
      /\ AmountOf(B1) \in Int /\ AmountOf(B2) \in Int /\ y.amount \in Int
  <2>1. y.amount \in Int
    BY <1>2, StakeAmount
  <2> HIDE DEF A1, A2, B1, B2
  <2> QED
    BY <1>2, <2>1, AmountMonotone
<1> HIDE DEF A1, A2, B1, B2
<1> QED
  BY <1>3, <1>4, <1>5

----------------------------------------------------------------------------
\* The invariant.

\* The stakes that something holds, case by case.
LEMMA KnownCases ==
  \A s : s \in Known <=>
    \/ s \in mempool \/ s \in ToSet(chain) \/ s \in ToSet(index)
    \/ s \in ToSet(page.market) \/ s \in ToSet(page.positions)
    \/ \E m \in read.market : s \in ToSet(m)
    \/ \E p \in read.positions : s \in ToSet(p)
  BY DEF Known

\* They have numbers, which begin at 1.
LEMMA KnownTypes ==
  ASSUME FormTypes
  PROVE  Known \subseteq Stake /\ \A s \in Known : s.id \in Nat /\ s.id # 0
<1>1. ASSUME NEW s \in Known
      PROVE  s \in Stake
  <2>1. \A q \in Seq(Stake) : ToSet(q) \subseteq Stake
    BY ElementsType
  <2>2. /\ chain \in Seq(Stake) /\ index \in Seq(Stake) /\ mempool \subseteq Stake
        /\ page.market \in Seq(Stake) /\ page.positions \in Seq(Stake)
        /\ read.market \subseteq Seq(Stake) /\ read.positions \subseteq Seq(Stake)
    BY DEF FormTypes
  <2> QED
    BY <1>1, <2>1, <2>2, KnownCases
<1>2. ASSUME NEW s \in Stake
      PROVE  s.id \in Nat /\ s.id # 0
  <2>1. s.id \in 1 .. MaxStakes
    BY DEF Stake
  <2> QED
    BY <2>1, FormAssumption
<1> QED
  BY <1>1, <1>2

\* The page is not known to show a number that no known stake has.
LEMMA UnknownNotShown ==
  ASSUME NEW n, \A s \in Known : s.id # n
  PROVE  n \notin Ids(page.market) /\ n \notin Ids(page.positions)
  BY KnownCases DEF Ids

\* The locals of takePosition, but for the number of attempts.
TxType == [id : Nat, account : Account, outcome : Outcome, amount : Amounts,
           base : [pool : Int, stake : Int], attempt : Nat]

\* A step that makes no stake, and leaves the page and the submission of an
\* active transaction alone.
LEMMA StepKeeps ==
  ASSUME FormInv, FormTypes', OneAnswer', Known' \subseteq Known, nextId' = nextId,
         stage' \in Active =>
           /\ stage \in Active /\ UNCHANGED <<detail, page>>
           /\ tx' = tx \/ NextAttempt
  PROVE  FormInv'
<1>1. Numbered'
  BY DEF FormInv, Numbered
<1>2. ASSUME stage' \in Active
      PROVE  /\ detail' = "ready" /\ tx' \in TxType
             /\ (tx.base = Baseline(tx.account, tx.outcome))'
             /\ tx'.id < nextId'
             /\ (tx.id \notin Ids(page.market) /\ tx.id \notin Ids(page.positions))'
             /\ \A s \in Known' : s.id = tx'.id => s.outcome = tx'.outcome /\ s.amount = tx'.amount
  <2>1. stage \in Active /\ detail' = detail /\ page' = page
    BY <1>2
  <2>2. /\ detail = "ready" /\ tx \in TxType
        /\ tx.base = Baseline(tx.account, tx.outcome)
        /\ tx.id < nextId
        /\ tx.id \notin Ids(page.market) /\ tx.id \notin Ids(page.positions)
        /\ \A s \in Known : s.id = tx.id => s.outcome = tx.outcome /\ s.amount = tx.amount
    BY <2>1 DEF FormInv, Attempted, TxType
  <2>3. /\ tx' \in TxType /\ tx'.id = tx.id /\ tx'.account = tx.account
        /\ tx'.outcome = tx.outcome /\ tx'.amount = tx.amount /\ tx'.base = tx.base
    <3>1. CASE tx' = tx
      BY <3>1, <2>2
    <3>2. CASE tx' = [tx EXCEPT !.attempt = @ + 1]
      BY <3>2, <2>2 DEF TxType
    <3> QED
      BY <1>2, <3>1, <3>2 DEF NextAttempt
  <2>4. (tx.base = Baseline(tx.account, tx.outcome))'
    BY <2>1, <2>2, <2>3 DEF Baseline
  <2> QED
    BY <2>1, <2>2, <2>3, <2>4
<1>3. Attempted'
  BY <1>2 DEF Attempted, TxType
<1> QED
  BY <1>1, <1>3 DEF FormInv

\* A new transaction has a number that nothing known has.
LEMMA NewStakeKeeps ==
  ASSUME FormInv, FormTypes', OneAnswer', NEW s,
         s.id = nextId, Known' \subseteq Known \cup {s}, nextId' = nextId + 1
  PROVE  /\ Numbered'
         /\ \A x \in Known : x.id # nextId
         /\ \A x \in Known' : x.id # nextId => x \in Known
<1>1. nextId \in Nat /\ \A x \in Known : x.id \in Nat /\ x.id < nextId
  BY KnownTypes DEF FormInv, FormTypes, Numbered
<1>2. Numbered'
  <2>1. \A x \in Known' : x.id < nextId + 1
    BY <1>1
  <2> QED
    BY <2>1 DEF Numbered
<1> QED
  BY <1>1, <1>2

----------------------------------------------------------------------------
\* The steps.

\* The invariant holds initially.
LEMMA FormInit == Init => FormInv
<1> SUFFICES ASSUME Init PROVE FormInv
  OBVIOUS
<1>1. <<>> \in Seq(Stake) /\ ToSet(<<>>) = {}
  BY EmptyElements
<1>2. FormTypes /\ OneAnswer
  BY <1>1 DEF Init, FormTypes, OneAnswer, EmptyPage, NoRead
<1>3. Known = {}
  BY <1>1 DEF Init, Known, EmptyPage, NoRead
<1>4. stage \notin Active
  BY DEF Init, Active
<1> QED
  BY <1>2, <1>3, <1>4 DEF FormInv, Numbered, Attempted

\* Steps that leave the page alone and make no stake.
LEMMA WorldKeeps ==
  ASSUME FormInv, MineStake \/ ReorgChain \/ IndexBlock
  PROVE  FormInv'
<1>1. FormTypes /\ OneAnswer
  BY DEF FormInv
<1>2. UNCHANGED <<nextId, detail, page, read, stage, tx>>
  BY DEF MineStake, ReorgChain, IndexBlock, pageVars
<1>3. /\ chain' \in Seq(Stake) /\ index' \in Seq(Stake) /\ mempool' \subseteq Stake
      /\ \A s : s \in mempool' \/ s \in ToSet(chain') \/ s \in ToSet(index')
                  => s \in mempool \/ s \in ToSet(chain) \/ s \in ToSet(index)
  <2>1. chain \in Seq(Stake) /\ index \in Seq(Stake) /\ mempool \subseteq Stake
    BY <1>1 DEF FormTypes
  <2>2. CASE MineStake
    <3>1. PICK s \in mempool : /\ mempool' = mempool \ {s}
                               /\ chain' \in {chain, Append(chain, s)}
      BY <2>2 DEF MineStake
    <3>2. s \in Stake /\ index' = index
      BY <2>1, <2>2 DEF MineStake
    <3>3. Append(chain, s) \in Seq(Stake) /\ ToSet(Append(chain, s)) = ToSet(chain) \cup {s}
      BY <2>1, <3>2, AppendElements
    <3> QED
      BY <2>1, <3>1, <3>2, <3>3
  <2>3. CASE ReorgChain
    <3>1. PICK n \in 0 .. Len(chain) - 1 :
            /\ chain' = SubSeq(chain, 1, n)
            /\ mempool' = mempool \cup ToSet(SubSeq(chain, n + 1, Len(chain)))
      BY <2>3 DEF ReorgChain
    <3>2. Len(chain) \in Nat
      BY <2>1, LenProperties
    <3>3. /\ n \in Nat /\ n <= Len(chain) /\ n + 1 \in Nat \ {0}
          /\ 1 \in Nat \ {0} /\ Len(chain) <= Len(chain)
      BY <3>2
    <3>4. SubSeq(chain, 1, n) \in Seq(Stake) /\ ToSet(SubSeq(chain, 1, n)) \subseteq ToSet(chain)
      BY <2>1, <3>3, PartElements
    <3>5. /\ SubSeq(chain, n + 1, Len(chain)) \in Seq(Stake)
          /\ ToSet(SubSeq(chain, n + 1, Len(chain))) \subseteq ToSet(chain)
      BY <2>1, <3>2, <3>3, PartElements
    <3>6. ToSet(chain) \subseteq Stake
      BY <2>1, ElementsType
    <3>7. index' = index
      BY <2>3 DEF ReorgChain
    <3> QED
      BY <2>1, <3>1, <3>4, <3>5, <3>6, <3>7
  <2>4. CASE IndexBlock
    <3>1. chain' = chain /\ mempool' = mempool
      BY <2>4 DEF IndexBlock
    <3>2. CASE IsPrefix(index, chain)
      <4>1. PICK n \in Len(index) + 1 .. Len(chain) : index' = SubSeq(chain, 1, n)
        BY <2>4, <3>2 DEF IndexBlock
      <4>2. Len(index) \in Nat /\ Len(chain) \in Nat
        BY <2>1, LenProperties
      <4>3. n \in Nat /\ n <= Len(chain) /\ 1 \in Nat \ {0}
        BY <4>2
      <4>4. /\ SubSeq(chain, 1, n) \in Seq(Stake)
            /\ ToSet(SubSeq(chain, 1, n)) \subseteq ToSet(chain)
        BY <2>1, <4>3, PartElements
      <4> QED
        BY <2>1, <3>1, <4>1, <4>4
    <3>3. CASE ~ IsPrefix(index, chain)
      <4>1. index' = LongestCommonPrefix({index, chain})
        BY <2>4, <3>3 DEF IndexBlock
      <4>2. /\ LongestCommonPrefix({index, chain}) \in Seq(Stake)
            /\ ToSet(LongestCommonPrefix({index, chain})) \subseteq ToSet(chain)
        BY <2>1, CommonPrefixElements
      <4> QED
        BY <2>1, <3>1, <4>1, <4>2
    <3> QED
      BY <3>2, <3>3
  <2> QED
    BY <2>2, <2>3, <2>4
<1>4. FormTypes' /\ OneAnswer'
  BY <1>1, <1>2, <1>3 DEF FormTypes, OneAnswer
<1>5. Known' \subseteq Known
  <2>1. \A s : s \in Known' <=>
          \/ s \in mempool' \/ s \in ToSet(chain') \/ s \in ToSet(index')
          \/ s \in ToSet(page.market) \/ s \in ToSet(page.positions)
          \/ \E m \in read.market : s \in ToSet(m)
          \/ \E p \in read.positions : s \in ToSet(p)
    BY <1>2 DEF Known
  <2> QED
    BY <2>1, <1>3, KnownCases
<1> QED
  BY <1>2, <1>4, <1>5, StepKeeps

\* The two requests.
LEMMA ReadKeeps ==
  ASSUME FormInv, ReadMarket \/ ReadPositions
  PROVE  FormInv'
<1>1. FormTypes /\ OneAnswer
  BY DEF FormInv
<1>2. UNCHANGED <<chain, mempool, nextId, index, detail, page, stage, tx>>
  BY DEF ReadMarket, ReadPositions, worldVars
<1>3. \/ read' = [read EXCEPT !.market = {index}]
      \/ read' = [read EXCEPT !.positions = {index}]
  BY DEF ReadMarket, ReadPositions
<1>4. /\ read' \in [market : SUBSET Seq(Stake), positions : SUBSET Seq(Stake)]
      /\ read'.market = {index} \/ read'.market = read.market
      /\ read'.positions = {index} \/ read'.positions = read.positions
  BY <1>1, <1>3 DEF FormTypes
<1>5. FormTypes' /\ OneAnswer'
  BY <1>1, <1>2, <1>4 DEF FormTypes, OneAnswer
<1>6. Known' \subseteq Known
  <2>1. \A s : s \in Known' <=>
          \/ s \in mempool \/ s \in ToSet(chain) \/ s \in ToSet(index)
          \/ s \in ToSet(page.market) \/ s \in ToSet(page.positions)
          \/ \E m \in read'.market : s \in ToSet(m)
          \/ \E p \in read'.positions : s \in ToSet(p)
    BY <1>2 DEF Known
  <2> QED
    BY <2>1, <1>4, KnownCases
<1> QED
  BY <1>2, <1>5, <1>6, StepKeeps

\* Steps of the page that end with no transaction active, or change nothing of
\* it but the attempts.
LEMMA PageKeeps ==
  ASSUME FormInv, UNCHANGED worldVars,
         read' = read \/ read' = NoRead,
         \/ page' = page
         \/ page' = EmptyPage
         \/ \E m \in read.market, p \in read.positions : page' = [market |-> m, positions |-> p],
         stage' \in Active =>
           /\ stage \in Active /\ UNCHANGED <<detail, page>>
           /\ tx' = tx \/ NextAttempt
  PROVE  FormInv'
<1>1. FormTypes /\ OneAnswer
  BY DEF FormInv
<1>2. UNCHANGED <<chain, mempool, nextId, index>>
  BY DEF worldVars
<1>3. /\ read' \in [market : SUBSET Seq(Stake), positions : SUBSET Seq(Stake)]
      /\ read'.market = {} \/ read'.market = read.market
      /\ read'.positions = {} \/ read'.positions = read.positions
  BY <1>1 DEF FormTypes, NoRead
<1>4. /\ page' \in [market : Seq(Stake), positions : Seq(Stake)]
      /\ ToSet(page'.market) \subseteq ToSet(page.market)
           \cup (UNION {ToSet(m) : m \in read.market})
      /\ ToSet(page'.positions) \subseteq ToSet(page.positions)
           \cup (UNION {ToSet(p) : p \in read.positions})
  <2>1. CASE page' = page
    BY <1>1, <2>1 DEF FormTypes
  <2>2. CASE page' = EmptyPage
    <3>1. page'.market = <<>> /\ page'.positions = <<>> /\ <<>> \in Seq(Stake)
      BY <2>2, EmptyElements DEF EmptyPage
    <3>2. ToSet(page'.market) = {} /\ ToSet(page'.positions) = {}
      BY <3>1, EmptyElements
    <3> QED
      BY <2>2, <3>1, <3>2 DEF EmptyPage
  <2>3. CASE \E m \in read.market, p \in read.positions :
               page' = [market |-> m, positions |-> p]
    <3>1. PICK m \in read.market, p \in read.positions :
                 page' = [market |-> m, positions |-> p]
      BY <2>3
    <3>2. m \in Seq(Stake) /\ p \in Seq(Stake)
      BY <1>1 DEF FormTypes
    <3> QED
      BY <3>1, <3>2
  <2> QED
    BY <2>1, <2>2, <2>3
<1>5. FormTypes' /\ OneAnswer'
  BY <1>1, <1>2, <1>3, <1>4 DEF FormTypes, OneAnswer
<1>6. Known' \subseteq Known
  <2>1. \A s : s \in Known' <=>
          \/ s \in mempool \/ s \in ToSet(chain) \/ s \in ToSet(index)
          \/ s \in ToSet(page'.market) \/ s \in ToSet(page'.positions)
          \/ \E m \in read'.market : s \in ToSet(m)
          \/ \E p \in read'.positions : s \in ToSet(p)
    BY <1>2 DEF Known
  <2> QED
    BY <2>1, <1>3, <1>4, KnownCases
<1> QED
  BY <1>2, <1>5, <1>6, StepKeeps

\* A transaction begins with the baseline of the page, and without a number.
LEMMA SubmitKeeps ==
  ASSUME FormInv, NEW account \in OwnAccounts, NEW outcome \in Outcome, NEW amount \in Amounts,
         Submit(account, outcome, amount)
  PROVE  FormInv'
<1>1. FormTypes /\ OneAnswer /\ Numbered
  BY DEF FormInv
<1>2. UNCHANGED <<chain, mempool, nextId, index, detail, page, read>> /\ detail = "ready"
  BY DEF Submit, worldVars
<1>3. Known' = Known
  BY <1>2 DEF Known
<1>4. FormTypes' /\ OneAnswer' /\ Numbered'
  BY <1>1, <1>2, <1>3 DEF FormTypes, OneAnswer, Numbered
<1>5. Baseline(account, outcome) \in [pool : Int, stake : Int]
  <2>1. page.market \in Seq(Stake) /\ page.positions \in Seq(Stake)
    BY <1>1 DEF FormTypes
  <2>2. PoolIn(page.market, outcome) \in Int /\ StakeIn(page.positions, account, outcome) \in Int
    BY <2>1, AnswerTypes
  <2> QED
    BY <2>2 DEF Baseline
<1>6. tx' = [id |-> 0, account |-> account, outcome |-> outcome, amount |-> amount,
             base |-> Baseline(account, outcome), attempt |-> 0]
  BY DEF Submit
<1>7. /\ tx' \in TxType /\ tx'.id = 0
      /\ tx'.base = Baseline(tx'.account, tx'.outcome)
  <2>1. account \in Account
    BY FormAssumption
  <2> HIDE DEF Baseline
  <2> QED
    BY <1>5, <1>6, <2>1 DEF TxType
<1>8. (tx.base = Baseline(tx.account, tx.outcome))'
  BY <1>2, <1>7 DEF Baseline
<1>9. /\ \A s \in Known : s.id # 0
      /\ 0 < nextId
  BY <1>1, KnownTypes DEF FormTypes
<1>10. (tx.id \notin Ids(page.market) /\ tx.id \notin Ids(page.positions))'
  BY <1>2, <1>7, <1>9, UnknownNotShown DEF Ids
<1>11. Attempted'
  BY <1>2, <1>3, <1>7, <1>8, <1>9, <1>10 DEF Attempted, TxType
<1> QED
  BY <1>4, <1>11 DEF FormInv

\* The wallet sends a stake of what was submitted, with a new number.
LEMMA BroadcastKeeps ==
  ASSUME FormInv, NEW signer \in OwnAccounts, Broadcast(signer)
  PROVE  FormInv'
<1> DEFINE s == [id |-> nextId, by |-> signer, outcome |-> tx.outcome, amount |-> tx.amount]
<1>1. FormTypes /\ OneAnswer /\ Numbered /\ Attempted
  BY DEF FormInv
<1>2. /\ UNCHANGED <<chain, index, detail, page, read, stage>> /\ stage \in Active
      /\ mempool' = mempool \cup {s} /\ nextId' = nextId + 1 /\ nextId \in 1 .. MaxStakes
      /\ tx' = [tx EXCEPT !.id = nextId]
  BY <1>1, FormAssumption DEF Broadcast, Active, FormTypes
<1>3. /\ detail = "ready" /\ tx \in TxType /\ tx.base = Baseline(tx.account, tx.outcome)
  BY <1>1, <1>2 DEF Attempted, TxType
<1>4. s \in Stake /\ s.id = nextId /\ s.outcome = tx.outcome /\ s.amount = tx.amount
  <2>1. signer \in Account
    BY FormAssumption
  <2> QED
    BY <1>2, <1>3, <2>1 DEF Stake, TxType
<1> HIDE DEF s
<1>5. FormTypes' /\ OneAnswer'
  BY <1>1, <1>2, <1>4 DEF FormTypes, OneAnswer
<1>6. Known' = Known \cup {s}
  BY <1>2 DEF Known
<1>7. /\ Numbered' /\ \A x \in Known : x.id # nextId
      /\ \A x \in Known' : x.id # nextId => x \in Known
  BY <1>2, <1>4, <1>5, <1>6, NewStakeKeeps
<1>8. /\ tx' \in TxType /\ tx'.id = nextId /\ tx'.account = tx.account
      /\ tx'.outcome = tx.outcome /\ tx'.amount = tx.amount /\ tx'.base = tx.base
  <2>1. nextId \in Nat
    BY <1>1 DEF FormTypes
  <2> QED
    BY <1>2, <1>3, <2>1 DEF TxType
<1>9. (tx.base = Baseline(tx.account, tx.outcome))'
  BY <1>2, <1>3, <1>8 DEF Baseline
<1>10. (tx.id \notin Ids(page.market) /\ tx.id \notin Ids(page.positions))'
  BY <1>2, <1>7, <1>8, UnknownNotShown DEF Ids
<1>11. nextId < nextId'
  BY <1>1, <1>2 DEF FormTypes
<1>12. \A x \in Known' : x.id = tx'.id => x.outcome = tx'.outcome /\ x.amount = tx'.amount
  BY <1>4, <1>6, <1>7, <1>8
<1>13. Attempted'
  BY <1>2, <1>3, <1>8, <1>9, <1>10, <1>11, <1>12 DEF Attempted, TxType
<1> QED
  BY <1>5, <1>7, <1>13 DEF FormInv

\* So does somebody else, with another number than the form's.
LEMMA OtherStakeKeeps ==
  ASSUME FormInv, NEW a \in Others, NEW outcome \in Outcome, NEW amount \in Amounts,
         OtherStake(a, outcome, amount)
  PROVE  FormInv'
<1> DEFINE s == [id |-> nextId, by |-> a, outcome |-> outcome, amount |-> amount]
<1>1. FormTypes /\ OneAnswer /\ Numbered /\ Attempted
  BY DEF FormInv
<1>2. /\ UNCHANGED <<chain, index, detail, page, read, stage, tx>>
      /\ mempool' = mempool \cup {s} /\ nextId' = nextId + 1 /\ nextId \in 1 .. MaxStakes
  BY <1>1, FormAssumption DEF OtherStake, FormTypes, pageVars
<1>3. s \in Stake /\ s.id = nextId
  <2>1. a \in Account
    BY FormAssumption
  <2> QED
    BY <1>2, <2>1 DEF Stake
<1> HIDE DEF s
<1>4. FormTypes' /\ OneAnswer'
  BY <1>1, <1>2, <1>3 DEF FormTypes, OneAnswer
<1>5. Known' = Known \cup {s}
  BY <1>2 DEF Known
<1>6. /\ Numbered' /\ \A x \in Known : x.id # nextId
      /\ \A x \in Known' : x.id # nextId => x \in Known
  BY <1>2, <1>3, <1>4, <1>5, NewStakeKeeps
<1>7. ASSUME stage' \in Active
      PROVE  /\ detail' = "ready" /\ tx' \in TxType
             /\ (tx.base = Baseline(tx.account, tx.outcome))'
             /\ tx'.id < nextId'
             /\ (tx.id \notin Ids(page.market) /\ tx.id \notin Ids(page.positions))'
             /\ \A x \in Known' : x.id = tx'.id => x.outcome = tx'.outcome /\ x.amount = tx'.amount
  <2>1. /\ detail = "ready" /\ tx \in TxType
        /\ tx.base = Baseline(tx.account, tx.outcome)
        /\ tx.id < nextId /\ tx.id \in Nat
        /\ tx.id \notin Ids(page.market) /\ tx.id \notin Ids(page.positions)
        /\ \A x \in Known : x.id = tx.id => x.outcome = tx.outcome /\ x.amount = tx.amount
    BY <1>1, <1>2, <1>7 DEF Attempted, TxType
  <2>2. (tx.base = Baseline(tx.account, tx.outcome))'
    BY <1>2, <2>1 DEF Baseline
  <2>3. (tx.id \notin Ids(page.market) /\ tx.id \notin Ids(page.positions))'
    BY <1>2, <2>1
  <2>4. tx.id # nextId /\ tx.id < nextId + 1 /\ nextId \in Nat
    BY <1>1, <2>1 DEF FormTypes
  <2> QED
    BY <1>2, <1>6, <2>1, <2>2, <2>3, <2>4
<1>8. Attempted'
  BY <1>7 DEF Attempted, TxType
<1> QED
  BY <1>4, <1>6, <1>8 DEF FormInv

\* The remaining steps, one by one.
LEMMA FormStep ==
  ASSUME FormInv, [Next]_vars
  PROVE  FormInv'
<1>1. CASE \E a \in OwnAccounts, o \in Outcome, v \in Amounts : Submit(a, o, v)
  BY <1>1, SubmitKeeps
<1>2. CASE \E a \in OwnAccounts : Broadcast(a)
  BY <1>2, BroadcastKeeps
<1>3. CASE \E a \in Others, o \in Outcome, v \in Amounts : OtherStake(a, o, v)
  BY <1>3, OtherStakeKeeps
<1>4. CASE MineStake \/ ReorgChain \/ IndexBlock
  BY <1>4, WorldKeeps
<1>5. CASE ReadMarket \/ ReadPositions
  BY <1>5, ReadKeeps
<1>6. CASE SubmitRefused
  <2>1. UNCHANGED <<worldVars, detail, page, read>> /\ stage' \notin Active
    BY <1>6 DEF SubmitRefused, Active
  <2> QED
    BY <2>1, PageKeeps
<1>7. CASE HashReturned \/ Rendered \/ Receipt
  <2>1. UNCHANGED <<worldVars, detail, page, read, tx>> /\ stage \in Active
    BY <1>7 DEF HashReturned, Rendered, Receipt, Active
  <2> QED
    BY <2>1, PageKeeps
<1>8. CASE TransactionFails \/ PollGivesUp
  <2>1. UNCHANGED <<worldVars, detail, page, read>> /\ stage' \notin Active
    BY <1>8 DEF TransactionFails, PollGivesUp, Finish, Active
  <2> QED
    BY <2>1, PageKeeps
<1>9. CASE DetailLoaded \/ DetailFailed
  <2>1. /\ UNCHANGED <<worldVars, stage, tx>> /\ read' = NoRead /\ detail # "ready"
        /\ \/ page' = page
           \/ \E m \in read.market, p \in read.positions :
                page' = [market |-> m, positions |-> p]
    BY <1>9 DEF DetailLoaded, DetailFailed
  <2>2. stage \notin Active
    BY <2>1 DEF FormInv, Attempted
  <2> QED
    BY <2>1, <2>2, PageKeeps
<1>10. CASE PollSees
  <2>1. /\ UNCHANGED worldVars /\ read' = NoRead /\ stage' \notin Active
        /\ \E m \in read.market, p \in read.positions : page' = [market |-> m, positions |-> p]
    BY <1>10 DEF PollSees, Finish, Active
  <2> QED
    BY <2>1, PageKeeps
<1>11. CASE PollMisses \/ PollFails
  <2>1. /\ UNCHANGED <<worldVars, detail, page, stage>> /\ read' = NoRead /\ NextAttempt
        /\ stage \in Active
    BY <1>11 DEF PollMisses, PollFails, Active
  <2> QED
    BY <2>1, PageKeeps
<1>12. CASE Select \/ ReloadTab
  <2>1. /\ UNCHANGED worldVars /\ stage' \notin Active
        /\ read' = read \/ read' = NoRead
        /\ page' = page \/ page' = EmptyPage
    BY <1>12 DEF Select, ReloadTab, Active
  <2> QED
    BY <2>1, PageKeeps
<1>13. CASE UNCHANGED vars
  <2>1. UNCHANGED <<worldVars, detail, page, read, stage, tx>>
    BY <1>13 DEF vars, pageVars
  <2> QED
    BY <2>1, PageKeeps
<1> QED
  BY <1>1, <1>2, <1>3, <1>4, <1>5, <1>6, <1>7, <1>8, <1>9, <1>10, <1>11, <1>12, <1>13
  DEF Next, Transaction, User, World

\* The invariant holds throughout.
LEMMA FormAlways == Spec => []FormInv
<1>1. FormInv /\ [Next]_vars => FormInv'
  BY FormStep
<1> QED
  BY <1>1, FormInit, PTL DEF Spec

\* "Indexed" is said only by an iteration that sees the position.
LEMMA OnlyPollSees ==
  ASSUME [Next]_vars, stage' = "indexed", stage # "indexed"
  PROVE  PollSees
  BY DEF Next, Transaction, User, World, vars, pageVars, Submit, SubmitRefused, Broadcast,
     HashReturned, Rendered, Receipt, TransactionFails, ReadMarket, ReadPositions,
     DetailLoaded, DetailFailed, PollMisses, PollFails, PollGivesUp, Finish,
     Select, ReloadTab, OtherStake, MineStake, ReorgChain, IndexBlock

\* When the amounts of an account grow, one of its stakes is new: the positions
\* read have the transaction, unless they have another that the page did not.
LEMMA SeenIsShown ==
  ASSUME FormInv, PollSees, OtherOwnStakes \subseteq ToSet(page.positions)
  PROVE  tx.id \in Ids(page'.positions)
<1>1. PICK m \in read.market, p \in read.positions :
        /\ IncludesPosition(m, p)
        /\ page' = [market |-> m, positions |-> p]
  BY DEF PollSees
<1>2. stage \in Active
  BY DEF PollSees, Active
<1>3. /\ p \in Seq(Stake) /\ page.positions \in Seq(Stake)
      /\ tx \in TxType /\ tx.base = Baseline(tx.account, tx.outcome)
  BY <1>2 DEF FormInv, FormTypes, Attempted, TxType
<1>4. SUFFICES ASSUME tx.id \notin Ids(p) PROVE FALSE
  BY <1>1
<1>5. \A s \in ToSet(p) : s.by = tx.account /\ s.outcome = tx.outcome
                            => s \in ToSet(page.positions)
  <2>1. ASSUME NEW s \in ToSet(p), s.by = tx.account, s.outcome = tx.outcome
        PROVE  s \in ToSet(page.positions)
    <3>1. s.id # tx.id
      BY <1>4 DEF Ids
    <3>2. s \in OtherOwnStakes
      BY <2>1, <3>1 DEF OtherOwnStakes
    <3> QED
      BY <3>2
  <2> QED
    BY <2>1
<1>6. StakeIn(p, tx.account, tx.outcome) <= tx.base.stake
  <2>1. StakeIn(p, tx.account, tx.outcome) <= StakeIn(page.positions, tx.account, tx.outcome)
    BY <1>3, <1>5, StakeMonotone
  <2> QED
    BY <1>3, <2>1 DEF Baseline
<1>7. StakeIn(p, tx.account, tx.outcome) >= tx.base.stake + tx.amount
  BY <1>1 DEF IncludesPosition
<1>8. /\ StakeIn(p, tx.account, tx.outcome) \in Int /\ tx.base.stake \in Int
      /\ tx.amount \in Nat /\ tx.amount # 0
  <2>1. tx.amount \in Amounts /\ tx.base.stake \in Int
    BY <1>3 DEF TxType
  <2> QED
    BY <1>3, <2>1, AnswerTypes, FormAssumption
<1> QED
  BY <1>6, <1>7, <1>8

\* When both reads have what the page had and the transaction, the amounts of
\* both have grown by its amount.
LEMMA ShownIsSeen ==
  ASSUME FormInv, stage \in Active, NEW m \in read.market, NEW p \in read.positions,
         IsPrefix(page.market, m), IsPrefix(page.positions, p), tx.id \in Ids(m),
         NEW s \in ToSet(p), s.id = tx.id, s.by = tx.account
  PROVE  IncludesPosition(m, p)
<1>1. /\ m \in Seq(Stake) /\ p \in Seq(Stake)
      /\ page.market \in Seq(Stake) /\ page.positions \in Seq(Stake)
      /\ tx \in TxType /\ tx.base = Baseline(tx.account, tx.outcome)
      /\ tx.id \notin Ids(page.market) /\ tx.id \notin Ids(page.positions)
      /\ \A x \in Known : x.id = tx.id => x.outcome = tx.outcome /\ x.amount = tx.amount
  BY DEF FormInv, FormTypes, Attempted, TxType
<1>2. PICK r \in ToSet(m) : r.id = tx.id
  BY DEF Ids
<1>3. r \in Known /\ s \in Known
  BY KnownCases
<1>4. /\ r.outcome = tx.outcome /\ r.amount = tx.amount
      /\ s.outcome = tx.outcome /\ s.amount = tx.amount
  BY <1>1, <1>2, <1>3
<1>5. r \notin ToSet(page.market) /\ s \notin ToSet(page.positions)
  BY <1>1, <1>2 DEF Ids
<1>6. ToSet(page.market) \subseteq ToSet(m) /\ ToSet(page.positions) \subseteq ToSet(p)
  BY <1>1, PrefixElements
<1>7. PoolIn(m, r.outcome) >= PoolIn(page.market, r.outcome) + r.amount
  BY <1>1, <1>2, <1>5, <1>6, AnswersGrow
<1>8. StakeIn(p, s.by, s.outcome) >= StakeIn(page.positions, s.by, s.outcome) + s.amount
  BY <1>1, <1>5, <1>6, AnswersGrow
<1>9. /\ tx.base.pool = PoolIn(page.market, tx.outcome)
      /\ tx.base.stake = StakeIn(page.positions, tx.account, tx.outcome)
  BY <1>1 DEF Baseline
<1> QED
  BY <1>4, <1>7, <1>8, <1>9 DEF IncludesPosition

----------------------------------------------------------------------------
\* "Indexed" is never said of a position that the positions read do not have,
\* when the page showed all the other stakes of the account: for any number of
\* accounts, stakes, reorganizations and attempts.
THEOREM Indexed == Spec => IndexedIsShown
<1>1. ASSUME FormInv, [Next]_vars
      PROVE  [stage' = "indexed" /\ stage # "indexed"
                /\ OtherOwnStakes \subseteq ToSet(page.positions)
                  => tx.id \in Ids(page'.positions)]_vars
  BY <1>1, OnlyPollSees, SeenIsShown
<1> QED
  BY <1>1, FormAlways, PTL DEF Spec, IndexedIsShown

\* An attempt whose two reads show the transaction, and all that the page had
\* shown, does not miss it.
THEOREM Shown == Spec => ShownIsIndexed
<1>1. ASSUME FormInv, [Next]_vars
      PROVE  [PollMisses =>
                \A m \in read.market, p \in read.positions :
                  ~ /\ IsPrefix(page.market, m) /\ IsPrefix(page.positions, p)
                    /\ tx.id \in Ids(m)
                    /\ \E s \in ToSet(p) : s.id = tx.id /\ s.by = tx.account]_vars
  <2>1. SUFFICES ASSUME PollMisses, NEW m \in read.market, NEW p \in read.positions,
                        IsPrefix(page.market, m), IsPrefix(page.positions, p),
                        tx.id \in Ids(m),
                        \E s \in ToSet(p) : s.id = tx.id /\ s.by = tx.account
                 PROVE  FALSE
    OBVIOUS
  <2>2. ~ IncludesPosition(m, p)
    BY <1>1, <2>1 DEF PollMisses, FormInv, OneAnswer
  <2>3. stage \in Active
    BY <2>1 DEF PollMisses, Active
  <2> QED
    BY <1>1, <2>1, <2>2, <2>3, ShownIsSeen
<1> QED
  BY <1>1, FormAlways, PTL DEF Spec, ShownIsIndexed
=============================================================================
