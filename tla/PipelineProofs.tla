--------------------------- MODULE PipelineProofs ---------------------------
(***************************************************************************)
(* Theorems about the way from the contract to the API, for any accounts,  *)
(* deadlines, amounts and bounds: what the API answers is what the         *)
(* contract holds at the last block indexed, the store accepts what the    *)
(* contract emits, the index moves as the abstract index does, and a walk  *)
(* through the list misses nothing.                                        *)
(***************************************************************************)
EXTENDS PipelineProperties, SumTheorems, SequenceTheorems, FunctionTheorems

Index ==
  INSTANCE StoreTheorems WITH
    Block <- {}, Number <- Height, AncestorAt <- Prefix, MaxReorgDepth <- MaxBlocks,
    MaxShrink <- MaxBlocks, MaxLag <- 0, DeploymentBlock <- 1, LegacyHeads <- {}

----------------------------------------------------------------------------
\* Histories

\* A sequence, of whatever elements.
IsSeq(s) == \E S : s \in Seq(S)

MarketsOf(c) == c.storage[1]
PositionsOf(c) == c.storage[2]
NextIdOf(c) == c.storage[3]

MarketSlot ==
  [resolver : Resolvers \cup {Nobody}, deadline : Nat, status : {"Open"},
   winningOutcome : {"Unset"}, yesPool : Nat, noPool : Nat,
   claimedWinningStake : {0}, claimedAmount : {0}]
PositionSlot == [yesStake : Nat, noStake : Nat, claimed : {FALSE}]

\* What a body commits to: markets are numbered in order of creation, and
\* nothing was staked on a number that is still free.
BodyOK(c) ==
  /\ MarketsOf(c) \in [Contract!Market -> MarketSlot]
  /\ PositionsOf(c) \in [Contract!Market -> [Account -> PositionSlot]]
  /\ NextIdOf(c) \in 1 .. MaxMarkets + 1
  /\ c.nonce \in [Account -> Nat]
  /\ IsSeq(c.logs)
  /\ \A m \in Contract!Market :
       /\ MarketsOf(c)[m].resolver = Nobody <=> m >= NextIdOf(c)
       /\ m >= NextIdOf(c) => MarketsOf(c)[m].yesPool = 0 /\ MarketsOf(c)[m].noPool = 0

CreatedAt(c) == {i \in DOMAIN c.logs : c.logs[i].topic = "MarketCreated"}
TakenAt(c) == {i \in DOMAIN c.logs : c.logs[i].topic = "PositionTaken"}
MarketAt(c, m) == {i \in TakenAt(c) : c.logs[i].data.marketId = m}
SideAt(c, m, a, o) ==
  {i \in MarketAt(c, m) : c.logs[i].data.user = a /\ c.logs[i].data.outcome = o}

LastIn(I, i) == i \in I /\ \A j \in I : j <= i

StakeOf(c, m, a, o) ==
  IF o = "Yes" THEN PositionsOf(c)[m][a].yesStake ELSE PositionsOf(c)[m][a].noStake

\* The logs of body c account for what it changes in the storage of p: the
\* markets created, ...
CreationsFollow(p, c) ==
  /\ NextIdOf(p) <= NextIdOf(c)
  /\ \A m \in Contract!Market : m < NextIdOf(p) =>
       /\ MarketsOf(c)[m].resolver = MarketsOf(p)[m].resolver
       /\ MarketsOf(c)[m].deadline = MarketsOf(p)[m].deadline
  /\ \A i \in CreatedAt(c) :
       LET d == c.logs[i].data
       IN  /\ d.marketId \in NextIdOf(p) .. NextIdOf(c) - 1
           /\ d.resolver = MarketsOf(c)[d.marketId].resolver
           /\ d.deadline = MarketsOf(c)[d.marketId].deadline
  /\ \A i, j \in CreatedAt(c) : c.logs[i].data.marketId = c.logs[j].data.marketId => i = j
  /\ \A m \in NextIdOf(p) .. NextIdOf(c) - 1 :
       \E i \in CreatedAt(c) : c.logs[i].data.marketId = m

\* ... the stakes taken, each in a market created before, ...
TakingsFollow(p, c) ==
  \A i \in TakenAt(c) :
    LET d == c.logs[i].data
    IN  /\ d.marketId \in 1 .. NextIdOf(c) - 1 /\ d.user \in Account
        /\ d.outcome \in {"Yes", "No"} /\ d.userOutcomeStake \in Nat \ {0}
        /\ \/ d.marketId < NextIdOf(p)
           \/ \E j \in CreatedAt(c) : j < i /\ c.logs[j].data.marketId = d.marketId

\* ... the pools and the stakes, which the last log about each names, ...
PoolsFollow(p, c) ==
  \A m \in Contract!Market :
    /\ MarketAt(c, m) = {} =>
         /\ MarketsOf(c)[m].yesPool = MarketsOf(p)[m].yesPool
         /\ MarketsOf(c)[m].noPool = MarketsOf(p)[m].noPool
    /\ \A i \in MarketAt(c, m) : LastIn(MarketAt(c, m), i) =>
         /\ MarketsOf(c)[m].yesPool = c.logs[i].data.yesPool
         /\ MarketsOf(c)[m].noPool = c.logs[i].data.noPool
StakesFollow(p, c) ==
  \A m \in Contract!Market, a \in Account, o \in {"Yes", "No"} :
    /\ SideAt(c, m, a, o) = {} => StakeOf(c, m, a, o) = StakeOf(p, m, a, o)
    /\ \A i \in SideAt(c, m, a, o) : LastIn(SideAt(c, m, a, o), i) =>
         StakeOf(c, m, a, o) = c.logs[i].data.userOutcomeStake

\* ... and the nonces used up.
NoncesFollow(p, c) ==
  /\ \A a \in Account : p.nonce[a] <= c.nonce[a]
  /\ \A i \in DOMAIN c.logs :
       LET tx == c.logs[i].tx
       IN  /\ tx.from \in Account /\ tx.nonce \in Nat
           /\ p.nonce[tx.from] <= tx.nonce /\ tx.nonce < c.nonce[tx.from]

Continues(p, c) ==
  /\ CreationsFollow(p, c) /\ TakingsFollow(p, c)
  /\ PoolsFollow(p, c) /\ StakesFollow(p, c) /\ NoncesFollow(p, c)

\* Before the contract is deployed.
Blank ==
  [logs |-> <<>>,
   storage |-> <<[m \in Contract!Market |-> Contract!NoMarket],
                 [m \in Contract!Market |-> [a \in Account |-> Contract!NoPosition]], 1>>,
   nonce |-> [a \in Account |-> 0]]

At(h, n) == IF n = 0 THEN Blank ELSE h[n]

WellFormed(h) ==
  /\ IsSeq(h)
  /\ \A n \in 1 .. Len(h) : BodyOK(h[n]) /\ Continues(At(h, n - 1), h[n])

\* The rows that the blocks of a history leave in the archive, up to height n.
RowsUpTo(h, n) ==
  UNION {Store!EventRows(Prefix(h, k), LogsOf(Prefix(h, k))) : k \in 1 .. n}

\* The rows E tell the storage of c.
OrderTold(E) ==
  /\ IsFiniteSet(E) /\ Index!Chronicle(E)
  /\ \A e \in E : e.log.kind \in {"created", "position"}
NoncesTold(E, c) ==
  \A e \in E : /\ e.log.tx.from \in Account /\ e.log.tx.nonce \in Nat
               /\ e.log.tx.nonce < c.nonce[e.log.tx.from]
CreationsTold(E, c) ==
  /\ \A e \in E : e.log.kind = "created" =>
       LET m == e.log.market
       IN  /\ m \in 1 .. NextIdOf(c) - 1
           /\ e.log.terms.resolver = MarketsOf(c)[m].resolver
           /\ e.log.terms.deadline = MarketsOf(c)[m].deadline
  /\ \A e, f \in E : /\ e.log.kind = "created" /\ f.log.kind = "created"
                     /\ e.log.market = f.log.market
                    => e = f
  /\ \A m \in 1 .. NextIdOf(c) - 1 :
       \E e \in E : e.log.kind = "created" /\ e.log.market = m
TakingsTold(E, c) ==
  \A e \in E : e.log.kind = "position" =>
    /\ e.log.market \in 1 .. NextIdOf(c) - 1 /\ e.log.user \in Account
    /\ e.log.outcome \in {"yes", "no"} /\ e.log.stake \in Nat \ {0}
PoolsTold(E, c) ==
  \A m \in Contract!Market :
    LET S == Index!OfMarket(E, m)
    IN  /\ S = {} => MarketsOf(c)[m].yesPool = 0 /\ MarketsOf(c)[m].noPool = 0
        /\ S # {} => /\ MarketsOf(c)[m].yesPool = Index!LatestOf(S).log.yesPool
                     /\ MarketsOf(c)[m].noPool = Index!LatestOf(S).log.noPool
StakesTold(E, c) ==
  \A m \in Contract!Market, a \in Account, o \in {"Yes", "No"} :
    StakeOf(c, m, a, o) = Index!StakeIn(E, <<m, a>>, BinaryOutcome(o))

Told(E, c) ==
  /\ OrderTold(E) /\ NoncesTold(E, c) /\ CreationsTold(E, c)
  /\ TakingsTold(E, c) /\ PoolsTold(E, c) /\ StakesTold(E, c)

----------------------------------------------------------------------------
\* The invariant

ChainInv ==
  /\ Len(head) >= 1 /\ WellFormed(head)
  /\ BodyOK(Body) /\ Continues(At(head, Len(head)), Body)

IndexInv ==
  /\ WellFormed(checkpoint)
  /\ blocks = {Prefix(checkpoint, n) : n \in 1 .. Len(checkpoint)}
  /\ events = RowsUpTo(checkpoint, Len(checkpoint))
  /\ Index!Says(Store!Tables, events)

\* What the client has yet to meet is beyond its offset.
WalkInv ==
  /\ walk = [at |-> walk.at, offset |-> walk.offset, missing |-> walk.missing]
  /\ walk.offset \in Nat
  /\ walk.at = "end" => walk.missing = {}
  /\ \A m \in walk.missing :
       /\ m \in Listed
       /\ Cardinality({k \in Listed : k > m}) >= walk.offset

----------------------------------------------------------------------------
\* The two instances of the store are one

\* The transactions build the same tables.
LEMMA SameStore ==
  /\ \A b, logs : Store!Projected(b, logs) = Index!Projected(b, logs)
  /\ \A a : Store!Replayed(a) = Index!Replayed(a)
  BY DEF Store!Projected, Index!Projected, Store!Replayed, Index!Replayed,
     Store!RetainedEvents, Index!RetainedEvents, Store!Tables, Index!Tables,
     Store!EventRows, Index!EventRows,
     Store!ApplyInOrder, Index!ApplyInOrder, Store!MapThenFoldSet, Index!MapThenFoldSet,
     Store!LatestOf, Index!LatestOf,
     Store!ApplyEvent, Index!ApplyEvent, Store!InsertMarket, Index!InsertMarket,
     Store!ApplyPosition, Index!ApplyPosition, Store!PositionRow, Index!PositionRow,
     Store!MarketRow, Index!MarketRow, Store!Precedes, Index!Precedes

\* The assumptions of the store's modules, which know no block here, hold.
LEMMA StoreAssumptions ==
  /\ Index!AncestryAssumption /\ Index!LogAssumption /\ Index!NoBlockAssumption
  /\ Index!DepthAssumption /\ Index!DeploymentAssumption /\ Index!CreationAssumption
  BY PipelineAssumption
  DEF Index!AncestryAssumption, Index!LogAssumption, Index!NoBlockAssumption,
      Index!DepthAssumption, Index!DeploymentAssumption, Index!CreationAssumption

\* Finite sets are the same for both.
LEMMA SameFinite == \A S : Index!IsFiniteSet(S) <=> IsFiniteSet(S)
  BY DEF Index!IsFiniteSet, IsFiniteSet

\* The last of a finite chronicle.
LEMMA LatestRow ==
  ASSUME NEW S, IsFiniteSet(S), Index!Chronicle(S), S # {}
  PROVE  /\ Index!LatestOf(S) \in S
         /\ \A f \in S \ {Index!LatestOf(S)} : Index!Earlier(f, Index!LatestOf(S))
  BY StoreAssumptions, SameFinite, Index!LatestExists

----------------------------------------------------------------------------
\* Sequences

\* The length and the indices of a sequence.
LEMMA SeqFacts ==
  ASSUME NEW s, IsSeq(s)
  PROVE  Len(s) \in Nat /\ DOMAIN s = 1 .. Len(s)
<1>1. PICK S : s \in Seq(S)
  BY DEF IsSeq
<1> QED
  BY <1>1, LenProperties

\* The first n elements of a sequence.
LEMMA PrefixFacts ==
  ASSUME NEW h, IsSeq(h), NEW n \in 0 .. Len(h)
  PROVE  /\ IsSeq(Prefix(h, n)) /\ Len(Prefix(h, n)) = n
         /\ \A i \in 1 .. n : Prefix(h, n)[i] = h[i]
<1>1. PICK S : h \in Seq(S)
  BY DEF IsSeq
<1>2. /\ Len(h) \in Nat /\ n \in Int /\ 1 \in Int
      /\ \A i \in 1 .. n : h[i] \in S
  BY <1>1, LenProperties, ElementOfSeq
<1>3. /\ SubSeq(h, 1, n) \in Seq(S)
      /\ Len(SubSeq(h, 1, n)) = IF 1 <= n THEN n - 1 + 1 ELSE 0
      /\ \A i \in 1 .. n - 1 + 1 : SubSeq(h, 1, n)[i] = h[1 + i - 1]
  BY <1>2, SubSeqProperties
<1>4. n - 1 + 1 = n /\ \A i \in 1 .. n : 1 + i - 1 = i
  BY <1>2
<1>5. Len(SubSeq(h, 1, n)) = n
  BY <1>2, <1>3, <1>4
<1>6. \A i \in 1 .. n : SubSeq(h, 1, n)[i] = h[i]
  <2> SUFFICES ASSUME NEW i \in 1 .. n
      PROVE  SubSeq(h, 1, n)[i] = h[i]
    OBVIOUS
  <2>1. i \in 1 .. n - 1 + 1 /\ 1 + i - 1 = i
    BY <1>4
  <2> QED
    BY <1>3, <2>1
<1> QED
  BY <1>3, <1>5, <1>6 DEF Prefix, IsSeq

\* Two sequences with the same elements are the same.
LEMMA SameSeq ==
  ASSUME NEW s, IsSeq(s), NEW t, IsSeq(t), Len(s) = Len(t),
         \A i \in 1 .. Len(s) : s[i] = t[i]
  PROVE  s = t
<1>1. PICK S : s \in Seq(S)
  BY DEF IsSeq
<1>2. PICK T : t \in Seq(T)
  BY DEF IsSeq
<1>3. s \in [1 .. Len(s) -> S] /\ t \in [1 .. Len(t) -> T]
  BY <1>1, <1>2, LenProperties
<1> QED
  BY <1>3

\* A shorter part of a part.
LEMMA PrefixOfPrefix ==
  ASSUME NEW h, IsSeq(h), NEW n \in 0 .. Len(h), NEW k \in 0 .. n
  PROVE  Prefix(Prefix(h, n), k) = Prefix(h, k)
<1>1. Len(h) \in Nat /\ k \in 0 .. Len(h)
  BY SeqFacts
<1>2. /\ IsSeq(Prefix(h, n)) /\ Len(Prefix(h, n)) = n
      /\ \A i \in 1 .. n : Prefix(h, n)[i] = h[i]
  BY PrefixFacts
<1>3. /\ IsSeq(Prefix(h, k)) /\ Len(Prefix(h, k)) = k
      /\ \A i \in 1 .. k : Prefix(h, k)[i] = h[i]
  BY <1>1, PrefixFacts
<1>4. /\ IsSeq(Prefix(Prefix(h, n), k)) /\ Len(Prefix(Prefix(h, n), k)) = k
      /\ \A i \in 1 .. k : Prefix(Prefix(h, n), k)[i] = Prefix(h, n)[i]
  BY <1>2, PrefixFacts
<1> QED
  BY <1>1, <1>2, <1>3, <1>4, SameSeq

\* The longest part is the sequence itself.
LEMMA PrefixWhole ==
  ASSUME NEW h, IsSeq(h)
  PROVE  Prefix(h, Len(h)) = h
<1>1. Len(h) \in Nat /\ Len(h) \in 0 .. Len(h)
  BY SeqFacts
<1>2. /\ IsSeq(Prefix(h, Len(h))) /\ Len(Prefix(h, Len(h))) = Len(h)
      /\ \A i \in 1 .. Len(h) : Prefix(h, Len(h))[i] = h[i]
  BY <1>1, PrefixFacts
<1> QED
  BY <1>2, SameSeq

\* One element more.
LEMMA AppendFacts ==
  ASSUME NEW s, IsSeq(s), NEW x
  PROVE  /\ IsSeq(Append(s, x)) /\ Len(Append(s, x)) = Len(s) + 1
         /\ \A i \in 1 .. Len(s) : Append(s, x)[i] = s[i]
         /\ Append(s, x)[Len(s) + 1] = x
<1>1. PICK S : s \in Seq(S)
  BY DEF IsSeq
<1>2. s \in Seq(S \cup {x}) /\ x \in S \cup {x}
  BY <1>1, SeqMonotonic
<1> HIDE <1>1
<1>3. /\ Append(s, x) \in Seq(S \cup {x}) /\ Len(Append(s, x)) = Len(s) + 1
      /\ \A i \in 1 .. Len(s) : Append(s, x)[i] = s[i]
      /\ Append(s, x)[Len(s) + 1] = x
  BY <1>2, AppendProperties
<1> QED
  BY <1>3 DEF IsSeq

\* Histories of well-formed bodies, and their parts.
LEMMA PrefixWellFormed ==
  ASSUME NEW h, WellFormed(h), NEW n \in 0 .. Len(h)
  PROVE  /\ WellFormed(Prefix(h, n)) /\ Len(Prefix(h, n)) = n
         /\ \A k \in 0 .. n : At(Prefix(h, n), k) = At(h, k)
<1>1. IsSeq(h) /\ Len(h) \in Nat
  BY SeqFacts DEF WellFormed
<1>2. /\ IsSeq(Prefix(h, n)) /\ Len(Prefix(h, n)) = n
      /\ \A i \in 1 .. n : Prefix(h, n)[i] = h[i]
  BY <1>1, PrefixFacts
<1>3. \A k \in 0 .. n : At(Prefix(h, n), k) = At(h, k)
  BY <1>1, <1>2 DEF At
<1>4. ASSUME NEW k \in 1 .. n
      PROVE  BodyOK(Prefix(h, n)[k]) /\ Continues(At(Prefix(h, n), k - 1), Prefix(h, n)[k])
  <2>1. k \in 1 .. Len(h) /\ k - 1 \in 0 .. n
    BY <1>1
  <2> QED
    BY <1>2, <1>3, <2>1 DEF WellFormed
<1> QED
  BY <1>2, <1>3, <1>4 DEF WellFormed

\* A history goes on with a body that continues its last one.
LEMMA AppendWellFormed ==
  ASSUME NEW h, WellFormed(h), NEW c, BodyOK(c), Continues(At(h, Len(h)), c)
  PROVE  /\ WellFormed(Append(h, c)) /\ Len(Append(h, c)) = Len(h) + 1
         /\ At(Append(h, c), Len(h) + 1) = c
<1>1. IsSeq(h) /\ Len(h) \in Nat
  BY SeqFacts DEF WellFormed
<1>2. /\ IsSeq(Append(h, c)) /\ Len(Append(h, c)) = Len(h) + 1
      /\ \A i \in 1 .. Len(h) : Append(h, c)[i] = h[i]
      /\ Append(h, c)[Len(h) + 1] = c
  BY <1>1, AppendFacts
<1>3. /\ \A k \in 0 .. Len(h) : At(Append(h, c), k) = At(h, k)
      /\ At(Append(h, c), Len(h) + 1) = c
  BY <1>1, <1>2 DEF At
<1>4. ASSUME NEW k \in 1 .. Len(h) + 1
      PROVE  BodyOK(Append(h, c)[k]) /\ Continues(At(Append(h, c), k - 1), Append(h, c)[k])
  <2>1. CASE k = Len(h) + 1
    <3>1. k - 1 = Len(h) /\ Len(h) \in 0 .. Len(h)
      BY <1>1, <2>1
    <3> QED
      BY <1>2, <1>3, <2>1, <3>1
  <2>2. CASE k # Len(h) + 1
    <3>1. k \in 1 .. Len(h) /\ k - 1 \in 0 .. Len(h)
      BY <1>1, <2>2
    <3> QED
      BY <1>2, <1>3, <3>1 DEF WellFormed
  <2> QED
    BY <2>1, <2>2
<1> QED
  BY <1>2, <1>3, <1>4 DEF WellFormed

----------------------------------------------------------------------------
\* The rows of a block

CreatedRow(b, c, i) == [block |-> b, log |-> DecodeMarketCreated(c.logs[i], i)]
TakenRow(b, c, i) == [block |-> b, log |-> DecodePositionTaken(c.logs[i], i)]
RowsOf(b, c) ==
  {CreatedRow(b, c, i) : i \in CreatedAt(c)} \cup {TakenRow(b, c, i) : i \in TakenAt(c)}
TakenRows(b, c, I) == {TakenRow(b, c, i) : i \in I}

\* What a row says, by the log it is of.
LEMMA RowSays ==
  ASSUME NEW b, NEW c, NEW i
  PROVE  /\ CreatedRow(b, c, i).block = b /\ TakenRow(b, c, i).block = b
         /\ CreatedRow(b, c, i).log.ix = i /\ TakenRow(b, c, i).log.ix = i
         /\ CreatedRow(b, c, i).log.tx = c.logs[i].tx
         /\ TakenRow(b, c, i).log.tx = c.logs[i].tx
         /\ CreatedRow(b, c, i).log.kind = "created"
         /\ TakenRow(b, c, i).log.kind = "position"
         /\ CreatedRow(b, c, i).log.market = c.logs[i].data.marketId
         /\ TakenRow(b, c, i).log.market = c.logs[i].data.marketId
         /\ CreatedRow(b, c, i).log.terms.resolver = c.logs[i].data.resolver
         /\ CreatedRow(b, c, i).log.terms.deadline = c.logs[i].data.deadline
         /\ TakenRow(b, c, i).log.user = c.logs[i].data.user
         /\ TakenRow(b, c, i).log.outcome = BinaryOutcome(c.logs[i].data.outcome)
         /\ TakenRow(b, c, i).log.yesPool = c.logs[i].data.yesPool
         /\ TakenRow(b, c, i).log.noPool = c.logs[i].data.noPool
         /\ TakenRow(b, c, i).log.stake = c.logs[i].data.userOutcomeStake
  BY DEF CreatedRow, TakenRow, DecodeMarketCreated, DecodePositionTaken

\* A row is of one of the logs.
LEMMA RowIsOf ==
  ASSUME NEW b, NEW c, NEW e \in RowsOf(b, c)
  PROVE  /\ e.block = b /\ e.log.ix \in DOMAIN c.logs
         /\ \/ e.log.ix \in CreatedAt(c) /\ e = CreatedRow(b, c, e.log.ix)
            \/ e.log.ix \in TakenAt(c) /\ e = TakenRow(b, c, e.log.ix)
<1>1. CASE \E i \in CreatedAt(c) : e = CreatedRow(b, c, i)
  BY <1>1, RowSays DEF CreatedAt
<1>2. CASE \E i \in TakenAt(c) : e = TakenRow(b, c, i)
  BY <1>2, RowSays DEF TakenAt
<1> QED
  BY <1>1, <1>2 DEF RowsOf

\* No log is of both events, so that there is one row for an index.
LEMMA OneRow ==
  ASSUME NEW b, NEW c, NEW e \in RowsOf(b, c), NEW f \in RowsOf(b, c),
         e.log.ix = f.log.ix
  PROVE  e = f
<1>1. CreatedAt(c) \cap TakenAt(c) = {}
  BY DEF CreatedAt, TakenAt
<1>2. \/ e.log.ix \in CreatedAt(c) /\ e = CreatedRow(b, c, e.log.ix)
      \/ e.log.ix \in TakenAt(c) /\ e = TakenRow(b, c, e.log.ix)
  BY RowIsOf
<1>3. \/ e.log.ix \in CreatedAt(c) /\ f = CreatedRow(b, c, e.log.ix)
      \/ e.log.ix \in TakenAt(c) /\ f = TakenRow(b, c, e.log.ix)
  BY RowIsOf
<1> QED
  BY <1>1, <1>2, <1>3

\* A block has finitely many.
LEMMA RowsFinite ==
  ASSUME NEW b, NEW c, IsSeq(c.logs)
  PROVE  IsFiniteSet(RowsOf(b, c))
<1> DEFINE I == CreatedAt(c)
           J == TakenAt(c)
           C == {CreatedRow(b, c, i) : i \in I}
           T == {TakenRow(b, c, i) : i \in J}
           f == [i \in I |-> CreatedRow(b, c, i)]
           g == [i \in J |-> TakenRow(b, c, i)]
<1>1. IsFiniteSet(I) /\ IsFiniteSet(J)
  <2>1. DOMAIN c.logs = 1 .. Len(c.logs) /\ Len(c.logs) \in Nat
    BY SeqFacts
  <2>2. IsFiniteSet(DOMAIN c.logs)
    BY <2>1, FS_Interval
  <2>3. I \in SUBSET DOMAIN c.logs /\ J \in SUBSET DOMAIN c.logs
    BY DEF CreatedAt, TakenAt
  <2> HIDE DEF I, J
  <2>4. IsFiniteSet(I)
    BY <2>2, <2>3, FS_Subset
  <2>5. IsFiniteSet(J)
    BY <2>2, <2>3, FS_Subset
  <2> QED
    BY <2>4, <2>5
<1>2. f \in Surjection(I, C) /\ g \in Surjection(J, T)
  <2> HIDE DEF I, J
  <2> QED
    BY DEF Surjection
<1> HIDE DEF I, J, C, T, f, g
<1>3. IsFiniteSet(C) /\ IsFiniteSet(T)
  BY <1>1, <1>2, FS_Surjection
<1>4. IsFiniteSet(C \cup T)
  BY <1>3, FS_Union
<1> QED
  BY <1>4 DEF RowsOf, C, T, I, J

\* The rows that a commit of block n adds.
LEMMA RowsOfBlock ==
  ASSUME NEW h, WellFormed(h), NEW n \in 1 .. Len(h)
  PROVE  Store!EventRows(Prefix(h, n), LogsOf(Prefix(h, n))) = RowsOf(Prefix(h, n), h[n])
<1>1. IsSeq(h) /\ Len(h) \in Nat /\ n \in 0 .. Len(h) /\ n \in 1 .. n
  BY SeqFacts DEF WellFormed
<1>2. Last(Prefix(h, n)) = h[n]
  BY <1>1, PrefixFacts DEF Last
<1> DEFINE b == Prefix(h, n)
<1> HIDE DEF b
<1>3. Store!EventRows(b, LogsOf(b)) = {[block |-> b, log |-> l] : l \in LogsOf(b)}
  BY DEF Store!EventRows
<1>4. LogsOf(b) = {DecodeMarketCreated(h[n].logs[i], i) : i \in CreatedAt(h[n])} \cup
                  {DecodePositionTaken(h[n].logs[i], i) : i \in TakenAt(h[n])}
  BY <1>2 DEF LogsOf, CreatedAt, TakenAt, b
<1>5. Store!EventRows(b, LogsOf(b)) = RowsOf(b, h[n])
  BY <1>3, <1>4 DEF RowsOf, CreatedRow, TakenRow
<1> QED
  BY <1>5 DEF b

----------------------------------------------------------------------------
\* The archive of a history

\* Each row is of a block of the history.
LEMMA RowsAreOf ==
  ASSUME NEW h, WellFormed(h), NEW n \in 0 .. Len(h)
  PROVE  /\ RowsUpTo(h, n) = UNION {RowsOf(Prefix(h, k), h[k]) : k \in 1 .. n}
         /\ \A e \in RowsUpTo(h, n) :
              /\ Len(e.block) \in 1 .. n
              /\ e.block = Prefix(h, Len(e.block))
              /\ e \in RowsOf(Prefix(h, Len(e.block)), h[Len(e.block)])
<1>1. IsSeq(h) /\ Len(h) \in Nat /\ 1 .. n \subseteq 1 .. Len(h)
  BY SeqFacts DEF WellFormed
<1>2. \A k \in 1 .. n : Store!EventRows(Prefix(h, k), LogsOf(Prefix(h, k))) =
                        RowsOf(Prefix(h, k), h[k])
  BY <1>1, RowsOfBlock
<1>3. RowsUpTo(h, n) = UNION {RowsOf(Prefix(h, k), h[k]) : k \in 1 .. n}
  BY <1>2 DEF RowsUpTo
<1>4. ASSUME NEW e \in RowsUpTo(h, n)
      PROVE  /\ Len(e.block) \in 1 .. n
             /\ e.block = Prefix(h, Len(e.block))
             /\ e \in RowsOf(Prefix(h, Len(e.block)), h[Len(e.block)])
  <2>1. PICK k \in 1 .. n : e \in RowsOf(Prefix(h, k), h[k])
    BY <1>3
  <2>2. e.block = Prefix(h, k)
    BY <2>1, RowIsOf
  <2>3. k \in 0 .. Len(h)
    BY <1>1
  <2>4. Len(Prefix(h, k)) = k
    BY <1>1, <2>3, PrefixFacts
  <2> QED
    BY <2>1, <2>2, <2>4
<1> QED
  BY <1>3, <1>4

\* None at first, then those of one block more.
LEMMA RowsGrow ==
  ASSUME NEW h, WellFormed(h)
  PROVE  /\ RowsUpTo(h, 0) = {}
         /\ \A n \in 1 .. Len(h) :
              RowsUpTo(h, n) = RowsUpTo(h, n - 1) \cup RowsOf(Prefix(h, n), h[n])
<1>1. Len(h) \in Nat
  BY SeqFacts DEF WellFormed
<1>2. RowsUpTo(h, 0) = {}
  BY DEF RowsUpTo
<1>3. ASSUME NEW n \in 1 .. Len(h)
      PROVE  RowsUpTo(h, n) = RowsUpTo(h, n - 1) \cup RowsOf(Prefix(h, n), h[n])
  <2>1. n \in 0 .. Len(h) /\ n - 1 \in 0 .. Len(h) /\ 1 .. n = (1 .. n - 1) \cup {n}
    BY <1>1
  <2>2. /\ RowsUpTo(h, n) = UNION {RowsOf(Prefix(h, k), h[k]) : k \in 1 .. n}
        /\ RowsUpTo(h, n - 1) = UNION {RowsOf(Prefix(h, k), h[k]) : k \in 1 .. n - 1}
    BY <2>1, RowsAreOf
  <2>3. (UNION {RowsOf(Prefix(h, k), h[k]) : k \in (1 .. n - 1) \cup {n}}) =
        (UNION {RowsOf(Prefix(h, k), h[k]) : k \in 1 .. n - 1}) \cup
        RowsOf(Prefix(h, n), h[n])
    OBVIOUS
  <2> QED
    BY <2>1, <2>2, <2>3
<1> QED
  BY <1>2, <1>3

\* A part of a history has left what the history has up to there.
LEMMA RowsOfPrefix ==
  ASSUME NEW h, WellFormed(h), NEW n \in 0 .. Len(h), NEW k \in 0 .. n
  PROVE  RowsUpTo(Prefix(h, n), k) = RowsUpTo(h, k)
<1>1. IsSeq(h) /\ Len(h) \in Nat
  BY SeqFacts DEF WellFormed
<1>2. \A j \in 1 .. k : Prefix(Prefix(h, n), j) = Prefix(h, j)
  BY <1>1, PrefixOfPrefix
<1> QED
  BY <1>2 DEF RowsUpTo

----------------------------------------------------------------------------
\* One block more

\* Block b, with body c, is mined after all blocks of the archive E.
NewBlock(E, b, c) ==
  /\ OrderTold(E) /\ IsSeq(c.logs) /\ Len(b) \in Nat
  /\ \A e \in E : Len(e.block) < Len(b)

\* Its rows come after those of E, in the order of the logs.
LEMMA NewRowsLater ==
  ASSUME NEW E, NEW b, NEW c, NewBlock(E, b, c)
  PROVE  /\ \A e \in RowsOf(b, c), f \in E : Index!Earlier(f, e)
         /\ \A e, f \in RowsOf(b, c) : Index!Earlier(f, e) <=> f.log.ix < e.log.ix
         /\ \A e \in RowsOf(b, c) : e.log.ix \in Nat
<1>1. \A e \in RowsOf(b, c) : e.block = b /\ e.log.ix \in DOMAIN c.logs
  BY RowIsOf
<1>2. DOMAIN c.logs = 1 .. Len(c.logs) /\ Len(c.logs) \in Nat
  BY SeqFacts DEF NewBlock
<1>3. \A f \in E : Len(f.block) \in Nat
  BY DEF NewBlock, OrderTold, Index!Chronicle, Height
<1> QED
  BY <1>1, <1>2, <1>3
  DEF Index!Earlier, Index!Precedes, NewBlock, Height

\* The order stays one.
LEMMA OrderStep ==
  ASSUME NEW E, NEW b, NEW c, NewBlock(E, b, c)
  PROVE  OrderTold(E \cup RowsOf(b, c))
<1>1. IsFiniteSet(E \cup RowsOf(b, c))
  BY RowsFinite, FS_Union DEF NewBlock, OrderTold
<1>2. \A e \in RowsOf(b, c) : e.log.kind \in {"created", "position"} /\ e.block = b
  BY RowIsOf, RowSays
<1>3. \A e \in E \cup RowsOf(b, c) : Len(e.block) \in Nat /\ e.log.ix \in Nat
  BY <1>2, NewRowsLater DEF NewBlock, OrderTold, Index!Chronicle, Height
<1>4. ASSUME NEW e \in E \cup RowsOf(b, c), NEW f \in E \cup RowsOf(b, c), e # f
      PROVE  Index!Precedes(e, f) \/ Index!Precedes(f, e)
  <2>1. CASE e \in E /\ f \in E
    BY <1>4, <2>1 DEF NewBlock, OrderTold, Index!Chronicle
  <2>2. CASE e \in RowsOf(b, c) /\ f \in RowsOf(b, c)
    <3>1. e.log.ix # f.log.ix
      BY <1>4, <2>2, OneRow
    <3>2. e.log.ix < f.log.ix \/ f.log.ix < e.log.ix
      BY <1>3, <3>1
    <3> QED
      BY <2>2, <3>2, NewRowsLater DEF Index!Earlier
  <2> QED
    BY <2>1, <2>2, NewRowsLater DEF Index!Earlier
<1> QED
  BY <1>1, <1>2, <1>3, <1>4 DEF OrderTold, NewBlock, Index!Chronicle, Height

\* The last of the positions that logs of the block have joined is that of the
\* last of those logs.
LEMMA LastLog ==
  ASSUME NEW E, NEW b, NEW c, NewBlock(E, b, c), NEW S \in SUBSET E,
         NEW I \in SUBSET TakenAt(c), I # {},
         NEW T, T = S \cup TakenRows(b, c, I)
  PROVE  \E i \in I : LastIn(I, i) /\ Index!LatestOf(T) = TakenRow(b, c, i)
<1> DEFINE R == TakenRows(b, c, I)
<1>1. R \subseteq RowsOf(b, c) /\ R # {}
  BY DEF RowsOf, TakenRows
<1>2. \A i \in I : TakenRow(b, c, i) \in RowsOf(b, c) /\ TakenRow(b, c, i).log.ix = i
  BY RowSays DEF RowsOf
<1>3. /\ T # {} /\ R \subseteq T
      /\ \A e \in T : e \in S \/ \E i \in I : e = TakenRow(b, c, i)
  BY <1>1 DEF TakenRows
<1> HIDE DEF R
<1>4. IsFiniteSet(T) /\ Index!Chronicle(T)
  <2>1. T \in SUBSET (E \cup RowsOf(b, c))
    <3>1. \A e \in T : e \in S \/ e \in R
      BY DEF R
    <3> QED
      BY <1>1, <3>1
  <2>2. OrderTold(E \cup RowsOf(b, c))
    BY OrderStep
  <2> QED
    BY <2>1, <2>2, FS_Subset DEF OrderTold, Index!Chronicle
<1>5. PICK e \in T : e = Index!LatestOf(T) /\ \A f \in T \ {e} : Index!Earlier(f, e)
  <2> QED
    BY <1>3, <1>4, LatestRow
<1>6. \A f, g : Index!Earlier(f, g) => ~ Index!Earlier(g, f)
  BY DEF Index!Earlier
<1>7. e \notin S
  <2> SUFFICES ASSUME e \in S PROVE FALSE
    OBVIOUS
  <2>1. PICK i \in I : TRUE
    OBVIOUS
  <2>2. Index!Earlier(e, TakenRow(b, c, i))
    BY <1>2, NewRowsLater
  <2>3. TakenRow(b, c, i) # e
    BY <1>6, <2>2
  <2>4. TakenRow(b, c, i) \in T
    BY DEF R, TakenRows
  <2> QED
    BY <1>5, <1>6, <2>2, <2>3, <2>4
<1>8. PICK i \in I : e = TakenRow(b, c, i)
  BY <1>3, <1>7
<1>9. ASSUME NEW j \in I
      PROVE  j <= i
  <2>1. TakenRow(b, c, j) \in T
    BY DEF R, TakenRows
  <2>2. i \in Nat /\ j \in Nat
    BY <1>2, NewRowsLater
  <2>3. CASE TakenRow(b, c, j) = e
    <3>1. j = i
      BY <1>2, <1>8, <2>3
    <3> QED
      BY <2>2, <3>1
  <2>4. CASE TakenRow(b, c, j) # e
    <3>1. Index!Earlier(TakenRow(b, c, j), TakenRow(b, c, i))
      BY <1>5, <1>8, <2>1, <2>4
    <3>2. j < i
      BY <1>2, <3>1, NewRowsLater
    <3> QED
      BY <2>2, <3>2
  <2> QED
    BY <2>3, <2>4
<1> QED
  BY <1>5, <1>8, <1>9 DEF LastIn

\* The positions of a market after the block.
LEMMA MarketRows ==
  ASSUME NEW E, NEW b, NEW c, NEW m
  PROVE  Index!OfMarket(E \cup RowsOf(b, c), m) =
           Index!OfMarket(E, m) \cup TakenRows(b, c, MarketAt(c, m))
<1>1. ASSUME NEW e \in RowsOf(b, c), e.log.kind = "position", e.log.market = m
      PROVE  e \in TakenRows(b, c, MarketAt(c, m))
  <2>1. e.log.ix \in TakenAt(c) /\ e = TakenRow(b, c, e.log.ix)
    BY <1>1, RowIsOf, RowSays
  <2>2. c.logs[e.log.ix].data.marketId = m
    BY <1>1, <2>1, RowSays
  <2> QED
    BY <2>1, <2>2 DEF MarketAt, TakenRows
<1>2. ASSUME NEW j \in MarketAt(c, m)
      PROVE  /\ TakenRow(b, c, j) \in RowsOf(b, c)
             /\ TakenRow(b, c, j).log.kind = "position"
             /\ TakenRow(b, c, j).log.market = m
  BY RowSays DEF MarketAt, RowsOf
<1> QED
  BY <1>1, <1>2 DEF Index!OfMarket, Index!PositionsIn, TakenRows

\* Those of an account on a side of it.
LEMMA SideRows ==
  ASSUME NEW E, NEW p, NEW b, NEW c, TakingsFollow(p, c), NEW m, NEW a, NEW o \in {"Yes", "No"}
  PROVE  Index!OfSide(E \cup RowsOf(b, c), <<m, a>>, BinaryOutcome(o)) =
           Index!OfSide(E, <<m, a>>, BinaryOutcome(o))
           \cup TakenRows(b, c, SideAt(c, m, a, o))
<1>0. \A x \in {"Yes", "No"} : BinaryOutcome(x) = BinaryOutcome(o) <=> x = o
  BY DEF BinaryOutcome
<1>1. ASSUME NEW e \in RowsOf(b, c), e.log.kind = "position", e.log.market = m,
             e.log.user = a, e.log.outcome = BinaryOutcome(o)
      PROVE  e \in TakenRows(b, c, SideAt(c, m, a, o))
  <2>1. e.log.ix \in TakenAt(c) /\ e = TakenRow(b, c, e.log.ix)
    BY <1>1, RowIsOf, RowSays
  <2>2. c.logs[e.log.ix].data.marketId = m /\ c.logs[e.log.ix].data.user = a
    BY <1>1, <2>1, RowSays
  <2>3. c.logs[e.log.ix].data.outcome = o
    <3>1. c.logs[e.log.ix].data.outcome \in {"Yes", "No"}
      BY <2>1 DEF TakingsFollow
    <3>2. BinaryOutcome(c.logs[e.log.ix].data.outcome) = BinaryOutcome(o)
      BY <1>1, <2>1, RowSays
    <3> QED
      BY <1>0, <3>1, <3>2
  <2> QED
    BY <2>1, <2>2, <2>3 DEF SideAt, MarketAt, TakenRows
<1>2. ASSUME NEW j \in SideAt(c, m, a, o)
      PROVE  /\ TakenRow(b, c, j) \in RowsOf(b, c)
             /\ TakenRow(b, c, j).log.kind = "position"
             /\ TakenRow(b, c, j).log.market = m /\ TakenRow(b, c, j).log.user = a
             /\ TakenRow(b, c, j).log.outcome = BinaryOutcome(o)
  BY RowSays DEF SideAt, MarketAt, RowsOf
<1>3. \A e : <<e.log.market, e.log.user>> = <<m, a>> <=>
             e.log.market = m /\ e.log.user = a
  OBVIOUS
<1> QED
  BY <1>1, <1>2, <1>3
  DEF Index!OfSide, Index!OfUser, Index!PositionsIn, TakenRows

\* What an archive tells, it tells of the next block too once it has its rows:
\* the nonces used up, ...
LEMMA NoncesStep ==
  ASSUME NEW E, NEW p, NEW b, NEW c, NoncesTold(E, p), NoncesFollow(p, c),
         BodyOK(p), BodyOK(c)
  PROVE  NoncesTold(E \cup RowsOf(b, c), c)
<1>1. ASSUME NEW e \in RowsOf(b, c)
      PROVE  /\ e.log.tx.from \in Account /\ e.log.tx.nonce \in Nat
             /\ e.log.tx.nonce < c.nonce[e.log.tx.from]
  <2>1. e.log.ix \in DOMAIN c.logs /\ e.log.tx = c.logs[e.log.ix].tx
    BY RowIsOf, RowSays
  <2> QED
    BY <2>1 DEF NoncesFollow
<1>2. ASSUME NEW e \in E
      PROVE  /\ e.log.tx.from \in Account /\ e.log.tx.nonce \in Nat
             /\ e.log.tx.nonce < c.nonce[e.log.tx.from]
  <2>1. /\ e.log.tx.from \in Account /\ e.log.tx.nonce \in Nat
        /\ e.log.tx.nonce < p.nonce[e.log.tx.from]
    BY DEF NoncesTold
  <2>2. p.nonce[e.log.tx.from] \in Nat /\ c.nonce[e.log.tx.from] \in Nat
    BY <2>1 DEF BodyOK
  <2>3. p.nonce[e.log.tx.from] <= c.nonce[e.log.tx.from]
    BY <2>1 DEF NoncesFollow
  <2> QED
    BY <2>1, <2>2, <2>3
<1> QED
  BY <1>1, <1>2 DEF NoncesTold

\* ... the markets created, ...
LEMMA CreationsStep ==
  ASSUME NEW E, NEW p, NEW b, NEW c, CreationsTold(E, p), CreationsFollow(p, c),
         BodyOK(p), BodyOK(c)
  PROVE  CreationsTold(E \cup RowsOf(b, c), c)
<1> DEFINE F == E \cup RowsOf(b, c)
<1>0. /\ NextIdOf(p) \in Nat /\ NextIdOf(c) \in Nat /\ NextIdOf(p) <= NextIdOf(c)
      /\ 1 <= NextIdOf(p) /\ NextIdOf(p) - 1 <= MaxMarkets /\ MaxMarkets \in Nat
  BY PipelineAssumption DEF BodyOK, CreationsFollow
<1>1. ASSUME NEW e \in RowsOf(b, c), e.log.kind = "created"
      PROVE  /\ e.log.ix \in CreatedAt(c) /\ e = CreatedRow(b, c, e.log.ix)
             /\ e.log.market = c.logs[e.log.ix].data.marketId
             /\ e.log.market \in NextIdOf(p) .. NextIdOf(c) - 1
             /\ e.log.terms.resolver = MarketsOf(c)[e.log.market].resolver
             /\ e.log.terms.deadline = MarketsOf(c)[e.log.market].deadline
  <2>1. e.log.ix \in CreatedAt(c) /\ e = CreatedRow(b, c, e.log.ix)
    BY <1>1, RowIsOf, RowSays
  <2> QED
    BY <2>1, RowSays DEF CreationsFollow
<1>2. ASSUME NEW e \in E, e.log.kind = "created"
      PROVE  /\ e.log.market \in 1 .. NextIdOf(p) - 1
             /\ e.log.terms.resolver = MarketsOf(c)[e.log.market].resolver
             /\ e.log.terms.deadline = MarketsOf(c)[e.log.market].deadline
  <2>1. /\ e.log.market \in 1 .. NextIdOf(p) - 1
        /\ e.log.terms.resolver = MarketsOf(p)[e.log.market].resolver
        /\ e.log.terms.deadline = MarketsOf(p)[e.log.market].deadline
    BY <1>2 DEF CreationsTold
  <2>2. e.log.market \in Contract!Market /\ e.log.market < NextIdOf(p)
    BY <1>0, <2>1 DEF Contract!Market
  <2> QED
    BY <2>1, <2>2 DEF CreationsFollow
<1>3. ASSUME NEW e \in F, NEW f \in F, e.log.kind = "created", f.log.kind = "created",
             e.log.market = f.log.market
      PROVE  e = f
  <2>1. CASE e \in E /\ f \in E
    BY <1>3, <2>1 DEF CreationsTold
  <2>2. CASE e \in RowsOf(b, c) /\ f \in RowsOf(b, c)
    <3>1. e.log.ix = f.log.ix
      BY <1>1, <1>3, <2>2 DEF CreationsFollow
    <3> QED
      BY <2>2, <3>1, OneRow
  <2>3. ASSUME NEW x \in E, NEW y \in RowsOf(b, c), x.log.kind = "created",
               y.log.kind = "created", x.log.market = y.log.market
        PROVE  FALSE
    <3>1. x.log.market \in 1 .. NextIdOf(p) - 1
      BY <1>2, <2>3
    <3>2. y.log.market \in NextIdOf(p) .. NextIdOf(c) - 1
      BY <1>1, <2>3
    <3> QED
      BY <1>0, <2>3, <3>1, <3>2
  <2> QED
    BY <1>3, <2>1, <2>2, <2>3
<1>4. ASSUME NEW m \in 1 .. NextIdOf(c) - 1
      PROVE  \E e \in F : e.log.kind = "created" /\ e.log.market = m
  <2>1. CASE m < NextIdOf(p)
    <3>1. m \in 1 .. NextIdOf(p) - 1
      BY <1>0, <2>1
    <3> QED
      BY <3>1 DEF CreationsTold
  <2>2. CASE ~ (m < NextIdOf(p))
    <3>1. m \in NextIdOf(p) .. NextIdOf(c) - 1
      BY <1>0, <2>2
    <3>2. PICK i \in CreatedAt(c) : c.logs[i].data.marketId = m
      BY <3>1 DEF CreationsFollow
    <3>3. CreatedRow(b, c, i) \in F
      BY DEF RowsOf
    <3> QED
      BY <3>2, <3>3, RowSays
  <2> QED
    BY <2>1, <2>2
<1>5. ASSUME NEW e \in F, e.log.kind = "created"
      PROVE  /\ e.log.market \in 1 .. NextIdOf(c) - 1
             /\ e.log.terms.resolver = MarketsOf(c)[e.log.market].resolver
             /\ e.log.terms.deadline = MarketsOf(c)[e.log.market].deadline
  <2>1. \/ e.log.market \in NextIdOf(p) .. NextIdOf(c) - 1
        \/ e.log.market \in 1 .. NextIdOf(p) - 1
    BY <1>1, <1>2, <1>5
  <2>2. e.log.market \in 1 .. NextIdOf(c) - 1
    BY <1>0, <2>1
  <2> QED
    BY <1>1, <1>2, <1>5, <2>2
<1> HIDE DEF F
<1>6. CreationsTold(F, c)
  BY <1>3, <1>4, <1>5 DEF CreationsTold
<1> QED
  BY <1>6 DEF F

\* ... who took a stake where, ...
LEMMA TakingsStep ==
  ASSUME NEW E, NEW p, NEW b, NEW c, TakingsTold(E, p), TakingsFollow(p, c),
         CreationsFollow(p, c), BodyOK(p), BodyOK(c)
  PROVE  TakingsTold(E \cup RowsOf(b, c), c)
<1>0. /\ NextIdOf(p) \in Nat /\ NextIdOf(c) \in Nat /\ NextIdOf(p) <= NextIdOf(c)
  BY PipelineAssumption DEF BodyOK, CreationsFollow
<1>1. ASSUME NEW e \in RowsOf(b, c), e.log.kind = "position"
      PROVE  /\ e.log.market \in 1 .. NextIdOf(c) - 1 /\ e.log.user \in Account
             /\ e.log.outcome \in {"yes", "no"} /\ e.log.stake \in Nat \ {0}
  <2>1. e.log.ix \in TakenAt(c) /\ e = TakenRow(b, c, e.log.ix)
    BY <1>1, RowIsOf, RowSays
  <2> QED
    BY <2>1, RowSays DEF TakingsFollow, BinaryOutcome
<1>2. ASSUME NEW e \in E, e.log.kind = "position"
      PROVE  /\ e.log.market \in 1 .. NextIdOf(c) - 1 /\ e.log.user \in Account
             /\ e.log.outcome \in {"yes", "no"} /\ e.log.stake \in Nat \ {0}
  <2>1. /\ e.log.market \in 1 .. NextIdOf(p) - 1 /\ e.log.user \in Account
        /\ e.log.outcome \in {"yes", "no"} /\ e.log.stake \in Nat \ {0}
    BY <1>2 DEF TakingsTold
  <2> QED
    BY <1>0, <2>1
<1> QED
  BY <1>1, <1>2 DEF TakingsTold

\* ... the pools, ...
LEMMA PoolsStep ==
  ASSUME NEW E, NEW p, NEW b, NEW c, NewBlock(E, b, c), PoolsTold(E, p), PoolsFollow(p, c)
  PROVE  PoolsTold(E \cup RowsOf(b, c), c)
<1> DEFINE F == E \cup RowsOf(b, c)
<1>1. ASSUME NEW m \in Contract!Market
      PROVE  /\ Index!OfMarket(F, m) = {} =>
                  MarketsOf(c)[m].yesPool = 0 /\ MarketsOf(c)[m].noPool = 0
             /\ Index!OfMarket(F, m) # {} =>
                  /\ MarketsOf(c)[m].yesPool =
                       Index!LatestOf(Index!OfMarket(F, m)).log.yesPool
                  /\ MarketsOf(c)[m].noPool =
                       Index!LatestOf(Index!OfMarket(F, m)).log.noPool
  <2> DEFINE I == MarketAt(c, m)
             S == Index!OfMarket(F, m)
             T == Index!OfMarket(E, m)
  <2>1. S = T \cup TakenRows(b, c, I)
    BY MarketRows
  <2>2. T \in SUBSET E /\ I \in SUBSET TakenAt(c)
    BY DEF Index!OfMarket, Index!PositionsIn, MarketAt
  <2>3. CASE I = {}
    <3>1. S = T
      BY <2>1, <2>3 DEF TakenRows
    <3>2. /\ MarketsOf(c)[m].yesPool = MarketsOf(p)[m].yesPool
          /\ MarketsOf(c)[m].noPool = MarketsOf(p)[m].noPool
      BY <2>3 DEF PoolsFollow
    <3> HIDE DEF F
    <3> QED
      BY <3>1, <3>2 DEF PoolsTold
  <2>4. CASE I # {}
    <3> HIDE DEF S, T
    <3>1. PICK i \in I : LastIn(I, i) /\ Index!LatestOf(S) = TakenRow(b, c, i)
      <4> HIDE DEF I
      <4> QED
        BY <2>1, <2>2, <2>4, LastLog
    <3>2. /\ MarketsOf(c)[m].yesPool = c.logs[i].data.yesPool
          /\ MarketsOf(c)[m].noPool = c.logs[i].data.noPool
      BY <3>1 DEF PoolsFollow
    <3>3. S # {}
      BY <2>1, <2>4 DEF TakenRows
    <3>4. /\ TakenRow(b, c, i).log.yesPool = c.logs[i].data.yesPool
          /\ TakenRow(b, c, i).log.noPool = c.logs[i].data.noPool
      BY RowSays
    <3> QED
      BY <3>1, <3>2, <3>3, <3>4 DEF S
  <2> QED
    BY <2>3, <2>4
<1> QED
  BY <1>1 DEF PoolsTold

\* ... and the stakes.
LEMMA StakesStep ==
  ASSUME NEW E, NEW p, NEW b, NEW c, NewBlock(E, b, c), StakesTold(E, p),
         StakesFollow(p, c), TakingsFollow(p, c)
  PROVE  StakesTold(E \cup RowsOf(b, c), c)
<1> DEFINE F == E \cup RowsOf(b, c)
<1>1. ASSUME NEW m \in Contract!Market, NEW a \in Account, NEW o \in {"Yes", "No"}
      PROVE  StakeOf(c, m, a, o) = Index!StakeIn(F, <<m, a>>, BinaryOutcome(o))
  <2> DEFINE I == SideAt(c, m, a, o)
             k == <<m, a>>
             x == BinaryOutcome(o)
             S == Index!OfSide(F, k, x)
             T == Index!OfSide(E, k, x)
  <2>1. S = T \cup TakenRows(b, c, I)
    BY SideRows
  <2>2. T \in SUBSET E /\ I \in SUBSET TakenAt(c)
    BY DEF Index!OfSide, Index!OfUser, Index!PositionsIn, SideAt, MarketAt
  <2>3. StakeOf(p, m, a, o) = Index!StakeIn(E, k, x)
    BY DEF StakesTold
  <2>4. CASE I = {}
    <3>1. S = T
      <4> HIDE DEF S, T, I
      <4> QED
        BY <2>1, <2>4 DEF TakenRows
    <3>2. StakeOf(c, m, a, o) = StakeOf(p, m, a, o)
      BY <2>4 DEF StakesFollow
    <3>3. Index!StakeIn(F, k, x) = Index!StakeIn(E, k, x)
      <4> HIDE DEF k, x, F
      <4> QED
        BY <3>1 DEF Index!StakeIn
    <3> QED
      BY <2>3, <3>2, <3>3
  <2>5. CASE I # {}
    <3> HIDE DEF S, T
    <3>1. PICK i \in I : LastIn(I, i) /\ Index!LatestOf(S) = TakenRow(b, c, i)
      <4>1. T \in SUBSET E /\ I \in SUBSET TakenAt(c) /\ S = T \cup TakenRows(b, c, I)
        BY <2>1, <2>2
      <4> HIDE DEF I, F, k, x
      <4> QED
        BY <2>5, <4>1, LastLog
    <3>2. StakeOf(c, m, a, o) = c.logs[i].data.userOutcomeStake
      BY <3>1 DEF StakesFollow
    <3>3. S # {}
      BY <2>1, <2>5 DEF TakenRows
    <3>4. Index!StakeIn(F, k, x) = Index!LatestOf(S).log.stake
      <4> HIDE DEF k, x, F
      <4> QED
        BY <3>3 DEF Index!StakeIn, S
    <3> QED
      BY <3>1, <3>2, <3>4, RowSays
  <2> QED
    BY <2>4, <2>5
<1> QED
  BY <1>1 DEF StakesTold

\* What an archive tells of the contract, it tells after one block more.
LEMMA ToldStep ==
  ASSUME NEW E, NEW p, NEW b, NEW c, Told(E, p), BodyOK(p), BodyOK(c), Continues(p, c),
         Len(b) \in Nat, \A e \in E : Len(e.block) < Len(b)
  PROVE  Told(E \cup RowsOf(b, c), c)
<1>1. NewBlock(E, b, c)
  BY DEF NewBlock, Told, BodyOK
<1>2. OrderTold(E \cup RowsOf(b, c))
  BY <1>1, OrderStep
<1>3. NoncesTold(E \cup RowsOf(b, c), c)
  BY NoncesStep DEF Told, Continues
<1>4. CreationsTold(E \cup RowsOf(b, c), c)
  BY CreationsStep DEF Told, Continues
<1>5. TakingsTold(E \cup RowsOf(b, c), c)
  BY TakingsStep DEF Told, Continues
<1>6. PoolsTold(E \cup RowsOf(b, c), c)
  BY <1>1, PoolsStep DEF Told, Continues
<1>7. StakesTold(E \cup RowsOf(b, c), c)
  BY <1>1, StakesStep DEF Told, Continues
<1> QED
  BY <1>2, <1>3, <1>4, <1>5, <1>6, <1>7 DEF Told

----------------------------------------------------------------------------
\* The whole history

\* Nothing is told of a contract that is not there.
LEMMA BlankTold == BodyOK(Blank) /\ Told({}, Blank)
<1>1. /\ Blank.logs = <<>> /\ NextIdOf(Blank) = 1
      /\ MarketsOf(Blank) = [m \in Contract!Market |-> Contract!NoMarket]
      /\ PositionsOf(Blank) =
           [m \in Contract!Market |-> [a \in Account |-> Contract!NoPosition]]
      /\ Blank.nonce = [a \in Account |-> 0]
  BY DEF Blank, NextIdOf, MarketsOf, PositionsOf
<1>2. IsSeq(<<>>) /\ DOMAIN <<>> = {}
  <2>1. <<>> \in Seq(Nat)
    BY EmptySeq
  <2> QED
    BY <2>1 DEF IsSeq
<1>3. Contract!NoMarket \in MarketSlot /\ Contract!NoPosition \in PositionSlot
  BY DEF Contract!NoMarket, MarketSlot, Contract!NoPosition, PositionSlot
<1>4. /\ Contract!NoMarket.resolver = Nobody
      /\ Contract!NoMarket.yesPool = 0 /\ Contract!NoMarket.noPool = 0
      /\ Contract!NoPosition.yesStake = 0 /\ Contract!NoPosition.noStake = 0
  BY DEF Contract!NoMarket, Contract!NoPosition
<1>5. MaxMarkets \in Nat /\ 1 \in 1 .. MaxMarkets + 1
      /\ \A m \in Contract!Market : m >= 1
  BY PipelineAssumption DEF Contract!Market
<1>6. BodyOK(Blank)
  BY <1>1, <1>2, <1>3, <1>4, <1>5 DEF BodyOK
<1>7. OrderTold({}) /\ NoncesTold({}, Blank) /\ TakingsTold({}, Blank)
  BY FS_EmptySet DEF OrderTold, NoncesTold, TakingsTold, Index!Chronicle
<1>8. CreationsTold({}, Blank)
  BY <1>1 DEF CreationsTold
<1>9. PoolsTold({}, Blank)
  BY <1>1, <1>4 DEF PoolsTold, Index!OfMarket, Index!PositionsIn
<1>10. StakesTold({}, Blank)
  <2>1. \A k, o : Index!StakeIn({}, k, o) = 0
    BY DEF Index!StakeIn, Index!OfSide, Index!OfUser, Index!PositionsIn
  <2> QED
    BY <1>1, <1>4, <2>1 DEF StakesTold, StakeOf
<1> QED
  BY <1>6, <1>7, <1>8, <1>9, <1>10 DEF Told

\* The rows of a history tell the storage it ends in, at every height.
LEMMA HistoryTold ==
  ASSUME NEW h, WellFormed(h)
  PROVE  \A n \in 0 .. Len(h) :
           BodyOK(At(h, n)) /\ Told(RowsUpTo(h, n), At(h, n))
<1>1. Len(h) \in Nat /\ IsSeq(h)
  BY SeqFacts DEF WellFormed
<1> DEFINE Q == {n \in Nat : n <= Len(h) =>
                   BodyOK(At(h, n)) /\ Told(RowsUpTo(h, n), At(h, n))}
<1>2. 0 \in Q
  BY BlankTold, RowsGrow DEF At
<1>3. ASSUME NEW n \in Nat, n \in Q
      PROVE  n + 1 \in Q
  <2> SUFFICES ASSUME n + 1 <= Len(h)
               PROVE  BodyOK(At(h, n + 1)) /\ Told(RowsUpTo(h, n + 1), At(h, n + 1))
    OBVIOUS
  <2> DEFINE b == Prefix(h, n + 1)
             c == h[n + 1]
             E == RowsUpTo(h, n)
  <2>1. BodyOK(At(h, n)) /\ Told(E, At(h, n))
    BY <1>1, <1>3
  <2>2. /\ n + 1 \in 1 .. Len(h) /\ n + 1 - 1 = n /\ n + 1 # 0
        /\ n \in 0 .. Len(h) /\ n + 1 \in 0 .. Len(h)
    BY <1>1
  <2>3. BodyOK(c) /\ Continues(At(h, n), c) /\ At(h, n + 1) = c
    BY <2>2 DEF WellFormed, At
  <2>4. Len(b) = n + 1
    BY <1>1, <2>2, PrefixFacts
  <2>5. \A e \in E : Len(e.block) < Len(b)
    <3>1. \A e \in E : Len(e.block) \in 1 .. n
      BY <2>2, RowsAreOf
    <3> QED
      BY <2>4, <3>1
  <2>6. RowsUpTo(h, n + 1) = E \cup RowsOf(b, c)
    BY <2>2, RowsGrow
  <2> HIDE DEF b, c, E
  <2>7. Told(E \cup RowsOf(b, c), c)
    BY <2>1, <2>3, <2>4, <2>5, ToldStep
  <2> QED
    BY <2>3, <2>6, <2>7
<1>4. \A n \in Nat : n \in Q
  <2> HIDE DEF Q
  <2> QED
    BY <1>2, <1>3, NumberInduction
<1> QED
  BY <1>1, <1>4

----------------------------------------------------------------------------
\* The contract logs what it does

\* Nothing has happened since p.
LEMMA NothingYet ==
  ASSUME NEW p, BodyOK(p), NEW c, c.logs = <<>>, MarketsOf(c) = MarketsOf(p),
         PositionsOf(c) = PositionsOf(p), NextIdOf(c) = NextIdOf(p), c.nonce = p.nonce
  PROVE  BodyOK(c) /\ Continues(p, c)
<1>1. IsSeq(<<>>) /\ DOMAIN <<>> = {}
  <2>1. <<>> \in Seq(Nat)
    BY EmptySeq
  <2> QED
    BY <2>1 DEF IsSeq
<1>2. BodyOK(c)
  BY <1>1 DEF BodyOK
<1>3. /\ CreatedAt(c) = {} /\ TakenAt(c) = {} /\ DOMAIN c.logs = {}
      /\ \A m : MarketAt(c, m) = {}
      /\ \A m, a, o : SideAt(c, m, a, o) = {}
  BY <1>1 DEF CreatedAt, TakenAt, MarketAt, SideAt
<1>4. CreationsFollow(p, c)
  <2>1. NextIdOf(p) \in Nat /\ NextIdOf(p) .. NextIdOf(c) - 1 = {}
    BY PipelineAssumption DEF BodyOK
  <2> QED
    BY <1>3, <2>1 DEF CreationsFollow
<1>5. PoolsFollow(p, c) /\ StakesFollow(p, c) /\ TakingsFollow(p, c)
  BY <1>3 DEF PoolsFollow, StakesFollow, StakeOf, TakingsFollow
<1>6. NoncesFollow(p, c)
  BY <1>3 DEF NoncesFollow, BodyOK
<1> QED
  BY <1>2, <1>4, <1>5, <1>6 DEF Continues

\* Body d is c after a call of account a that emits one log.
Logs(c, d, a, topic, data) ==
  /\ d.nonce = [c.nonce EXCEPT ![a] = @ + 1]
  /\ \E call :
       d.logs = Append(c.logs, [topic |-> topic, data |-> data,
                                tx |-> [from |-> a, nonce |-> c.nonce[a], call |-> call]])

\* The last log is new, the others are as they were.
LEMMA OneLogMore ==
  ASSUME NEW c, BodyOK(c), NEW d, NEW a, NEW topic, NEW data, Logs(c, d, a, topic, data),
         NEW k, k = Len(c.logs) + 1
  PROVE  /\ IsSeq(d.logs) /\ k \in Nat /\ \A i \in DOMAIN c.logs : i \in Nat /\ i < k
         /\ DOMAIN d.logs = DOMAIN c.logs \cup {k}
         /\ \A i \in DOMAIN c.logs : d.logs[i] = c.logs[i]
         /\ d.logs[k].topic = topic /\ d.logs[k].data = data
         /\ d.logs[k].tx.from = a /\ d.logs[k].tx.nonce = c.nonce[a]
<1>1. PICK call :
        d.logs = Append(c.logs, [topic |-> topic, data |-> data,
                                 tx |-> [from |-> a, nonce |-> c.nonce[a], call |-> call]])
  BY DEF Logs
<1> DEFINE x == [topic |-> topic, data |-> data,
                 tx |-> [from |-> a, nonce |-> c.nonce[a], call |-> call]]
<1>2. IsSeq(c.logs) /\ Len(c.logs) \in Nat /\ DOMAIN c.logs = 1 .. Len(c.logs)
  BY SeqFacts DEF BodyOK
<1>3. /\ x.topic = topic /\ x.data = data /\ x.tx.from = a /\ x.tx.nonce = c.nonce[a]
      /\ d.logs = Append(c.logs, x)
  BY <1>1
<1> HIDE DEF x
<1>4. /\ IsSeq(d.logs) /\ Len(d.logs) = Len(c.logs) + 1
      /\ \A i \in 1 .. Len(c.logs) : d.logs[i] = c.logs[i]
      /\ d.logs[Len(c.logs) + 1] = x
  BY <1>2, <1>3, AppendFacts
<1>5. DOMAIN d.logs = 1 .. Len(c.logs) + 1
  BY <1>4, SeqFacts
<1>6. 1 .. Len(c.logs) + 1 = (1 .. Len(c.logs)) \cup {k}
  BY <1>2
<1>7. k \in Nat /\ \A i \in 1 .. Len(c.logs) : i \in Nat /\ i < k
  BY <1>2
<1>8. d.logs[k] = x
  BY <1>4
<1>9. DOMAIN d.logs = DOMAIN c.logs \cup {k}
  BY <1>2, <1>5, <1>6
<1> QED
  BY <1>2, <1>3, <1>4, <1>7, <1>8, <1>9

\* Its nonce is the next of the account's, on every branch.
LEMMA NoncesLogged ==
  ASSUME NEW p, NEW c, BodyOK(p), BodyOK(c), NoncesFollow(p, c), NEW d, NEW a \in Account,
         NEW topic, NEW data, Logs(c, d, a, topic, data)
  PROVE  NoncesFollow(p, d) /\ d.nonce \in [Account -> Nat]
<1> DEFINE k == Len(c.logs) + 1
<1>1. /\ DOMAIN d.logs = DOMAIN c.logs \cup {k}
      /\ \A i \in DOMAIN c.logs : d.logs[i] = c.logs[i]
      /\ d.logs[k].tx.from = a /\ d.logs[k].tx.nonce = c.nonce[a]
  BY OneLogMore
<1> HIDE DEF k
<1>2. c.nonce \in [Account -> Nat] /\ p.nonce \in [Account -> Nat]
  BY DEF BodyOK
<1>3. d.nonce = [c.nonce EXCEPT ![a] = @ + 1]
  BY DEF Logs
<1>4. /\ d.nonce \in [Account -> Nat] /\ d.nonce[a] = c.nonce[a] + 1
      /\ \A x \in Account : c.nonce[x] <= d.nonce[x]
  BY <1>2, <1>3
<1>5. \A x \in Account : p.nonce[x] <= d.nonce[x]
  <2>1. \A x \in Account : p.nonce[x] <= c.nonce[x]
    BY DEF NoncesFollow
  <2> QED
    BY <1>2, <1>4, <2>1
<1>6. ASSUME NEW i \in DOMAIN d.logs
      PROVE  LET tx == d.logs[i].tx
             IN  /\ tx.from \in Account /\ tx.nonce \in Nat
                 /\ p.nonce[tx.from] <= tx.nonce /\ tx.nonce < d.nonce[tx.from]
  <2>1. CASE i \in DOMAIN c.logs
    <3> DEFINE tx == c.logs[i].tx
    <3>1. /\ tx.from \in Account /\ tx.nonce \in Nat
          /\ p.nonce[tx.from] <= tx.nonce /\ tx.nonce < c.nonce[tx.from]
      BY <2>1 DEF NoncesFollow
    <3>2. d.logs[i].tx = tx
      BY <1>1, <2>1
    <3> HIDE DEF tx
    <3>3. tx.nonce < d.nonce[tx.from]
      BY <1>2, <1>4, <3>1
    <3> QED
      BY <3>1, <3>2, <3>3
  <2>2. CASE i = k
    <3>1. p.nonce[a] <= c.nonce[a] /\ c.nonce[a] \in Nat /\ c.nonce[a] < d.nonce[a]
      BY <1>2, <1>4 DEF NoncesFollow
    <3> QED
      BY <1>1, <2>2, <3>1
  <2> QED
    BY <1>1, <2>1, <2>2
<1> QED
  BY <1>4, <1>5, <1>6 DEF NoncesFollow

\* What createMarket commits to, and the log it emits.
Creates(c, d, a, t, r) ==
  /\ NextIdOf(c) \in Contract!Market /\ t \in Nat /\ r \in Resolvers
  /\ MarketsOf(d) = [MarketsOf(c) EXCEPT ![NextIdOf(c)] =
                       [Contract!NoMarket EXCEPT !.resolver = r, !.deadline = t]]
  /\ PositionsOf(d) = PositionsOf(c)
  /\ NextIdOf(d) = NextIdOf(c) + 1
  /\ Logs(c, d, a, "MarketCreated",
          [marketId |-> NextIdOf(c), resolver |-> r, creator |-> a, deadline |-> t])

\* The new market is the next one; no other market, pool or stake changes.
LEMMA CreatesFacts ==
  ASSUME NEW c, BodyOK(c), NEW d, NEW a, NEW t, NEW r, Creates(c, d, a, t, r)
  PROVE  /\ NextIdOf(c) \in Nat /\ NextIdOf(d) \in 1 .. MaxMarkets + 1
         /\ MarketsOf(d) \in [Contract!Market -> MarketSlot]
         /\ \A m \in Contract!Market : m # NextIdOf(c) => MarketsOf(d)[m] = MarketsOf(c)[m]
         /\ MarketsOf(d)[NextIdOf(c)].resolver = r /\ r # Nobody
         /\ MarketsOf(d)[NextIdOf(c)].deadline = t
         /\ \A m \in Contract!Market :
              /\ MarketsOf(d)[m].yesPool = MarketsOf(c)[m].yesPool
              /\ MarketsOf(d)[m].noPool = MarketsOf(c)[m].noPool
<1> DEFINE n == NextIdOf(c)
           new == [Contract!NoMarket EXCEPT !.resolver = r, !.deadline = t]
<1>1. n \in Contract!Market /\ n \in 1 .. MaxMarkets /\ MaxMarkets \in Nat
  BY PipelineAssumption DEF Creates, Contract!Market
<1>2. /\ new \in MarketSlot /\ new.resolver = r /\ new.deadline = t
      /\ new.yesPool = 0 /\ new.noPool = 0 /\ r # Nobody
  BY PipelineAssumption DEF Contract!NoMarket, MarketSlot, Creates
<1>3. MarketsOf(c) \in [Contract!Market -> MarketSlot]
  BY DEF BodyOK
<1>4. MarketsOf(d) = [MarketsOf(c) EXCEPT ![n] = new] /\ NextIdOf(d) = n + 1
  BY DEF Creates
<1>5. MarketsOf(c)[n].yesPool = 0 /\ MarketsOf(c)[n].noPool = 0
  BY <1>1 DEF BodyOK
<1> HIDE DEF new, n
<1>6. /\ MarketsOf(d) \in [Contract!Market -> MarketSlot]
      /\ \A m \in Contract!Market : m # n => MarketsOf(d)[m] = MarketsOf(c)[m]
      /\ MarketsOf(d)[n] = new
  BY <1>1, <1>2, <1>3, <1>4
<1>7. n \in Nat /\ NextIdOf(d) \in 1 .. MaxMarkets + 1
  BY <1>1, <1>4
<1>8. \A m \in Contract!Market :
        /\ MarketsOf(d)[m].yesPool = MarketsOf(c)[m].yesPool
        /\ MarketsOf(d)[m].noPool = MarketsOf(c)[m].noPool
  BY <1>2, <1>5, <1>6
<1> QED
  BY <1>2, <1>6, <1>7, <1>8 DEF n

\* Which log it adds.
LEMMA CreatesLogs ==
  ASSUME NEW c, BodyOK(c), NEW d, NEW a, NEW t, NEW r, Creates(c, d, a, t, r)
  PROVE  /\ CreatedAt(d) = CreatedAt(c) \cup {Len(c.logs) + 1}
         /\ TakenAt(d) = TakenAt(c)
         /\ \A m : MarketAt(d, m) = MarketAt(c, m)
         /\ \A m, x, o : SideAt(d, m, x, o) = SideAt(c, m, x, o)
<1> DEFINE k == Len(c.logs) + 1
           data == [marketId |-> NextIdOf(c), resolver |-> r, creator |-> a, deadline |-> t]
<1>1. Logs(c, d, a, "MarketCreated", data)
  BY DEF Creates
<1> HIDE DEF data
<1>2. /\ \A i \in DOMAIN c.logs : i \in Nat /\ i < k
      /\ DOMAIN d.logs = DOMAIN c.logs \cup {k}
      /\ \A i \in DOMAIN c.logs : d.logs[i] = c.logs[i]
      /\ d.logs[k].topic = "MarketCreated"
  BY <1>1, OneLogMore
<1> HIDE DEF k
<1>3. CreatedAt(d) = CreatedAt(c) \cup {k}
  BY <1>2 DEF CreatedAt
<1>4. TakenAt(d) = TakenAt(c)
  BY <1>2 DEF TakenAt
<1>5. \A i \in TakenAt(c) : d.logs[i] = c.logs[i]
  BY <1>2 DEF TakenAt
<1>6. \A m : MarketAt(d, m) = MarketAt(c, m)
  BY <1>4, <1>5 DEF MarketAt
<1>7. \A m, x, o : SideAt(d, m, x, o) = SideAt(c, m, x, o)
  <2>1. \A m : \A i \in MarketAt(c, m) : d.logs[i] = c.logs[i]
    BY <1>5 DEF MarketAt
  <2> QED
    BY <1>6, <2>1 DEF SideAt
<1> QED
  BY <1>3, <1>4, <1>6, <1>7 DEF k

\* createMarket logs the market it creates.
LEMMA CreateFollows ==
  ASSUME NEW p, BodyOK(p), NEW c, BodyOK(c), Continues(p, c), NEW d, NEW a \in Account,
         NEW t, NEW r, Creates(c, d, a, t, r)
  PROVE  BodyOK(d) /\ Continues(p, d)
<1> DEFINE k == Len(c.logs) + 1
           n == NextIdOf(c)
           data == [marketId |-> n, resolver |-> r, creator |-> a, deadline |-> t]
<1>1. Logs(c, d, a, "MarketCreated", data) /\ NextIdOf(d) = n + 1
      /\ PositionsOf(d) = PositionsOf(c) /\ n \in Contract!Market
  BY DEF Creates
<1>2. /\ data.marketId = n /\ data.resolver = r /\ data.deadline = t
  OBVIOUS
<1> HIDE DEF data
<1>3. /\ IsSeq(d.logs) /\ k \in Nat
      /\ \A i \in DOMAIN c.logs : i \in Nat /\ i < k
      /\ DOMAIN d.logs = DOMAIN c.logs \cup {k}
      /\ \A i \in DOMAIN c.logs : d.logs[i] = c.logs[i]
      /\ d.logs[k].data = data
  BY <1>1, OneLogMore
<1>4. /\ CreatedAt(d) = CreatedAt(c) \cup {k} /\ TakenAt(d) = TakenAt(c)
      /\ \A m : MarketAt(d, m) = MarketAt(c, m)
      /\ \A m, x, o : SideAt(d, m, x, o) = SideAt(c, m, x, o)
  BY CreatesLogs
<1>5. /\ n \in Nat /\ NextIdOf(d) \in 1 .. MaxMarkets + 1
      /\ MarketsOf(d) \in [Contract!Market -> MarketSlot]
      /\ \A m \in Contract!Market : m # n => MarketsOf(d)[m] = MarketsOf(c)[m]
      /\ MarketsOf(d)[n].resolver = r /\ r # Nobody
      /\ MarketsOf(d)[n].deadline = t
      /\ \A m \in Contract!Market :
           /\ MarketsOf(d)[m].yesPool = MarketsOf(c)[m].yesPool
           /\ MarketsOf(d)[m].noPool = MarketsOf(c)[m].noPool
  BY CreatesFacts
<1>6. \A m \in Contract!Market : m \in Nat
  BY PipelineAssumption DEF Contract!Market
<1> HIDE DEF n, k
<1>7. NoncesFollow(p, d) /\ d.nonce \in [Account -> Nat]
  BY <1>1, NoncesLogged DEF Continues
<1>8. BodyOK(d)
  <2>1. PositionsOf(d) \in [Contract!Market -> [Account -> PositionSlot]]
    BY <1>1 DEF BodyOK
  <2>2. ASSUME NEW m \in Contract!Market
        PROVE  /\ MarketsOf(d)[m].resolver = Nobody <=> m >= NextIdOf(d)
               /\ m >= NextIdOf(d) => MarketsOf(d)[m].yesPool = 0 /\ MarketsOf(d)[m].noPool = 0
    <3>1. /\ MarketsOf(c)[m].resolver = Nobody <=> m >= n
          /\ m >= n => MarketsOf(c)[m].yesPool = 0 /\ MarketsOf(c)[m].noPool = 0
      BY DEF BodyOK, n
    <3>2. m \in Nat /\ n \in Nat /\ (m >= n + 1 <=> m >= n /\ m # n)
      BY <1>5, <1>6
    <3> QED
      BY <1>1, <1>5, <3>1, <3>2
  <2> QED
    BY <1>3, <1>5, <1>7, <2>1, <2>2 DEF BodyOK
<1>9. CreationsFollow(p, d)
  <2>0. NextIdOf(p) \in Nat /\ NextIdOf(p) <= n /\ CreationsFollow(p, c) /\ n = NextIdOf(c)
    BY PipelineAssumption DEF BodyOK, Continues, CreationsFollow, n
  <2>1. NextIdOf(p) <= NextIdOf(d)
    BY <1>1, <1>5, <2>0
  <2>2. ASSUME NEW m \in Contract!Market, m < NextIdOf(p)
        PROVE  /\ MarketsOf(d)[m].resolver = MarketsOf(p)[m].resolver
               /\ MarketsOf(d)[m].deadline = MarketsOf(p)[m].deadline
    <3>1. m # n
      BY <1>5, <1>6, <2>0, <2>2
    <3> QED
      BY <1>5, <2>0, <2>2, <3>1 DEF CreationsFollow
  <2>3. ASSUME NEW i \in CreatedAt(c)
        PROVE  /\ c.logs[i].data.marketId \in NextIdOf(p) .. n - 1
               /\ c.logs[i].data.marketId \in NextIdOf(p) .. NextIdOf(d) - 1
               /\ c.logs[i].data.marketId # n /\ d.logs[i] = c.logs[i]
               /\ c.logs[i].data.resolver = MarketsOf(d)[c.logs[i].data.marketId].resolver
               /\ c.logs[i].data.deadline = MarketsOf(d)[c.logs[i].data.marketId].deadline
    <3> DEFINE m == c.logs[i].data.marketId
    <3>1. /\ m \in NextIdOf(p) .. n - 1
          /\ c.logs[i].data.resolver = MarketsOf(c)[m].resolver
          /\ c.logs[i].data.deadline = MarketsOf(c)[m].deadline
      BY <2>0 DEF CreationsFollow
    <3> HIDE DEF m
    <3>2. m # n /\ m \in NextIdOf(p) .. NextIdOf(d) - 1
      BY <1>1, <1>5, <2>0, <3>1
    <3>3. m \in Contract!Market
      <4>1. NextIdOf(p) >= 1 /\ n <= MaxMarkets /\ MaxMarkets \in Nat
        BY <1>1, PipelineAssumption DEF BodyOK, Contract!Market
      <4> QED
        BY <1>5, <2>0, <3>1, <4>1 DEF Contract!Market
    <3>4. d.logs[i] = c.logs[i]
      BY <1>3 DEF CreatedAt
    <3>5. MarketsOf(d)[m] = MarketsOf(c)[m]
      BY <1>5, <3>2, <3>3
    <3> QED
      BY <3>1, <3>2, <3>4, <3>5 DEF m
  <2>4. n \in NextIdOf(p) .. NextIdOf(d) - 1
    BY <1>1, <1>5, <2>0
  <2>5. \A i \in CreatedAt(d) :
          LET x == d.logs[i].data
          IN  /\ x.marketId \in NextIdOf(p) .. NextIdOf(d) - 1
              /\ x.resolver = MarketsOf(d)[x.marketId].resolver
              /\ x.deadline = MarketsOf(d)[x.marketId].deadline
    BY <1>2, <1>3, <1>4, <1>5, <2>3, <2>4
  <2>6. \A i, j \in CreatedAt(d) :
          d.logs[i].data.marketId = d.logs[j].data.marketId => i = j
    <3>1. \A i, j \in CreatedAt(c) :
            c.logs[i].data.marketId = c.logs[j].data.marketId => i = j
      BY <2>0 DEF CreationsFollow
    <3> QED
      BY <1>2, <1>3, <1>4, <2>3, <3>1
  <2>7. ASSUME NEW m \in NextIdOf(p) .. NextIdOf(d) - 1
        PROVE  \E i \in CreatedAt(d) : d.logs[i].data.marketId = m
    <3>1. CASE m = n
      BY <1>2, <1>3, <1>4, <3>1
    <3>2. CASE m # n
      <4>1. m \in NextIdOf(p) .. n - 1
        BY <1>1, <1>5, <2>0, <3>2
      <4>2. PICK i \in CreatedAt(c) : c.logs[i].data.marketId = m
        BY <2>0, <4>1 DEF CreationsFollow
      <4> QED
        BY <1>4, <2>3, <4>2
    <3> QED
      BY <3>1, <3>2
  <2> QED
    BY <2>1, <2>2, <2>5, <2>6, <2>7 DEF CreationsFollow
<1>10. TakingsFollow(p, d)
  <2> SUFFICES ASSUME NEW i \in TakenAt(d)
               PROVE  LET x == d.logs[i].data
                      IN  /\ x.marketId \in 1 .. NextIdOf(d) - 1 /\ x.user \in Account
                          /\ x.outcome \in {"Yes", "No"} /\ x.userOutcomeStake \in Nat \ {0}
                          /\ \/ x.marketId < NextIdOf(p)
                             \/ \E j \in CreatedAt(d) : j < i /\ d.logs[j].data.marketId = x.marketId
    BY DEF TakingsFollow
  <2> DEFINE x == c.logs[i].data
  <2>1. i \in TakenAt(c) /\ d.logs[i].data = x
    BY <1>3, <1>4 DEF TakenAt
  <2>2. /\ x.marketId \in 1 .. n - 1 /\ x.user \in Account
        /\ x.outcome \in {"Yes", "No"} /\ x.userOutcomeStake \in Nat \ {0}
        /\ \/ x.marketId < NextIdOf(p)
           \/ \E j \in CreatedAt(c) : j < i /\ c.logs[j].data.marketId = x.marketId
    BY <2>1 DEF Continues, TakingsFollow, n
  <2> HIDE DEF x
  <2>3. x.marketId \in 1 .. NextIdOf(d) - 1
    BY <1>1, <1>5, <2>2
  <2>4. \A j \in CreatedAt(c) : j \in CreatedAt(d) /\ d.logs[j] = c.logs[j]
    BY <1>3, <1>4 DEF CreatedAt
  <2> QED
    BY <2>1, <2>2, <2>3, <2>4
<1>11. PoolsFollow(p, d)
  <2>1. \A m : \A i \in MarketAt(c, m) : d.logs[i] = c.logs[i]
    BY <1>3 DEF MarketAt, TakenAt
  <2> QED
    BY <1>4, <1>5, <2>1 DEF Continues, PoolsFollow
<1>12. StakesFollow(p, d)
  <2>1. \A m, x, o : \A i \in SideAt(c, m, x, o) : d.logs[i] = c.logs[i]
    BY <1>3 DEF SideAt, MarketAt, TakenAt
  <2>2. \A m, x, o : StakeOf(d, m, x, o) = StakeOf(c, m, x, o)
    BY <1>1 DEF StakeOf
  <2> QED
    BY <1>4, <2>1, <2>2 DEF Continues, StakesFollow
<1> QED
  BY <1>7, <1>8, <1>9, <1>10, <1>11, <1>12 DEF Continues

\* What takePosition commits to, and the log it emits: the stake and the pools
\* after it.
Takes(c, d, a, m, o, v) ==
  /\ m \in Contract!Market /\ MarketsOf(c)[m].resolver # Nobody
  /\ o \in {"Yes", "No"} /\ v \in Nat \ {0}
  /\ MarketsOf(d) = [MarketsOf(c) EXCEPT ![m] =
                       IF o = "Yes" THEN [MarketsOf(c)[m] EXCEPT !.yesPool = @ + v]
                                    ELSE [MarketsOf(c)[m] EXCEPT !.noPool = @ + v]]
  /\ PositionsOf(d) = IF o = "Yes" THEN [PositionsOf(c) EXCEPT ![m][a].yesStake = @ + v]
                                   ELSE [PositionsOf(c) EXCEPT ![m][a].noStake = @ + v]
  /\ NextIdOf(d) = NextIdOf(c)
  /\ Logs(c, d, a, "PositionTaken",
          [marketId |-> m, user |-> a, outcome |-> o,
           userOutcomeStake |-> StakeOf(d, m, a, o),
           yesPool |-> MarketsOf(d)[m].yesPool, noPool |-> MarketsOf(d)[m].noPool])

\* One market and one stake change, the market in its pools only.
LEMMA TakesFacts ==
  ASSUME NEW c, BodyOK(c), NEW d, NEW a \in Account, NEW m, NEW o, NEW v,
         Takes(c, d, a, m, o, v)
  PROVE  /\ MarketsOf(d) \in [Contract!Market -> MarketSlot]
         /\ PositionsOf(d) \in [Contract!Market -> [Account -> PositionSlot]]
         /\ \A n \in Contract!Market :
              /\ MarketsOf(d)[n].resolver = MarketsOf(c)[n].resolver
              /\ MarketsOf(d)[n].deadline = MarketsOf(c)[n].deadline
              /\ n # m => MarketsOf(d)[n] = MarketsOf(c)[n]
         /\ \A n \in Contract!Market, x \in Account, s \in {"Yes", "No"} :
              n # m \/ x # a \/ s # o => StakeOf(d, n, x, s) = StakeOf(c, n, x, s)
         /\ StakeOf(d, m, a, o) \in Nat \ {0}
<1> DEFINE M == MarketsOf(c)
           P == PositionsOf(c)
           row == IF o = "Yes" THEN [M[m] EXCEPT !.yesPool = @ + v]
                               ELSE [M[m] EXCEPT !.noPool = @ + v]
           pos == IF o = "Yes" THEN [P[m][a] EXCEPT !.yesStake = @ + v]
                               ELSE [P[m][a] EXCEPT !.noStake = @ + v]
<1>0. /\ M \in [Contract!Market -> MarketSlot]
      /\ P \in [Contract!Market -> [Account -> PositionSlot]]
      /\ m \in Contract!Market /\ o \in {"Yes", "No"} /\ v \in Nat \ {0}
      /\ MarketsOf(d) = [M EXCEPT ![m] = row]
  BY DEF BodyOK, Takes
<1>1. PositionsOf(d) = [P EXCEPT ![m] = [P[m] EXCEPT ![a] = pos]]
  <2>1. PositionsOf(d) = IF o = "Yes" THEN [P EXCEPT ![m][a].yesStake = @ + v]
                                      ELSE [P EXCEPT ![m][a].noStake = @ + v]
    BY DEF Takes
  <2> HIDE DEF P
  <2> QED
    BY <1>0, <2>1
<1>2. /\ row \in MarketSlot /\ row.resolver = M[m].resolver /\ row.deadline = M[m].deadline
  <2>1. M[m] \in MarketSlot /\ v \in Nat
    BY <1>0
  <2> HIDE DEF M
  <2> QED
    BY <2>1 DEF MarketSlot
<1>3. /\ pos \in PositionSlot
      /\ o = "Yes" => pos.yesStake \in Nat \ {0} /\ pos.noStake = P[m][a].noStake
      /\ o # "Yes" => pos.noStake \in Nat \ {0} /\ pos.yesStake = P[m][a].yesStake
  <2>1. P[m][a] \in PositionSlot /\ v \in Nat \ {0}
    BY <1>0
  <2> DEFINE q == P[m][a]
             y == [q EXCEPT !.yesStake = @ + v]
             z == [q EXCEPT !.noStake = @ + v]
  <2> HIDE DEF q
  <2>2. q.yesStake \in Nat /\ q.noStake \in Nat /\ q.claimed = FALSE
        /\ q = [yesStake |-> q.yesStake, noStake |-> q.noStake, claimed |-> q.claimed]
    BY <2>1 DEF PositionSlot, q
  <2>3. /\ y = [yesStake |-> q.yesStake + v, noStake |-> q.noStake, claimed |-> q.claimed]
        /\ z = [yesStake |-> q.yesStake, noStake |-> q.noStake + v, claimed |-> q.claimed]
    BY <2>2
  <2>4. q.yesStake + v \in Nat \ {0} /\ q.noStake + v \in Nat \ {0}
    BY <2>1, <2>2
  <2> HIDE DEF y, z
  <2>5. /\ y \in PositionSlot /\ y.yesStake \in Nat \ {0} /\ y.noStake = q.noStake
        /\ z \in PositionSlot /\ z.noStake \in Nat \ {0} /\ z.yesStake = q.yesStake
    BY <2>2, <2>3, <2>4 DEF PositionSlot
  <2>6. pos = IF o = "Yes" THEN y ELSE z
    BY DEF y, z, q
  <2> HIDE DEF pos
  <2> QED
    BY <2>5, <2>6 DEF q
<1>a. \A n, x, s : /\ StakeOf(c, n, x, s) = IF s = "Yes" THEN P[n][x].yesStake
                                                         ELSE P[n][x].noStake
                   /\ StakeOf(d, n, x, s) = IF s = "Yes" THEN PositionsOf(d)[n][x].yesStake
                                                         ELSE PositionsOf(d)[n][x].noStake
  BY DEF StakeOf
<1> HIDE DEF M, P, row, pos
<1>4. /\ MarketsOf(d) \in [Contract!Market -> MarketSlot]
      /\ MarketsOf(d)[m] = row
      /\ \A n \in Contract!Market : n # m => MarketsOf(d)[n] = M[n]
  BY <1>0, <1>2
<1>5. /\ PositionsOf(d) \in [Contract!Market -> [Account -> PositionSlot]]
      /\ PositionsOf(d)[m][a] = pos
      /\ \A n \in Contract!Market, x \in Account :
           n # m \/ x # a => PositionsOf(d)[n][x] = P[n][x]
  <2>1. [P[m] EXCEPT ![a] = pos] \in [Account -> PositionSlot]
    BY <1>0, <1>3
  <2> QED
    BY <1>0, <1>1, <2>1
<1>6. StakeOf(d, m, a, o) \in Nat \ {0}
  BY <1>0, <1>3, <1>5, <1>a
<1>7. ASSUME NEW n \in Contract!Market, NEW x \in Account, NEW s \in {"Yes", "No"},
             n # m \/ x # a \/ s # o
      PROVE  StakeOf(d, n, x, s) = StakeOf(c, n, x, s)
  <2>1. CASE n # m \/ x # a
    BY <1>5, <1>a, <2>1
  <2>2. CASE n = m /\ x = a
    BY <1>0, <1>3, <1>5, <1>7, <1>a, <2>2
  <2> QED
    BY <2>1, <2>2
<1> QED
  BY <1>2, <1>4, <1>5, <1>6, <1>7 DEF M

\* Which log it adds.
LEMMA TakesLogs ==
  ASSUME NEW c, BodyOK(c), NEW d, NEW a, NEW m, NEW o, NEW v, Takes(c, d, a, m, o, v),
         NEW k, k = Len(c.logs) + 1
  PROVE  /\ CreatedAt(d) = CreatedAt(c)
         /\ TakenAt(d) = TakenAt(c) \cup {k}
         /\ MarketAt(d, m) = MarketAt(c, m) \cup {k}
         /\ \A n : n # m => MarketAt(d, n) = MarketAt(c, n)
         /\ SideAt(d, m, a, o) = SideAt(c, m, a, o) \cup {k}
         /\ \A n, x, s : n # m \/ x # a \/ s # o => SideAt(d, n, x, s) = SideAt(c, n, x, s)
         /\ d.logs[k].data.marketId = m /\ d.logs[k].data.user = a
         /\ d.logs[k].data.outcome = o
         /\ d.logs[k].data.userOutcomeStake = StakeOf(d, m, a, o)
         /\ d.logs[k].data.yesPool = MarketsOf(d)[m].yesPool
         /\ d.logs[k].data.noPool = MarketsOf(d)[m].noPool
<1> DEFINE data == [marketId |-> m, user |-> a, outcome |-> o,
                    userOutcomeStake |-> StakeOf(d, m, a, o),
                    yesPool |-> MarketsOf(d)[m].yesPool, noPool |-> MarketsOf(d)[m].noPool]
<1>1. Logs(c, d, a, "PositionTaken", data)
  BY DEF Takes
<1>2. /\ data.marketId = m /\ data.user = a /\ data.outcome = o
      /\ data.userOutcomeStake = StakeOf(d, m, a, o)
      /\ data.yesPool = MarketsOf(d)[m].yesPool /\ data.noPool = MarketsOf(d)[m].noPool
  OBVIOUS
<1> HIDE DEF data
<1>3. /\ \A i \in DOMAIN c.logs : i \in Nat /\ i < k
      /\ DOMAIN d.logs = DOMAIN c.logs \cup {k}
      /\ \A i \in DOMAIN c.logs : d.logs[i] = c.logs[i]
      /\ d.logs[k].topic = "PositionTaken" /\ d.logs[k].data = data
  BY <1>1, OneLogMore
<1>4. CreatedAt(d) = CreatedAt(c)
  BY <1>3 DEF CreatedAt
<1>5. TakenAt(d) = TakenAt(c) \cup {k}
  BY <1>3 DEF TakenAt
<1>6. \A i \in TakenAt(c) : d.logs[i] = c.logs[i]
  BY <1>3 DEF TakenAt
<1>7. /\ MarketAt(d, m) = MarketAt(c, m) \cup {k}
      /\ \A n : n # m => MarketAt(d, n) = MarketAt(c, n)
  BY <1>2, <1>3, <1>5, <1>6 DEF MarketAt
<1>8. \A n : \A i \in MarketAt(c, n) : d.logs[i] = c.logs[i]
  BY <1>6 DEF MarketAt
<1>9. SideAt(d, m, a, o) = SideAt(c, m, a, o) \cup {k}
  BY <1>2, <1>3, <1>7, <1>8 DEF SideAt
<1>10. ASSUME NEW n, NEW x, NEW s, n # m \/ x # a \/ s # o
       PROVE  SideAt(d, n, x, s) = SideAt(c, n, x, s)
  <2>1. CASE n # m
    BY <1>7, <1>8, <2>1 DEF SideAt
  <2>2. CASE n = m /\ (x # a \/ s # o)
    BY <1>2, <1>3, <1>7, <1>8, <2>2 DEF SideAt
  <2> QED
    BY <1>10, <2>1, <2>2
<1> QED
  BY <1>2, <1>3, <1>4, <1>5, <1>7, <1>9, <1>10

\* takePosition logs the stake and the pools it leaves.
LEMMA TakeFollows ==
  ASSUME NEW p, BodyOK(p), NEW c, BodyOK(c), Continues(p, c), NEW d, NEW a \in Account,
         NEW m, NEW o, NEW v, Takes(c, d, a, m, o, v)
  PROVE  BodyOK(d) /\ Continues(p, d)
<1> DEFINE k == Len(c.logs) + 1
           data == [marketId |-> m, user |-> a, outcome |-> o,
                    userOutcomeStake |-> StakeOf(d, m, a, o),
                    yesPool |-> MarketsOf(d)[m].yesPool, noPool |-> MarketsOf(d)[m].noPool]
<1>1. /\ Logs(c, d, a, "PositionTaken", data) /\ NextIdOf(d) = NextIdOf(c)
      /\ m \in Contract!Market /\ MarketsOf(c)[m].resolver # Nobody
      /\ o \in {"Yes", "No"}
  BY DEF Takes
<1> HIDE DEF data
<1>2. /\ IsSeq(d.logs) /\ k \in Nat
      /\ \A i \in DOMAIN c.logs : i \in Nat /\ i < k
      /\ \A i \in DOMAIN c.logs : d.logs[i] = c.logs[i]
  BY <1>1, OneLogMore
<1>3. /\ CreatedAt(d) = CreatedAt(c)
      /\ TakenAt(d) = TakenAt(c) \cup {k}
      /\ MarketAt(d, m) = MarketAt(c, m) \cup {k}
      /\ \A n : n # m => MarketAt(d, n) = MarketAt(c, n)
      /\ SideAt(d, m, a, o) = SideAt(c, m, a, o) \cup {k}
      /\ \A n, x, s : n # m \/ x # a \/ s # o => SideAt(d, n, x, s) = SideAt(c, n, x, s)
      /\ d.logs[k].data.marketId = m /\ d.logs[k].data.user = a
      /\ d.logs[k].data.outcome = o
      /\ d.logs[k].data.userOutcomeStake = StakeOf(d, m, a, o)
      /\ d.logs[k].data.yesPool = MarketsOf(d)[m].yesPool
      /\ d.logs[k].data.noPool = MarketsOf(d)[m].noPool
  BY TakesLogs
<1>4. /\ MarketsOf(d) \in [Contract!Market -> MarketSlot]
      /\ PositionsOf(d) \in [Contract!Market -> [Account -> PositionSlot]]
      /\ \A n \in Contract!Market :
           /\ MarketsOf(d)[n].resolver = MarketsOf(c)[n].resolver
           /\ MarketsOf(d)[n].deadline = MarketsOf(c)[n].deadline
           /\ n # m => MarketsOf(d)[n] = MarketsOf(c)[n]
      /\ \A n \in Contract!Market, x \in Account, s \in {"Yes", "No"} :
           n # m \/ x # a \/ s # o => StakeOf(d, n, x, s) = StakeOf(c, n, x, s)
      /\ StakeOf(d, m, a, o) \in Nat \ {0}
  BY TakesFacts
<1> HIDE DEF k
<1>5. NoncesFollow(p, d) /\ d.nonce \in [Account -> Nat]
  BY <1>1, NoncesLogged DEF Continues
<1>6. /\ m \in 1 .. NextIdOf(c) - 1 /\ ~ (m >= NextIdOf(c))
      /\ NextIdOf(c) \in Nat /\ NextIdOf(p) \in Nat
  <2>1. ~ (m >= NextIdOf(c)) /\ NextIdOf(c) \in 1 .. MaxMarkets + 1
        /\ NextIdOf(p) \in 1 .. MaxMarkets + 1
    BY <1>1 DEF BodyOK
  <2> QED
    BY <1>1, <2>1, PipelineAssumption DEF Contract!Market
<1>7. BodyOK(d)
  <2>1. ASSUME NEW n \in Contract!Market
        PROVE  /\ MarketsOf(d)[n].resolver = Nobody <=> n >= NextIdOf(d)
               /\ n >= NextIdOf(d) => MarketsOf(d)[n].yesPool = 0 /\ MarketsOf(d)[n].noPool = 0
    <3>1. /\ MarketsOf(c)[n].resolver = Nobody <=> n >= NextIdOf(c)
          /\ n >= NextIdOf(c) => MarketsOf(c)[n].yesPool = 0 /\ MarketsOf(c)[n].noPool = 0
      BY DEF BodyOK
    <3>2. n >= NextIdOf(c) => n # m
      BY <1>6
    <3> QED
      BY <1>1, <1>4, <3>1, <3>2
  <2>2. NextIdOf(d) \in 1 .. MaxMarkets + 1
    BY <1>1 DEF BodyOK
  <2> QED
    BY <1>2, <1>4, <1>5, <2>1, <2>2 DEF BodyOK
<1>8. CreationsFollow(p, d)
  <2>1. CreationsFollow(p, c)
    BY DEF Continues
  <2>2. \A i \in CreatedAt(c) : d.logs[i] = c.logs[i]
    BY <1>2 DEF CreatedAt
  <2>3. ASSUME NEW i \in CreatedAt(c)
        PROVE  c.logs[i].data.marketId \in Contract!Market
    <3>1. c.logs[i].data.marketId \in NextIdOf(p) .. NextIdOf(c) - 1
      BY <2>1 DEF CreationsFollow
    <3>2. NextIdOf(p) >= 1 /\ NextIdOf(c) <= MaxMarkets + 1 /\ MaxMarkets \in Nat
      BY PipelineAssumption DEF BodyOK
    <3> QED
      BY <1>6, <3>1, <3>2 DEF Contract!Market
  <2>4. \A n \in Contract!Market : n < NextIdOf(p) =>
          /\ MarketsOf(d)[n].resolver = MarketsOf(p)[n].resolver
          /\ MarketsOf(d)[n].deadline = MarketsOf(p)[n].deadline
    BY <1>4, <2>1 DEF CreationsFollow
  <2>5. ASSUME NEW i \in CreatedAt(d)
        PROVE  LET x == d.logs[i].data
               IN  /\ x.marketId \in NextIdOf(p) .. NextIdOf(d) - 1
                   /\ x.resolver = MarketsOf(d)[x.marketId].resolver
                   /\ x.deadline = MarketsOf(d)[x.marketId].deadline
    <3> DEFINE n == c.logs[i].data.marketId
    <3>1. i \in CreatedAt(c) /\ d.logs[i] = c.logs[i]
      BY <1>3, <2>2
    <3>2. /\ n \in NextIdOf(p) .. NextIdOf(c) - 1
          /\ c.logs[i].data.resolver = MarketsOf(c)[n].resolver
          /\ c.logs[i].data.deadline = MarketsOf(c)[n].deadline
      BY <2>1, <3>1 DEF CreationsFollow
    <3>3. /\ MarketsOf(d)[n].resolver = MarketsOf(c)[n].resolver
          /\ MarketsOf(d)[n].deadline = MarketsOf(c)[n].deadline
      BY <1>4, <2>3, <3>1
    <3> QED
      BY <1>1, <3>1, <3>2, <3>3
  <2>6. \A i, j \in CreatedAt(d) :
          d.logs[i].data.marketId = d.logs[j].data.marketId => i = j
    BY <1>3, <2>1, <2>2 DEF CreationsFollow
  <2>7. \A n \in NextIdOf(p) .. NextIdOf(d) - 1 :
          \E i \in CreatedAt(d) : d.logs[i].data.marketId = n
    BY <1>1, <1>3, <2>1, <2>2 DEF CreationsFollow
  <2>8. NextIdOf(p) <= NextIdOf(d)
    BY <1>1, <2>1 DEF CreationsFollow
  <2> QED
    BY <2>4, <2>5, <2>6, <2>7, <2>8 DEF CreationsFollow
<1>9. TakingsFollow(p, d)
  <2>0. \A j \in CreatedAt(c) : j \in CreatedAt(d) /\ d.logs[j] = c.logs[j]
    BY <1>2, <1>3 DEF CreatedAt
  <2> SUFFICES ASSUME NEW i \in TakenAt(d)
               PROVE  LET x == d.logs[i].data
                      IN  /\ x.marketId \in 1 .. NextIdOf(d) - 1 /\ x.user \in Account
                          /\ x.outcome \in {"Yes", "No"} /\ x.userOutcomeStake \in Nat \ {0}
                          /\ \/ x.marketId < NextIdOf(p)
                             \/ \E j \in CreatedAt(d) : j < i /\ d.logs[j].data.marketId = x.marketId
    BY DEF TakingsFollow
  <2>1. CASE i \in TakenAt(c)
    <3> DEFINE x == c.logs[i].data
    <3>1. d.logs[i].data = x
      BY <1>2, <2>1 DEF TakenAt
    <3>2. /\ x.marketId \in 1 .. NextIdOf(c) - 1 /\ x.user \in Account
          /\ x.outcome \in {"Yes", "No"} /\ x.userOutcomeStake \in Nat \ {0}
          /\ \/ x.marketId < NextIdOf(p)
             \/ \E j \in CreatedAt(c) : j < i /\ c.logs[j].data.marketId = x.marketId
      BY <2>1 DEF Continues, TakingsFollow
    <3> HIDE DEF x
    <3> QED
      BY <1>1, <2>0, <3>1, <3>2
  <2>2. CASE i = k
    <3>1. m < NextIdOf(p) \/ \E j \in CreatedAt(d) : j < k /\ d.logs[j].data.marketId = m
      <4>1. CASE m < NextIdOf(p)
        BY <4>1
      <4>2. CASE ~ (m < NextIdOf(p))
        <5>1. m \in NextIdOf(p) .. NextIdOf(c) - 1
          BY <1>6, <4>2
        <5>2. PICK j \in CreatedAt(c) : c.logs[j].data.marketId = m
          BY <5>1 DEF Continues, CreationsFollow
        <5>3. j < k
          BY <1>2 DEF CreatedAt
        <5> QED
          BY <2>0, <5>2, <5>3
      <4> QED
        BY <4>1, <4>2
    <3>2. m \in 1 .. NextIdOf(d) - 1
      BY <1>1, <1>6
    <3> QED
      BY <1>1, <1>3, <1>4, <2>2, <3>1, <3>2
  <2> QED
    BY <1>3, <2>1, <2>2
<1>10. PoolsFollow(p, d)
  <2>1. PoolsFollow(p, c)
    BY DEF Continues
  <2> SUFFICES ASSUME NEW n \in Contract!Market
               PROVE  /\ MarketAt(d, n) = {} =>
                           /\ MarketsOf(d)[n].yesPool = MarketsOf(p)[n].yesPool
                           /\ MarketsOf(d)[n].noPool = MarketsOf(p)[n].noPool
                      /\ \A i \in MarketAt(d, n) : LastIn(MarketAt(d, n), i) =>
                           /\ MarketsOf(d)[n].yesPool = d.logs[i].data.yesPool
                           /\ MarketsOf(d)[n].noPool = d.logs[i].data.noPool
    BY DEF PoolsFollow
  <2>2. CASE n # m
    <3>1. \A i \in MarketAt(c, n) : d.logs[i] = c.logs[i]
      BY <1>2 DEF MarketAt, TakenAt
    <3> QED
      BY <1>3, <1>4, <2>1, <2>2, <3>1 DEF PoolsFollow
  <2>3. CASE n = m
    <3>1. ASSUME NEW i \in MarketAt(d, m), LastIn(MarketAt(d, m), i)
          PROVE  i = k
      <4>1. k <= i /\ (i = k \/ i \in DOMAIN c.logs)
        BY <1>3, <3>1 DEF LastIn, MarketAt, TakenAt
      <4> QED
        BY <1>2, <4>1
    <3> QED
      BY <1>3, <2>3, <3>1
  <2> QED
    BY <2>2, <2>3
<1>11. StakesFollow(p, d)
  <2>1. StakesFollow(p, c)
    BY DEF Continues
  <2> SUFFICES ASSUME NEW n \in Contract!Market, NEW x \in Account, NEW s \in {"Yes", "No"}
               PROVE  /\ SideAt(d, n, x, s) = {} => StakeOf(d, n, x, s) = StakeOf(p, n, x, s)
                      /\ \A i \in SideAt(d, n, x, s) : LastIn(SideAt(d, n, x, s), i) =>
                           StakeOf(d, n, x, s) = d.logs[i].data.userOutcomeStake
    BY DEF StakesFollow
  <2>2. CASE n # m \/ x # a \/ s # o
    <3>1. \A i \in SideAt(c, n, x, s) : d.logs[i] = c.logs[i]
      BY <1>2 DEF SideAt, MarketAt, TakenAt
    <3>2. SideAt(d, n, x, s) = SideAt(c, n, x, s) /\ StakeOf(d, n, x, s) = StakeOf(c, n, x, s)
      BY <1>3, <1>4, <2>2
    <3> QED
      BY <2>1, <3>1, <3>2 DEF StakesFollow
  <2>3. CASE n = m /\ x = a /\ s = o
    <3>1. ASSUME NEW i \in SideAt(d, m, a, o), LastIn(SideAt(d, m, a, o), i)
          PROVE  i = k
      <4>1. k <= i /\ (i = k \/ i \in DOMAIN c.logs)
        BY <1>3, <3>1 DEF LastIn, SideAt, MarketAt, TakenAt
      <4> QED
        BY <1>2, <4>1
    <3> QED
      BY <1>3, <2>3, <3>1
  <2> QED
    BY <2>2, <2>3
<1> QED
  BY <1>5, <1>7, <1>8, <1>9, <1>10, <1>11 DEF Continues

----------------------------------------------------------------------------
\* The chain

\* The parts of the pending body.
LEMMA BodyParts ==
  /\ MarketsOf(Body) = contractMarkets /\ PositionsOf(Body) = contractPositions
  /\ NextIdOf(Body) = nextMarketId /\ Body.nonce = nonce /\ Body.logs = pending
  /\ MarketsOf(Body') = contractMarkets' /\ PositionsOf(Body') = contractPositions'
  /\ NextIdOf(Body') = nextMarketId' /\ Body'.nonce = nonce' /\ Body'.logs = pending'
  BY DEF Body, contractStorage, MarketsOf, PositionsOf, NextIdOf

\* The last body of the chain is one.
LEMMA LastBody ==
  ASSUME ChainInv
  PROVE  /\ Len(head) \in Nat /\ Len(head) >= 1 /\ IsSeq(head)
         /\ \A n \in 1 .. Len(head) : At(head, n) = head[n] /\ BodyOK(head[n])
         /\ BodyOK(At(head, Len(head)))
<1>1. IsSeq(head) /\ Len(head) \in Nat /\ Len(head) >= 1
  BY SeqFacts DEF ChainInv, WellFormed
<1>2. \A n \in 1 .. Len(head) : At(head, n) = head[n] /\ BodyOK(head[n])
  BY <1>1 DEF At, ChainInv, WellFormed
<1> QED
  BY <1>1, <1>2

\* The contract as it is deployed.
LEMMA DeployedChain ==
  ASSUME PipelineInit
  PROVE  ChainInv
<1>1. /\ contractMarkets = [m \in Contract!Market |-> Contract!NoMarket]
      /\ contractPositions =
           [m \in Contract!Market |-> [a \in Account |-> Contract!NoPosition]]
      /\ nextMarketId = 1 /\ nonce = [a \in Account |-> 0] /\ pending = <<>>
      /\ head = <<Body>>
  BY DEF PipelineInit, Contract!Init
<1>2. /\ Body.logs = <<>> /\ MarketsOf(Body) = MarketsOf(Blank)
      /\ PositionsOf(Body) = PositionsOf(Blank)
      /\ NextIdOf(Body) = NextIdOf(Blank) /\ Body.nonce = Blank.nonce
  BY <1>1, BodyParts DEF Blank, MarketsOf, PositionsOf, NextIdOf
<1>3. BodyOK(Body) /\ Continues(Blank, Body)
  BY <1>2, BlankTold, NothingYet
<1>4. Continues(Body, Body)
  BY <1>2, <1>3, NothingYet
<1>5. IsSeq(<<>>) /\ Len(<<>>) = 0
  <2>1. <<>> \in Seq(Nat)
    BY EmptySeq
  <2> QED
    BY <2>1, EmptySeq DEF IsSeq
<1>6. WellFormed(<<>>) /\ At(<<>>, Len(<<>>)) = Blank
  BY <1>5 DEF WellFormed, At
<1>7. <<Body>> = Append(<<>>, Body)
  <2>1. IsSeq(<<Body>>) /\ Len(<<Body>>) = 1 /\ <<Body>>[1] = Body
    <3>1. <<Body>> \in Seq({Body})
      OBVIOUS
    <3> QED
      BY <3>1 DEF IsSeq
  <2>2. /\ IsSeq(Append(<<>>, Body)) /\ Len(Append(<<>>, Body)) = 1
        /\ Append(<<>>, Body)[1] = Body
    <3>1. ASSUME NEW s, IsSeq(s), Len(s) = 0
          PROVE  /\ IsSeq(Append(s, Body)) /\ Len(Append(s, Body)) = 1
                 /\ Append(s, Body)[1] = Body
      <4>1. /\ IsSeq(Append(s, Body)) /\ Len(Append(s, Body)) = Len(s) + 1
            /\ Append(s, Body)[Len(s) + 1] = Body
        BY <3>1, AppendFacts
      <4> QED
        BY <3>1, <4>1
    <3> QED
      BY <1>5, <3>1, Zenon
  <2>3. \A i \in 1 .. 1 : i = 1
    OBVIOUS
  <2> QED
    BY <2>1, <2>2, <2>3, SameSeq
<1>8. WellFormed(head) /\ Len(head) = 1 /\ At(head, 1) = Body
  BY <1>1, <1>3, <1>5, <1>6, <1>7, AppendWellFormed
<1> QED
  BY <1>3, <1>4, <1>8 DEF ChainInv

\* A transaction continues the last block.
LEMMA CreateMarketChain ==
  ASSUME ChainInv, NEW a \in Account, NEW d \in Deadlines, NEW r \in Resolvers,
         CreateMarket(a, d, r)
  PROVE  ChainInv'
<1> DEFINE data == [marketId |-> nextMarketId, resolver |-> r, creator |-> a, deadline |-> d]
<1>1. /\ nextMarketId \in Contract!Market
      /\ contractMarkets' = [contractMarkets EXCEPT ![nextMarketId] =
                               [Contract!NoMarket EXCEPT !.resolver = r, !.deadline = d]]
      /\ nextMarketId' = nextMarketId + 1 /\ contractPositions' = contractPositions
  BY DEF CreateMarket, Contract!CreateMarket
<1>2. /\ pending' = Append(pending,
                      [topic |-> "MarketCreated", data |-> data,
                       tx |-> [from |-> a, nonce |-> nonce[a], call |-> <<"createMarket", d, r>>]])
      /\ nonce' = [nonce EXCEPT ![a] = @ + 1] /\ head' = head
  BY DEF CreateMarket, Emit
<1>3. Logs(Body, Body', a, "MarketCreated", data)
  BY <1>2, BodyParts DEF Logs
<1>4. Creates(Body, Body', a, d, r)
  BY <1>1, <1>3, BodyParts, PipelineAssumption DEF Creates
<1>5. BodyOK(Body') /\ Continues(At(head, Len(head)), Body')
  BY <1>4, LastBody, CreateFollows DEF ChainInv
<1> QED
  BY <1>2, <1>5 DEF ChainInv

\* takePosition makes the pending body go on from the last block.
LEMMA TakePositionChain ==
  ASSUME ChainInv, NEW a \in Account, NEW m \in 1 .. MaxMarkets, NEW o \in {"Yes", "No"},
         NEW v \in Amounts, TakePosition(a, m, o, v)
  PROVE  ChainInv'
<1> DEFINE data == [marketId |-> m, user |-> a, outcome |-> o,
                    userOutcomeStake |-> StakeOf(Body', m, a, o),
                    yesPool |-> MarketsOf(Body')[m].yesPool,
                    noPool |-> MarketsOf(Body')[m].noPool]
<1>1. /\ contractMarkets[m].resolver # Nobody
      /\ contractMarkets' =
           [contractMarkets EXCEPT ![m] =
              IF o = "Yes" THEN [contractMarkets[m] EXCEPT !.yesPool = @ + v]
                           ELSE [contractMarkets[m] EXCEPT !.noPool = @ + v]]
      /\ contractPositions' =
           IF o = "Yes" THEN [contractPositions EXCEPT ![m][a].yesStake = @ + v]
                        ELSE [contractPositions EXCEPT ![m][a].noStake = @ + v]
      /\ nextMarketId' = nextMarketId
  BY DEF TakePosition, Contract!TakePosition, Contract!Exists, Contract!PoolAfter
<1>2. Contract!StakeOn(m, a, o)' = StakeOf(Body', m, a, o)
  BY BodyParts DEF Contract!StakeOn, StakeOf
<1>3. /\ pending' = Append(pending,
                      [topic |-> "PositionTaken", data |-> data,
                       tx |-> [from |-> a, nonce |-> nonce[a],
                               call |-> <<"takePosition", m, o, v>>]])
      /\ nonce' = [nonce EXCEPT ![a] = @ + 1] /\ head' = head
  BY <1>2, BodyParts DEF TakePosition, EmitTaken, Emit
<1>4. Logs(Body, Body', a, "PositionTaken", data)
  BY <1>3, BodyParts DEF Logs
<1>5. Takes(Body, Body', a, m, o, v)
  BY <1>1, <1>4, BodyParts, PipelineAssumption DEF Takes, Contract!Market
<1>6. BodyOK(Body') /\ Continues(At(head, Len(head)), Body')
  BY <1>5, LastBody, TakeFollows DEF ChainInv
<1> QED
  BY <1>3, <1>6 DEF ChainInv

\* A block commits to the storage after its last transaction.
LEMMA MineBlockChain ==
  ASSUME ChainInv, MineBlock
  PROVE  ChainInv'
<1>1. /\ head' = Append(head, Body) /\ pending' = <<>> /\ nonce' = nonce
      /\ contractMarkets' = contractMarkets /\ contractPositions' = contractPositions
      /\ nextMarketId' = nextMarketId
  BY DEF MineBlock, contractVars, contractStorage
<1>2. /\ WellFormed(head') /\ Len(head') = Len(head) + 1
      /\ At(head', Len(head) + 1) = Body
  BY <1>1, AppendWellFormed DEF ChainInv
<1>3. BodyOK(Body') /\ Continues(Body, Body')
  <2>1. BodyOK(Body)
    BY DEF ChainInv
  <2> QED
    BY <1>1, <2>1, BodyParts, NothingYet
<1>4. Len(head') >= 1
  BY <1>2, LastBody
<1> QED
  BY <1>2, <1>3, <1>4 DEF ChainInv

\* A reorganization restores what the ancestor commits to.
LEMMA ReorganizeChain ==
  ASSUME ChainInv, Reorganize
  PROVE  ChainInv'
<1>1. PICK n \in 1 .. Len(head) - 1 :
        /\ head' = Prefix(head, n) /\ contractMarkets' = MarketsOf(head[n])
        /\ contractPositions' = PositionsOf(head[n])
        /\ nextMarketId' = NextIdOf(head[n]) /\ nonce' = head[n].nonce
  BY DEF Reorganize, MarketsOf, PositionsOf, NextIdOf
<1>2. pending' = <<>>
  BY DEF Reorganize
<1>3. n \in 1 .. Len(head) /\ n \in 0 .. Len(head) /\ n \in 0 .. n /\ n >= 1
  BY LastBody
<1>4. WellFormed(head') /\ Len(head') = n /\ At(head', n) = head[n]
  BY <1>1, <1>3, LastBody, PrefixWellFormed DEF ChainInv
<1>5. BodyOK(Body') /\ Continues(head[n], Body')
  <2>1. BodyOK(head[n])
    BY <1>3, LastBody
  <2> QED
    BY <1>1, <1>2, <2>1, BodyParts, NothingYet
<1> QED
  BY <1>3, <1>4, <1>5 DEF ChainInv

\* The index and the API read the chain only.
LEMMA ChainKept ==
  ASSUME ChainInv, UNCHANGED chainVars
  PROVE  ChainInv'
<1>1. UNCHANGED <<head, Body>>
  BY DEF chainVars, contractVars, contractStorage, Body
<1> QED
  BY <1>1 DEF ChainInv

\* Every step keeps the chain a history of the contract.
LEMMA StepChain ==
  ASSUME ChainInv, [PipelineNext]_pipelineVars
  PROVE  ChainInv'
<1>1. CASE Transaction
  BY <1>1, CreateMarketChain, TakePositionChain DEF Transaction
<1>2. CASE MineBlock
  BY <1>2, MineBlockChain
<1>3. CASE Reorganize
  BY <1>3, ReorganizeChain
<1>4. CASE IndexBlock \/ Recover \/ Api \/ UNCHANGED pipelineVars
  <2>1. UNCHANGED chainVars
    BY <1>4 DEF IndexBlock, Recover, Api, pipelineVars
  <2> QED
    BY <2>1, ChainKept
<1> QED
  BY <1>1, <1>2, <1>3, <1>4 DEF PipelineNext

----------------------------------------------------------------------------
\* The index

\* The two instances read the same tables.
LEMMA SameTables ==
  /\ Store!Tables = Index!Tables
  /\ \A a : Store!RetainedEvents(a) = Index!RetainedEvents(a)
  BY DEF Store!Tables, Index!Tables, Store!RetainedEvents, Index!RetainedEvents

\* What the archive is while nothing is wrong: a chronicle of known logs.
LEMMA ArchiveTold ==
  ASSUME IndexInv
  PROVE  /\ Len(checkpoint) \in Nat /\ IsSeq(checkpoint)
         /\ IsFiniteSet(events) /\ Index!Chronicle(events)
         /\ \A e \in events : /\ e.log.kind \in {"created", "position"}
                              /\ Len(e.block) \in 1 .. Len(checkpoint)
         /\ Told(events, At(checkpoint, Len(checkpoint)))
         /\ BodyOK(At(checkpoint, Len(checkpoint)))
<1>1. Len(checkpoint) \in Nat /\ IsSeq(checkpoint) /\ WellFormed(checkpoint)
      /\ Len(checkpoint) \in 0 .. Len(checkpoint)
  BY SeqFacts DEF IndexInv, WellFormed
<1>2. events = RowsUpTo(checkpoint, Len(checkpoint))
  BY DEF IndexInv
<1>3. \A e \in events : Len(e.block) \in 1 .. Len(checkpoint)
  BY <1>1, <1>2, RowsAreOf
<1>4. /\ Told(events, At(checkpoint, Len(checkpoint)))
      /\ BodyOK(At(checkpoint, Len(checkpoint)))
  BY <1>1, <1>2, HistoryTold
<1> QED
  BY <1>1, <1>3, <1>4 DEF Told, OrderTold

\* The block after the checkpoint, its body, and the rows the store has not got.
NextBlock == Prefix(head, NextHeight)
NextBody == head[NextHeight]
NewRows == RowsOf(NextBlock, NextBody) \ events

\* It follows what the archive has.
LEMMA NextFollows ==
  ASSUME ChainInv, IndexInv, Follows, NextHeight <= Len(head)
  PROVE  /\ NextHeight \in 1 .. Len(head) /\ NextHeight - 1 = Len(checkpoint)
         /\ WellFormed(NextBlock) /\ Len(NextBlock) = NextHeight
         /\ checkpoint = Prefix(head, Len(checkpoint))
         /\ Store!EventRows(NextBlock, LogsOf(NextBlock)) = RowsOf(NextBlock, NextBody)
         /\ BodyOK(NextBody)
         /\ Continues(At(checkpoint, Len(checkpoint)), NextBody)
         /\ NewBlock(events, NextBlock, NextBody)
         /\ events \cup RowsOf(NextBlock, NextBody) = RowsUpTo(NextBlock, NextHeight)
<1> DEFINE n == NextHeight
           k == Len(checkpoint)
<1>1. /\ k \in Nat /\ Len(head) \in Nat /\ n = k + 1
      /\ n \in 1 .. Len(head) /\ n - 1 = k /\ n \in 0 .. Len(head)
      /\ k \in 0 .. Len(head) /\ k \in 0 .. n /\ n \in 0 .. n /\ k \in 0 .. k /\ n # 0
  BY ArchiveTold, LastBody DEF NextHeight
<1>2. checkpoint = Prefix(head, k)
  BY DEF Follows, Store!IsAncestor, Height
<1> HIDE DEF n, k
<1>3. WellFormed(head) /\ IsSeq(head)
  BY DEF ChainInv, WellFormed
<1>4. WellFormed(Prefix(head, n)) /\ Len(Prefix(head, n)) = n
  BY <1>1, <1>3, PrefixWellFormed
<1>5. Store!EventRows(Prefix(head, n), LogsOf(Prefix(head, n)))
        = RowsOf(Prefix(head, n), head[n])
  BY <1>1, <1>3, RowsOfBlock
<1>6. At(checkpoint, k) = At(head, k)
  BY <1>1, <1>2, <1>3, PrefixWellFormed
<1>7. BodyOK(head[n]) /\ Continues(At(head, k), head[n])
  BY <1>1, <1>3 DEF WellFormed
<1>8. RowsUpTo(Prefix(head, n), n) = RowsUpTo(head, n)
      /\ RowsUpTo(Prefix(head, k), k) = RowsUpTo(head, k)
      /\ RowsUpTo(head, n) = RowsUpTo(head, k) \cup RowsOf(Prefix(head, n), head[n])
  BY <1>1, <1>3, RowsOfPrefix, RowsGrow
<1>9. events = RowsUpTo(head, k)
  BY <1>2, <1>8 DEF IndexInv, k
<1>10. NewBlock(events, Prefix(head, n), head[n])
  <2>1. \A e \in events : Len(e.block) < n
    <3>1. \A e \in events : Len(e.block) \in 1 .. k
      BY ArchiveTold DEF k
    <3> QED
      BY <1>1, <3>1
  <2> QED
    BY <1>1, <1>4, <1>7, <2>1, ArchiveTold DEF NewBlock, Told, BodyOK
<1> QED
  BY <1>1, <1>2, <1>4, <1>5, <1>6, <1>7, <1>8, <1>9, <1>10 DEF n, k, NextBlock, NextBody

\* A commit applies the rows of the next block over the tables.
LEMMA CommitApplies ==
  ASSUME ChainInv, IndexInv, Follows, NextHeight <= Len(head)
  PROVE  /\ Store!Projected(NextBlock, LogsOf(NextBlock)) =
              Index!ApplyInOrder(Index!Tables, NewRows)
         /\ Index!Applicable(Index!Tables, events, NewRows)
         /\ events \cup NewRows = events \cup RowsOf(NextBlock, NextBody)
<1> DEFINE R == RowsOf(NextBlock, NextBody)
<1>1. NewBlock(events, NextBlock, NextBody)
      /\ Store!EventRows(NextBlock, LogsOf(NextBlock)) = R
  BY NextFollows
<1>2. Store!Projected(NextBlock, LogsOf(NextBlock)) =
        Index!ApplyInOrder(Index!Tables, NewRows)
  <2>1. Index!EventRows(NextBlock, LogsOf(NextBlock)) = R
    BY <1>1 DEF Store!EventRows, Index!EventRows
  <2> QED
    BY <2>1, SameStore DEF Index!Projected, NewRows
<1>3. OrderTold(events \cup R)
  BY <1>1, OrderStep
<1> HIDE DEF R
<1>4. NewRows \in SUBSET (events \cup R) /\ NewRows \in SUBSET R
      /\ events \cup NewRows = events \cup R
  BY DEF NewRows, R
<1>5. IsFiniteSet(NewRows) /\ Index!Chronicle(NewRows)
      /\ \A e \in NewRows : e.log.kind \in {"created", "position"}
  BY <1>3, <1>4, FS_Subset DEF OrderTold, Index!Chronicle
<1>6. \A e \in NewRows, f \in events : Index!Earlier(f, e)
  BY <1>1, <1>4, NewRowsLater DEF R
<1>7. Index!IsTables(Index!Tables) /\ Index!Tables.error = "none"
  BY DEF Index!IsTables, Index!Tables
<1>8. Index!Says(Index!Tables, events)
  BY SameTables DEF IndexInv
<1>9. Index!Ordered(Index!Tables, NewRows)
  BY <1>5, <1>7, SameFinite DEF Index!Ordered
<1>10. Index!Applicable(Index!Tables, events, NewRows)
  BY <1>6, <1>8, <1>9 DEF Index!Applicable, Index!PositionsIn
<1> QED
  BY <1>2, <1>4, <1>10 DEF R

\* The blocks of a history.
LEMMA BlocksOf ==
  ASSUME NEW h, WellFormed(h), NEW n \in 0 .. Len(h)
  PROVE  {Prefix(Prefix(h, n), k) : k \in 1 .. n} = {Prefix(h, k) : k \in 1 .. n}
<1>1. IsSeq(h) /\ Len(h) \in Nat /\ 1 .. n \subseteq 0 .. n
  BY SeqFacts DEF WellFormed
<1>2. \A k \in 1 .. n : Prefix(Prefix(h, n), k) = Prefix(h, k)
  BY <1>1, PrefixOfPrefix
<1> QED
  BY <1>2

\* commit_block keeps the index of the chain it extends.
LEMMA IndexBlockIndex ==
  ASSUME ChainInv, IndexInv, IndexBlock
  PROVE  IndexInv'
<1> DEFINE b == NextBlock
           R == RowsOf(NextBlock, NextBody)
           T == Index!ApplyInOrder(Index!Tables, NewRows)
<1>1. /\ Follows /\ NextHeight <= Len(head)
      /\ Store!CommitBlock(b, LogsOf(b))
  BY DEF IndexBlock, NextBlock
<1>2. /\ NextHeight \in 1 .. Len(head) /\ NextHeight - 1 = Len(checkpoint)
      /\ WellFormed(b) /\ Len(b) = NextHeight
      /\ checkpoint = Prefix(head, Len(checkpoint))
      /\ Store!EventRows(b, LogsOf(b)) = R
      /\ events \cup R = RowsUpTo(b, NextHeight)
  BY <1>1, NextFollows
<1>3. /\ Store!Projected(b, LogsOf(b)) = T
      /\ Index!Applicable(Index!Tables, events, NewRows)
      /\ events \cup NewRows = events \cup R
  BY <1>1, CommitApplies
<1> HIDE DEF R, T, b
<1>4. /\ Store!CommitErrors(b, LogsOf(b)) = {}
      /\ blocks' = blocks \cup {b} /\ events' = events \cup R /\ checkpoint' = b
      /\ markets' = T.markets /\ states' = T.states /\ positions' = T.positions
  BY <1>1, <1>2, <1>3 DEF Store!CommitBlock
<1>5. T.error = "none"
  BY <1>3, <1>4 DEF Store!CommitErrors
<1>6. Index!Says(T, events \cup R)
  <2>1. Index!Says(T, events \cup NewRows)
    BY <1>3, <1>5, StoreAssumptions, Index!AppliedInOrder DEF T
  <2> QED
    BY <1>3, <2>1
<1>7. Index!Says(Store!Tables, events)'
  <2>1. /\ Store!Tables'.markets = T.markets /\ Store!Tables'.states = T.states
        /\ Store!Tables'.positions = T.positions
    BY <1>4 DEF Store!Tables
  <2> QED
    BY <1>4, <1>6, <2>1 DEF Index!Says
<1>8. blocks' = {Prefix(b, k) : k \in 1 .. NextHeight}
  <2>1. Len(head) \in Nat /\ WellFormed(head) /\ IsSeq(head)
    BY LastBody DEF ChainInv
  <2>2. /\ Len(checkpoint) \in 0 .. Len(head) /\ NextHeight \in 0 .. Len(head)
        /\ 1 .. NextHeight = (1 .. Len(checkpoint)) \cup {NextHeight}
    BY <1>2, <2>1, ArchiveTold
  <2>3. {Prefix(b, k) : k \in 1 .. NextHeight} = {Prefix(head, k) : k \in 1 .. NextHeight}
    BY <2>1, <2>2, BlocksOf DEF b, NextBlock
  <2>4. blocks = {Prefix(head, k) : k \in 1 .. Len(checkpoint)}
    <3> DEFINE m == Len(checkpoint)
    <3>1. blocks = {Prefix(checkpoint, k) : k \in 1 .. m}
      BY DEF IndexInv
    <3>2. checkpoint = Prefix(head, m) /\ m \in 0 .. Len(head)
      BY <1>2, <2>2
    <3> HIDE DEF m
    <3>3. {Prefix(Prefix(head, m), k) : k \in 1 .. m} = {Prefix(head, k) : k \in 1 .. m}
      BY <2>1, <3>2, BlocksOf
    <3>4. blocks = {Prefix(head, k) : k \in 1 .. m}
      BY <3>1, <3>2, <3>3
    <3> QED
      BY <3>4 DEF m
  <2>5. {Prefix(head, k) : k \in (1 .. Len(checkpoint)) \cup {NextHeight}} =
        {Prefix(head, k) : k \in 1 .. Len(checkpoint)} \cup {Prefix(head, NextHeight)}
    OBVIOUS
  <2>6. b = Prefix(head, NextHeight)
    BY DEF b, NextBlock
  <2> QED
    BY <1>4, <2>2, <2>3, <2>4, <2>5, <2>6
<1> QED
  BY <1>2, <1>4, <1>7, <1>8 DEF IndexInv

\* The archive up to a height.
LEMMA RetainedRows ==
  ASSUME NEW h, WellFormed(h), NEW n \in 0 .. Len(h)
  PROVE  {e \in RowsUpTo(h, Len(h)) : Len(e.block) <= n} = RowsUpTo(h, n)
<1>1. Len(h) \in Nat /\ Len(h) \in 0 .. Len(h)
  BY SeqFacts DEF WellFormed
<1>2. ASSUME NEW e \in RowsUpTo(h, Len(h)), Len(e.block) <= n
      PROVE  e \in RowsUpTo(h, n)
  <2>1. /\ Len(e.block) \in 1 .. Len(h)
        /\ e \in RowsOf(Prefix(h, Len(e.block)), h[Len(e.block)])
    BY <1>1, RowsAreOf
  <2>2. Len(e.block) \in 1 .. n
    BY <1>1, <1>2, <2>1
  <2>3. RowsUpTo(h, n) = UNION {RowsOf(Prefix(h, k), h[k]) : k \in 1 .. n}
    BY RowsAreOf
  <2> QED
    BY <2>1, <2>2, <2>3
<1>3. ASSUME NEW e \in RowsUpTo(h, n)
      PROVE  e \in RowsUpTo(h, Len(h)) /\ Len(e.block) <= n
  <2>1. /\ Len(e.block) \in 1 .. n
        /\ e \in RowsOf(Prefix(h, Len(e.block)), h[Len(e.block)])
    BY RowsAreOf
  <2>2. Len(e.block) \in 1 .. Len(h) /\ Len(e.block) <= n
    BY <1>1, <2>1
  <2>3. RowsUpTo(h, Len(h)) = UNION {RowsOf(Prefix(h, k), h[k]) : k \in 1 .. Len(h)}
    BY <1>1, RowsAreOf
  <2> QED
    BY <2>1, <2>2, <2>3
<1> QED
  BY <1>2, <1>3

\* rollback_to_ancestor leaves the index of the ancestor.
LEMMA RecoverIndex ==
  ASSUME IndexInv, Recover
  PROVE  IndexInv'
<1>1. PICK n \in CommonHeights : Store!RollbackToAncestor(Prefix(head, n))
  BY DEF Recover
<1> DEFINE a == Prefix(checkpoint, n)
           T == Index!Replayed(a)
<1>2. n \in 1 .. Len(checkpoint) /\ a = Prefix(head, n)
  BY DEF CommonHeights
<1>3. /\ Len(checkpoint) \in Nat /\ IsSeq(checkpoint) /\ WellFormed(checkpoint)
      /\ n \in 0 .. Len(checkpoint) /\ n \in 0 .. n
  BY <1>2, ArchiveTold DEF IndexInv
<1>4. WellFormed(a) /\ Len(a) = n
  BY <1>3, PrefixWellFormed
<1>5. Store!RollbackToAncestor(a)
  BY <1>1, <1>2
<1> HIDE DEF a, T
<1>6. /\ Store!RollbackErrors(a) = {}
      /\ blocks' = {b \in blocks : Len(b) <= n}
      /\ events' = Index!RetainedEvents(a) /\ checkpoint' = a
      /\ markets' = T.markets /\ states' = T.states /\ positions' = T.positions
  BY <1>4, <1>5, SameStore, SameTables DEF Store!RollbackToAncestor, T, Height
<1>7. T.error = "none"
  BY <1>6, SameStore DEF Store!RollbackErrors, T
<1>8. /\ Index!Replayed(a) = Index!ApplyInOrder(Index!ReplayBase(a), Index!ReplayRows(a))
      /\ Index!Applicable(Index!ReplayBase(a), Index!Creations(a), Index!ReplayRows(a))
      /\ Index!Creations(a) \cup Index!ReplayRows(a) = Index!RetainedEvents(a)
  <2>1. Index!Says(Index!Tables, events)
    BY SameTables DEF IndexInv
  <2>2. Index!IsFiniteSet(events) /\ Index!Chronicle(events)
    BY ArchiveTold, SameFinite
  <2>3. \A e \in events : /\ e.log.kind \in {"created", "position"}
                          /\ Height(e.block) >= 1
    <3>1. \A e \in events : /\ e.log.kind \in {"created", "position"}
                            /\ Len(e.block) \in 1 .. Len(checkpoint)
      BY ArchiveTold
    <3> QED
      BY <1>3, <3>1 DEF Height
  <2> QED
    BY <2>1, <2>2, <2>3, StoreAssumptions, Index!RollbackReplays
<1>9. Index!Says(T, Index!RetainedEvents(a))
  BY <1>7, <1>8, StoreAssumptions, Index!AppliedInOrder DEF T
<1>10. Index!Says(Store!Tables, events)'
  <2>1. /\ Store!Tables'.markets = T.markets /\ Store!Tables'.states = T.states
        /\ Store!Tables'.positions = T.positions
    BY <1>6 DEF Store!Tables
  <2> QED
    BY <1>6, <1>9, <2>1 DEF Index!Says
<1>11. events' = RowsUpTo(a, n)
  <2>1. Index!RetainedEvents(a) = {e \in events : Len(e.block) <= n}
    BY <1>4 DEF Index!RetainedEvents, Height
  <2>2. {e \in events : Len(e.block) <= n} = RowsUpTo(checkpoint, n)
    BY <1>3, RetainedRows DEF IndexInv
  <2>3. RowsUpTo(a, n) = RowsUpTo(checkpoint, n)
    BY <1>3, RowsOfPrefix DEF a
  <2> QED
    BY <1>6, <2>1, <2>2, <2>3
<1>12. blocks' = {Prefix(a, k) : k \in 1 .. n}
  <2>1. {Prefix(a, k) : k \in 1 .. n} = {Prefix(checkpoint, k) : k \in 1 .. n}
    BY <1>3, BlocksOf DEF a
  <2>2. blocks = {Prefix(checkpoint, k) : k \in 1 .. Len(checkpoint)}
    BY DEF IndexInv
  <2>3. \A k \in 1 .. Len(checkpoint) : Len(Prefix(checkpoint, k)) = k
    <3>1. \A k \in 1 .. Len(checkpoint) : k \in 0 .. Len(checkpoint)
      BY <1>3
    <3> QED
      BY <1>3, <3>1, PrefixFacts
  <2>4. \A k \in 1 .. Len(checkpoint) : k <= n <=> k \in 1 .. n
    BY <1>3
  <2>5. 1 .. n \subseteq 1 .. Len(checkpoint)
    BY <1>3
  <2>6. {b \in blocks : Len(b) <= n} = {Prefix(checkpoint, k) : k \in 1 .. n}
    BY <2>2, <2>3, <2>4, <2>5
  <2> QED
    BY <1>6, <2>1, <2>6
<1> QED
  BY <1>4, <1>6, <1>10, <1>11, <1>12 DEF IndexInv

\* The empty index says nothing.
LEMMA EmptyIndex ==
  ASSUME PipelineInit
  PROVE  IndexInv
<1>1. /\ blocks = {} /\ events = {} /\ markets = {} /\ states = {} /\ positions = {}
      /\ checkpoint = <<>>
  BY DEF PipelineInit, Store!EmptyStore, NoBlock
<1>2. IsSeq(<<>>) /\ Len(<<>>) = 0
  <2>1. <<>> \in Seq(Nat) /\ Len(<<>>) = 0
    BY EmptySeq
  <2> QED
    BY <2>1 DEF IsSeq
<1>3. WellFormed(<<>>) /\ RowsUpTo(<<>>, 0) = {} /\ 1 .. 0 = {}
  BY <1>2 DEF WellFormed, RowsUpTo
<1>4. Index!MarketsSaid({}) = {} /\ Index!StatesSaid({}) = {} /\ Index!UsersSaid({}) = {}
  BY DEF Index!MarketsSaid, Index!StatesSaid, Index!UsersSaid, Index!PositionsIn
<1>5. Index!Says(Store!Tables, events)
  BY <1>1, <1>4 DEF Store!Tables, Index!Says
<1>6. Len(checkpoint) = 0
  BY <1>1, <1>2
<1> QED
  BY <1>1, <1>3, <1>5, <1>6 DEF IndexInv

\* The other steps leave the store alone.
LEMMA StoreKept ==
  ASSUME Transaction \/ MineBlock \/ Reorganize \/ Api \/ UNCHANGED pipelineVars
  PROVE  UNCHANGED <<blocks, events, markets, states, positions, checkpoint>>
<1>1. CASE Transaction
  <2>1. ASSUME NEW a, NEW call, NEW topic, NEW data, Emit(a, call, topic, data)
        PROVE  UNCHANGED <<blocks, events, markets, states, positions, checkpoint>>
    BY <2>1, Zenon DEF Emit, storeVars, tables
  <2> QED
    BY <1>1, <2>1 DEF Transaction, CreateMarket, TakePosition, EmitTaken
<1>2. CASE MineBlock \/ Reorganize
  BY <1>2 DEF MineBlock, Reorganize, storeVars, tables
<1>3. CASE Api
  BY <1>3, Zenon DEF Api, ApiNext, StartWalk, FetchPage, tables
<1>4. CASE UNCHANGED pipelineVars
  BY <1>4 DEF pipelineVars, storeVars, tables
<1> QED
  BY <1>1, <1>2, <1>3, <1>4

\* Every step keeps the index that of the checkpoint.
LEMMA StepIndex ==
  ASSUME ChainInv, IndexInv, [PipelineNext]_pipelineVars
  PROVE  IndexInv'
<1>1. CASE IndexBlock
  BY <1>1, IndexBlockIndex
<1>2. CASE Recover
  BY <1>2, RecoverIndex
<1>3. CASE Transaction \/ MineBlock \/ Reorganize \/ Api \/ UNCHANGED pipelineVars
  <2>1. UNCHANGED <<blocks, events, markets, states, positions, checkpoint>>
    BY <1>3, StoreKept
  <2>2. Store!Tables' = Store!Tables
    BY <2>1 DEF Store!Tables
  <2> QED
    BY <2>1, <2>2 DEF IndexInv
<1> QED
  BY <1>1, <1>2, <1>3 DEF PipelineNext

----------------------------------------------------------------------------
\* The store accepts the next block

\* The calls of an orphaned block that are sent again have the nonces they had,
\* which no call of the branch has.
LEMMA NoEventConflict ==
  ASSUME ChainInv, IndexInv, Follows, NextHeight <= Len(head),
         NEW e \in RowsOf(NextBlock, NextBody), NEW f \in events
  PROVE  ~ Store!SameIdentity(e, f)
<1> DEFINE p == At(checkpoint, Len(checkpoint))
<1>1. /\ f.log.tx.from \in Account /\ f.log.tx.nonce \in Nat
      /\ f.log.tx.nonce < p.nonce[f.log.tx.from]
  BY ArchiveTold DEF Told, NoncesTold
<1>2. e.log.ix \in DOMAIN NextBody.logs /\ e.log.tx = NextBody.logs[e.log.ix].tx
  BY RowIsOf, RowSays
<1>3. /\ e.log.tx.from \in Account /\ e.log.tx.nonce \in Nat
      /\ p.nonce[e.log.tx.from] <= e.log.tx.nonce
  BY <1>2, NextFollows DEF Continues, NoncesFollow
<1>4. \A x \in Account : p.nonce[x] \in Nat
  BY ArchiveTold DEF BodyOK
<1> HIDE DEF p
<1>5. e.log.tx # f.log.tx
  BY <1>1, <1>3, <1>4
<1> QED
  BY <1>5 DEF Store!SameIdentity

\* A market is created once.
LEMMA NextSameCreations ==
  ASSUME ChainInv, IndexInv, Follows, NextHeight <= Len(head)
  PROVE  Index!SameCreations(events, NewRows)
<1> DEFINE F == events \cup RowsOf(NextBlock, NextBody)
<1>1. Told(F, NextBody)
  <2>1. /\ WellFormed(NextBlock) /\ Len(NextBlock) = NextHeight
        /\ NextHeight \in 1 .. Len(head)
        /\ NewBlock(events, NextBlock, NextBody)
        /\ Continues(At(checkpoint, Len(checkpoint)), NextBody) /\ BodyOK(NextBody)
    BY NextFollows
  <2> QED
    BY <2>1, ArchiveTold, ToldStep DEF NewBlock
<1>2. \A e, f \in F : /\ e.log.kind = "created" /\ f.log.kind = "created"
                     /\ e.log.market = f.log.market
                    => e = f
  BY <1>1 DEF Told, CreationsTold
<1>3. \A e \in F : e.log.kind \in {"created", "position"}
  BY <1>1 DEF Told, OrderTold
<1>4. NewRows \subseteq F /\ events \cup NewRows \subseteq F
  BY DEF NewRows
<1> HIDE DEF F
<1> QED
  BY <1>2, <1>3, <1>4 DEF Index!SameCreations

\* A stake is taken in a market that was created before.
LEMMA NextCreatedBefore ==
  ASSUME ChainInv, IndexInv, Follows, NextHeight <= Len(head)
  PROVE  Index!CreatedBefore(events, NewRows)
<1> DEFINE b == NextBlock
           c == NextBody
           p == At(checkpoint, Len(checkpoint))
<1>1. TakingsFollow(p, c) /\ CreationsTold(events, p) /\ NewBlock(events, b, c)
      /\ BodyOK(p)
  BY NextFollows, ArchiveTold DEF Continues, Told
<1> SUFFICES ASSUME NEW e \in Index!PositionsIn(NewRows)
             PROVE  \E f \in events \cup NewRows :
                      /\ f.log.kind # "position" /\ f.log.market = e.log.market
                      /\ f \in events \/ Index!Precedes(f, e)
  BY DEF Index!CreatedBefore
<1>2. e \in RowsOf(b, c) /\ e.log.kind = "position"
  BY DEF Index!PositionsIn, NewRows
<1>3. e.log.ix \in TakenAt(c) /\ e = TakenRow(b, c, e.log.ix)
      /\ e.log.market = c.logs[e.log.ix].data.marketId
  BY <1>2, RowIsOf, RowSays
<1> HIDE DEF b, c, p
<1>4. /\ e.log.market \in 1 .. NextIdOf(c) - 1
      /\ \/ e.log.market < NextIdOf(p)
         \/ \E j \in CreatedAt(c) :
              j < e.log.ix /\ c.logs[j].data.marketId = e.log.market
  <2> DEFINE i == e.log.ix
             m == c.logs[i].data.marketId
  <2>1. i \in TakenAt(c) /\ e.log.market = m
    BY <1>3
  <2> HIDE DEF i
  <2>2. /\ m \in 1 .. NextIdOf(c) - 1
        /\ \/ m < NextIdOf(p)
           \/ \E j \in CreatedAt(c) : j < i /\ c.logs[j].data.marketId = m
    BY <1>1, <2>1, Zenon DEF TakingsFollow
  <2> HIDE DEF m
  <2> QED
    BY <2>1, <2>2 DEF i
<1>5. CASE e.log.market < NextIdOf(p)
  <2>1. NextIdOf(p) \in Nat
    BY <1>1, PipelineAssumption DEF BodyOK
  <2>2. e.log.market \in 1 .. NextIdOf(p) - 1
    BY <1>4, <1>5, <2>1
  <2>3. PICK f \in events : f.log.kind = "created" /\ f.log.market = e.log.market
    BY <1>1, <2>2 DEF CreationsTold
  <2> QED
    BY <2>3
<1>6. CASE \E j \in CreatedAt(c) :
             j < e.log.ix /\ c.logs[j].data.marketId = e.log.market
  <2>1. PICK j \in CreatedAt(c) : j < e.log.ix /\ c.logs[j].data.marketId = e.log.market
    BY <1>6
  <2> DEFINE f == CreatedRow(b, c, j)
  <2>2. f \in RowsOf(b, c) /\ f.log.ix = j /\ f.log.kind = "created"
        /\ f.log.market = e.log.market
    BY <2>1, RowSays DEF RowsOf
  <2> HIDE DEF f
  <2>3. Index!Precedes(f, e)
    BY <1>1, <1>2, <2>1, <2>2, NewRowsLater DEF Index!Earlier
  <2>4. f \in events \cup NewRows
    BY <2>2 DEF NewRows, b, c
  <2> QED
    BY <2>2, <2>3, <2>4
<1> QED
  BY <1>4, <1>5, <1>6

\* Hence no key and no check of the schema refuses the next block.
LEMMA NextAccepted ==
  ASSUME ChainInv, IndexInv
  PROVE  StoreAccepts
<1> SUFFICES ASSUME Follows, NextHeight <= Len(head)
             PROVE  Store!CommitErrors(NextBlock, LogsOf(NextBlock)) = {}
  BY DEF StoreAccepts, NextBlock
<1>1. /\ NextHeight \in 1 .. Len(head) /\ NextHeight - 1 = Len(checkpoint)
      /\ Len(NextBlock) = NextHeight
      /\ Store!EventRows(NextBlock, LogsOf(NextBlock)) = RowsOf(NextBlock, NextBody)
  BY NextFollows
<1>2. Len(checkpoint) \in Nat /\ IsSeq(checkpoint)
  BY ArchiveTold
<1>3. ~ \E c \in Store!StoredAt(Len(NextBlock)) : c # NextBlock
  <2>1. \A k \in 1 .. Len(checkpoint) : Len(Prefix(checkpoint, k)) = k
    <3>1. \A k \in 1 .. Len(checkpoint) : k \in 0 .. Len(checkpoint)
      BY <1>2
    <3> QED
      BY <1>2, <3>1, PrefixFacts
  <2>2. \A c \in blocks : Len(c) \in 1 .. Len(checkpoint)
    BY <2>1 DEF IndexInv
  <2>3. \A c \in blocks : Len(c) # NextHeight
    BY <1>1, <1>2, <2>2
  <2> QED
    BY <1>1, <2>3 DEF Store!StoredAt, Height
<1>4. ~ \E e \in Store!EventRows(NextBlock, LogsOf(NextBlock)), f \in events :
          Store!SameIdentity(e, f) /\ e # f
  BY <1>1, NoEventConflict
<1>5. Store!Projected(NextBlock, LogsOf(NextBlock)).error = "none"
  <2>1. /\ Store!Projected(NextBlock, LogsOf(NextBlock)) =
             Index!ApplyInOrder(Index!Tables, NewRows)
        /\ Index!Applicable(Index!Tables, events, NewRows)
    BY CommitApplies
  <2> DEFINE error == Index!ApplyInOrder(Index!Tables, NewRows).error
  <2>2. error # "MarketIdentityConflict"
    BY <2>1, NextSameCreations, StoreAssumptions, Index!NoIdentityConflict
  <2>3. error # "ForeignKeyViolation"
    BY <2>1, NextCreatedBefore, StoreAssumptions, Index!NoForeignKeyViolation
  <2>4. error \in Index!ProjectionErrors \cup {"none"}
    BY <2>1, StoreAssumptions, Index!AppliedErrors DEF Index!Applicable
  <2> QED
    BY <2>1, <2>2, <2>3, <2>4 DEF Index!ProjectionErrors
<1>6. ~ (Height(checkpoint) > Height(NextBlock))
  BY <1>1, <1>2 DEF Height
<1> QED
  BY <1>3, <1>4, <1>5, <1>6 DEF Store!CommitErrors, Height

----------------------------------------------------------------------------
\* The logs of a chain

\* A log of a block is that of one of its rows.
LEMMA RowOfLog ==
  ASSUME NEW h, WellFormed(h), NEW n \in 1 .. Len(h), NEW l
  PROVE  l \in LogsOf(Prefix(h, n)) <=>
           [block |-> Prefix(h, n), log |-> l] \in RowsOf(Prefix(h, n), h[n])
<1> DEFINE b == Prefix(h, n)
<1> HIDE DEF b
<1>1. Store!EventRows(b, LogsOf(b)) = RowsOf(b, h[n])
  BY RowsOfBlock DEF b
<1>2. [block |-> b, log |-> l] \in {[block |-> b, log |-> k] : k \in LogsOf(b)}
        <=> l \in LogsOf(b)
  <2>1. \A k : [block |-> b, log |-> k] = [block |-> b, log |-> l] => k = l
    <3>1. \A k : [block |-> b, log |-> k].log = k
      OBVIOUS
    <3> QED
      BY <3>1
  <2> QED
    BY <2>1
<1> QED
  BY <1>1, <1>2 DEF Store!EventRows, b

\* The rows of a block are in the archive from that block on.
LEMMA RowsStay ==
  ASSUME NEW h, WellFormed(h), NEW n \in 0 .. Len(h), NEW m \in 1 .. n
  PROVE  RowsOf(Prefix(h, m), h[m]) \subseteq RowsUpTo(h, n)
<1>1. RowsUpTo(h, n) = UNION {RowsOf(Prefix(h, k), h[k]) : k \in 1 .. n}
  BY RowsAreOf
<1> QED
  BY <1>1

\* Two logs of a chain: one transaction is in one block, a market is created once.
LEMMA TwoLogs ==
  ASSUME NEW h, WellFormed(h), NEW n \in 1 .. Len(h), NEW m \in 1 .. n,
         NEW l \in LogsOf(Prefix(h, n)), NEW k \in LogsOf(Prefix(h, m))
  PROVE  /\ k.tx = l.tx => m = n
         /\ m = n /\ k.ix = l.ix => k = l
         /\ k.kind = "created" /\ l.kind = "created" /\ k.market = l.market =>
              m = n /\ k = l
<1> DEFINE e == [block |-> Prefix(h, n), log |-> l]
           f == [block |-> Prefix(h, m), log |-> k]
           p == At(h, n - 1)
<1>1. /\ IsSeq(h) /\ Len(h) \in Nat /\ n \in 0 .. Len(h) /\ n - 1 \in 0 .. Len(h)
      /\ m \in 0 .. Len(h) /\ m \in 1 .. Len(h) /\ n \in 1 .. n
      /\ m # n => m \in 1 .. n - 1
  BY SeqFacts DEF WellFormed
<1>2. e \in RowsOf(Prefix(h, n), h[n]) /\ f \in RowsOf(Prefix(h, m), h[m])
  BY <1>1, RowOfLog
<1>3. e.log = l /\ f.log = k /\ Len(e.block) = n /\ Len(f.block) = m
  <2>1. Len(Prefix(h, n)) = n /\ Len(Prefix(h, m)) = m
    BY <1>1, PrefixFacts
  <2> QED
    BY <2>1
<1>4. e \in RowsUpTo(h, n) /\ f \in RowsUpTo(h, n)
  BY <1>1, <1>2, RowsStay
<1>5. /\ Told(RowsUpTo(h, n), At(h, n)) /\ Told(RowsUpTo(h, n - 1), p) /\ BodyOK(p)
      /\ Continues(p, h[n])
  BY <1>1, HistoryTold DEF WellFormed
<1>6. m # n => f \in RowsUpTo(h, n - 1)
  BY <1>1, <1>2, RowsStay
<1> HIDE DEF e, f, p
<1>7. k.tx = l.tx => m = n
  <2> SUFFICES ASSUME k.tx = l.tx, m # n PROVE FALSE
    OBVIOUS
  <2>1. /\ k.tx.from \in Account /\ k.tx.nonce \in Nat
        /\ k.tx.nonce < p.nonce[k.tx.from]
    BY <1>3, <1>5, <1>6 DEF Told, NoncesTold
  <2>2. e.log.ix \in DOMAIN h[n].logs /\ e.log.tx = h[n].logs[e.log.ix].tx
    BY <1>2, RowIsOf, RowSays
  <2>3. l.tx.nonce \in Nat /\ p.nonce[l.tx.from] <= l.tx.nonce
    BY <1>3, <1>5, <2>2 DEF Continues, NoncesFollow
  <2>4. p.nonce[k.tx.from] \in Nat
    BY <1>5, <2>1 DEF BodyOK
  <2> QED
    BY <2>1, <2>3, <2>4
<1>8. m = n /\ k.ix = l.ix => k = l
  <2> SUFFICES ASSUME m = n, k.ix = l.ix PROVE k = l
    OBVIOUS
  <2>1. e = f
    BY <1>2, <1>3, OneRow
  <2> QED
    BY <1>3, <2>1
<1>9. k.kind = "created" /\ l.kind = "created" /\ k.market = l.market => m = n /\ k = l
  <2> SUFFICES ASSUME k.kind = "created", l.kind = "created", k.market = l.market
               PROVE  m = n /\ k = l
    OBVIOUS
  <2>1. e = f
    BY <1>3, <1>4, <1>5 DEF Told, CreationsTold
  <2> QED
    BY <1>3, <2>1
<1> QED
  BY <1>7, <1>8, <1>9

\* A stake is taken in a market created before it.
LEMMA TakenAfterCreated ==
  ASSUME NEW h, WellFormed(h), NEW n \in 1 .. Len(h), NEW l \in LogsOf(Prefix(h, n)),
         l.kind = "position"
  PROVE  \E m \in 1 .. n : \E k \in LogsOf(Prefix(h, m)) :
           /\ k.kind = "created" /\ k.market = l.market
           /\ m < n \/ k.ix < l.ix
<1> DEFINE b == Prefix(h, n)
           c == h[n]
           e == [block |-> b, log |-> l]
           p == At(h, n - 1)
<1>1. /\ IsSeq(h) /\ Len(h) \in Nat /\ n \in 0 .. Len(h) /\ n - 1 \in 0 .. Len(h)
      /\ n \in 1 .. n /\ \A k \in 1 .. n - 1 : k \in 1 .. n /\ k \in 1 .. Len(h) /\ k < n
  BY SeqFacts DEF WellFormed
<1>2. e \in RowsOf(b, c) /\ e.log = l
  BY RowOfLog
<1>3. /\ Told(RowsUpTo(h, n - 1), p) /\ BodyOK(p) /\ Continues(p, c)
  BY <1>1, HistoryTold DEF WellFormed
<1> HIDE DEF e, c, p
<1>4. e.log.ix \in TakenAt(c) /\ e.log.market = c.logs[e.log.ix].data.marketId
  BY <1>2, RowIsOf, RowSays
<1>5. /\ l.market \in 1 .. NextIdOf(c) - 1
      /\ \/ l.market < NextIdOf(p)
         \/ \E j \in CreatedAt(c) : j < l.ix /\ c.logs[j].data.marketId = l.market
  BY <1>2, <1>3, <1>4 DEF Continues, TakingsFollow
<1>6. CASE l.market < NextIdOf(p)
  <2>1. NextIdOf(p) \in Nat
    BY <1>3, PipelineAssumption DEF BodyOK
  <2>2. l.market \in 1 .. NextIdOf(p) - 1
    BY <1>5, <1>6, <2>1
  <2>3. PICK f \in RowsUpTo(h, n - 1) : f.log.kind = "created" /\ f.log.market = l.market
    BY <1>3, <2>2 DEF Told, CreationsTold
  <2> DEFINE m == Len(f.block)
  <2>4. m \in 1 .. n - 1 /\ f.block = Prefix(h, m) /\ f \in RowsOf(Prefix(h, m), h[m])
    BY <1>1, RowsAreOf
  <2>5. f = [block |-> Prefix(h, m), log |-> f.log]
    <3>1. \/ f = CreatedRow(Prefix(h, m), h[m], f.log.ix)
          \/ f = TakenRow(Prefix(h, m), h[m], f.log.ix)
      BY <2>4, RowIsOf
    <3>2. \A x, y, i : /\ CreatedRow(x, y, i) = [block |-> x, log |-> CreatedRow(x, y, i).log]
                       /\ TakenRow(x, y, i) = [block |-> x, log |-> TakenRow(x, y, i).log]
      BY DEF CreatedRow, TakenRow
    <3> QED
      BY <3>1, <3>2
  <2> HIDE DEF m
  <2>6. f.log \in LogsOf(Prefix(h, m))
    BY <1>1, <2>4, <2>5, RowOfLog
  <2> QED
    BY <1>1, <2>3, <2>4, <2>6
<1>7. CASE \E j \in CreatedAt(c) : j < l.ix /\ c.logs[j].data.marketId = l.market
  <2>1. PICK j \in CreatedAt(c) : j < l.ix /\ c.logs[j].data.marketId = l.market
    BY <1>7
  <2> DEFINE k == CreatedRow(b, c, j).log
  <2>2. CreatedRow(b, c, j) = [block |-> b, log |-> k]
    BY DEF CreatedRow
  <2>3. CreatedRow(b, c, j) \in RowsOf(b, c)
    BY DEF RowsOf
  <2>4. k \in LogsOf(b)
    BY <2>2, <2>3, RowOfLog DEF c
  <2>5. k.kind = "created" /\ k.market = l.market /\ k.ix < l.ix
    BY <2>1, RowSays
  <2> QED
    BY <1>1, <2>4, <2>5
<1> QED
  BY <1>5, <1>6, <1>7

\* Hence the contract's logs are what the indexer's proofs assume.
LEMMA LogsAssumed ==
  ASSUME ChainInv
  PROVE  LogsAreAsAssumed
  BY TwoLogs, TakenAfterCreated DEF LogsAreAsAssumed, ChainInv

----------------------------------------------------------------------------
\* What the API answers

\* The last block indexed, and what the archive tells of it.
LEMMA IndexedBody ==
  ASSUME IndexInv, checkpoint # NoBlock, NEW c, c = Last(checkpoint)
  PROVE  /\ Told(events, c) /\ BodyOK(c)
         /\ IndexedMarkets = MarketsOf(c) /\ IndexedPositions = PositionsOf(c)
         /\ markets = Index!MarketsSaid(events) /\ states = Index!StatesSaid(events)
         /\ positions = Index!UsersSaid(events)
<1>1. Len(checkpoint) \in Nat /\ IsSeq(checkpoint)
  BY ArchiveTold
<1>2. Len(checkpoint) # 0
  <2> SUFFICES ASSUME Len(checkpoint) = 0 PROVE FALSE
    OBVIOUS
  <2>1. PICK S : checkpoint \in Seq(S)
    BY <1>1 DEF IsSeq
  <2>2. checkpoint = <<>>
    BY <2>1, EmptySeq
  <2> QED
    BY <2>2 DEF NoBlock
<1>3. At(checkpoint, Len(checkpoint)) = c
  BY <1>2 DEF At, Last
<1>4. Told(events, c) /\ BodyOK(c)
  BY <1>3, ArchiveTold
<1>5. /\ markets = Index!MarketsSaid(events) /\ states = Index!StatesSaid(events)
      /\ positions = Index!UsersSaid(events)
  BY DEF IndexInv, Index!Says, Store!Tables
<1>6. IndexedMarkets = MarketsOf(c) /\ IndexedPositions = PositionsOf(c)
  BY DEF IndexedMarkets, IndexedPositions, MarketsOf, PositionsOf
<1> QED
  BY <1>4, <1>5, <1>6

\* The rows of the list: one for each market created.
LEMMA MarketListed ==
  ASSUME NEW E, NEW c, Told(E, c), BodyOK(c), NEW m \in 1 .. MaxMarkets,
         NEW S, S = Index!MarketsSaid(E)
  PROVE  /\ m >= NextIdOf(c) => {r \in S : r.market = m} = {}
         /\ m < NextIdOf(c) =>
              \E r : /\ {q \in S : q.market = m} = {r} /\ r.market = m
                     /\ r.terms.resolver = MarketsOf(c)[m].resolver
                     /\ r.terms.deadline = MarketsOf(c)[m].deadline
<1>0. NextIdOf(c) \in Nat /\ m \in Nat /\ m >= 1
  BY PipelineAssumption DEF BodyOK
<1>1. \A e : /\ Index!MarketRow(e).market = e.log.market
             /\ Index!MarketRow(e).terms = e.log.terms
  BY DEF Index!MarketRow
<1>2. S = {Index!MarketRow(e) : e \in {f \in E : f.log.kind = "created"}}
  <2>1. E \ Index!PositionsIn(E) = {f \in E : f.log.kind = "created"}
    BY DEF Told, OrderTold, Index!PositionsIn
  <2> QED
    BY <2>1 DEF Index!MarketsSaid
<1>3. ASSUME m >= NextIdOf(c)
      PROVE  {r \in S : r.market = m} = {}
  <2>1. \A e \in E : e.log.kind = "created" => e.log.market \in 1 .. NextIdOf(c) - 1
    BY DEF Told, CreationsTold
  <2>2. \A e \in E : e.log.kind = "created" => e.log.market # m
    BY <1>0, <1>3, <2>1
  <2> QED
    BY <1>1, <1>2, <2>2
<1>4. ASSUME m < NextIdOf(c)
      PROVE  \E r : /\ {q \in S : q.market = m} = {r} /\ r.market = m
                    /\ r.terms.resolver = MarketsOf(c)[m].resolver
                    /\ r.terms.deadline = MarketsOf(c)[m].deadline
  <2>1. m \in 1 .. NextIdOf(c) - 1
    BY <1>0, <1>4
  <2>2. PICK e \in E : e.log.kind = "created" /\ e.log.market = m
    BY <2>1 DEF Told, CreationsTold
  <2>3. \A f \in E : f.log.kind = "created" /\ f.log.market = m => f = e
    BY <2>2 DEF Told, CreationsTold
  <2>4. /\ e.log.terms.resolver = MarketsOf(c)[m].resolver
        /\ e.log.terms.deadline = MarketsOf(c)[m].deadline
    BY <2>2 DEF Told, CreationsTold
  <2>5. {q \in S : q.market = m} = {Index!MarketRow(e)}
    BY <1>1, <1>2, <2>2, <2>3
  <2> QED
    BY <1>1, <2>2, <2>4, <2>5
<1> QED
  BY <1>3, <1>4

\* COALESCE over the left join answers the pools of the contract.
LEMMA PoolsServed ==
  ASSUME NEW c, Told(events, c), states = Index!StatesSaid(events),
         NEW m \in Contract!Market
  PROVE  /\ PoolOf(m, "yes") = MarketsOf(c)[m].yesPool
         /\ PoolOf(m, "no") = MarketsOf(c)[m].noPool
<1> DEFINE S == Index!OfMarket(events, m)
           row == {s \in states : s.market = m}
<1>1. \A n : Index!StateIn(events, n).market = n
  BY DEF Index!StateIn
<1>2. CASE S = {}
  <2>1. m \notin {e.log.market : e \in Index!PositionsIn(events)}
    BY <1>2 DEF Index!OfMarket
  <2>2. row = {}
    BY <1>1, <2>1 DEF Index!StatesSaid
  <2>3. MarketsOf(c)[m].yesPool = 0 /\ MarketsOf(c)[m].noPool = 0
    BY <1>2 DEF Told, PoolsTold
  <2> QED
    BY <2>2, <2>3 DEF PoolOf
<1>3. CASE S # {}
  <2>1. m \in {e.log.market : e \in Index!PositionsIn(events)}
    BY <1>3 DEF Index!OfMarket
  <2>2. row = {Index!StateIn(events, m)}
    BY <1>1, <2>1 DEF Index!StatesSaid
  <2>3. /\ MarketsOf(c)[m].yesPool = Index!LatestOf(S).log.yesPool
        /\ MarketsOf(c)[m].noPool = Index!LatestOf(S).log.noPool
    BY <1>3 DEF Told, PoolsTold
  <2>4. /\ Index!StateIn(events, m)["yes"] = Index!LatestOf(S).log.yesPool
        /\ Index!StateIn(events, m)["no"] = Index!LatestOf(S).log.noPool
    BY DEF Index!StateIn
  <2> HIDE DEF S
  <2>5. row # {} /\ (CHOOSE s \in row : TRUE) = Index!StateIn(events, m)
    BY <2>2
  <2> QED
    BY <2>3, <2>4, <2>5 DEF PoolOf
<1> QED
  BY <1>2, <1>3

\* The stakes of an account, and who has one.
LEMMA StakesServed ==
  ASSUME NEW E, NEW c, Told(E, c), NEW m \in Contract!Market, NEW a \in Account
  PROVE  /\ PositionsOf(c)[m][a].yesStake = Index!StakeIn(E, <<m, a>>, "yes")
         /\ PositionsOf(c)[m][a].noStake = Index!StakeIn(E, <<m, a>>, "no")
         /\ (\E e \in Index!PositionsIn(E) : e.log.market = m /\ e.log.user = a) <=>
              PositionsOf(c)[m][a].yesStake > 0 \/ PositionsOf(c)[m][a].noStake > 0
<1> DEFINE k == <<m, a>>
<1>1. /\ PositionsOf(c)[m][a].yesStake = Index!StakeIn(E, k, "yes")
      /\ PositionsOf(c)[m][a].noStake = Index!StakeIn(E, k, "no")
  <2>1. /\ StakeOf(c, m, a, "Yes") = Index!StakeIn(E, k, BinaryOutcome("Yes"))
        /\ StakeOf(c, m, a, "No") = Index!StakeIn(E, k, BinaryOutcome("No"))
    BY DEF Told, StakesTold
  <2> QED
    BY <2>1 DEF StakeOf, BinaryOutcome
<1>2. ASSUME NEW o, Index!OfSide(E, k, o) # {}
      PROVE  Index!StakeIn(E, k, o) \in Nat /\ Index!StakeIn(E, k, o) > 0
  <2> DEFINE S == Index!OfSide(E, k, o)
  <2>1. S \in SUBSET E /\ \A e \in S : e.log.kind = "position"
    BY DEF Index!OfSide, Index!OfUser, Index!PositionsIn
  <2> HIDE DEF S
  <2>2. S # {} /\ IsFiniteSet(S) /\ Index!Chronicle(S)
    BY <1>2, <2>1, FS_Subset DEF Told, OrderTold, Index!Chronicle, S
  <2>3. Index!LatestOf(S) \in S
    BY <2>2, LatestRow
  <2>4. Index!LatestOf(S).log.stake \in Nat \ {0}
    BY <2>1, <2>3 DEF Told, TakingsTold
  <2>5. Index!StakeIn(E, k, o) = Index!LatestOf(S).log.stake
    BY <2>2 DEF Index!StakeIn, S
  <2> QED
    BY <2>4, <2>5
<1>3. \A o : Index!OfSide(E, k, o) = {} => Index!StakeIn(E, k, o) = 0
  BY DEF Index!StakeIn
<1>4. ASSUME NEW e \in Index!PositionsIn(E), e.log.market = m, e.log.user = a
      PROVE  Index!OfSide(E, k, "yes") # {} \/ Index!OfSide(E, k, "no") # {}
  <2>1. e.log.outcome \in {"yes", "no"}
    BY DEF Told, TakingsTold, Index!PositionsIn
  <2>2. e \in Index!OfSide(E, k, e.log.outcome)
    BY <1>4 DEF Index!OfSide, Index!OfUser
  <2> QED
    BY <2>1, <2>2
<1>5. ASSUME NEW o, Index!OfSide(E, k, o) # {}
      PROVE  \E e \in Index!PositionsIn(E) : e.log.market = m /\ e.log.user = a
  BY <1>5 DEF Index!OfSide, Index!OfUser
<1> HIDE DEF k
<1>6. \A o : Index!StakeIn(E, k, o) > 0 <=> Index!OfSide(E, k, o) # {}
  BY <1>2, <1>3
<1> QED
  BY <1>1, <1>4, <1>5, <1>6 DEF k

\* The list of positions of a market.
LEMMA PositionsServed ==
  ASSUME NEW c, Told(events, c), positions = Index!UsersSaid(events),
         NEW m \in Contract!Market
  PROVE  /\ m >= NextIdOf(c) /\ NextIdOf(c) \in Nat => GetPositions(m) = {}
         /\ {<<p.user_address, p.yes_stake, p.no_stake>> : p \in GetPositions(m)} =
            {<<a, PositionsOf(c)[m][a].yesStake, PositionsOf(c)[m][a].noStake>> :
               a \in {b \in Account : \/ PositionsOf(c)[m][b].yesStake > 0
                                      \/ PositionsOf(c)[m][b].noStake > 0}}
<1> DEFINE Users == {e.log.user : e \in {f \in Index!PositionsIn(events) : f.log.market = m}}
           Answer(a) == [user_address |-> a,
                         yes_stake |-> Index!StakeIn(events, <<m, a>>, "yes"),
                         no_stake |-> Index!StakeIn(events, <<m, a>>, "no"),
                         total_stake |-> Index!StakeIn(events, <<m, a>>, "yes")
                                         + Index!StakeIn(events, <<m, a>>, "no"),
                         updated_block_number |-> Index!UserIn(events, <<m, a>>).at]
           Keys == {<<e.log.market, e.log.user>> : e \in Index!PositionsIn(events)}
<1>1. GetPositions(m) = {Answer(a) : a \in Users}
  <2>1. {q \in positions : q.market = m} = {Index!UserIn(events, <<m, a>>) : a \in Users}
    <3>1. positions = {Index!UserIn(events, k) : k \in Keys}
      BY DEF Index!UsersSaid
    <3>2. \A k : Index!UserIn(events, k).market = k[1]
      BY DEF Index!UserIn
    <3>3. \A k \in Keys : k[1] = m => \E a \in Users : k = <<m, a>>
      OBVIOUS
    <3>4. \A a \in Users : <<m, a>> \in Keys /\ <<m, a>>[1] = m
      OBVIOUS
    <3> HIDE DEF Keys, Users
    <3> QED
      BY <3>1, <3>2, <3>3, <3>4
  <2>2. \A a : PositionResponse(Index!UserIn(events, <<m, a>>)) = Answer(a)
    BY DEF PositionResponse, Index!UserIn
  <2> HIDE DEF Users, Answer
  <2>3. GetPositions(m) =
          {PositionResponse(r) : r \in {Index!UserIn(events, <<m, a>>) : a \in Users}}
    BY <2>1 DEF GetPositions
  <2>4. {PositionResponse(r) : r \in {Index!UserIn(events, <<m, a>>) : a \in Users}} =
        {Answer(a) : a \in Users}
    BY <2>2
  <2> QED
    BY <2>3, <2>4
<1>2. ASSUME NEW e \in Index!PositionsIn(events)
      PROVE  e.log.market \in 1 .. NextIdOf(c) - 1 /\ e.log.user \in Account
  BY DEF Told, TakingsTold, Index!PositionsIn
<1>3. ASSUME m >= NextIdOf(c), NextIdOf(c) \in Nat
      PROVE  GetPositions(m) = {}
  <2>1. m \in Nat
    BY DEF Contract!Market
  <2>2. \A e \in Index!PositionsIn(events) : e.log.market # m
    BY <1>2, <1>3, <2>1
  <2>3. Users = {}
    BY <2>2
  <2> HIDE DEF Users, Answer
  <2> QED
    BY <1>1, <2>3
<1>4. Users = {b \in Account : \/ PositionsOf(c)[m][b].yesStake > 0
                              \/ PositionsOf(c)[m][b].noStake > 0}
  <2>1. \A a \in Account :
          (\E e \in Index!PositionsIn(events) : e.log.market = m /\ e.log.user = a) <=>
          PositionsOf(c)[m][a].yesStake > 0 \/ PositionsOf(c)[m][a].noStake > 0
    BY StakesServed
  <2> QED
    BY <1>2, <2>1
<1>5. ASSUME NEW a \in Users
      PROVE  <<Answer(a).user_address, Answer(a).yes_stake, Answer(a).no_stake>> =
             <<a, PositionsOf(c)[m][a].yesStake, PositionsOf(c)[m][a].noStake>>
  <2>1. a \in Account
    BY <1>4
  <2>2. /\ PositionsOf(c)[m][a].yesStake = Index!StakeIn(events, <<m, a>>, "yes")
        /\ PositionsOf(c)[m][a].noStake = Index!StakeIn(events, <<m, a>>, "no")
    BY <2>1, StakesServed
  <2> QED
    BY <2>2
<1> HIDE DEF Users, Answer
<1>6. {<<p.user_address, p.yes_stake, p.no_stake>> : p \in {Answer(a) : a \in Users}} =
      {<<Answer(a).user_address, Answer(a).yes_stake, Answer(a).no_stake>> : a \in Users}
  OBVIOUS
<1>7. {<<Answer(a).user_address, Answer(a).yes_stake, Answer(a).no_stake>> : a \in Users} =
      {<<a, PositionsOf(c)[m][a].yesStake, PositionsOf(c)[m][a].noStake>> : a \in Users}
  BY <1>5
<1> QED
  BY <1>1, <1>3, <1>4, <1>6, <1>7

\* The API answers what the contract holds in the last block indexed.
LEMMA AnswersOnChain ==
  ASSUME IndexInv
  PROVE  ServedIsOnChain
<1> SUFFICES ASSUME checkpoint # NoBlock, NEW m \in 1 .. MaxMarkets
    PROVE  LET onChain == IndexedMarkets[m]
               answer == GetMarket(m)
           IN  IF onChain.resolver = Nobody THEN answer = <<>> /\ GetPositions(m) = {}
               ELSE /\ Len(answer) = 1
                    /\ Head(answer).terms.resolver = onChain.resolver
                    /\ Head(answer).terms.deadline = onChain.deadline
                    /\ Head(answer).yes_pool = onChain.yesPool
                    /\ Head(answer).no_pool = onChain.noPool
                    /\ Head(answer).total_pool = onChain.yesPool + onChain.noPool
                    /\ {<<p.user_address, p.yes_stake, p.no_stake>> : p \in GetPositions(m)} =
                       {<<a, IndexedPositions[m][a].yesStake, IndexedPositions[m][a].noStake>> :
                          a \in {b \in Account : \/ IndexedPositions[m][b].yesStake > 0
                                                 \/ IndexedPositions[m][b].noStake > 0}}
  BY DEF ServedIsOnChain
<1> DEFINE c == Last(checkpoint)
           row == {r \in markets : r.market = m}
<1>1. /\ Told(events, c) /\ BodyOK(c)
      /\ IndexedMarkets = MarketsOf(c) /\ IndexedPositions = PositionsOf(c)
      /\ markets = Index!MarketsSaid(events) /\ states = Index!StatesSaid(events)
      /\ positions = Index!UsersSaid(events)
  BY IndexedBody
<1> HIDE DEF c
<1>2. m \in Contract!Market /\ NextIdOf(c) \in Nat /\ m \in Nat
      /\ (MarketsOf(c)[m].resolver = Nobody <=> m >= NextIdOf(c))
  BY <1>1, PipelineAssumption DEF Contract!Market, BodyOK
<1>3. CASE m >= NextIdOf(c)
  <2>1. row = {}
    BY <1>1, <1>3, MarketListed
  <2>2. GetMarket(m) = <<>>
    BY <2>1 DEF GetMarket
  <2>3. GetPositions(m) = {}
    BY <1>1, <1>2, <1>3, PositionsServed
  <2> QED
    BY <1>1, <1>2, <1>3, <2>2, <2>3
<1>4. CASE m < NextIdOf(c)
  <2>1. PICK r : /\ row = {r} /\ r.market = m
                 /\ r.terms.resolver = MarketsOf(c)[m].resolver
                 /\ r.terms.deadline = MarketsOf(c)[m].deadline
    BY <1>1, <1>4, MarketListed
  <2> DEFINE answer == MarketResponse(r)
  <2>2. GetMarket(m) = <<answer>>
    <3>1. row # {} /\ (CHOOSE q \in row : TRUE) = r
      BY <2>1
    <3> QED
      BY <3>1 DEF GetMarket
  <2>3. /\ PoolOf(m, "yes") = MarketsOf(c)[m].yesPool
        /\ PoolOf(m, "no") = MarketsOf(c)[m].noPool
    BY <1>1, <1>2, PoolsServed
  <2>4. /\ answer.terms = r.terms
        /\ answer.yes_pool = MarketsOf(c)[m].yesPool
        /\ answer.no_pool = MarketsOf(c)[m].noPool
        /\ answer.total_pool = MarketsOf(c)[m].yesPool + MarketsOf(c)[m].noPool
    BY <2>1, <2>3 DEF MarketResponse
  <2>5. {<<p.user_address, p.yes_stake, p.no_stake>> : p \in GetPositions(m)} =
        {<<a, PositionsOf(c)[m][a].yesStake, PositionsOf(c)[m][a].noStake>> :
           a \in {b \in Account : \/ PositionsOf(c)[m][b].yesStake > 0
                                  \/ PositionsOf(c)[m][b].noStake > 0}}
    BY <1>1, <1>2, PositionsServed
  <2> HIDE DEF answer
  <2>6. Len(GetMarket(m)) = 1 /\ Head(GetMarket(m)) = answer
    BY <2>2
  <2>7. MarketsOf(c)[m].resolver # Nobody
    BY <1>2, <1>4
  <2> QED
    BY <1>1, <2>1, <2>4, <2>5, <2>6, <2>7
<1> QED
  BY <1>2, <1>3, <1>4

----------------------------------------------------------------------------
\* The list of markets

\* The rows listed: finitely many, one for a number.
LEMMA ListedRows ==
  ASSUME IndexInv
  PROVE  /\ IsFiniteSet(markets)
         /\ \A r \in markets : r.market \in 1 .. MaxMarkets
         /\ \A q, r \in markets : q.market = r.market => q = r
<1> DEFINE c == At(checkpoint, Len(checkpoint))
           C == {e \in events : e.log.kind = "created"}
           f == [e \in C |-> Index!MarketRow(e)]
<1>1. Told(events, c) /\ BodyOK(c) /\ IsFiniteSet(events)
  BY ArchiveTold
<1>2. markets = {Index!MarketRow(e) : e \in C}
  <2>1. markets = Index!MarketsSaid(events)
    BY DEF IndexInv, Index!Says, Store!Tables
  <2>2. events \ Index!PositionsIn(events) = C
    BY <1>1 DEF Told, OrderTold, Index!PositionsIn
  <2> QED
    BY <2>1, <2>2 DEF Index!MarketsSaid
<1>3. IsFiniteSet(C)
  BY <1>1, FS_Subset
<1>4. \A e : Index!MarketRow(e).market = e.log.market
  BY DEF Index!MarketRow
<1> HIDE DEF c
<1>5. \A e \in C : e.log.market \in 1 .. MaxMarkets
  <2>1. NextIdOf(c) \in 1 .. MaxMarkets + 1
    BY <1>1 DEF BodyOK
  <2>2. \A e \in C : e.log.market \in 1 .. NextIdOf(c) - 1
    BY <1>1 DEF Told, CreationsTold
  <2> QED
    BY <2>1, <2>2, PipelineAssumption
<1>6. \A d, e \in C : d.log.market = e.log.market => d = e
  BY <1>1 DEF Told, CreationsTold
<1> HIDE DEF C
<1>7. f \in Surjection(C, markets)
  BY <1>2 DEF Surjection
<1> HIDE DEF f
<1>8. IsFiniteSet(markets)
  BY <1>3, <1>7, FS_Surjection
<1> QED
  BY <1>2, <1>4, <1>5, <1>6, <1>8

\* The rows S can be put in the order of the list: each goes after those of
\* the markets above it.
LEMMA OrderExists ==
  ASSUME NEW S, IsFiniteSet(S), \A r \in S : r.market \in Nat,
         \A q, r \in S : q.market = r.market => q = r
  PROVE  \E s \in SetToSeqs(S) :
           \A i, j \in DOMAIN s : i < j => s[i].market >= s[j].market
<1> DEFINE N == Cardinality(S)
           Above(r) == {q \in S : q.market > r.market}
           rank == [r \in S |-> Cardinality(Above(r)) + 1]
<1>1. N \in Nat
  BY FS_CardinalityType
<1>2. ASSUME NEW r \in S
      PROVE  /\ IsFiniteSet(Above(r)) /\ Cardinality(Above(r)) \in Nat
             /\ Cardinality(Above(r)) <= N - 1
  <2>1. IsFiniteSet(S \ {r}) /\ Cardinality(S \ {r}) = N - 1
    BY FS_RemoveElement
  <2>2. Above(r) \in SUBSET (S \ {r})
    OBVIOUS
  <2> HIDE DEF Above, N
  <2>3. IsFiniteSet(Above(r)) /\ Cardinality(Above(r)) <= Cardinality(S \ {r})
    BY <2>1, <2>2, FS_Subset
  <2> QED
    BY <2>1, <2>3, FS_CardinalityType
<1>3. ASSUME NEW q \in S, NEW r \in S, r.market > q.market
      PROVE  Cardinality(Above(r)) < Cardinality(Above(q))
  <2>1. Above(r) \in SUBSET (Above(q) \ {r}) /\ r \in Above(q)
    BY <1>3
  <2> HIDE DEF Above, N
  <2>2. /\ IsFiniteSet(Above(q) \ {r})
        /\ Cardinality(Above(q) \ {r}) = Cardinality(Above(q)) - 1
    BY <1>2, <2>1, FS_RemoveElement
  <2>3. Cardinality(Above(r)) <= Cardinality(Above(q) \ {r})
    BY <2>1, <2>2, FS_Subset
  <2> QED
    BY <1>2, <2>2, <2>3
<1> HIDE DEF Above, N
<1>4. rank \in [S -> 1 .. N]
  BY <1>1, <1>2
<1>5. \A q, r \in S : rank[q] = rank[r] => q = r
  <2> SUFFICES ASSUME NEW q \in S, NEW r \in S, q # r
      PROVE  rank[q] # rank[r]
    OBVIOUS
  <2>1. q.market > r.market \/ r.market > q.market
    OBVIOUS
  <2>2. \/ Cardinality(Above(q)) < Cardinality(Above(r))
        \/ Cardinality(Above(r)) < Cardinality(Above(q))
    BY <1>3, <2>1
  <2> QED
    BY <1>2, <2>2
<1>6. \A q, r \in S : rank[r] > rank[q] => q.market >= r.market
  BY <1>2, <1>3
<1> HIDE DEF rank
<1>7. rank \in Surjection(S, 1 .. N)
  <2>1. rank \in Injection(S, 1 .. N)
    BY <1>4, <1>5, Fun_IsInj
  <2>2. IsFiniteSet(1 .. N) /\ Cardinality(1 .. N) = N
    BY <1>1, FS_Interval
  <2> QED
    BY <2>1, <2>2, FS_Injection DEF N
<1>8. \A i \in 1 .. N : \E r \in S : rank[r] = i
  BY <1>7 DEF Surjection
<1> DEFINE s == [i \in 1 .. N |-> CHOOSE r \in S : rank[r] = i]
<1>9. s \in [1 .. N -> S] /\ \A i \in 1 .. N : rank[s[i]] = i
  BY <1>8
<1>10. s \in SetToSeqs(S)
  BY <1>9 DEF SetToSeqs, N
<1> HIDE DEF s
<1>11. ASSUME NEW i \in DOMAIN s, NEW j \in DOMAIN s, i < j
       PROVE  s[i].market >= s[j].market
  <2>1. /\ i \in 1 .. N /\ j \in 1 .. N /\ j > i
        /\ s[i] \in S /\ s[j] \in S /\ rank[s[i]] = i /\ rank[s[j]] = j
    BY <1>1, <1>9, <1>11
  <2> QED
    BY <1>6, <2>1
<1> QED
  BY <1>10, <1>11

\* The list that the API pages through: every row once, and before the row at
\* its place i the rows of the i - 1 markets above it.
LEMMA ListOrder ==
  ASSUME IndexInv, NEW s, s = NewestFirst
  PROVE  /\ IsSeq(s) /\ Len(s) = Cardinality(Listed) /\ Len(s) <= MaxMarkets
         /\ \A i \in 1 .. Len(s) :
              /\ s[i] \in markets
              /\ Cardinality({k \in Listed : k > s[i].market}) = i - 1
         /\ \A m \in Listed : \E i \in 1 .. Len(s) : s[i].market = m
<1> DEFINE N == Cardinality(markets)
           id == [i \in 1 .. N |-> s[i].market]
<1>1. /\ IsFiniteSet(markets) /\ N \in Nat
      /\ \A r \in markets : r.market \in 1 .. MaxMarkets /\ r.market \in Nat
      /\ \A q, r \in markets : q.market = r.market => q = r
  BY ListedRows, FS_CardinalityType
<1> HIDE DEF N
<1>2. /\ s \in SetToSeqs(markets)
      /\ \A i, j \in DOMAIN s : i < j => s[i].market >= s[j].market
  <2>1. \E t \in SetToSeqs(markets) :
          \A i, j \in DOMAIN t : i < j => t[i].market >= t[j].market
    BY <1>1, OrderExists
  <2> QED
    BY <2>1 DEF NewestFirst
<1>3. s \in [1 .. N -> markets] /\ \A i, j \in 1 .. N : s[i] = s[j] => i = j
  BY <1>2 DEF SetToSeqs, N
<1>4. IsSeq(s) /\ Len(s) = N
  <2>1. s \in Seq(markets) /\ Len(s) = N
    BY <1>1, <1>3
  <2> QED
    BY <2>1 DEF IsSeq
<1>5. \A r \in markets : \E i \in 1 .. N : s[i] = r
  <2>1. s \in Injection(1 .. N, markets)
    BY <1>3, Fun_IsInj
  <2>2. IsFiniteSet(1 .. N) /\ Cardinality(1 .. N) = N
    BY <1>1, FS_Interval
  <2>3. s \in Surjection(1 .. N, markets)
    BY <1>1, <2>1, <2>2, FS_Injection DEF N
  <2> QED
    BY <2>3 DEF Surjection
<1>6. \A i, j \in 1 .. N : i < j => id[i] > id[j]
  <2> SUFFICES ASSUME NEW i \in 1 .. N, NEW j \in 1 .. N, i < j
      PROVE  s[i].market > s[j].market
    OBVIOUS
  <2>1. s[i].market >= s[j].market /\ s[i] \in markets /\ s[j] \in markets /\ s[i] # s[j]
    BY <1>1, <1>2, <1>3
  <2>2. s[i].market # s[j].market
    BY <1>1, <2>1
  <2> QED
    BY <1>1, <2>1, <2>2
<1>7. id \in [1 .. N -> Listed] /\ \A m \in Listed : \E i \in 1 .. N : id[i] = m
  BY <1>3, <1>5 DEF Listed
<1>8. Listed \subseteq 1 .. MaxMarkets /\ Listed \subseteq Nat
  BY <1>1 DEF Listed
<1> HIDE DEF id
<1>9. ASSUME NEW i \in 1 .. N
      PROVE  Cardinality({k \in Listed : k > id[i]}) = i - 1
  <2> DEFINE T == {k \in Listed : k > id[i]}
             f == [j \in 1 .. i - 1 |-> id[j]]
  <2>1. \A j \in 1 .. N : id[j] \in Listed /\ id[j] \in Nat
    BY <1>7, <1>8
  <2>2. \A j \in 1 .. N : id[j] > id[i] <=> j < i
    BY <1>1, <1>6, <2>1
  <2>3. 1 .. i - 1 \subseteq 1 .. N /\ i - 1 \in Nat
    BY <1>1
  <2>4. f \in [1 .. i - 1 -> T] /\ \A t \in T : \E j \in 1 .. i - 1 : f[j] = t
    BY <1>1, <1>7, <2>1, <2>2, <2>3
  <2>5. \A j, k \in 1 .. i - 1 : f[j] = f[k] => j = k
    BY <1>1, <1>6, <2>1, <2>3
  <2> HIDE DEF T, f
  <2>6. ExistsBijection(1 .. i - 1, T)
    <3>1. f \in Bijection(1 .. i - 1, T)
      BY <2>4, <2>5, Fun_IsBij
    <3> QED
      BY <3>1, Fun_ExistsBij
  <2>7. IsFiniteSet(1 .. i - 1) /\ Cardinality(1 .. i - 1) = i - 1
    BY <2>3, FS_Interval
  <2>8. Cardinality(T) = i - 1
    BY <2>6, <2>7, FS_Bijection
  <2> QED
    BY <2>8 DEF T
<1>10. Cardinality(Listed) = N
  <2>1. \A i, j \in 1 .. N : id[i] = id[j] => i = j
    <3>1. \A i \in 1 .. N : id[i] \in Nat
      BY <1>7, <1>8
    <3> QED
      BY <1>1, <1>6, <3>1
  <2>2. ExistsBijection(1 .. N, Listed)
    <3>1. id \in Bijection(1 .. N, Listed)
      BY <1>7, <2>1, Fun_IsBij
    <3> QED
      BY <3>1, Fun_ExistsBij
  <2>3. IsFiniteSet(1 .. N) /\ Cardinality(1 .. N) = N
    BY <1>1, FS_Interval
  <2> QED
    BY <2>2, <2>3, FS_Bijection
<1>11. N <= MaxMarkets
  <2>1. IsFiniteSet(1 .. MaxMarkets) /\ Cardinality(1 .. MaxMarkets) = MaxMarkets
    BY PipelineAssumption, FS_Interval
  <2>2. Cardinality(Listed) <= MaxMarkets
    BY <1>8, <2>1, FS_Subset
  <2> QED
    BY <1>10, <2>2
<1>12. \A i \in 1 .. N : id[i] = s[i].market /\ s[i] \in markets
  BY <1>3 DEF id
<1>13. Len(s) = Cardinality(Listed) /\ Len(s) <= MaxMarkets
  BY <1>4, <1>10, <1>11
<1>14. ASSUME NEW i \in 1 .. Len(s)
       PROVE  s[i] \in markets /\ Cardinality({k \in Listed : k > s[i].market}) = i - 1
  <2>1. i \in 1 .. N
    BY <1>4
  <2>2. id[i] = s[i].market /\ s[i] \in markets
    BY <1>12, <2>1
  <2>3. Cardinality({k \in Listed : k > id[i]}) = i - 1
    BY <1>9, <2>1
  <2> QED
    BY <2>2, <2>3
<1>15. ASSUME NEW m \in Listed
       PROVE  \E i \in 1 .. Len(s) : s[i].market = m
  <2>1. PICK i \in 1 .. N : id[i] = m
    BY <1>7
  <2>2. i \in 1 .. Len(s) /\ s[i].market = m
    BY <1>4, <1>12, <2>1
  <2> QED
    BY <2>2
<1> QED
  BY <1>4, <1>13, <1>14, <1>15

----------------------------------------------------------------------------
\* A walk through the list

\* The client's limit and offset, as they are bounded: a page that is asked
\* for within the list has a row at least.
LEMMA PageBounds ==
  ASSUME NEW l \in Limits, NEW o \in Nat
  PROVE  /\ Normalized(l, <<o>>).limit \in Nat /\ Normalized(l, <<o>>).limit >= 1
         /\ Normalized(l, <<o>>).offset \in Nat
         /\ o <= MaxBigint => Normalized(l, <<o>>).offset = o
         /\ o > MaxBigint => Normalized(l, <<o>>).offset = MaxBigint
<1>1. MaxLimit \in Nat /\ DefaultLimit \in Nat /\ DefaultLimit >= 1 /\ MaxLimit >= 1
  BY LimitAssumption
<1>2. GivenOr(l, DefaultLimit) \in Nat
  BY <1>1, LimitAssumption DEF GivenOr
<1>3. <<o>> # <<>> /\ Head(<<o>>) = o
  OBVIOUS
<1>4. GivenOr(<<o>>, 0) = o
  BY <1>3 DEF GivenOr
<1>5. Higher(GivenOr(l, DefaultLimit), 1) \in Nat /\ Higher(GivenOr(l, DefaultLimit), 1) >= 1
  BY <1>2 DEF Higher
<1>6. /\ Lower(Higher(GivenOr(l, DefaultLimit), 1), MaxLimit) \in Nat
      /\ Lower(Higher(GivenOr(l, DefaultLimit), 1), MaxLimit) >= 1
  BY <1>1, <1>5 DEF Lower
<1>7. /\ Lower(o, MaxBigint) \in Nat
      /\ o <= MaxBigint => Lower(o, MaxBigint) = o
      /\ o > MaxBigint => Lower(o, MaxBigint) = MaxBigint
  BY PipelineAssumption DEF Lower
<1> QED
  BY <1>4, <1>6, <1>7 DEF Normalized

\* The markets on a page, and those at the places after o of a list.
OnPage(page) == {r.market_id : r \in ToSet(page)}
AtPlaces(s, o, n) == {s[i].market : i \in o + 1 .. o + n}

\* A page: the rows of the list from the offset on, none when there are none.
LEMMA PageRows ==
  ASSUME IndexInv, NEW l \in Limits, NEW o \in Nat,
         NEW s, s = NewestFirst, NEW page, page = ListMarkets(l, <<o>>)
  PROVE  /\ page = <<>> => o >= Len(s)
         /\ page # <<>> =>
              /\ Len(page) \in Nat /\ o + Len(page) <= Len(s)
              /\ OnPage(page) = AtPlaces(s, o, Len(page))
<1> DEFINE lim == Normalized(l, <<o>>).limit
           off == Normalized(l, <<o>>).offset
           N == Len(s)
           high == Lower(off + lim, N)
           rows == SubSeq(s, off + 1, high)
<1>1. /\ lim \in Nat /\ lim >= 1 /\ off \in Nat
      /\ o <= MaxBigint => off = o
      /\ o > MaxBigint => off = MaxBigint
  BY PageBounds
<1>2. /\ IsSeq(s) /\ N <= MaxMarkets
      /\ \A i \in 1 .. N : s[i] \in markets
  BY ListOrder
<1>3. N \in Nat /\ N <= MaxBigint /\ MaxBigint \in Nat
  BY <1>2, SeqFacts, PipelineAssumption
<1>4. page = [i \in DOMAIN rows |-> MarketResponse(rows[i])]
  BY DEF ListMarkets
<1> HIDE DEF lim, off, N
<1>5. high \in Nat /\ high <= N /\ (high <= off => N <= off)
  BY <1>1, <1>3 DEF Lower
<1> HIDE DEF high
<1>6. /\ rows \in Seq(markets)
      /\ Len(rows) = IF off + 1 <= high THEN high - (off + 1) + 1 ELSE 0
      /\ \A i \in 1 .. high - (off + 1) + 1 : rows[i] = s[off + 1 + i - 1]
  <2>1. \A i \in off + 1 .. high : s[i] \in markets
    BY <1>1, <1>2, <1>3, <1>5 DEF N
  <2>2. off + 1 \in Int /\ high \in Int
    BY <1>1, <1>5
  <2> QED
    BY <2>1, <2>2, SubSeqProperties
<1> HIDE DEF rows
<1>7. DOMAIN rows = 1 .. Len(rows) /\ Len(rows) \in Nat
  BY <1>6, LenProperties
<1>8. IsSeq(page) /\ Len(page) = Len(rows) /\ DOMAIN page = 1 .. Len(rows)
      /\ \A i \in 1 .. Len(rows) : page[i] = MarketResponse(rows[i])
  <2>1. page \in Seq({MarketResponse(r) : r \in markets})
    BY <1>4, <1>6, <1>7
  <2> QED
    BY <1>4, <1>7, <2>1, LenProperties DEF IsSeq
<1>9. CASE high <= off
  <2>1. Len(page) = 0
    BY <1>1, <1>5, <1>6, <1>8, <1>9
  <2>2. page = <<>>
    <3>1. PICK S : page \in Seq(S)
      BY <1>8 DEF IsSeq
    <3> QED
      BY <2>1, <3>1, EmptySeq
  <2>3. o >= N
    BY <1>1, <1>3, <1>5, <1>9
  <2> QED
    BY <2>2, <2>3 DEF N
<1>10. CASE off + 1 <= high
  <2>1. off = o /\ Len(page) = high - o /\ Len(rows) = high - o
    <3>1. off = o
      BY <1>1, <1>3, <1>5, <1>10
    <3>2. Len(rows) = high - (off + 1) + 1
      BY <1>6, <1>10
    <3> QED
      BY <1>1, <1>5, <1>8, <3>1, <3>2
  <2>2. page # <<>>
    <3>1. Len(page) # 0
      BY <1>1, <1>5, <1>10, <2>1
    <3> QED
      BY <3>1
  <2>3. \A i \in 1 .. high - o : page[i].market_id = s[o + i].market
    <3> SUFFICES ASSUME NEW i \in 1 .. high - o
        PROVE  page[i].market_id = s[o + i].market
      OBVIOUS
    <3>1. rows[i] = s[off + 1 + i - 1]
      BY <1>1, <1>5, <1>6, <2>1
    <3>2. off + 1 + i - 1 = o + i
      BY <1>5, <2>1
    <3>3. page[i] = MarketResponse(s[o + i])
      BY <1>8, <2>1, <3>1, <3>2
    <3> QED
      BY <3>3 DEF MarketResponse
  <2>4. ToSet(page) = {page[i] : i \in 1 .. high - o}
    BY <1>8, <2>1 DEF ToSet
  <2>5. {r.market_id : r \in ToSet(page)} = {s[o + i].market : i \in 1 .. high - o}
    <3>1. {r.market_id : r \in ToSet(page)} = {page[i].market_id : i \in 1 .. high - o}
      BY <2>4
    <3> QED
      BY <2>3, <3>1
  <2>6. {s[o + i].market : i \in 1 .. high - o} = {s[i].market : i \in o + 1 .. high}
    <3>1. ASSUME NEW i \in 1 .. high - o
          PROVE  o + i \in o + 1 .. high
      BY <1>5
    <3>2. ASSUME NEW i \in o + 1 .. high
          PROVE  i - o \in 1 .. high - o /\ o + (i - o) = i
      BY <1>5
    <3> QED
      BY <3>1, <3>2
  <2>7. o + Len(page) = high /\ Len(page) \in Nat
    BY <1>5, <1>7, <1>8, <2>1
  <2>8. OnPage(page) = AtPlaces(s, o, Len(page))
    BY <2>5, <2>6, <2>7 DEF OnPage, AtPlaces
  <2> QED
    BY <1>5, <2>2, <2>7, <2>8 DEF N
<1>11. high <= off \/ off + 1 <= high
  BY <1>1, <1>5
<1> QED
  BY <1>9, <1>10, <1>11

\* A page advances the offset over the markets it shows; an empty one comes
\* after all of them.
LEMMA FetchPageWalk ==
  ASSUME IndexInv, WalkInv, FetchPage
  PROVE  WalkInv'
<1> DEFINE o == walk.offset
           s == NewestFirst
           N == Len(s)
<1>1. PICK l \in Limits :
        LET page == ListMarkets(l, <<o>>)
            met == {r.market_id : r \in ToSet(page)}
        IN  walk' = IF page = <<>> THEN [walk EXCEPT !.at = "end", !.offset = 0]
                    ELSE [walk EXCEPT !.offset = @ + Len(page), !.missing = @ \ met]
  BY Zenon DEF FetchPage
<1> DEFINE page == ListMarkets(l, <<o>>)
           met == {r.market_id : r \in ToSet(page)}
<1>2. /\ walk = [at |-> walk.at, offset |-> o, missing |-> walk.missing]
      /\ o \in Nat /\ walk.at = "page" /\ Listed' = Listed
      /\ \A m \in walk.missing : /\ m \in Listed
                                 /\ Cardinality({k \in Listed : k > m}) >= o
  BY DEF WalkInv, FetchPage, tables, Listed
<1>3. /\ page = <<>> => o >= N
      /\ page # <<>> => /\ Len(page) \in Nat /\ o + Len(page) <= N
                        /\ met = {s[i].market : i \in o + 1 .. o + Len(page)}
  <2>1. page = ListMarkets(l, <<o>>) /\ s = NewestFirst /\ N = Len(s)
    OBVIOUS
  <2>2. met = OnPage(page)
    BY DEF OnPage
  <2> HIDE DEF page, met, s, N, o
  <2>3. /\ page = <<>> => o >= Len(s)
        /\ page # <<>> =>
             /\ Len(page) \in Nat /\ o + Len(page) <= Len(s)
             /\ OnPage(page) = AtPlaces(s, o, Len(page))
    BY <1>2, <2>1, PageRows
  <2> QED
    BY <2>1, <2>2, <2>3 DEF AtPlaces
<1>4. /\ N \in Nat
      /\ \A i \in 1 .. N : Cardinality({k \in Listed : k > s[i].market}) = i - 1
      /\ \A m \in Listed : \E i \in 1 .. N : s[i].market = m
  BY ListOrder, SeqFacts
<1>5. walk' = IF page = <<>> THEN [walk EXCEPT !.at = "end", !.offset = 0]
              ELSE [walk EXCEPT !.offset = @ + Len(page), !.missing = @ \ met]
  BY <1>1
<1> HIDE DEF page, met, s, N, o
<1>6. CASE page = <<>>
  <2>1. walk' = [at |-> "end", offset |-> 0, missing |-> walk.missing]
    BY <1>2, <1>5, <1>6
  <2>2. walk.missing = {}
    <3> SUFFICES ASSUME NEW m \in walk.missing PROVE FALSE
      OBVIOUS
    <3>1. PICK i \in 1 .. N : s[i].market = m
      BY <1>2, <1>4
    <3>2. Cardinality({k \in Listed : k > m}) = i - 1
      BY <1>4, <3>1
    <3>3. i - 1 >= o
      BY <1>2, <3>2
    <3> QED
      BY <1>2, <1>3, <1>4, <1>6, <3>3
  <2> QED
    BY <2>1, <2>2 DEF WalkInv
<1>7. CASE page # <<>>
  <2>1. walk' = [at |-> "page", offset |-> o + Len(page), missing |-> walk.missing \ met]
    BY <1>2, <1>5, <1>7 DEF o
  <2>2. o + Len(page) \in Nat
    BY <1>2, <1>3, <1>7
  <2>3. ASSUME NEW m \in walk.missing \ met
        PROVE  Cardinality({k \in Listed : k > m}) >= o + Len(page)
    <3>1. PICK i \in 1 .. N : s[i].market = m
      BY <1>2, <1>4
    <3>2. Cardinality({k \in Listed : k > m}) = i - 1
      BY <1>4, <3>1
    <3>3. i - 1 >= o
      BY <1>2, <3>2
    <3>4. i \notin o + 1 .. o + Len(page)
      BY <1>3, <1>7, <3>1
    <3>5. i - 1 >= o + Len(page)
      BY <1>2, <1>3, <1>4, <1>7, <3>3, <3>4
    <3> QED
      BY <3>2, <3>5
  <2>4. /\ walk'.at = "page" /\ walk'.offset = o + Len(page)
        /\ walk'.missing = walk.missing \ met
    BY <2>1
  <2>5. \A m \in walk'.missing :
          m \in Listed' /\ Cardinality({k \in Listed' : k > m}) >= walk'.offset
    BY <1>2, <2>3, <2>4
  <2> QED
    BY <2>1, <2>2, <2>4, <2>5 DEF WalkInv
<1> QED
  BY <1>6, <1>7

\* The numbers of the list, in the next state.
LEMMA ListedNext == IndexInv' => (Listed \subseteq 1 .. MaxMarkets)'
<1>1. IndexInv => Listed \subseteq 1 .. MaxMarkets
  BY ListedRows DEF Listed
<1> QED
  BY <1>1, PTL

\* The index inserts markets above a walk, or ends what it was promised.
LEMMA IndexWalk ==
  ASSUME IndexInv', WalkInv, walk' = WalkAfter
  PROVE  WalkInv'
<1>1. /\ walk = [at |-> walk.at, offset |-> walk.offset, missing |-> walk.missing]
      /\ walk.offset \in Nat /\ (walk.at = "end" => walk.missing = {})
      /\ \A m \in walk.missing :
           m \in Listed /\ Cardinality({k \in Listed : k > m}) >= walk.offset
  BY DEF WalkInv
<1>2. walk' = [at |-> walk.at, offset |-> walk.offset,
               missing |-> IF Listed \subseteq Listed' THEN walk.missing ELSE {}]
  BY <1>1 DEF WalkAfter
<1>3. ASSUME Listed \subseteq Listed', NEW m \in walk.missing
      PROVE  m \in Listed' /\ Cardinality({k \in Listed' : k > m}) >= walk.offset
  <2> DEFINE S == {k \in Listed : k > m}
             T == {k \in Listed' : k > m}
  <2>1. IsFiniteSet(Listed')
    <3>1. Listed' \subseteq 1 .. MaxMarkets
      BY ListedNext
    <3>2. IsFiniteSet(1 .. MaxMarkets)
      BY PipelineAssumption, FS_Interval
    <3> QED
      BY <3>1, <3>2, FS_Subset
  <2>2. T \in SUBSET Listed' /\ S \in SUBSET T
    BY <1>3
  <2> HIDE DEF S, T
  <2>3. IsFiniteSet(T)
    BY <2>1, <2>2, FS_Subset
  <2>4. Cardinality(S) <= Cardinality(T) /\ IsFiniteSet(S)
    BY <2>2, <2>3, FS_Subset
  <2>5. Cardinality(S) \in Nat /\ Cardinality(T) \in Nat
    BY <2>3, <2>4, FS_CardinalityType
  <2>6. Cardinality(S) >= walk.offset
    BY <1>1 DEF S
  <2>7. Cardinality(T) >= walk.offset
    BY <1>1, <2>4, <2>5, <2>6
  <2> QED
    BY <1>1, <1>3, <2>7 DEF T
<1>4. CASE Listed \subseteq Listed'
  <2>1. /\ walk' = [at |-> walk.at, offset |-> walk.offset, missing |-> walk.missing]
        /\ walk'.at = walk.at /\ walk'.offset = walk.offset /\ walk'.missing = walk.missing
    BY <1>2, <1>4
  <2> QED
    BY <1>1, <1>3, <1>4, <2>1 DEF WalkInv
<1>5. CASE ~ (Listed \subseteq Listed')
  <2>1. /\ walk' = [at |-> walk.at, offset |-> walk.offset, missing |-> {}]
        /\ walk'.at = walk.at /\ walk'.offset = walk.offset /\ walk'.missing = {}
    BY <1>2, <1>5
  <2> QED
    BY <1>1, <2>1 DEF WalkInv
<1> QED
  BY <1>4, <1>5

\* No other step touches a walk, or the list.
LEMMA StepWalk ==
  ASSUME IndexInv, IndexInv', WalkInv, [PipelineNext]_pipelineVars
  PROVE  WalkInv'
<1>1. CASE IndexBlock \/ Recover
  BY <1>1, IndexWalk DEF IndexBlock, Recover
<1>2. CASE FetchPage
  BY <1>2, FetchPageWalk
<1>3. CASE StartWalk
  <2>1. /\ walk' = [at |-> "page", offset |-> 0, missing |-> Listed] /\ Listed' = Listed
        /\ walk'.at = "page" /\ walk'.offset = 0 /\ walk'.missing = Listed
    BY <1>3 DEF StartWalk, tables, Listed
  <2>2. ASSUME NEW m \in Listed
        PROVE  Cardinality({k \in Listed : k > m}) >= 0
    <3>1. \A r \in markets : r.market \in 1 .. MaxMarkets
      BY ListedRows
    <3>2. IsFiniteSet(1 .. MaxMarkets)
      BY PipelineAssumption, FS_Interval
    <3>3. {k \in Listed : k > m} \in SUBSET (1 .. MaxMarkets)
      BY <3>1 DEF Listed
    <3>4. Cardinality({k \in Listed : k > m}) \in Nat
      BY <3>2, <3>3, FS_Subset, FS_CardinalityType
    <3> QED
      BY <3>4
  <2> QED
    BY <2>1, <2>2 DEF WalkInv
<1>4. CASE Transaction \/ MineBlock \/ Reorganize \/ UNCHANGED pipelineVars
  <2>1. UNCHANGED <<markets, walk>>
    <3>1. CASE Transaction
      <4>1. ASSUME NEW a, NEW call, NEW topic, NEW data, Emit(a, call, topic, data)
            PROVE  UNCHANGED <<markets, walk>>
        BY <4>1, Zenon DEF Emit, storeVars, tables, apiVars
      <4> QED
        BY <3>1, <4>1 DEF Transaction, CreateMarket, TakePosition, EmitTaken
    <3>2. CASE MineBlock \/ Reorganize
      BY <3>2 DEF MineBlock, Reorganize, storeVars, tables, apiVars
    <3>3. CASE UNCHANGED pipelineVars
      BY <3>3 DEF pipelineVars, storeVars, tables, apiVars
    <3> QED
      BY <1>4, <3>1, <3>2, <3>3
  <2> QED
    BY <2>1 DEF WalkInv, Listed
<1> QED
  BY <1>1, <1>2, <1>3, <1>4 DEF PipelineNext, Api, ApiNext

----------------------------------------------------------------------------
\* The abstract index

\* A commit appends the next block to it, with all its logs.
LEMMA AppendsBlock ==
  ASSUME ChainInv, IndexInv, IndexBlock
  PROVE  Abstract!Append(checkpoint', LogsOf(checkpoint'))
<1> DEFINE b == NextBlock
           k == Len(checkpoint)
<1>1. Follows /\ NextHeight <= Len(head) /\ Store!CommitBlock(b, LogsOf(b))
  BY DEF IndexBlock, NextBlock
<1>2. /\ Len(b) = k + 1 /\ k \in Nat /\ checkpoint = Prefix(head, k)
      /\ k \in 0 .. k + 1 /\ k + 1 \in 0 .. Len(head)
  BY <1>1, NextFollows, ArchiveTold, LastBody DEF NextHeight
<1>3. Prefix(b, k) = checkpoint
  BY <1>2, PrefixOfPrefix DEF b, NextBlock, NextHeight, ChainInv, WellFormed
<1> HIDE DEF b
<1>4. checkpoint' = b /\ events' = events \cup Store!EventRows(b, LogsOf(b))
  BY <1>1 DEF Store!CommitBlock
<1>5. Store!EventRows(b, LogsOf(b)) = Abstract!Rows(b, LogsOf(b))
  BY DEF Store!EventRows, Abstract!Rows
<1>6. checkpoint = NoBlock => k = 0
  BY DEF NoBlock
<1>7. Abstract!Follows(b)
  BY <1>2, <1>3, <1>6 DEF Abstract!Follows, Height
<1> QED
  BY <1>4, <1>5, <1>7 DEF Abstract!Append

\* A recovery rewinds it.
LEMMA RewindsToAncestor ==
  ASSUME IndexInv, Recover
  PROVE  Abstract!Rewind(checkpoint')
<1>1. PICK n \in CommonHeights : Store!RollbackToAncestor(Prefix(head, n))
  BY DEF Recover
<1> DEFINE a == Prefix(checkpoint, n)
<1>2. n \in 1 .. Len(checkpoint) /\ a = Prefix(head, n)
  BY DEF CommonHeights
<1>3. Len(checkpoint) \in Nat /\ IsSeq(checkpoint) /\ n \in 0 .. Len(checkpoint)
  BY <1>2, ArchiveTold
<1>4. Len(a) = n
  BY <1>3, PrefixFacts
<1>5. Prefix(checkpoint, Len(a)) = a
  BY <1>4
<1> HIDE DEF a
<1>6. checkpoint' = a /\ events' = Store!RetainedEvents(a)
  BY <1>1, <1>2 DEF Store!RollbackToAncestor
<1>7. Store!RetainedEvents(a) = {e \in events : Height(e.block) <= Height(a)}
  BY DEF Store!RetainedEvents
<1>8. checkpoint # NoBlock
  BY <1>2 DEF NoBlock
<1>9. Height(a) \in 1 .. Height(checkpoint)
  BY <1>2, <1>4 DEF Height
<1> QED
  BY <1>5, <1>6, <1>7, <1>8, <1>9 DEF Abstract!Rewind, Height

\* Each step is one of its steps, or leaves it alone.
LEMMA StepAbstract ==
  ASSUME ChainInv, IndexInv, [PipelineNext]_pipelineVars
  PROVE  [\/ Abstract!Append(checkpoint', LogsOf(checkpoint'))
          \/ Abstract!Rewind(checkpoint')]_<<checkpoint, events>>
<1>1. CASE IndexBlock
  BY <1>1, AppendsBlock
<1>2. CASE Recover
  BY <1>2, RewindsToAncestor
<1>3. CASE Transaction \/ MineBlock \/ Reorganize \/ Api \/ UNCHANGED pipelineVars
  BY <1>3, StoreKept
<1> QED
  BY <1>1, <1>2, <1>3 DEF PipelineNext

----------------------------------------------------------------------------
\* Theorems

\* The invariant of the pipeline: the chain's history accounts for the
\* contract, the archive is that of the checkpoint's history and the tables say
\* what it says, and a walk has met what is before its offset.
LEMMA Inductive == PipelineSpec => [](ChainInv /\ IndexInv /\ WalkInv)
<1>1. ASSUME PipelineInit
      PROVE  ChainInv /\ IndexInv /\ WalkInv
  <2>1. WalkInv
    BY <1>1 DEF PipelineInit, ApiInit, NoWalk, WalkInv
  <2> QED
    BY <1>1, <2>1, DeployedChain, EmptyIndex
<1>2. ASSUME ChainInv, IndexInv, WalkInv, [PipelineNext]_pipelineVars
      PROVE  (ChainInv /\ IndexInv /\ WalkInv)'
  <2>1. ChainInv'
    BY <1>2, StepChain
  <2>2. IndexInv'
    BY <1>2, StepIndex
  <2> QED
    BY <1>2, <2>1, <2>2, StepWalk
<1> QED
  BY <1>1, <1>2, PTL DEF PipelineSpec

\* Whatever is mined, taken back, sent again and indexed, in any order and on
\* any number of branches, the API answers the pools, the stakes and the terms
\* that the contract holds in the last block indexed.
THEOREM ServedOnChain == PipelineSpec => []ServedIsOnChain
<1>1. IndexInv => ServedIsOnChain
  BY AnswersOnChain
<1> QED
  BY <1>1, Inductive, PTL

\* No block of the contract's chain is ever refused by a key or a check of the
\* store: the indexer cannot be stopped by what the contract emits.
THEOREM BlocksAccepted == PipelineSpec => []StoreAccepts
<1>1. ChainInv /\ IndexInv => StoreAccepts
  BY NextAccepted
<1> QED
  BY <1>1, Inductive, PTL

\* The contract's logs satisfy, on every branch, the assumptions from which the
\* theorems about the indexer are proved.
THEOREM AssumptionsMet == PipelineSpec => []LogsAreAsAssumed
<1>1. ChainInv => LogsAreAsAssumed
  BY LogsAssumed
<1> QED
  BY <1>1, Inductive, PTL

\* The index under the API is the abstract index that the indexer implements:
\* it takes no other steps, and each with all the logs of its block.
THEOREM IndexImplements == PipelineSpec => MovesAsAbstract
<1>1. ASSUME ChainInv, IndexInv, [PipelineNext]_pipelineVars
      PROVE  [\/ Abstract!Append(checkpoint', LogsOf(checkpoint'))
              \/ Abstract!Rewind(checkpoint')]_<<checkpoint, events>>
  BY <1>1, StepAbstract
<1> QED
  BY <1>1, Inductive, PTL DEF PipelineSpec, MovesAsAbstract

\* Paging to the end of the list, with any limits, meets every market that was
\* there at the start, while markets are created under the walk.
THEOREM NothingMissed == PipelineSpec => []WalkMissesNothing
<1>1. WalkInv => WalkMissesNothing
  BY DEF WalkInv, WalkMissesNothing
<1> QED
  BY <1>1, Inductive, PTL
=============================================================================
