----------------------- MODULE PredictionMarketProofs -----------------------
(***************************************************************************)
(* Theorems about the settlement contract, for any accounts, markets,      *)
(* amounts and bounds, inside a claim's transfer as outside: what is       *)
(* settled stays settled, each account is paid its share, the wei are      *)
(* there and none is left.                                                 *)
(***************************************************************************)
EXTENDS PredictionMarketProperties, SumTheorems

----------------------------------------------------------------------------
\* The invariant, of the storage and of what a revert would restore

MarketRecord ==
  [resolver : Account \cup {Nobody}, deadline : Nat,
   status : {"Open", "Resolved", "Cancelled"}, winningOutcome : Outcome \cup {"Unset"},
   yesPool : Nat, noPool : Nat, claimedWinningStake : Nat, claimedAmount : Nat]

PositionRecord == [yesStake : Nat, noStake : Nat, claimed : BOOLEAN]

PoolOf(market, outcome) == IF outcome = "Yes" THEN market.yesPool ELSE market.noPool

\* A winner is set exactly by a resolution, and the side that won has stakes.
OutcomeOK(market) ==
  /\ market.status = "Resolved" <=> market.winningOutcome # "Unset"
  /\ market.status = "Resolved" => PoolOf(market, market.winningOutcome) > 0

\* Markets are numbered in the order of their creation.
StorageOK(ms, ps, next, stopped, own, wei, out) ==
  /\ ms \in [Market -> MarketRecord]
  /\ \A m \in Market : OutcomeOK(ms[m])
  /\ \A m \in Market : ms[m].resolver # Nobody => m < next
  /\ ps \in [Market -> [Account -> PositionRecord]]
  /\ next \in Nat /\ stopped \in BOOLEAN /\ own \in Account \cup {Nobody} /\ wei \in Nat
  /\ out \in [Market -> [Account -> Nat]]

CurrentOK == StorageOK(markets, positions, nextMarketId, paused, owner, balance, paid)

RestoredOK ==
  StorageOK(before[1], before[2], before[3], before[4], before[5], before[6], before[7])

ContractInv ==
  /\ CurrentOK
  /\ now \in Nat
  /\ claiming \in Account \cup {Nobody}
  /\ claiming # Nobody => RestoredOK

\* An unwritten storage slot is a market record.
LEMMA NoMarketType == NoMarket \in MarketRecord /\ OutcomeOK(NoMarket)
  BY AccountAssumption DEF NoMarket, MarketRecord, OutcomeOK, Outcome

\* The invariant holds at deployment.
LEMMA ContractInit == Init => ContractInv
<1> SUFFICES ASSUME Init PROVE ContractInv
  OBVIOUS
<1>1. NoPosition \in PositionRecord
  BY DEF NoPosition, PositionRecord
<1>2. \A m \in Market : markets[m] = NoMarket /\ NoMarket.resolver = Nobody
  BY DEF Init, NoMarket
<1> QED
  BY <1>1, <1>2, NoMarketType, AccountAssumption DEF Init, ContractInv, CurrentOK, StorageOK

----------------------------------------------------------------------------
\* One market changes at a time.
LEMMA MarketChanges ==
  ASSUME CurrentOK, NEW m \in Market, NEW market \in MarketRecord, OutcomeOK(market),
         market.resolver = Nobody \/ m < nextMarketId',
         markets' = [markets EXCEPT ![m] = market],
         nextMarketId' \in Nat, nextMarketId <= nextMarketId'
  PROVE  /\ markets' \in [Market -> MarketRecord]
         /\ \A n \in Market : OutcomeOK(markets'[n])
         /\ \A n \in Market : markets'[n].resolver # Nobody => n < nextMarketId'
<1>1. /\ markets \in [Market -> MarketRecord] /\ nextMarketId \in Nat
      /\ \A n \in Market : n \in Nat /\ OutcomeOK(markets[n])
      /\ \A n \in Market : markets[n].resolver # Nobody => n < nextMarketId
  BY DEF CurrentOK, StorageOK, Market
<1>2. ASSUME NEW n \in Market
      PROVE  OutcomeOK(markets'[n]) /\ (markets'[n].resolver # Nobody => n < nextMarketId')
  <2>1. CASE n = m
    BY <1>1, <2>1
  <2>2. CASE n # m
    BY <1>1, <2>2
  <2> QED
    BY <2>1, <2>2
<1> QED
  BY <1>1, <1>2

\* createMarket keeps the invariant.
LEMMA CreateMarketOK ==
  ASSUME ContractInv, NEW a \in Account, NEW d \in Deadlines, NEW r \in Resolvers,
         CreateMarket(a, d, r)
  PROVE  CurrentOK'
<1> DEFINE market == [NoMarket EXCEPT !.resolver = r, !.deadline = d]
<1>1. r \in Account /\ d \in Nat
  BY AccountAssumption, AmountAssumption
<1>2. market \in MarketRecord /\ OutcomeOK(market)
  BY <1>1 DEF NoMarket, MarketRecord, OutcomeOK, Outcome
<1>3. nextMarketId \in Market /\ nextMarketId \in Nat
      /\ nextMarketId' = nextMarketId + 1
      /\ markets' = [markets EXCEPT ![nextMarketId] = market]
  BY DEF CreateMarket, ContractInv, CurrentOK, StorageOK
<1>4. nextMarketId' \in Nat /\ nextMarketId <= nextMarketId' /\ nextMarketId < nextMarketId'
  BY <1>3
<1> HIDE DEF market
<1>5. /\ markets' \in [Market -> MarketRecord]
      /\ \A n \in Market : OutcomeOK(markets'[n])
      /\ \A n \in Market : markets'[n].resolver # Nobody => n < nextMarketId'
  BY <1>2, <1>3, <1>4, MarketChanges DEF ContractInv
<1> QED
  BY <1>4, <1>5 DEF CreateMarket, ContractInv, CurrentOK, StorageOK

\* takePosition keeps the invariant.
LEMMA TakePositionOK ==
  ASSUME ContractInv, NEW a \in Account, NEW m \in Market, NEW o \in Outcome,
         NEW v \in Amounts, TakePosition(a, m, o, v)
  PROVE  CurrentOK'
<1>1. v \in Nat /\ markets[m] \in MarketRecord /\ OutcomeOK(markets[m])
      /\ positions \in [Market -> [Account -> PositionRecord]]
  BY AmountAssumption DEF ContractInv, CurrentOK, StorageOK
<1>2. PoolAfter(m, o, v) \in MarketRecord /\ OutcomeOK(PoolAfter(m, o, v))
      /\ PoolAfter(m, o, v).resolver = markets[m].resolver
  BY <1>1 DEF TakePosition, BettingOpen, PoolAfter, MarketRecord, OutcomeOK, PoolOf
<1>3. m < nextMarketId /\ nextMarketId' = nextMarketId
  BY DEF TakePosition, Exists, ContractInv, CurrentOK, StorageOK
<1>4. positions' \in [Market -> [Account -> PositionRecord]]
  BY <1>1 DEF TakePosition, PositionRecord
<1>5. balance' \in Nat
  BY <1>1 DEF TakePosition, ContractInv, CurrentOK, StorageOK
<1> QED
  BY <1>2, <1>3, <1>4, <1>5, MarketChanges
  DEF TakePosition, ContractInv, CurrentOK, StorageOK

\* resolveMarket and cancelMarket keep the invariant.
LEMMA DecisionOK ==
  ASSUME ContractInv, NEW a \in Account, NEW m \in Market,
         (\E o \in Outcome : ResolveMarket(a, m, o)) \/ CancelMarket(a, m)
  PROVE  CurrentOK'
<1>1. markets \in [Market -> MarketRecord] /\ markets[m].winningOutcome = "Unset"
      /\ m < nextMarketId /\ nextMarketId' = nextMarketId /\ nextMarketId \in Nat
  BY DEF ResolveMarket, CancelMarket, Decides, Exists, ContractInv, CurrentOK, StorageOK,
         OutcomeOK
<1>2. ASSUME markets' = [markets EXCEPT ![m].status = "Cancelled"]
      PROVE  CurrentOK'
  <2> DEFINE market == [markets[m] EXCEPT !.status = "Cancelled"]
  <2>1. market \in MarketRecord /\ OutcomeOK(market)
    BY <1>1 DEF MarketRecord, OutcomeOK
  <2> QED
    BY <1>1, <1>2, <2>1, MarketChanges
    DEF ResolveMarket, CancelMarket, ContractInv, CurrentOK, StorageOK
<1>3. ASSUME NEW o \in Outcome, Pool(m, o) # 0,
             markets' = [markets EXCEPT ![m].status = "Resolved", ![m].winningOutcome = o]
      PROVE  CurrentOK'
  <2> DEFINE market == [markets[m] EXCEPT !.status = "Resolved", !.winningOutcome = o]
  <2>1. market \in MarketRecord /\ OutcomeOK(market)
    BY <1>1, <1>3 DEF MarketRecord, OutcomeOK, Outcome, Pool, PoolOf
  <2>2. markets' = [markets EXCEPT ![m] = market]
    BY <1>1, <1>3
  <2> QED
    BY <1>1, <2>1, <2>2, MarketChanges
    DEF ResolveMarket, CancelMarket, ContractInv, CurrentOK, StorageOK
<1> QED
  BY <1>2, <1>3 DEF ResolveMarket, CancelMarket

\* A payout is a number of wei.
LEMMA PayoutInt ==
  ASSUME CurrentOK, NEW a \in Account, NEW m \in Market, MayClaim(m, a)
  PROVE  Payout(m, a) \in Int /\ ClaimableStake(m, a) \in Nat
<1>1. /\ markets[m] \in MarketRecord /\ positions[m][a] \in PositionRecord
      /\ OutcomeOK(markets[m])
  BY DEF CurrentOK, StorageOK
<1>2. TotalPool(m) \in Nat /\ markets[m].claimedAmount \in Nat
  BY <1>1 DEF TotalPool, MarketRecord
<1>3. ClaimableStake(m, a) \in Nat
  BY <1>1 DEF ClaimableStake, StakeOn, PositionRecord
<1>4. CASE markets[m].status = "Cancelled"
  BY <1>3, <1>4 DEF Payout
<1>5. CASE markets[m].status = "Resolved"
  <2>1. WinningPool(m) \in Nat \ {0}
    BY <1>1, <1>5 DEF WinningPool, Pool, PoolOf, OutcomeOK, MarketRecord
  <2>2. ClaimableStake(m, a) * TotalPool(m) \in Nat
    BY <1>2, <1>3
  <2>3. MulDiv(ClaimableStake(m, a), TotalPool(m), WinningPool(m)) \in Int
    BY <2>1, <2>2 DEF MulDiv
  <2> QED
    BY <1>2, <1>3, <1>5, <2>3 DEF Payout
<1> QED
  BY <1>1, <1>3, <1>4, <1>5 DEF MayClaim, MarketRecord

\* claim keeps the invariant, up to the transfer and through its end.
LEMMA ClaimOK ==
  ASSUME ContractInv, NEW a \in Account, NEW m \in Market, Claim(a, m)
  PROVE  ContractInv'
<1>1. /\ markets \in [Market -> MarketRecord] /\ OutcomeOK(markets[m])
      /\ positions \in [Market -> [Account -> PositionRecord]]
      /\ paid \in [Market -> [Account -> Nat]] /\ balance \in Nat
      /\ nextMarketId \in Nat /\ nextMarketId' = nextMarketId /\ m < nextMarketId
  BY DEF Claim, ClaimSucceeds, MayClaim, Exists, ContractInv, CurrentOK, StorageOK
<1>2. Payout(m, a) \in Nat /\ Payout(m, a) <= balance /\ ClaimableStake(m, a) \in Nat
  BY PayoutInt DEF Claim, ClaimSucceeds, ContractInv
<1>3. /\ MarketClaimed(m, a) \in MarketRecord /\ OutcomeOK(MarketClaimed(m, a))
      /\ MarketClaimed(m, a).resolver = markets[m].resolver
  <2>1. markets[m].claimedAmount + Payout(m, a) \in Nat /\ ClaimedStakeAfter(m, a) \in Nat
    BY <1>1, <1>2 DEF MarketRecord, ClaimedStakeAfter
  <2>2. CASE markets[m].status = "Cancelled"
    BY <1>1, <2>1, <2>2 DEF MarketClaimed, MarketRecord, OutcomeOK, PoolOf
  <2>3. CASE markets[m].status # "Cancelled"
    BY <1>1, <2>1, <2>3 DEF MarketClaimed, MarketRecord, OutcomeOK, PoolOf
  <2> QED
    BY <2>2, <2>3
<1>4. /\ markets' \in [Market -> MarketRecord]
      /\ \A n \in Market : OutcomeOK(markets'[n])
      /\ \A n \in Market : markets'[n].resolver # Nobody => n < nextMarketId'
  <2> DEFINE market == MarketClaimed(m, a)
  <2>1. markets' = [markets EXCEPT ![m] = market]
    BY DEF Claim
  <2>2. market.resolver = Nobody \/ m < nextMarketId'
    BY <1>1
  <2>3. nextMarketId' \in Nat /\ nextMarketId <= nextMarketId' /\ CurrentOK
    BY <1>1 DEF ContractInv
  <2>4. market \in MarketRecord /\ OutcomeOK(market)
    BY <1>3
  <2> HIDE DEF market
  <2> QED
    BY <2>1, <2>2, <2>3, <2>4, MarketChanges
<1>5. positions' \in [Market -> [Account -> PositionRecord]]
  <2> DEFINE position == [positions[m][a] EXCEPT !.claimed = TRUE]
  <2>1. positions[m] \in [Account -> PositionRecord] /\ positions[m][a] \in PositionRecord
    BY <1>1
  <2>2. position \in PositionRecord
    BY <2>1 DEF PositionRecord
  <2>3. positions' = [positions EXCEPT ![m] = [positions[m] EXCEPT ![a] = position]]
    BY <1>1 DEF Claim
  <2> HIDE DEF position
  <2>4. [positions[m] EXCEPT ![a] = position] \in [Account -> PositionRecord]
    BY <2>1, <2>2
  <2> QED
    BY <1>1, <2>3, <2>4
<1>6. balance' \in Nat /\ paid' \in [Market -> [Account -> Nat]]
  BY <1>1, <1>2 DEF Claim
<1>7. CurrentOK'
  BY <1>1, <1>4, <1>5, <1>6 DEF Claim, ContractInv, CurrentOK, StorageOK
<1>8. RestoredOK'
  BY DEF Claim, ContractInv, CurrentOK, RestoredOK, storage
<1> QED
  BY <1>7, <1>8 DEF Claim, ContractInv

\* Every step keeps the invariant.
LEMMA ContractStep == ContractInv /\ [Next]_vars => ContractInv'
<1> SUFFICES ASSUME ContractInv, [Next]_vars PROVE ContractInv'
  OBVIOUS
<1>1. ASSUME CurrentOK', UNCHANGED <<now, claiming, before>>
      PROVE  ContractInv'
  BY <1>1 DEF ContractInv, RestoredOK, StorageOK
<1>2. ASSUME NEW a \in Account, Call(a)
      PROVE  ContractInv'
  <2>1. CASE \E d \in Deadlines, r \in Resolvers : CreateMarket(a, d, r)
    BY <1>1, <2>1, CreateMarketOK DEF CreateMarket
  <2>2. CASE \E m \in Market, o \in Outcome, v \in Amounts : TakePosition(a, m, o, v)
    BY <1>1, <2>2, TakePositionOK DEF TakePosition
  <2>3. CASE \E m \in Market, o \in Outcome : ResolveMarket(a, m, o)
    BY <1>1, <2>3, DecisionOK DEF ResolveMarket
  <2>4. CASE \E m \in Market : CancelMarket(a, m)
    BY <1>1, <2>4, DecisionOK DEF CancelMarket
  <2>5. CASE \E m \in Market : Claim(a, m)
    BY <2>5, ClaimOK
  <2>6. CASE Pause(a) \/ Unpause(a)
    BY <1>1, <2>6 DEF Pause, Unpause, ContractInv, CurrentOK, StorageOK
  <2>7. CASE \E to \in Owners \cup {Nobody} : TransferOwnership(a, to)
    BY <1>1, <2>7, AccountAssumption
    DEF TransferOwnership, ContractInv, CurrentOK, StorageOK
  <2> QED
    BY <1>2, <2>1, <2>2, <2>3, <2>4, <2>5, <2>6, <2>7 DEF Call
<1>3. CASE ClaimAccepted
  BY <1>3 DEF ClaimAccepted, ContractInv, CurrentOK, StorageOK, storage
<1>4. CASE ClaimRejected
  BY <1>4 DEF ClaimRejected, ContractInv, CurrentOK, RestoredOK
<1>5. CASE Tick
  BY <1>5 DEF Tick, ContractInv, CurrentOK, StorageOK, storage
<1>6. CASE UNCHANGED vars
  BY <1>6 DEF vars, storage, ContractInv, CurrentOK, RestoredOK, StorageOK
<1> QED
  BY <1>2, <1>3, <1>4, <1>5, <1>6 DEF Next

----------------------------------------------------------------------------
\* Every variable of the contract keeps its type, and a market has an outcome
\* exactly when it is resolved, inside a claim and after its revert too.
THEOREM ContractTypes == Spec => []TypeOK
<1>1. ContractInv => TypeOK
  <2> SUFFICES ASSUME ContractInv PROVE TypeOK
    OBVIOUS
  <2>1. /\ CurrentOK /\ now \in Nat /\ claiming \in Account \cup {Nobody}
        /\ balance \in Nat /\ paused \in BOOLEAN /\ nextMarketId \in Nat
        /\ owner \in Account \cup {Nobody}
    BY DEF ContractInv, CurrentOK, StorageOK
  <2>2. ASSUME NEW m \in Market
        PROVE  markets[m] \in MarketRecord /\ OutcomeOK(markets[m])
    BY DEF ContractInv, CurrentOK, StorageOK
  <2>3. ASSUME NEW m \in Market, NEW a \in Account
        PROVE  positions[m][a] \in PositionRecord /\ paid[m][a] \in Nat
    BY DEF ContractInv, CurrentOK, StorageOK
  <2> QED
    BY <2>1, <2>2, <2>3 DEF TypeOK, MarketRecord, PositionRecord, OutcomeOK
<1> QED
  BY <1>1, ContractInit, ContractStep, PTL DEF Spec

----------------------------------------------------------------------------
\* A step that leaves a market's record and positions alone keeps it.
LEMMA UntouchedKeeps ==
  ASSUME NEW m \in Market, markets'[m] = markets[m], positions'[m] = positions[m]
  PROVE  Keeps(m)
  BY DEF Keeps

\* Stakes are taken before the deadline only, and a decision needs an open market.
LEMMA CallKeeps ==
  ASSUME ContractInv, NEW a \in Account, Call(a), NEW m \in Market, Exists(m)
  PROVE  Keeps(m)
<1>1. /\ markets \in [Market -> MarketRecord] /\ m < nextMarketId /\ m \in Nat
      /\ positions \in [Market -> [Account -> PositionRecord]] /\ now \in Nat
  BY DEF ContractInv, CurrentOK, StorageOK, Exists, Market
<1>2. ASSUME NEW d \in Deadlines, NEW r \in Resolvers, CreateMarket(a, d, r)
      PROVE  Keeps(m)
  BY <1>1, <1>2, UntouchedKeeps DEF CreateMarket
<1>3. ASSUME NEW n \in Market, NEW o \in Outcome, NEW v \in Amounts,
             TakePosition(a, n, o, v)
      PROVE  Keeps(m)
  <2>1. CASE n # m
    BY <1>1, <1>3, <2>1, UntouchedKeeps DEF TakePosition
  <2>2. CASE n = m
    <3>1. markets[m].status = "Open" /\ ~ (now >= markets[m].deadline)
      BY <1>1, <1>3, <2>2 DEF TakePosition, BettingOpen, MarketRecord
    <3> QED
      BY <3>1 DEF Keeps
  <2> QED
    BY <2>1, <2>2
<1>4. ASSUME NEW n \in Market,
             (\E o \in Outcome : ResolveMarket(a, n, o)) \/ CancelMarket(a, n)
      PROVE  Keeps(m)
  <2>1. CASE n # m
    BY <1>1, <1>4, <2>1, UntouchedKeeps DEF ResolveMarket, CancelMarket
  <2>2. CASE n = m
    BY <1>4, <2>2 DEF ResolveMarket, CancelMarket, Decides, Keeps
  <2> QED
    BY <2>1, <2>2
<1>5. ASSUME NEW n \in Market, Claim(a, n)
      PROVE  Keeps(m)
  <2>1. CASE n # m
    BY <1>1, <1>5, <2>1, UntouchedKeeps DEF Claim
  <2>2. CASE n = m
    <3>1. markets'[m] = MarketClaimed(m, a)
      BY <1>1, <1>5, <2>2 DEF Claim
    <3>2. /\ markets'[m].status = markets[m].status
          /\ markets'[m].winningOutcome = markets[m].winningOutcome
      BY <1>1, <3>1 DEF MarketClaimed, MarketRecord
    <3>3. positions'[m] = [positions[m] EXCEPT ![a].claimed = TRUE]
      BY <1>1, <1>5, <2>2 DEF Claim
    <3>4. ASSUME NEW b \in Account
          PROVE  /\ positions'[m][b].yesStake = positions[m][b].yesStake
                 /\ positions'[m][b].noStake = positions[m][b].noStake
      BY <1>1, <3>3 DEF PositionRecord
    <3> QED
      BY <3>2, <3>4 DEF Keeps
  <2> QED
    BY <2>1, <2>2
<1>6. CASE \/ Pause(a) \/ Unpause(a)
           \/ \E to \in Owners \cup {Nobody} : TransferOwnership(a, to)
  BY <1>6, UntouchedKeeps DEF Pause, Unpause, TransferOwnership
<1> QED
  BY <1>2, <1>3, <1>4, <1>5, <1>6 DEF Call

\* A decision is final and a closed market's stakes are fixed, whatever is
\* called by whom, from a claim's transfer as well.
THEOREM ContractSettled == Spec => Settled
<1>1. ContractInv /\ [Next]_vars => [SettledStep]_vars
  <2> SUFFICES ASSUME ContractInv, Next, ~ ClaimRejected, NEW m \in Market, Exists(m)
               PROVE  Keeps(m)
    BY DEF SettledStep
  <2>1. CASE \E a \in Account : Call(a)
    BY <2>1, CallKeeps
  <2>2. CASE ClaimAccepted \/ Tick
    BY <2>2, UntouchedKeeps DEF ClaimAccepted, Tick, storage
  <2> QED
    BY <2>1, <2>2 DEF Next
<1> QED
  BY <1>1, ContractInit, ContractStep, PTL DEF Spec, Settled

----------------------------------------------------------------------------
\* The accounts of one market, of its record and its positions

StakeOf(position, outcome) ==
  IF outcome = "Yes" THEN position.yesStake ELSE position.noStake

Due(market, position) ==
  IF market.status = "Cancelled" THEN position.yesStake + position.noStake
  ELSE StakeOf(position, market.winningOutcome)

Collected(market) == market.yesPool + market.noPool
Winning(market) == PoolOf(market, market.winningOutcome)
Held(market) == Collected(market) - market.claimedAmount

\* The stakes that a decided market pays for.
Backed(market) == IF market.status = "Cancelled" THEN Collected(market) ELSE Winning(market)

Worth(market, position) ==
  IF Due(market, position) = 0 THEN 0
  ELSE IF market.status = "Cancelled" THEN Due(market, position)
  ELSE MulDiv(Due(market, position), Collected(market), Winning(market))

Entitled(market, ps) == {a \in Account : Due(market, ps[a]) > 0}

Stakes(ps, outcome) == [a \in Account |-> StakeOf(ps[a], outcome)]
Dues(market, ps) == [a \in Account |-> Due(market, ps[a])]
ClaimedDues(market, ps) ==
  [a \in Account |-> IF ps[a].claimed THEN Due(market, ps[a]) ELSE 0]
Worths(market, ps) == [a \in Account |-> Worth(market, ps[a])]
Owed(market, ps) ==
  [a \in Account |-> IF ps[a].claimed THEN 0 ELSE Worth(market, ps[a])]

----------------------------------------------------------------------------
\* The invariant

\* The pools are the sums of the stakes, the amount claimed of the payments.
AddsUp(market, ps, out) ==
  /\ \A o \in Outcome : PoolOf(market, o) = SumFunctionOnSet(Stakes(ps, o), Account)
  /\ market.claimedAmount = SumFunctionOnSet(out, Account)

\* Nothing is claimed of an open market; a slot never written to holds nothing.
OpenBook(market, ps) ==
  /\ market.status = "Open" =>
       /\ \A a \in Account : ~ ps[a].claimed
       /\ market.claimedWinningStake = 0
  /\ market.resolver = Nobody =>
       market.status = "Open" /\ market.yesPool = 0 /\ market.noPool = 0

\* Who has claimed had a claim, and who has not is not paid.
ClaimBook(market, ps, out) ==
  \A a \in Account :
    IF ps[a].claimed THEN Due(market, ps[a]) > 0 ELSE out[a] = 0

\* A refund is the stake.
RefundBook(market, ps, out) ==
  market.status = "Cancelled" =>
    \A a \in Account : ps[a].claimed => out[a] = Due(market, ps[a])

\* Until the last winner has claimed each is paid the share rounded down; the
\* last takes what is left, less than a wei for each winner more than its own.
WinBook(market, ps, out) ==
  market.status = "Resolved" =>
    /\ market.claimedWinningStake = SumFunctionOnSet(ClaimedDues(market, ps), Account)
    /\ IF market.claimedWinningStake = Winning(market)
       THEN market.claimedAmount = Collected(market)
       ELSE \A a \in Account : ps[a].claimed => out[a] = Worth(market, ps[a])
    /\ \A a \in Account : ps[a].claimed =>
         /\ Worth(market, ps[a]) <= out[a]
         /\ out[a] < Worth(market, ps[a]) + Cardinality(Entitled(market, ps))

Book(market, ps, out) ==
  /\ AddsUp(market, ps, out)
  /\ OpenBook(market, ps)
  /\ ClaimBook(market, ps, out)
  /\ RefundBook(market, ps, out)
  /\ WinBook(market, ps, out)

Books(ms, ps, wei, out) ==
  /\ \A m \in Market : Book(ms[m], ps[m], out[m])
  /\ wei = SumFunctionOnSet([m \in Market |-> Held(ms[m])], Market)

\* What holds inside a claim's transfer, and of what its revert restores.
AccountInv ==
  /\ ContractInv
  /\ Books(markets, positions, balance, paid)
  /\ claiming # Nobody => Books(before[1], before[2], before[6], before[7])

----------------------------------------------------------------------------
\* What the operators return

\* The accounts of a market, as the storage holds them.
BookTypes(market, ps, out) ==
  /\ market \in MarketRecord /\ OutcomeOK(market)
  /\ ps \in [Account -> PositionRecord]
  /\ out \in [Account -> Nat]

\* Stakes, pools and claims are numbers of wei.
LEMMA BookNumbers ==
  ASSUME NEW market, NEW ps, NEW out, BookTypes(market, ps, out)
  PROVE  /\ market.yesPool \in Nat /\ market.noPool \in Nat
         /\ market.claimedAmount \in Nat /\ market.claimedWinningStake \in Nat
         /\ Collected(market) \in Nat /\ Winning(market) \in Nat
         /\ Held(market) \in Int
         /\ market.status = "Resolved" => Winning(market) > 0 /\ market.winningOutcome \in Outcome
         /\ market.status \in {"Open", "Resolved", "Cancelled"}
         /\ \A a \in Account :
              /\ out[a] \in Nat /\ ps[a] \in PositionRecord
              /\ ps[a].yesStake \in Nat /\ ps[a].noStake \in Nat
              /\ ps[a].claimed \in BOOLEAN
              /\ Due(market, ps[a]) \in Nat
              /\ \A o \in Outcome : StakeOf(ps[a], o) \in Nat
  BY DEF BookTypes, MarketRecord, OutcomeOK, PositionRecord, PoolOf, Collected, Winning,
         Held, Due, StakeOf

\* A quotient of natural numbers.
LEMMA Quotient ==
  ASSUME NEW x \in Nat, NEW z \in Nat \ {0}
  PROVE  /\ x \div z \in Nat
         /\ z * (x \div z) <= x
         /\ x <= z * (x \div z) + (z - 1)
  OBVIOUS

\* The share, rounded down: times the winning pool it is at most the stake
\* times all that was collected, and less than a winning pool below that.
LEMMA WorthBounds ==
  ASSUME NEW market, NEW ps, NEW out, BookTypes(market, ps, out), NEW a \in Account
  PROVE  /\ market.status # "Open" => Worth(market, ps[a]) \in Nat
         /\ Due(market, ps[a]) = 0 => Worth(market, ps[a]) = 0
         /\ market.status = "Cancelled" => Worth(market, ps[a]) = Due(market, ps[a])
         /\ market.status = "Resolved" =>
              /\ Winning(market) * Worth(market, ps[a]) <= Collected(market) * Due(market, ps[a])
              /\ Collected(market) * Due(market, ps[a]) <=
                   Winning(market) * Worth(market, ps[a])
                     + (IF Due(market, ps[a]) > 0 THEN Winning(market) - 1 ELSE 0)
<1>1. /\ Collected(market) \in Nat /\ Winning(market) \in Nat /\ Due(market, ps[a]) \in Nat
      /\ market.status = "Resolved" => Winning(market) > 0
      /\ market.status \in {"Open", "Resolved", "Cancelled"}
  BY BookNumbers
<1>2. CASE Due(market, ps[a]) = 0
  <2>1. Worth(market, ps[a]) = 0
    BY <1>2 DEF Worth
  <2>2. Winning(market) * 0 = 0 /\ Collected(market) * 0 = 0
    BY <1>1
  <2> QED
    BY <1>1, <1>2, <2>1, <2>2
<1>3. CASE market.status = "Cancelled"
  BY <1>1, <1>3 DEF Worth
<1>4. CASE Due(market, ps[a]) # 0 /\ market.status = "Resolved"
  <2> DEFINE x == Due(market, ps[a]) * Collected(market)
             z == Winning(market)
  <2>1. x \in Nat /\ z \in Nat \ {0} /\ x = Collected(market) * Due(market, ps[a])
    BY <1>1, <1>4
  <2>2. Worth(market, ps[a]) = x \div z
    BY <1>4 DEF Worth, MulDiv
  <2> HIDE DEF x, z
  <2>3. x \div z \in Nat /\ z * (x \div z) <= x /\ x <= z * (x \div z) + (z - 1)
    BY <2>1, Quotient
  <2> QED
    BY <1>1, <1>4, <2>1, <2>2, <2>3 DEF z
<1> QED
  BY <1>1, <1>2, <1>3, <1>4 DEF Worth

\* The stakes that a decided market pays for are those of the entitled.
LEMMA DueSum ==
  ASSUME NEW market, NEW ps, NEW out, BookTypes(market, ps, out), AddsUp(market, ps, out),
         market.status # "Open"
  PROVE  SumFunctionOnSet(Dues(market, ps), Account) = Backed(market)
<1>1. IsFiniteSet(Account)
  BY AccountAssumption
<1>2. \A a \in Account : /\ Dues(market, ps)[a] = Due(market, ps[a])
                         /\ Due(market, ps[a]) \in Nat
                         /\ \A o \in Outcome : Stakes(ps, o)[a] = StakeOf(ps[a], o)
                                            /\ StakeOf(ps[a], o) \in Nat
  BY BookNumbers DEF Dues, Stakes
<1>3. CASE market.status = "Cancelled"
  <2>1. "Yes" \in Outcome /\ "No" \in Outcome
    BY DEF Outcome
  <2>2. \A a \in Account : /\ Stakes(ps, "Yes")[a] \in Int /\ Stakes(ps, "No")[a] \in Int
                           /\ Dues(market, ps)[a] = Stakes(ps, "Yes")[a] + Stakes(ps, "No")[a]
                           /\ Dues(market, ps)[a] \in Int
    BY <1>2, <1>3, <2>1 DEF Due, StakeOf
  <2>3. SumFunctionOnSet(Dues(market, ps), Account) =
          SumFunctionOnSet(Stakes(ps, "Yes"), Account) + SumFunctionOnSet(Stakes(ps, "No"), Account)
    BY <1>1, <2>2, SumPlus
  <2> QED
    BY <1>3, <2>1, <2>3 DEF AddsUp, Backed, Collected, PoolOf
<1>4. CASE market.status = "Resolved"
  <2> DEFINE o == market.winningOutcome
  <2>1. o \in Outcome
    BY <1>4, BookNumbers
  <2>2. \A a \in Account : Dues(market, ps)[a] \in Int /\ Dues(market, ps)[a] = Stakes(ps, o)[a]
    BY <1>2, <1>4, <2>1 DEF Due
  <2>3. SumFunctionOnSet(Dues(market, ps), Account) = SumFunctionOnSet(Stakes(ps, o), Account)
    BY <1>1, <2>2, SumSame
  <2> QED
    BY <1>4, <2>1, <2>3 DEF AddsUp, Backed, Winning
<1> QED
  BY <1>3, <1>4, BookNumbers

\* A positive factor cancels.
LEMMA Cancel ==
  ASSUME NEW w \in Nat, w > 0, NEW x \in Int, NEW y \in Int, w * x <= w * y
  PROVE  x <= y
  OBVIOUS

\* It cancels under a strict inequality too.
LEMMA CancelStrict ==
  ASSUME NEW w \in Nat, w > 0, NEW x \in Int, NEW y \in Int, w * x < w * y
  PROVE  x < y
  OBVIOUS

\* The shares of a market together are at most what it collected.
LEMMA WorthSum ==
  ASSUME NEW market, NEW ps, NEW out, BookTypes(market, ps, out), AddsUp(market, ps, out),
         market.status # "Open"
  PROVE  SumFunctionOnSet(Worths(market, ps), Account) <= Collected(market)
<1>1. IsFiniteSet(Account)
  BY AccountAssumption
<1>2. \A a \in Account : Worths(market, ps)[a] = Worth(market, ps[a])
                      /\ Dues(market, ps)[a] = Due(market, ps[a])
                      /\ Worths(market, ps)[a] \in Nat /\ Dues(market, ps)[a] \in Nat
  BY WorthBounds, BookNumbers DEF Worths, Dues
<1>3. SumFunctionOnSet(Worths(market, ps), Account) \in Nat
  BY <1>1, <1>2, SumNat
<1>4. CASE market.status = "Cancelled"
  <2>1. \A a \in Account : Worths(market, ps)[a] = Dues(market, ps)[a]
    BY <1>2, <1>4, WorthBounds
  <2>2. SumFunctionOnSet(Worths(market, ps), Account) = SumFunctionOnSet(Dues(market, ps), Account)
    BY <1>1, <1>2, <2>1, SumSame
  <2>3. SumFunctionOnSet(Dues(market, ps), Account) = Collected(market)
    BY <1>4, DueSum DEF Backed
  <2> QED
    BY <1>3, <2>2, <2>3
<1>5. CASE market.status = "Resolved"
  <2> DEFINE w == Winning(market)
             t == Collected(market)
             shares == [a \in Account |-> w * Worth(market, ps[a])]
             claims == [a \in Account |-> t * Due(market, ps[a])]
  <2>1. w \in Nat /\ w > 0 /\ t \in Nat
    BY <1>5, BookNumbers
  <2>2. \A a \in Account : shares[a] <= claims[a]
    BY <1>5, WorthBounds
  <2>3. \A a \in Account : /\ shares[a] = w * Worths(market, ps)[a]
                           /\ claims[a] = t * Dues(market, ps)[a]
                           /\ shares[a] \in Int /\ claims[a] \in Int
    BY <1>2, <2>1
  <2> HIDE DEF w, t, shares, claims
  <2>4. SumFunctionOnSet(shares, Account) <= SumFunctionOnSet(claims, Account)
    BY <1>1, <2>2, <2>3, SumLeq
  <2>5. SumFunctionOnSet(shares, Account) = w * SumFunctionOnSet(Worths(market, ps), Account)
    BY <1>1, <1>2, <2>1, <2>3, SumTimes
  <2>6. SumFunctionOnSet(claims, Account) = t * SumFunctionOnSet(Dues(market, ps), Account)
    BY <1>1, <1>2, <2>1, <2>3, SumTimes
  <2>7. SumFunctionOnSet(Dues(market, ps), Account) = w
    BY <1>5, DueSum DEF Backed, w
  <2>8. w * SumFunctionOnSet(Worths(market, ps), Account) <= w * t
    BY <2>1, <2>4, <2>5, <2>6, <2>7
  <2> QED
    BY <1>3, <2>1, <2>8, Cancel DEF t
<1> QED
  BY <1>4, <1>5, BookNumbers

\* Rounding loses less than a wei for each winner.
LEMMA DustBound ==
  ASSUME NEW market, NEW ps, NEW out, BookTypes(market, ps, out), AddsUp(market, ps, out),
         market.status = "Resolved"
  PROVE  /\ Cardinality(Entitled(market, ps)) \in Nat
         /\ Collected(market) <
              SumFunctionOnSet(Worths(market, ps), Account) + Cardinality(Entitled(market, ps))
<1> DEFINE w == Winning(market)
           t == Collected(market)
           n == Cardinality(Entitled(market, ps))
           one == [a \in Account |-> IF a \in Entitled(market, ps) THEN 1 ELSE 0]
           shares == [a \in Account |-> w * Worth(market, ps[a])]
           losses == [a \in Account |-> (w - 1) * one[a]]
           bounds == [a \in Account |-> shares[a] + losses[a]]
           claims == [a \in Account |-> t * Due(market, ps[a])]
           sum == SumFunctionOnSet(Worths(market, ps), Account)
<1>1. IsFiniteSet(Account) /\ Entitled(market, ps) \in SUBSET Account
  BY AccountAssumption DEF Entitled
<1>2. \A a \in Account : Worths(market, ps)[a] = Worth(market, ps[a])
                      /\ Dues(market, ps)[a] = Due(market, ps[a])
                      /\ Worths(market, ps)[a] \in Nat /\ Dues(market, ps)[a] \in Nat
  BY WorthBounds, BookNumbers DEF Worths, Dues
<1>3. w \in Nat /\ w > 0 /\ t \in Nat
  BY BookNumbers
<1>4. sum \in Nat
  BY <1>1, <1>2, SumNat
<1>5. \A a \in Account : one[a] \in Int /\ one[a] = IF a \in Entitled(market, ps) THEN 1 ELSE 0
  OBVIOUS
<1>6. n \in Nat /\ SumFunctionOnSet(one, Account) = n
  <2>1. IsFiniteSet(Entitled(market, ps))
    BY <1>1, FS_Subset
  <2>2. n \in Nat
    BY <2>1, FS_CardinalityType
  <2> HIDE DEF one
  <2> QED
    BY <1>1, <1>5, <2>2, SumCount
<1>7. \A a \in Account : /\ shares[a] = w * Worths(market, ps)[a] /\ shares[a] \in Int
                         /\ claims[a] = t * Dues(market, ps)[a] /\ claims[a] \in Int
                         /\ losses[a] = (w - 1) * one[a] /\ losses[a] \in Int
                         /\ bounds[a] = shares[a] + losses[a] /\ bounds[a] \in Int
  <2> HIDE DEF w, t, one
  <2> QED
    BY <1>2, <1>3, <1>5
<1>8. \A a \in Account : claims[a] <= bounds[a]
  <2> SUFFICES ASSUME NEW a \in Account PROVE claims[a] <= bounds[a]
    OBVIOUS
  <2>1. losses[a] = IF Due(market, ps[a]) > 0 THEN w - 1 ELSE 0
    BY <1>3 DEF Entitled
  <2>2. claims[a] <= shares[a] + (IF Due(market, ps[a]) > 0 THEN w - 1 ELSE 0)
    BY WorthBounds
  <2> QED
    BY <2>1, <2>2
<1>9. SumFunctionOnSet(Dues(market, ps), Account) = w
  BY DueSum DEF Backed
<1> HIDE DEF w, t, n, one, shares, losses, bounds, claims, sum
<1>10. SumFunctionOnSet(claims, Account) <= SumFunctionOnSet(bounds, Account)
  BY <1>1, <1>7, <1>8, SumLeq
<1>11. SumFunctionOnSet(bounds, Account) =
         SumFunctionOnSet(shares, Account) + SumFunctionOnSet(losses, Account)
  BY <1>1, <1>7, SumPlus
<1>12. SumFunctionOnSet(shares, Account) = w * sum
  <2>1. /\ w \in Int
        /\ \A a \in Account : /\ Worths(market, ps)[a] \in Int
                             /\ shares[a] = w * Worths(market, ps)[a]
    BY <1>2, <1>3, <1>7
  <2> QED
    BY <1>1, <2>1, SumTimes DEF sum
<1>13. SumFunctionOnSet(losses, Account) = (w - 1) * n
  <2>1. w - 1 \in Int /\ \A a \in Account : one[a] \in Int /\ losses[a] = (w - 1) * one[a]
    BY <1>3, <1>5, <1>7
  <2> QED
    BY <1>1, <1>6, <2>1, SumTimes
<1>14. SumFunctionOnSet(claims, Account) = t * w
  <2>1. /\ t \in Int
        /\ \A a \in Account : /\ Dues(market, ps)[a] \in Int
                             /\ claims[a] = t * Dues(market, ps)[a]
    BY <1>2, <1>3, <1>7
  <2>2. SumFunctionOnSet(claims, Account) = t * SumFunctionOnSet(Dues(market, ps), Account)
    BY <1>1, <2>1, SumTimes
  <2> QED
    BY <1>9, <2>2
<1>15. n > 0
  <2>1. CASE n = 0
    <3>1. t * w <= w * sum + (w - 1) * 0
      BY <1>10, <1>11, <1>12, <1>13, <1>14, <2>1
    <3>2. Entitled(market, ps) = {}
      BY <1>1, <2>1, FS_Subset, FS_EmptySet DEF n
    <3>3. \A a \in Account : Dues(market, ps)[a] = 0
      BY <1>2, <3>2 DEF Entitled
    <3>4. SumFunctionOnSet(Dues(market, ps), Account) = 0
      BY <1>1, <3>3, SumZero
    <3> QED
      BY <1>3, <1>9, <3>4
  <2> QED
    BY <1>6, <2>1
<1>16. t * w <= w * sum + (w - 1) * n
  BY <1>10, <1>11, <1>12, <1>13, <1>14
<1>17. w * t < w * (sum + n)
  BY <1>3, <1>4, <1>6, <1>15, <1>16
<1>18. t < sum + n
  BY <1>3, <1>4, <1>6, <1>17, CancelStrict
<1> QED
  BY <1>6, <1>18 DEF t, sum, n

\* When the stakes that have claimed are all that the market pays for, all
\* that are entitled have claimed, and conversely.
LEMMA AllClaimed ==
  ASSUME NEW market, NEW ps, NEW out, BookTypes(market, ps, out), AddsUp(market, ps, out),
         market.status # "Open"
  PROVE  SumFunctionOnSet(ClaimedDues(market, ps), Account) = Backed(market)
           <=> \A a \in Entitled(market, ps) : ps[a].claimed
<1>1. IsFiniteSet(Account)
  BY AccountAssumption
<1>2. \A a \in Account :
        /\ Dues(market, ps)[a] = Due(market, ps[a]) /\ Due(market, ps[a]) \in Nat
        /\ ClaimedDues(market, ps)[a] = IF ps[a].claimed THEN Due(market, ps[a]) ELSE 0
  BY BookNumbers DEF Dues, ClaimedDues
<1>3. \A a \in Account : /\ ClaimedDues(market, ps)[a] \in Int /\ Dues(market, ps)[a] \in Int
                         /\ ClaimedDues(market, ps)[a] <= Dues(market, ps)[a]
  BY <1>2
<1>4. SumFunctionOnSet(Dues(market, ps), Account) = Backed(market)
  BY DueSum
<1>5. ASSUME SumFunctionOnSet(ClaimedDues(market, ps), Account) = Backed(market)
      PROVE  \A a \in Entitled(market, ps) : ps[a].claimed
  <2>1. \A a \in Account : ClaimedDues(market, ps)[a] = Dues(market, ps)[a]
    BY <1>1, <1>3, <1>4, <1>5, SumEqual
  <2> QED
    BY <1>2, <2>1 DEF Entitled
<1>6. ASSUME \A a \in Entitled(market, ps) : ps[a].claimed
      PROVE  SumFunctionOnSet(ClaimedDues(market, ps), Account) = Backed(market)
  <2>1. \A a \in Account : ClaimedDues(market, ps)[a] = Dues(market, ps)[a]
    BY <1>2, <1>6 DEF Entitled
  <2> QED
    BY <1>1, <1>3, <1>4, <2>1, SumSame
<1> QED
  BY <1>5, <1>6

\* What a decided market owes those who have not claimed, it holds.
LEMMA Covered ==
  ASSUME NEW market, NEW ps, NEW out, BookTypes(market, ps, out), Book(market, ps, out),
         market.status # "Open"
  PROVE  /\ SumFunctionOnSet(Owed(market, ps), Account) <= Held(market)
         /\ Held(market) \in Nat
         /\ \A a \in Account : ~ ps[a].claimed => Worth(market, ps[a]) <= Held(market)
<1> DEFINE owed == SumFunctionOnSet(Owed(market, ps), Account)
<1>1. IsFiniteSet(Account)
  BY AccountAssumption
<1>2. \A a \in Account :
        /\ Owed(market, ps)[a] = IF ps[a].claimed THEN 0 ELSE Worth(market, ps[a])
        /\ Worths(market, ps)[a] = Worth(market, ps[a])
        /\ Worth(market, ps[a]) \in Nat /\ out[a] \in Nat
        /\ ps[a].claimed \in BOOLEAN
  BY BookNumbers, WorthBounds DEF Owed, Worths
<1>3. owed \in Nat /\ \A a \in Account : Owed(market, ps)[a] <= owed
  <2>1. \A a \in Account : Owed(market, ps)[a] \in Nat
    BY <1>2
  <2> QED
    BY <1>1, <2>1, SumNat
<1>4. market.claimedAmount = SumFunctionOnSet(out, Account) /\ market.claimedAmount \in Nat
      /\ Collected(market) \in Nat
  BY BookNumbers DEF Book, AddsUp
<1>5. AddsUp(market, ps, out)
  BY DEF Book
<1>6. owed <= Held(market)
  <2>1. ASSUME \A a \in Account : out[a] = IF ps[a].claimed THEN Worth(market, ps[a]) ELSE 0
        PROVE  owed <= Held(market)
    <3>1. \A a \in Account : /\ Owed(market, ps)[a] \in Int /\ out[a] \in Int
                             /\ Worths(market, ps)[a] \in Int
                             /\ Worths(market, ps)[a] = Owed(market, ps)[a] + out[a]
      BY <1>2, <2>1
    <3>2. SumFunctionOnSet(Worths(market, ps), Account) = owed + market.claimedAmount
      BY <1>1, <1>4, <3>1, SumPlus
    <3>3. SumFunctionOnSet(Worths(market, ps), Account) <= Collected(market)
      BY <1>5, WorthSum
    <3> QED
      BY <1>3, <1>4, <3>2, <3>3 DEF Held
  <2>2. CASE market.status = "Cancelled"
    <3>1. \A a \in Account : out[a] = IF ps[a].claimed THEN Worth(market, ps[a]) ELSE 0
      BY <1>2, <2>2, WorthBounds DEF Book, ClaimBook, RefundBook
    <3> QED
      BY <2>1, <3>1
  <2>3. CASE market.status = "Resolved" /\ market.claimedWinningStake # Winning(market)
    <3>1. \A a \in Account : out[a] = IF ps[a].claimed THEN Worth(market, ps[a]) ELSE 0
      BY <1>2, <2>3 DEF Book, ClaimBook, WinBook
    <3> QED
      BY <2>1, <3>1
  <2>4. CASE market.status = "Resolved" /\ market.claimedWinningStake = Winning(market)
    <3>1. SumFunctionOnSet(ClaimedDues(market, ps), Account) = Backed(market)
          /\ market.claimedAmount = Collected(market)
      BY <2>4 DEF Book, WinBook, Backed
    <3>2. \A a \in Entitled(market, ps) : ps[a].claimed
      BY <1>5, <3>1, AllClaimed
    <3>3. \A a \in Account : Owed(market, ps)[a] = 0
      BY <1>2, <3>2, BookNumbers, WorthBounds DEF Entitled
    <3>4. owed = 0
      BY <1>1, <3>3, SumZero
    <3> QED
      BY <1>4, <3>1, <3>4 DEF Held
  <2> QED
    BY <2>2, <2>3, <2>4, BookNumbers
<1>7. Held(market) \in Int
  BY BookNumbers
<1> HIDE DEF owed
<1>8. Held(market) \in Nat
  BY <1>3, <1>6, <1>7
<1>9. \A a \in Account : ~ ps[a].claimed => Worth(market, ps[a]) <= Held(market)
  BY <1>2, <1>3, <1>6, <1>7
<1> QED
  BY <1>6, <1>8, <1>9 DEF owed

\* An open market holds all that it collected.
LEMMA OpenHeld ==
  ASSUME NEW market, NEW ps, NEW out, BookTypes(market, ps, out), Book(market, ps, out),
         market.status = "Open"
  PROVE  market.claimedAmount = 0 /\ \A a \in Account : out[a] = 0
<1>1. IsFiniteSet(Account)
  BY AccountAssumption
<1>2. \A a \in Account : out[a] = 0
  BY DEF Book, OpenBook, ClaimBook
<1>3. SumFunctionOnSet(out, Account) = 0
  BY <1>1, <1>2, SumZero
<1> QED
  BY <1>2, <1>3 DEF Book, AddsUp

----------------------------------------------------------------------------
\* What the calls do to the accounts of a market

\* A stake that grows by v adds v to the sum of its side.
LEMMA StakeSum ==
  ASSUME NEW ps, NEW ps1, NEW a \in Account, NEW p, NEW v \in Nat,
         \A b \in Account : StakeOf(ps[b], p) \in Nat,
         \A b \in Account \ {a} : StakeOf(ps1[b], p) = StakeOf(ps[b], p),
         StakeOf(ps1[a], p) = StakeOf(ps[a], p) + v
  PROVE  SumFunctionOnSet(Stakes(ps1, p), Account) = SumFunctionOnSet(Stakes(ps, p), Account) + v
<1>1. IsFiniteSet(Account)
  BY AccountAssumption
<1> DEFINE f == Stakes(ps, p)
           g == Stakes(ps1, p)
<1>2. \A b \in Account : f[b] = StakeOf(ps[b], p) /\ g[b] = StakeOf(ps1[b], p)
  BY DEF Stakes
<1> HIDE DEF f, g
<1>3. \A b \in Account : f[b] \in Int /\ g[b] \in Int /\ (b # a => f[b] = g[b])
  BY <1>2
<1>4. g[a] - f[a] = v
  BY <1>2
<1>5. SumFunctionOnSet(g, Account) = SumFunctionOnSet(f, Account) + (g[a] - f[a])
  BY <1>1, <1>3, SumChange
<1> QED
  BY <1>4, <1>5 DEF f, g

\* The market and its positions after takePosition.
Staked(market, o, v) ==
  IF o = "Yes" THEN [market EXCEPT !.yesPool = @ + v] ELSE [market EXCEPT !.noPool = @ + v]
StakeTaken(ps, a, o, v) ==
  IF o = "Yes" THEN [ps EXCEPT ![a].yesStake = @ + v] ELSE [ps EXCEPT ![a].noStake = @ + v]

\* takePosition adds to a pool what it adds to a stake.
LEMMA StakeBook ==
  ASSUME NEW market, NEW ps, NEW out, BookTypes(market, ps, out), Book(market, ps, out),
         market.status = "Open", market.resolver # Nobody,
         NEW a \in Account, NEW v \in Nat, NEW o \in Outcome, NEW market1, NEW ps1,
         market1 = Staked(market, o, v), ps1 = StakeTaken(ps, a, o, v)
  PROVE  Book(market1, ps1, out) /\ Held(market1) = Held(market) + v
<1>1. /\ market \in MarketRecord /\ ps \in [Account -> PositionRecord]
      /\ out \in [Account -> Nat] /\ IsFiniteSet(Account)
  BY AccountAssumption DEF BookTypes
<1>2. /\ market1.status = "Open" /\ market1.resolver = market.resolver
      /\ market1.claimedAmount = market.claimedAmount
      /\ market1.claimedWinningStake = market.claimedWinningStake
      /\ PoolOf(market1, o) = PoolOf(market, o) + v
      /\ \A p \in Outcome \ {o} : PoolOf(market1, p) = PoolOf(market, p)
      /\ Collected(market1) = Collected(market) + v
  BY <1>1 DEF PoolOf, Outcome, MarketRecord, Collected, Staked
<1>3. \A b \in Account : /\ ps1[b].claimed = ps[b].claimed
                         /\ b # a => ps1[b] = ps[b]
  BY <1>1 DEF PositionRecord, StakeTaken
<1>4. /\ ps1[a].yesStake = IF o = "Yes" THEN ps[a].yesStake + v ELSE ps[a].yesStake
      /\ ps1[a].noStake = IF o = "Yes" THEN ps[a].noStake ELSE ps[a].noStake + v
  BY <1>1 DEF PositionRecord, StakeTaken
<1>5. \A p \in Outcome : StakeOf(ps[a], p) \in Nat
          /\ StakeOf(ps1[a], p) = IF p = o THEN StakeOf(ps[a], p) + v ELSE StakeOf(ps[a], p)
  BY <1>4, BookNumbers DEF StakeOf, Outcome
<1>6. ASSUME NEW p \in Outcome
      PROVE  PoolOf(market1, p) = SumFunctionOnSet(Stakes(ps1, p), Account)
  <2>0. \A b \in Account : StakeOf(ps[b], p) \in Nat
    BY BookNumbers
  <2>1. /\ \A b \in Account : StakeOf(ps[b], p) \in Nat
        /\ \A b \in Account \ {a} : StakeOf(ps1[b], p) = StakeOf(ps[b], p)
    BY <1>3, <2>0
  <2>2. SumFunctionOnSet(Stakes(ps, p), Account) = PoolOf(market, p)
        /\ PoolOf(market, p) \in Nat
    BY BookNumbers DEF Book, AddsUp, PoolOf
  <2>3. CASE p = o
    <3>1. StakeOf(ps1[a], p) = StakeOf(ps[a], p) + v
      BY <1>5, <2>3
    <3>2. SumFunctionOnSet(Stakes(ps1, p), Account) =
            SumFunctionOnSet(Stakes(ps, p), Account) + v
      BY <2>1, <3>1, StakeSum
    <3> QED
      BY <1>2, <2>2, <2>3, <3>2
  <2>4. CASE p # o
    <3>1. \A b \in Account : StakeOf(ps1[b], p) = StakeOf(ps[b], p)
      BY <1>5, <2>1, <2>4
    <3>2. Stakes(ps1, p) = Stakes(ps, p)
      BY <3>1 DEF Stakes
    <3> QED
      BY <1>2, <2>2, <2>4, <3>2
  <2> QED
    BY <2>3, <2>4
<1>7. market.claimedAmount = SumFunctionOnSet(out, Account)
      /\ (\A b \in Account : ~ ps[b].claimed /\ out[b] = 0)
      /\ market.claimedWinningStake = 0
  BY DEF Book, AddsUp, OpenBook, ClaimBook
<1>8. Held(market1) = Held(market) + v
  BY <1>2, BookNumbers DEF Held
<1>9. AddsUp(market1, ps1, out)
  BY <1>2, <1>6, <1>7 DEF AddsUp
<1>10. OpenBook(market1, ps1) /\ ClaimBook(market1, ps1, out)
  <2>1. \A b \in Account : ~ ps1[b].claimed /\ out[b] = 0
    BY <1>3, <1>7
  <2> QED
    BY <1>2, <1>7, <2>1 DEF OpenBook, ClaimBook
<1>11. RefundBook(market1, ps1, out) /\ WinBook(market1, ps1, out)
  BY <1>2 DEF RefundBook, WinBook
<1> QED
  BY <1>8, <1>9, <1>10, <1>11 DEF Book

\* A decision changes no sum.
LEMMA DecisionBook ==
  ASSUME NEW market, NEW ps, NEW out, BookTypes(market, ps, out), Book(market, ps, out),
         market.status = "Open", market.resolver # Nobody, NEW market1,
         \/ market1 = [market EXCEPT !.status = "Cancelled"]
         \/ \E o \in Outcome : /\ PoolOf(market, o) # 0
                               /\ market1 = [market EXCEPT !.status = "Resolved",
                                                           !.winningOutcome = o]
  PROVE  Book(market1, ps, out) /\ Held(market1) = Held(market)
<1>1. /\ market \in MarketRecord /\ ps \in [Account -> PositionRecord]
      /\ out \in [Account -> Nat] /\ IsFiniteSet(Account)
  BY AccountAssumption DEF BookTypes
<1>2. /\ market1.resolver # Nobody
      /\ market1.yesPool = market.yesPool /\ market1.noPool = market.noPool
      /\ market1.claimedAmount = market.claimedAmount
      /\ market1.claimedWinningStake = market.claimedWinningStake
      /\ market1.status \in {"Resolved", "Cancelled"}
      /\ market1.status = "Resolved" => PoolOf(market, market1.winningOutcome) # 0
  BY <1>1 DEF MarketRecord
<1>3. /\ \A a \in Account : ~ ps[a].claimed /\ out[a] = 0
      /\ market.claimedWinningStake = 0
  BY DEF Book, OpenBook, ClaimBook
<1>4. AddsUp(market1, ps, out)
  BY <1>2 DEF Book, AddsUp, PoolOf
<1>5. SumFunctionOnSet(ClaimedDues(market1, ps), Account) = 0
  <2>1. \A a \in Account : ClaimedDues(market1, ps)[a] = 0
    BY <1>3 DEF ClaimedDues
  <2> QED
    BY <1>1, <2>1, SumZero
<1>6. WinBook(market1, ps, out)
  BY <1>2, <1>3, <1>5 DEF WinBook, Winning, PoolOf
<1> QED
  BY <1>2, <1>3, <1>4, <1>6 DEF Book, OpenBook, ClaimBook, RefundBook, Held, Collected

\* The market that createMarket writes.
Created(d, r) == [NoMarket EXCEPT !.resolver = r, !.deadline = d]

\* createMarket writes to a slot that holds nothing.
LEMMA CreationBook ==
  ASSUME NEW market, NEW ps, NEW out, BookTypes(market, ps, out), Book(market, ps, out),
         market.resolver = Nobody, NEW d, NEW r, r # Nobody
  PROVE  Book(Created(d, r), ps, out) /\ Held(Created(d, r)) = Held(market)
<1> DEFINE market1 == Created(d, r)
<1>1. /\ market.status = "Open" /\ market.yesPool = 0 /\ market.noPool = 0
      /\ \A a \in Account : ~ ps[a].claimed
  BY DEF Book, OpenBook
<1>2. market.claimedAmount = 0 /\ \A a \in Account : out[a] = 0
  BY <1>1, OpenHeld
<1>3. /\ market1.status = "Open" /\ market1.yesPool = 0 /\ market1.noPool = 0
      /\ market1.claimedAmount = 0 /\ market1.claimedWinningStake = 0
      /\ market1.resolver # Nobody
  BY DEF NoMarket, Created
<1> HIDE DEF market1
<1>4. Book(market1, ps, out) /\ Held(market1) = Held(market)
  BY <1>1, <1>2, <1>3 DEF Book, AddsUp, PoolOf, OpenBook, ClaimBook, RefundBook, WinBook,
                          Held, Collected
<1> QED
  BY <1>4 DEF market1

\* What claim pays, and the market and its positions after it.
PaidFor(market, position) ==
  IF market.status = "Cancelled" THEN Due(market, position)
  ELSE IF market.claimedWinningStake + Due(market, position) = Winning(market)
  THEN Held(market)
  ELSE MulDiv(Due(market, position), Collected(market), Winning(market))

Claimed(market, position) ==
  IF market.status = "Cancelled"
  THEN [market EXCEPT !.claimedAmount = @ + PaidFor(market, position)]
  ELSE [market EXCEPT !.claimedAmount = @ + PaidFor(market, position),
                      !.claimedWinningStake = @ + Due(market, position)]

ClaimMarked(ps, a) == [ps EXCEPT ![a].claimed = TRUE]
Paid(out, a, v) == [out EXCEPT ![a] = @ + v]

\* A claim that is owed is worth a number of wei, and the market holds them.
LEMMA ClaimFunded ==
  ASSUME NEW market, NEW ps, NEW out, BookTypes(market, ps, out), Book(market, ps, out),
         market.status # "Open", NEW a \in Account, ~ ps[a].claimed
  PROVE  PaidFor(market, ps[a]) \in Nat /\ PaidFor(market, ps[a]) <= Held(market)
<1>1. /\ Held(market) \in Nat /\ Worth(market, ps[a]) <= Held(market)
      /\ Worth(market, ps[a]) \in Nat
  BY Covered, WorthBounds
<1>2. CASE market.status = "Cancelled"
  BY <1>1, <1>2, WorthBounds DEF PaidFor
<1>3. CASE market.status = "Resolved"
  <2>1. Due(market, ps[a]) \in Nat /\ Collected(market) \in Nat /\ Winning(market) \in Nat \ {0}
    BY <1>3, BookNumbers
  <2>2. MulDiv(Due(market, ps[a]), Collected(market), Winning(market)) = Worth(market, ps[a])
    <3>1. CASE Due(market, ps[a]) = 0
      <4>1. 0 * Collected(market) = 0 /\ 0 \div Winning(market) = 0
        BY <2>1
      <4> QED
        BY <3>1, <4>1 DEF MulDiv, Worth
    <3>2. CASE Due(market, ps[a]) # 0
      BY <1>3, <3>2 DEF Worth
    <3> QED
      BY <3>1, <3>2
  <2> QED
    BY <1>1, <1>3, <2>2 DEF PaidFor
<1> QED
  BY <1>2, <1>3, BookNumbers

\* What a claim changes of a market and of its positions.
LEMMA ClaimEffects ==
  ASSUME NEW market, NEW ps, NEW out, BookTypes(market, ps, out), Book(market, ps, out),
         market.status # "Open", NEW a \in Account, ~ ps[a].claimed,
         NEW market1, NEW ps1, NEW out1,
         market1 = Claimed(market, ps[a]), ps1 = ClaimMarked(ps, a),
         out1 = Paid(out, a, PaidFor(market, ps[a]))
  PROVE  /\ BookTypes(market1, ps1, out1)
         /\ market1.status = market.status /\ market1.resolver = market.resolver
         /\ Collected(market1) = Collected(market) /\ Winning(market1) = Winning(market)
         /\ Backed(market1) = Backed(market)
         /\ \A o \in Outcome : PoolOf(market1, o) = PoolOf(market, o)
         /\ market1.claimedAmount = market.claimedAmount + PaidFor(market, ps[a])
         /\ market.status = "Resolved" =>
              market1.claimedWinningStake = market.claimedWinningStake + Due(market, ps[a])
         /\ ps1[a].claimed /\ out1[a] = PaidFor(market, ps[a]) /\ out[a] = 0
         /\ \A b \in Account :
              /\ b # a => ps1[b].claimed = ps[b].claimed /\ out1[b] = out[b]
              /\ \A o \in Outcome : StakeOf(ps1[b], o) = StakeOf(ps[b], o)
              /\ Due(market1, ps1[b]) = Due(market, ps[b])
              /\ Worth(market1, ps1[b]) = Worth(market, ps[b])
         /\ Entitled(market1, ps1) = Entitled(market, ps)
<1>1. /\ market \in MarketRecord /\ OutcomeOK(market) /\ ps \in [Account -> PositionRecord]
      /\ out \in [Account -> Nat]
  BY DEF BookTypes
<1>2. PaidFor(market, ps[a]) \in Nat /\ Due(market, ps[a]) \in Nat
  BY ClaimFunded, BookNumbers
<1>3. /\ market1 \in MarketRecord
      /\ market1.status = market.status /\ market1.resolver = market.resolver
      /\ market1.winningOutcome = market.winningOutcome
      /\ market1.yesPool = market.yesPool /\ market1.noPool = market.noPool
      /\ market1.claimedAmount = market.claimedAmount + PaidFor(market, ps[a])
      /\ market.status = "Resolved" =>
           market1.claimedWinningStake = market.claimedWinningStake + Due(market, ps[a])
  <2> DEFINE amount == market.claimedAmount + PaidFor(market, ps[a])
             stake == market.claimedWinningStake + Due(market, ps[a])
  <2>1. amount \in Nat /\ stake \in Nat
    BY <1>2, BookNumbers
  <2>2. market1 = IF market.status = "Cancelled"
                  THEN [market EXCEPT !.claimedAmount = amount]
                  ELSE [market EXCEPT !.claimedAmount = amount, !.claimedWinningStake = stake]
    BY DEF Claimed
  <2> HIDE DEF amount, stake
  <2>3. CASE market.status = "Cancelled"
    <3>1. market1 = [market EXCEPT !.claimedAmount = amount]
      BY <2>2, <2>3
    <3>2. market1 \in MarketRecord
      BY <1>1, <2>1, <3>1 DEF MarketRecord
    <3> QED
      BY <1>1, <2>3, <3>1, <3>2 DEF MarketRecord, amount
  <2>4. CASE market.status # "Cancelled"
    <3>1. market1 = [market EXCEPT !.claimedAmount = amount, !.claimedWinningStake = stake]
      BY <2>2, <2>4
    <3>2. market1 \in MarketRecord
      BY <1>1, <2>1, <3>1 DEF MarketRecord
    <3> QED
      BY <1>1, <3>1, <3>2 DEF MarketRecord, amount, stake
  <2> QED
    BY <2>3, <2>4
<1>4. /\ Collected(market1) = Collected(market) /\ Winning(market1) = Winning(market)
      /\ Backed(market1) = Backed(market) /\ OutcomeOK(market1)
      /\ \A o \in Outcome : PoolOf(market1, o) = PoolOf(market, o)
  BY <1>1, <1>3 DEF Collected, Winning, Backed, OutcomeOK, PoolOf
<1>5. /\ ps1 \in [Account -> PositionRecord] /\ ps1[a].claimed
      /\ \A b \in Account : /\ b # a => ps1[b].claimed = ps[b].claimed
                            /\ ps1[b].yesStake = ps[b].yesStake
                            /\ ps1[b].noStake = ps[b].noStake
  <2>1. ps1 = [ps EXCEPT ![a] = [ps[a] EXCEPT !.claimed = TRUE]]
    BY <1>1 DEF ClaimMarked
  <2> DEFINE position == [ps[a] EXCEPT !.claimed = TRUE]
  <2>2. /\ position \in PositionRecord /\ position.claimed
        /\ position.yesStake = ps[a].yesStake /\ position.noStake = ps[a].noStake
    BY <1>1 DEF PositionRecord
  <2> HIDE DEF position
  <2>3. ps1 \in [Account -> PositionRecord] /\ ps1[a] = position
        /\ \A b \in Account : b # a => ps1[b] = ps[b]
    BY <1>1, <2>1, <2>2 DEF position
  <2> QED
    BY <2>2, <2>3
<1>6. out[a] = 0
  BY DEF Book, ClaimBook
<1>7. /\ out1 \in [Account -> Nat] /\ out1[a] = PaidFor(market, ps[a])
      /\ \A b \in Account : b # a => out1[b] = out[b]
  BY <1>1, <1>2, <1>6 DEF Paid
<1>8. ASSUME NEW b \in Account
      PROVE  /\ \A o \in Outcome : StakeOf(ps1[b], o) = StakeOf(ps[b], o)
             /\ Due(market1, ps1[b]) = Due(market, ps[b])
             /\ Worth(market1, ps1[b]) = Worth(market, ps[b])
  <2>1. Due(market1, ps1[b]) = Due(market, ps[b])
    BY <1>3, <1>5 DEF Due, StakeOf
  <2>2. Worth(market1, ps1[b]) = Worth(market, ps[b])
    BY <1>3, <1>4, <2>1 DEF Worth
  <2> QED
    BY <1>5, <2>1, <2>2 DEF StakeOf
<1>9. Entitled(market1, ps1) = Entitled(market, ps)
  BY <1>8 DEF Entitled
<1>10. BookTypes(market1, ps1, out1)
  BY <1>3, <1>4, <1>5, <1>7 DEF BookTypes
<1> QED
  BY <1>3, <1>4, <1>5, <1>6, <1>7, <1>8, <1>9, <1>10

\* The last winner's payment is its share and less than a wei for each winner.
LEMMA LastClaim ==
  ASSUME NEW market, NEW ps, NEW out, BookTypes(market, ps, out), AddsUp(market, ps, out),
         market.status = "Resolved", NEW a \in Account, out[a] = 0,
         \A b \in Account : b # a => out[b] = Worth(market, ps[b])
  PROVE  Held(market) < Worth(market, ps[a]) + Cardinality(Entitled(market, ps))
<1> DEFINE f == Worths(market, ps)
           n == Cardinality(Entitled(market, ps))
<1>1. IsFiniteSet(Account)
  BY AccountAssumption
<1>2. \A b \in Account : /\ f[b] = Worth(market, ps[b]) /\ f[b] \in Int
                         /\ out[b] \in Int
                         /\ b # a => out[b] = f[b]
  BY WorthBounds, BookNumbers DEF Worths
<1>3. n \in Nat /\ Collected(market) < SumFunctionOnSet(f, Account) + n
  BY DustBound
<1>4. SumFunctionOnSet(out, Account) = market.claimedAmount
  BY DEF AddsUp
<1>5. market.claimedAmount \in Nat /\ Collected(market) \in Nat
  BY BookNumbers
<1> HIDE DEF f, n
<1>6. SumFunctionOnSet(f, Account) = SumFunctionOnSet(out, Account) + (f[a] - out[a])
  BY <1>1, <1>2, SumChange
<1>7. f[a] = Worth(market, ps[a]) /\ f[a] \in Int /\ out[a] = 0
  BY <1>2
<1>8. SumFunctionOnSet(f, Account) = market.claimedAmount + f[a]
  BY <1>4, <1>5, <1>6, <1>7
<1>9. Collected(market) - market.claimedAmount < f[a] + n
  BY <1>3, <1>5, <1>7, <1>8
<1> QED
  BY <1>7, <1>9 DEF Held, n

\* The sums after a claim.
LEMMA ClaimAddsUp ==
  ASSUME NEW market, NEW ps, NEW out, BookTypes(market, ps, out), Book(market, ps, out),
         market.status # "Open", NEW a \in Account, ~ ps[a].claimed,
         NEW market1, NEW ps1, NEW out1,
         market1 = Claimed(market, ps[a]), ps1 = ClaimMarked(ps, a),
         out1 = Paid(out, a, PaidFor(market, ps[a]))
  PROVE  /\ AddsUp(market1, ps1, out1)
         /\ SumFunctionOnSet(ClaimedDues(market1, ps1), Account) =
              SumFunctionOnSet(ClaimedDues(market, ps), Account) + Due(market, ps[a])
<1> DEFINE v == PaidFor(market, ps[a])
           f == ClaimedDues(market, ps)
           g == ClaimedDues(market1, ps1)
<1>1. IsFiniteSet(Account)
  BY AccountAssumption
<1>2. v \in Nat
  BY ClaimFunded
<1>3. /\ BookTypes(market1, ps1, out1)
      /\ \A o \in Outcome : PoolOf(market1, o) = PoolOf(market, o)
      /\ market1.claimedAmount = market.claimedAmount + v
      /\ out1[a] = v /\ out[a] = 0 /\ ps1[a].claimed
      /\ \A b \in Account : /\ b # a => ps1[b].claimed = ps[b].claimed /\ out1[b] = out[b]
                            /\ \A o \in Outcome : StakeOf(ps1[b], o) = StakeOf(ps[b], o)
                            /\ Due(market1, ps1[b]) = Due(market, ps[b])
  BY ClaimEffects
<1>4. \A b \in Account : /\ out[b] \in Int /\ out1[b] \in Int
                         /\ Due(market, ps[b]) \in Int
  BY <1>3, BookNumbers
<1>5. \A b \in Account : /\ f[b] = IF ps[b].claimed THEN Due(market, ps[b]) ELSE 0
                         /\ g[b] = IF ps1[b].claimed THEN Due(market1, ps1[b]) ELSE 0
  BY DEF ClaimedDues
<1> HIDE DEF v, f, g
<1>6. \A o \in Outcome : PoolOf(market1, o) = SumFunctionOnSet(Stakes(ps1, o), Account)
  <2> SUFFICES ASSUME NEW o \in Outcome
               PROVE  PoolOf(market1, o) = SumFunctionOnSet(Stakes(ps1, o), Account)
    OBVIOUS
  <2>1. Stakes(ps1, o) = Stakes(ps, o)
    BY <1>3 DEF Stakes
  <2> QED
    BY <1>3, <2>1 DEF Book, AddsUp
<1>7. market1.claimedAmount = SumFunctionOnSet(out1, Account)
  <2>1. \A b \in Account : out[b] \in Int /\ out1[b] \in Int /\ (b # a => out[b] = out1[b])
    BY <1>3, <1>4
  <2>2. SumFunctionOnSet(out1, Account) = SumFunctionOnSet(out, Account) + (out1[a] - out[a])
    BY <1>1, <2>1, SumChange
  <2>3. SumFunctionOnSet(out, Account) = market.claimedAmount
    BY DEF Book, AddsUp
  <2>4. out1[a] - out[a] = v
    BY <1>2, <1>3
  <2> QED
    BY <1>3, <2>2, <2>3, <2>4
<1>8. SumFunctionOnSet(g, Account) = SumFunctionOnSet(f, Account) + Due(market, ps[a])
  <2>1. /\ \A b \in Account : f[b] \in Int
        /\ \A b \in Account \ {a} : g[b] = f[b]
        /\ g[a] = f[a] + Due(market, ps[a]) /\ Due(market, ps[a]) \in Int
    BY <1>3, <1>4, <1>5
  <2> QED
    BY <1>1, <2>1, SumGrows
<1> QED
  BY <1>6, <1>7, <1>8 DEF AddsUp, f, g

\* A claim keeps the accounts of its market.
LEMMA ClaimKeepsBook ==
  ASSUME NEW market, NEW ps, NEW out, BookTypes(market, ps, out), Book(market, ps, out),
         market.status # "Open", market.resolver # Nobody,
         NEW a \in Account, ~ ps[a].claimed, Due(market, ps[a]) # 0,
         NEW market1, NEW ps1, NEW out1,
         market1 = Claimed(market, ps[a]), ps1 = ClaimMarked(ps, a),
         out1 = Paid(out, a, PaidFor(market, ps[a]))
  PROVE  Book(market1, ps1, out1) /\ Held(market1) = Held(market) - PaidFor(market, ps[a])
<1> DEFINE v == PaidFor(market, ps[a])
           n == Cardinality(Entitled(market, ps))
<1>1. /\ BookTypes(market1, ps1, out1)
      /\ market1.status = market.status /\ market1.resolver = market.resolver
      /\ Collected(market1) = Collected(market) /\ Winning(market1) = Winning(market)
      /\ Backed(market1) = Backed(market)
      /\ market1.claimedAmount = market.claimedAmount + v
      /\ market.status = "Resolved" =>
           market1.claimedWinningStake = market.claimedWinningStake + Due(market, ps[a])
      /\ ps1[a].claimed /\ out1[a] = v /\ out[a] = 0
      /\ \A b \in Account :
           /\ b # a => ps1[b].claimed = ps[b].claimed /\ out1[b] = out[b]
           /\ Due(market1, ps1[b]) = Due(market, ps[b])
           /\ Worth(market1, ps1[b]) = Worth(market, ps[b])
      /\ Entitled(market1, ps1) = Entitled(market, ps)
  BY ClaimEffects
<1>2. AddsUp(market, ps, out) /\ AddsUp(market1, ps1, out1)
  BY ClaimAddsUp DEF Book
<1>3. SumFunctionOnSet(ClaimedDues(market1, ps1), Account) =
        SumFunctionOnSet(ClaimedDues(market, ps), Account) + Due(market, ps[a])
  BY ClaimAddsUp
<1>4. v \in Nat /\ v <= Held(market) /\ Due(market, ps[a]) \in Nat
      /\ market.claimedAmount \in Nat /\ Collected(market) \in Nat /\ Winning(market) \in Nat
      /\ Held(market) \in Int
  BY ClaimFunded, BookNumbers
<1>5. \A b \in Account : /\ ps[b].claimed => Due(market, ps[b]) > 0
                         /\ ~ ps[b].claimed => out[b] = 0
  BY DEF Book, ClaimBook
<1>6. Worth(market, ps[a]) \in Nat /\ Worth(market, ps[a]) <= Held(market)
  BY WorthBounds, Covered
<1>7. n \in Nat /\ n > 0
  <2>1. IsFiniteSet(Account) /\ Entitled(market, ps) \in SUBSET Account
        /\ a \in Entitled(market, ps)
    BY <1>4, AccountAssumption DEF Entitled
  <2>2. IsFiniteSet(Entitled(market, ps))
    BY <2>1, FS_Subset
  <2>3. n \in Nat /\ n # 0
    BY <2>1, <2>2, FS_CardinalityType, FS_EmptySet
  <2> QED
    BY <2>3
<1> HIDE DEF v, n
<1>8. OpenBook(market1, ps1)
  BY <1>1 DEF OpenBook
<1>9. ClaimBook(market1, ps1, out1)
  <2> SUFFICES ASSUME NEW b \in Account
               PROVE  IF ps1[b].claimed THEN Due(market1, ps1[b]) > 0 ELSE out1[b] = 0
    BY DEF ClaimBook
  <2>1. CASE b = a
    BY <1>1, <1>4, <2>1
  <2>2. CASE b # a
    BY <1>1, <1>5, <2>2
  <2> QED
    BY <2>1, <2>2
<1>10. RefundBook(market1, ps1, out1)
  <2> SUFFICES ASSUME market.status = "Cancelled", NEW b \in Account, ps1[b].claimed
               PROVE  out1[b] = Due(market, ps[b])
    BY <1>1 DEF RefundBook
  <2>1. CASE b = a
    BY <1>1, <2>1 DEF PaidFor, v
  <2>2. CASE b # a
    BY <1>1, <2>2 DEF Book, RefundBook
  <2> QED
    BY <2>1, <2>2
<1>11. ASSUME market.status = "Resolved"
       PROVE  WinBook(market1, ps1, out1)
  <2>1. /\ market.claimedWinningStake = SumFunctionOnSet(ClaimedDues(market, ps), Account)
        /\ market1.claimedWinningStake = SumFunctionOnSet(ClaimedDues(market1, ps1), Account)
        /\ market.claimedWinningStake \in Nat
    BY <1>1, <1>3, <1>11, BookNumbers DEF Book, WinBook
  \* the claimant had not claimed, so not all had
  <2>2. market.claimedWinningStake # Winning(market)
    <3>1. a \in Entitled(market, ps)
      BY <1>4 DEF Entitled
    <3>2. SumFunctionOnSet(ClaimedDues(market, ps), Account) # Backed(market)
      BY <1>2, <1>11, <3>1, AllClaimed
    <3> QED
      BY <1>11, <2>1, <3>2 DEF Backed
  <2>3. \A b \in Account : ps[b].claimed => out[b] = Worth(market, ps[b])
    BY <1>11, <2>2 DEF Book, WinBook
  <2>4. CASE market1.claimedWinningStake = Winning(market)
    <3>1. v = Held(market)
      BY <1>1, <1>11, <2>4 DEF PaidFor, v
    <3>2. market1.claimedAmount = Collected(market1)
      BY <1>1, <1>4, <3>1 DEF Held
    <3>3. \A b \in Entitled(market, ps) : b # a => ps[b].claimed
      <4>1. SumFunctionOnSet(ClaimedDues(market1, ps1), Account) = Backed(market1)
        BY <1>1, <1>11, <2>1, <2>4 DEF Backed
      <4>2. \A b \in Entitled(market1, ps1) : ps1[b].claimed
        BY <1>1, <1>2, <1>11, <4>1, AllClaimed
      <4> QED
        BY <1>1, <4>2 DEF Entitled
    <3>4. \A b \in Account : b # a => out[b] = Worth(market, ps[b])
      <4> SUFFICES ASSUME NEW b \in Account, b # a PROVE out[b] = Worth(market, ps[b])
        OBVIOUS
      <4>1. CASE ps[b].claimed
        BY <2>3, <4>1
      <4>2. CASE ~ ps[b].claimed
        <5>1. b \notin Entitled(market, ps)
          BY <3>3, <4>2
        <5>2. Due(market, ps[b]) = 0
          BY <5>1, BookNumbers DEF Entitled
        <5> QED
          BY <1>5, <4>2, <5>2, WorthBounds
      <4> QED
        BY <4>1, <4>2
    <3>5. v < Worth(market, ps[a]) + n
      BY <1>1, <1>2, <1>11, <3>1, <3>4, LastClaim DEF n
    <3>6. ASSUME NEW b \in Account, ps1[b].claimed
          PROVE  Worth(market, ps[b]) <= out1[b] /\ out1[b] < Worth(market, ps[b]) + n
      <4>1. CASE b = a
        BY <1>1, <1>6, <3>1, <3>5, <4>1
      <4>2. CASE b # a
        BY <1>1, <1>11, <3>6, <4>2 DEF Book, WinBook, n
      <4> QED
        BY <4>1, <4>2
    <3>7. \A b \in Account : ps1[b].claimed =>
            /\ Worth(market1, ps1[b]) <= out1[b]
            /\ out1[b] < Worth(market1, ps1[b]) + Cardinality(Entitled(market1, ps1))
      BY <1>1, <3>6 DEF n
    <3>8. market1.claimedWinningStake = Winning(market1)
      BY <1>1, <2>4
    <3> QED
      BY <2>1, <3>2, <3>7, <3>8 DEF WinBook
  <2>5. CASE market1.claimedWinningStake # Winning(market)
    <3>1. v = Worth(market, ps[a])
      BY <1>1, <1>11, <2>5 DEF PaidFor, Worth, v
    <3>2. ASSUME NEW b \in Account, ps1[b].claimed
          PROVE  out1[b] = Worth(market, ps[b])
      <4>1. CASE b = a
        BY <1>1, <3>1, <4>1
      <4>2. CASE b # a
        BY <1>1, <2>3, <3>2, <4>2
      <4> QED
        BY <4>1, <4>2
    <3>3. ASSUME NEW b \in Account, ps1[b].claimed
          PROVE  Worth(market, ps[b]) <= out1[b] /\ out1[b] < Worth(market, ps[b]) + n
      BY <1>7, <1>11, <3>2, <3>3, WorthBounds
    <3>4. \A b \in Account : ps1[b].claimed =>
            /\ out1[b] = Worth(market1, ps1[b])
            /\ Worth(market1, ps1[b]) <= out1[b]
            /\ out1[b] < Worth(market1, ps1[b]) + Cardinality(Entitled(market1, ps1))
      BY <1>1, <3>2, <3>3 DEF n
    <3>5. market1.claimedWinningStake # Winning(market1)
      BY <1>1, <2>5
    <3> QED
      BY <2>1, <3>4, <3>5 DEF WinBook
  <2> QED
    BY <2>4, <2>5
<1>12. market.status # "Resolved" => WinBook(market1, ps1, out1)
  BY <1>1 DEF WinBook
<1>13. Held(market1) = Held(market) - v
  BY <1>1, <1>4 DEF Held
<1> QED
  BY <1>2, <1>8, <1>9, <1>10, <1>11, <1>12, <1>13 DEF Book, v

----------------------------------------------------------------------------
\* The contract's operators, on the accounts of one market
LEMMA ContractOperators ==
  ASSUME NEW m \in Market, NEW a \in Account
  PROVE  /\ ClaimableStake(m, a) = Due(markets[m], positions[m][a])
         /\ TotalPool(m) = Collected(markets[m]) /\ WinningPool(m) = Winning(markets[m])
         /\ Payout(m, a) = PaidFor(markets[m], positions[m][a])
         /\ MarketClaimed(m, a) = Claimed(markets[m], positions[m][a])
         /\ Share(m, a) = Worth(markets[m], positions[m][a])
         /\ Winners(m) = Entitled(markets[m], positions[m])
<1>1. \A b \in Account : ClaimableStake(m, b) = Due(markets[m], positions[m][b])
  BY DEF ClaimableStake, StakeOn, Due, StakeOf
<1>2. TotalPool(m) = Collected(markets[m]) /\ WinningPool(m) = Winning(markets[m])
  BY DEF TotalPool, Collected, WinningPool, Winning, Pool, PoolOf
<1>3. Payout(m, a) = PaidFor(markets[m], positions[m][a])
  BY <1>1, <1>2 DEF Payout, PaidFor, ClaimedStakeAfter, Held
<1>4. MarketClaimed(m, a) = Claimed(markets[m], positions[m][a])
  BY <1>1, <1>3 DEF MarketClaimed, Claimed, ClaimedStakeAfter
<1>5. Share(m, a) = Worth(markets[m], positions[m][a])
  BY <1>1, <1>2 DEF Share, Worth
<1>6. Winners(m) = Entitled(markets[m], positions[m])
  BY <1>1 DEF Winners, Entitled
<1> QED
  BY <1>1, <1>2, <1>3, <1>4, <1>5, <1>6

\* The storage holds the accounts of each market.
LEMMA CurrentTypes ==
  ASSUME CurrentOK, NEW m \in Market
  PROVE  BookTypes(markets[m], positions[m], paid[m])
  BY DEF CurrentOK, StorageOK, BookTypes

\* There are finitely many markets.
LEMMA MarketsFinite == IsFiniteSet(Market)
  BY BoundAssumption, FS_Interval DEF Market

\* The books after one market changed: the wei change by what it holds more.
LEMMA BooksChange ==
  ASSUME CurrentOK, Books(markets, positions, balance, paid),
         NEW ms, NEW ps, NEW wei, NEW out, NEW m \in Market, NEW d \in Int,
         \A n \in Market \ {m} : ms[n] = markets[n] /\ ps[n] = positions[n] /\ out[n] = paid[n],
         Book(ms[m], ps[m], out[m]), Held(ms[m]) = Held(markets[m]) + d,
         wei = balance + d
  PROVE  Books(ms, ps, wei, out)
<1> DEFINE f == [n \in Market |-> Held(markets[n])]
           g == [n \in Market |-> Held(ms[n])]
<1>1. \A n \in Market : f[n] \in Int
  <2> SUFFICES ASSUME NEW n \in Market PROVE Held(markets[n]) \in Int
    OBVIOUS
  <2> QED
    BY CurrentTypes, BookNumbers
<1>2. (\A n \in Market \ {m} : g[n] = f[n]) /\ g[m] = f[m] + d
  OBVIOUS
<1>3. balance = SumFunctionOnSet(f, Market)
  BY DEF Books
<1> HIDE DEF f, g
<1>4. SumFunctionOnSet(g, Market) = SumFunctionOnSet(f, Market) + d
  BY <1>1, <1>2, MarketsFinite, SumGrows
<1>5. wei = SumFunctionOnSet(g, Market)
  BY <1>3, <1>4
<1>6. \A n \in Market : Book(ms[n], ps[n], out[n])
  <2> SUFFICES ASSUME NEW n \in Market PROVE Book(ms[n], ps[n], out[n])
    OBVIOUS
  <2>1. CASE n = m
    BY <2>1
  <2>2. CASE n # m
    BY <2>2 DEF Books
  <2> QED
    BY <2>1, <2>2
<1> QED
  BY <1>5, <1>6 DEF Books, g

----------------------------------------------------------------------------
\* The invariant

\* Nothing is staked at deployment.
LEMMA AccountInit == Init => AccountInv
<1> SUFFICES ASSUME Init PROVE AccountInv
  OBVIOUS
<1>1. ContractInv /\ IsFiniteSet(Account)
  BY ContractInit, AccountAssumption
<1>2. ASSUME NEW m \in Market
      PROVE  Book(markets[m], positions[m], paid[m]) /\ Held(markets[m]) = 0
  <2>1. /\ markets[m] = NoMarket
        /\ \A a \in Account : positions[m][a] = NoPosition /\ paid[m][a] = 0
    BY DEF Init
  <2>2. SumFunctionOnSet(paid[m], Account) = 0
    BY <1>1, <2>1, SumZero
  <2>3. ASSUME NEW o \in Outcome
        PROVE  PoolOf(markets[m], o) = SumFunctionOnSet(Stakes(positions[m], o), Account)
    <3>1. \A a \in Account : Stakes(positions[m], o)[a] = 0
      BY <2>1 DEF Stakes, StakeOf, NoPosition
    <3>2. SumFunctionOnSet(Stakes(positions[m], o), Account) = 0
      BY <1>1, <3>1, SumZero
    <3> QED
      BY <2>1, <3>2 DEF PoolOf, NoMarket
  <2> QED
    BY <2>1, <2>2, <2>3
    DEF Book, AddsUp, OpenBook, ClaimBook, RefundBook, WinBook, Held, Collected, NoMarket,
        NoPosition
<1>3. balance = SumFunctionOnSet([m \in Market |-> Held(markets[m])], Market)
  <2> DEFINE f == [m \in Market |-> Held(markets[m])]
  <2>1. \A m \in Market : f[m] = 0
    BY <1>2
  <2> HIDE DEF f
  <2>2. SumFunctionOnSet(f, Market) = 0
    BY <2>1, MarketsFinite, SumZero
  <2> QED
    BY <2>2 DEF Init, f
<1> QED
  BY <1>1, <1>2, <1>3 DEF AccountInv, Books, Init

\* createMarket keeps the books.
LEMMA CreateMarketBooks ==
  ASSUME AccountInv, NEW a \in Account, NEW d \in Deadlines, NEW r \in Resolvers,
         CreateMarket(a, d, r)
  PROVE  Books(markets', positions', balance', paid')
<1> DEFINE m == nextMarketId
           market == Created(d, r)
<1>1. /\ CurrentOK /\ Books(markets, positions, balance, paid)
      /\ m \in Market /\ markets[m].resolver = Nobody /\ r # Nobody
      /\ markets \in [Market -> MarketRecord] /\ balance \in Nat
  BY AccountAssumption
  DEF CreateMarket, AccountInv, ContractInv, CurrentOK, StorageOK
<1>2. Book(markets[m], positions[m], paid[m]) /\ BookTypes(markets[m], positions[m], paid[m])
  BY <1>1, CurrentTypes DEF Books
<1>3. Book(market, positions[m], paid[m]) /\ Held(market) = Held(markets[m])
  BY <1>1, <1>2, CreationBook
<1>4. Held(markets[m]) \in Int
  BY <1>2, BookNumbers
<1>5. /\ markets' = [markets EXCEPT ![m] = market]
      /\ positions' = positions /\ paid' = paid /\ balance' = balance
  BY DEF CreateMarket, Created
<1>6. /\ \A n \in Market \ {m} : markets'[n] = markets[n] /\ positions'[n] = positions[n]
                                /\ paid'[n] = paid[n]
      /\ Book(markets'[m], positions'[m], paid'[m])
      /\ Held(markets'[m]) = Held(markets[m]) + 0 /\ balance' = balance + 0
  BY <1>1, <1>3, <1>4, <1>5
<1> QED
  BY <1>1, <1>6, BooksChange

\* takePosition keeps the books: what is staked is held.
LEMMA TakePositionBooks ==
  ASSUME AccountInv, NEW a \in Account, NEW m \in Market, NEW o \in Outcome,
         NEW v \in Amounts, TakePosition(a, m, o, v)
  PROVE  Books(markets', positions', balance', paid')
<1> DEFINE market == Staked(markets[m], o, v)
           ps == StakeTaken(positions[m], a, o, v)
<1>1. /\ CurrentOK /\ Books(markets, positions, balance, paid) /\ v \in Nat
      /\ markets[m].status = "Open" /\ markets[m].resolver # Nobody
      /\ markets \in [Market -> MarketRecord]
      /\ positions \in [Market -> [Account -> PositionRecord]]
  BY AmountAssumption
  DEF TakePosition, BettingOpen, Exists, AccountInv, ContractInv, CurrentOK, StorageOK
<1>2. Book(markets[m], positions[m], paid[m]) /\ BookTypes(markets[m], positions[m], paid[m])
  BY <1>1, CurrentTypes DEF Books
<1> HIDE DEF market, ps
<1>3. Book(market, ps, paid[m]) /\ Held(market) = Held(markets[m]) + v
  BY <1>1, <1>2, StakeBook DEF market, ps
<1>4. markets' = [markets EXCEPT ![m] = market]
  BY DEF TakePosition, PoolAfter, Staked, market
<1>5. positions' = [positions EXCEPT ![m] = ps]
  <2>1. CASE o = "Yes"
    <3>1. positions' = [positions EXCEPT ![m][a].yesStake = @ + v]
          /\ ps = [positions[m] EXCEPT ![a].yesStake = @ + v]
      BY <2>1 DEF TakePosition, StakeTaken, ps
    <3> QED
      BY <1>1, <3>1
  <2>2. CASE o # "Yes"
    <3>1. positions' = [positions EXCEPT ![m][a].noStake = @ + v]
          /\ ps = [positions[m] EXCEPT ![a].noStake = @ + v]
      BY <2>2 DEF TakePosition, StakeTaken, ps
    <3> QED
      BY <1>1, <3>1
  <2> QED
    BY <2>1, <2>2
<1>6. paid' = paid /\ balance' = balance + v /\ v \in Int
  BY <1>1 DEF TakePosition
<1>7. markets'[m] = market /\ positions'[m] = ps
  BY <1>1, <1>4, <1>5
<1>8. \A n \in Market \ {m} :
        markets'[n] = markets[n] /\ positions'[n] = positions[n] /\ paid'[n] = paid[n]
  BY <1>1, <1>4, <1>5, <1>6
<1>9. Book(markets'[m], positions'[m], paid'[m]) /\ Held(markets'[m]) = Held(markets[m]) + v
  BY <1>3, <1>6, <1>7
<1> QED
  BY <1>1, <1>6, <1>8, <1>9, BooksChange

\* resolveMarket and cancelMarket keep the books.
LEMMA DecisionBooks ==
  ASSUME AccountInv, NEW a \in Account, NEW m \in Market,
         (\E o \in Outcome : ResolveMarket(a, m, o)) \/ CancelMarket(a, m)
  PROVE  Books(markets', positions', balance', paid')
<1>1. /\ CurrentOK /\ Books(markets, positions, balance, paid)
      /\ markets[m].status = "Open" /\ markets[m].resolver # Nobody
      /\ markets \in [Market -> MarketRecord] /\ balance \in Nat
      /\ positions' = positions /\ paid' = paid /\ balance' = balance
  BY DEF ResolveMarket, CancelMarket, Decides, Exists, AccountInv, ContractInv, CurrentOK,
         StorageOK
<1>2. Book(markets[m], positions[m], paid[m]) /\ BookTypes(markets[m], positions[m], paid[m])
  BY <1>1, CurrentTypes DEF Books
<1>3. /\ \/ markets'[m] = [markets[m] EXCEPT !.status = "Cancelled"]
         \/ \E o \in Outcome : /\ PoolOf(markets[m], o) # 0
                               /\ markets'[m] = [markets[m] EXCEPT !.status = "Resolved",
                                                                   !.winningOutcome = o]
      /\ \A n \in Market \ {m} : markets'[n] = markets[n]
  <2>1. CASE CancelMarket(a, m)
    BY <1>1, <2>1 DEF CancelMarket
  <2>2. CASE \E o \in Outcome : ResolveMarket(a, m, o)
    <3>1. PICK o \in Outcome : ResolveMarket(a, m, o)
      BY <2>2
    <3>2. CASE Pool(m, o) = 0
      BY <1>1, <3>1, <3>2 DEF ResolveMarket
    <3>3. CASE Pool(m, o) # 0
      <4>1. PoolOf(markets[m], o) # 0
        BY <3>3 DEF Pool, PoolOf
      <4>2. markets' =
              [markets EXCEPT ![m].status = "Resolved", ![m].winningOutcome = o]
        BY <3>1, <3>3 DEF ResolveMarket
      <4>3. /\ markets'[m] = [markets[m] EXCEPT !.status = "Resolved", !.winningOutcome = o]
            /\ \A n \in Market \ {m} : markets'[n] = markets[n]
        BY <1>1, <4>2
      <4> QED
        BY <4>1, <4>3
    <3> QED
      BY <3>2, <3>3
  <2> QED
    BY <2>1, <2>2
<1>4. Book(markets'[m], positions[m], paid[m]) /\ Held(markets'[m]) = Held(markets[m])
  BY <1>1, <1>2, <1>3, DecisionBook
<1>5. Held(markets[m]) \in Int
  BY <1>2, BookNumbers
<1>6. Held(markets'[m]) = Held(markets[m]) + 0 /\ balance' = balance + 0
  BY <1>1, <1>4, <1>5
<1>7. \A n \in Market \ {m} :
        markets'[n] = markets[n] /\ positions'[n] = positions[n] /\ paid'[n] = paid[n]
  <2>1. \A n \in Market \ {m} : markets'[n] = markets[n]
    BY <1>3
  <2> QED
    BY <1>1, <2>1
<1>8. Book(markets'[m], positions'[m], paid'[m])
  BY <1>1, <1>4
<1>9. CurrentOK /\ Books(markets, positions, balance, paid) /\ 0 \in Int
  BY <1>1
<1> QED
  BY <1>6, <1>7, <1>8, <1>9, BooksChange

\* claim keeps the books: what is paid is held no more.
LEMMA ClaimBooks ==
  ASSUME AccountInv, NEW a \in Account, NEW m \in Market, Claim(a, m)
  PROVE  Books(markets', positions', balance', paid')
<1> DEFINE v == PaidFor(markets[m], positions[m][a])
           market == Claimed(markets[m], positions[m][a])
           ps == ClaimMarked(positions[m], a)
           out == Paid(paid[m], a, v)
<1>1. /\ CurrentOK /\ Books(markets, positions, balance, paid)
      /\ markets[m].status # "Open" /\ markets[m].resolver # Nobody
      /\ ~ positions[m][a].claimed /\ Due(markets[m], positions[m][a]) # 0
      /\ markets \in [Market -> MarketRecord] /\ balance \in Nat
      /\ positions \in [Market -> [Account -> PositionRecord]]
      /\ paid \in [Market -> [Account -> Nat]]
  BY ContractOperators
  DEF Claim, ClaimSucceeds, MayClaim, Exists, AccountInv, ContractInv, CurrentOK, StorageOK
<1>2. Book(markets[m], positions[m], paid[m]) /\ BookTypes(markets[m], positions[m], paid[m])
  BY <1>1, CurrentTypes DEF Books
<1>3. Book(market, ps, out) /\ Held(market) = Held(markets[m]) - v
  BY <1>1, <1>2, ClaimKeepsBook
<1>4. v \in Nat /\ Held(markets[m]) \in Int
  BY <1>1, <1>2, ClaimFunded, BookNumbers
<1>5. Payout(m, a) = v /\ MarketClaimed(m, a) = market
  BY ContractOperators
<1>6. /\ positions' = [positions EXCEPT ![m] = ps]
      /\ markets' = [markets EXCEPT ![m] = market]
      /\ paid' = [paid EXCEPT ![m] = out]
      /\ balance' = balance - v
  <2> HIDE DEF v, market
  <2> QED
    BY <1>1, <1>5 DEF Claim, ClaimMarked, Paid
<1> HIDE DEF v, market, ps, out
<1>7. /\ \A n \in Market \ {m} :
           markets'[n] = markets[n] /\ positions'[n] = positions[n] /\ paid'[n] = paid[n]
      /\ Book(markets'[m], positions'[m], paid'[m])
      /\ Held(markets'[m]) = Held(markets[m]) + (0 - v) /\ balance' = balance + (0 - v)
      /\ 0 - v \in Int
  BY <1>1, <1>3, <1>4, <1>6
<1> QED
  BY <1>1, <1>7, BooksChange

\* Every step keeps the books.
LEMMA AccountStep == AccountInv /\ [Next]_vars => AccountInv'
<1> SUFFICES ASSUME AccountInv, [Next]_vars PROVE AccountInv'
  OBVIOUS
<1>1. ContractInv'
  BY ContractStep DEF AccountInv
<1>2. ASSUME Books(markets', positions', balance', paid'), UNCHANGED <<claiming, before>>
      PROVE  AccountInv'
  BY <1>1, <1>2 DEF AccountInv, Books
<1>3. ASSUME UNCHANGED <<markets, positions, balance, paid, claiming, before>>
      PROVE  AccountInv'
  BY <1>1, <1>3 DEF AccountInv, Books
<1>4. ASSUME NEW a \in Account, Call(a)
      PROVE  AccountInv'
  <2>1. CASE \E d \in Deadlines, r \in Resolvers : CreateMarket(a, d, r)
    BY <1>2, <2>1, CreateMarketBooks DEF CreateMarket
  <2>2. CASE \E m \in Market, o \in Outcome, v \in Amounts : TakePosition(a, m, o, v)
    BY <1>2, <2>2, TakePositionBooks DEF TakePosition
  <2>3. CASE \E m \in Market, o \in Outcome : ResolveMarket(a, m, o)
    BY <1>2, <2>3, DecisionBooks DEF ResolveMarket
  <2>4. CASE \E m \in Market : CancelMarket(a, m)
    BY <1>2, <2>4, DecisionBooks DEF CancelMarket
  <2>5. ASSUME NEW m \in Market, Claim(a, m)
        PROVE  AccountInv'
    <3>1. Books(markets', positions', balance', paid')
      BY <2>5, ClaimBooks
    <3>2. /\ before'[1] = markets /\ before'[2] = positions
          /\ before'[6] = balance /\ before'[7] = paid
      BY <2>5 DEF Claim, storage
    <3>3. Books(before'[1], before'[2], before'[6], before'[7])
      BY <3>2 DEF AccountInv
    <3> QED
      BY <1>1, <3>1, <3>3 DEF AccountInv, Books
  <2>6. CASE Pause(a) \/ Unpause(a)
    BY <1>3, <2>6 DEF Pause, Unpause
  <2>7. CASE \E to \in Owners \cup {Nobody} : TransferOwnership(a, to)
    BY <1>3, <2>7 DEF TransferOwnership
  <2> QED
    BY <1>4, <2>1, <2>2, <2>3, <2>4, <2>5, <2>6, <2>7 DEF Call
<1>5. CASE ClaimAccepted
  BY <1>1, <1>5 DEF ClaimAccepted, AccountInv, Books, storage
<1>6. CASE ClaimRejected
  <2>1. Books(before[1], before[2], before[6], before[7])
    BY <1>6 DEF ClaimRejected, AccountInv
  <2>2. /\ markets' = before[1] /\ positions' = before[2]
        /\ balance' = before[6] /\ paid' = before[7] /\ claiming' = Nobody
    BY <1>6 DEF ClaimRejected
  <2> QED
    BY <1>1, <2>1, <2>2 DEF AccountInv, Books
<1>7. CASE Tick
  BY <1>3, <1>7 DEF Tick, storage
<1>8. CASE UNCHANGED vars
  BY <1>3, <1>8 DEF vars, storage
<1> QED
  BY <1>4, <1>5, <1>6, <1>7, <1>8 DEF Next

----------------------------------------------------------------------------
\* What the books say of a market in a state of the contract.
LEMMA BookOf ==
  ASSUME AccountInv, NEW m \in Market
  PROVE  /\ BookTypes(markets[m], positions[m], paid[m])
         /\ Book(markets[m], positions[m], paid[m])
         /\ \A a \in Account : positions[m][a].claimed \in BOOLEAN
  BY CurrentTypes, BookNumbers DEF AccountInv, ContractInv, Books

\* In every state, inside a claim and after its revert, the wei the contract
\* holds are those its markets have collected and not paid out.
THEOREM Solvency == Spec => []Solvent
<1>1. AccountInv => Solvent
  <2> SUFFICES ASSUME AccountInv PROVE Solvent
    OBVIOUS
  <2> DEFINE f == [m \in Market |-> TotalPool(m) - markets[m].claimedAmount]
  <2>1. f = [m \in Market |-> Held(markets[m])]
    BY DEF TotalPool, Held, Collected
  <2>2. balance = SumFunctionOnSet(f, Market) /\ DOMAIN f = Market
    BY <2>1 DEF AccountInv, Books
  <2> QED
    BY <2>2 DEF Solvent, SumFunction
<1> QED
  BY <1>1, AccountInit, AccountStep, PTL DEF Spec

\* The pools are the sums of the stakes, and the amount claimed of the payments.
THEOREM Accounts == Spec => []AccountsAddUp
<1>1. AccountInv => AccountsAddUp
  <2> SUFFICES ASSUME AccountInv, NEW m \in Market
               PROVE  /\ \A o \in Outcome :
                           Pool(m, o) = SumFunction([a \in Account |-> StakeOn(m, a, o)])
                      /\ markets[m].claimedAmount = SumFunction(paid[m])
    BY DEF AccountsAddUp
  <2>1. AddsUp(markets[m], positions[m], paid[m]) /\ DOMAIN paid[m] = Account
    BY BookOf DEF Book, BookTypes
  <2>2. ASSUME NEW o \in Outcome
        PROVE  Pool(m, o) = SumFunction([a \in Account |-> StakeOn(m, a, o)])
    <3> DEFINE f == [a \in Account |-> StakeOn(m, a, o)]
    <3>1. f = Stakes(positions[m], o) /\ DOMAIN f = Account
      BY DEF StakeOn, Stakes, StakeOf
    <3>2. Pool(m, o) = PoolOf(markets[m], o)
      BY DEF Pool, PoolOf
    <3> HIDE DEF f
    <3>3. Pool(m, o) = SumFunctionOnSet(f, DOMAIN f)
      BY <2>1, <3>1, <3>2 DEF AddsUp
    <3> QED
      BY <3>3 DEF SumFunction, f
  <2> QED
    BY <2>1, <2>2 DEF AddsUp, SumFunction
<1> QED
  BY <1>1, AccountInit, AccountStep, PTL DEF Spec

\* Whoever has claimed, a decided market still holds the shares of the others.
THEOREM ShareCover == Spec => []SharesCovered
<1>1. AccountInv => SharesCovered
  <2> SUFFICES ASSUME AccountInv, NEW m \in Market, Terminal(m)
               PROVE  SumFunction([a \in Account |-> IF positions[m][a].claimed THEN 0
                                                     ELSE Share(m, a)])
                        <= TotalPool(m) - markets[m].claimedAmount
    BY DEF SharesCovered
  <2> DEFINE f == [a \in Account |-> IF positions[m][a].claimed THEN 0 ELSE Share(m, a)]
  <2>1. f = Owed(markets[m], positions[m]) /\ DOMAIN f = Account
    BY ContractOperators DEF Owed
  <2>2. Held(markets[m]) = TotalPool(m) - markets[m].claimedAmount
    BY DEF Held, Collected, TotalPool
  <2>3. SumFunctionOnSet(Owed(markets[m], positions[m]), Account) <= Held(markets[m])
    BY BookOf, Covered DEF Terminal
  <2> HIDE DEF f
  <2>4. SumFunctionOnSet(f, DOMAIN f) <= TotalPool(m) - markets[m].claimedAmount
    BY <2>1, <2>2, <2>3
  <2> QED
    BY <2>4 DEF SumFunction, f
<1> QED
  BY <1>1, AccountInit, AccountStep, PTL DEF Spec

\* Who has claimed was paid its share, and less than a wei for each winner
\* more; who has not, nothing.
THEOREM FairShares == Spec => []FairShare
<1>1. AccountInv => FairShare
  <2> SUFFICES ASSUME AccountInv, NEW m \in Market, NEW a \in Account
               PROVE  IF Terminal(m) /\ positions[m][a].claimed
                      THEN /\ Share(m, a) <= paid[m][a]
                           /\ paid[m][a] < Share(m, a) + Cardinality(Winners(m))
                      ELSE paid[m][a] = 0
    BY DEF FairShare
  <2>1. /\ BookTypes(markets[m], positions[m], paid[m])
        /\ Book(markets[m], positions[m], paid[m])
    BY BookOf
  <2>2. /\ Share(m, a) = Worth(markets[m], positions[m][a])
        /\ Winners(m) = Entitled(markets[m], positions[m])
    BY ContractOperators
  <2>3. ASSUME ~ positions[m][a].claimed
        PROVE  paid[m][a] = 0
    BY <2>1, <2>3 DEF Book, ClaimBook
  <2>4. positions[m][a].claimed => Terminal(m)
    BY <2>1, BookNumbers DEF Book, OpenBook, Terminal, Exists
  <2>5. ASSUME Terminal(m), positions[m][a].claimed
        PROVE  /\ Share(m, a) <= paid[m][a]
               /\ paid[m][a] < Share(m, a) + Cardinality(Winners(m))
    <3>1. CASE markets[m].status = "Resolved"
      BY <2>1, <2>2, <2>5, <3>1 DEF Book, WinBook
    <3>2. CASE markets[m].status = "Cancelled"
      <4>1. paid[m][a] = Share(m, a) /\ paid[m][a] \in Nat
        BY <2>1, <2>2, <2>5, <3>2, WorthBounds, BookNumbers DEF Book, RefundBook
      <4>2. Cardinality(Winners(m)) \in Nat /\ Cardinality(Winners(m)) # 0
        <5>1. a \in Winners(m) /\ Winners(m) \in SUBSET Account /\ IsFiniteSet(Account)
          BY <2>1, <2>2, <2>5, AccountAssumption DEF Book, ClaimBook, Entitled
        <5>2. IsFiniteSet(Winners(m))
          BY <5>1, FS_Subset
        <5> QED
          BY <5>1, <5>2, FS_CardinalityType, FS_EmptySet
      <4> QED
        BY <4>1, <4>2
    <3> QED
      BY <2>1, <2>5, <3>1, <3>2, BookNumbers DEF Terminal
  <2> QED
    BY <2>3, <2>4, <2>5
<1> QED
  BY <1>1, AccountInit, AccountStep, PTL DEF Spec

\* When all with a claim have claimed, a market has paid what it collected.
THEOREM NothingStranded == Spec => []NoDust
<1>1. AccountInv => NoDust
  <2> SUFFICES ASSUME AccountInv, NEW m \in Market, Terminal(m),
                      \A a \in Winners(m) : positions[m][a].claimed
               PROVE  markets[m].claimedAmount = TotalPool(m)
    BY DEF NoDust
  <2> DEFINE market == markets[m]
             ps == positions[m]
             out == paid[m]
  <2>1. BookTypes(market, ps, out) /\ Book(market, ps, out) /\ AddsUp(market, ps, out)
        /\ market.status # "Open" /\ TotalPool(m) = Collected(market)
    BY BookOf DEF Terminal, Book, TotalPool, Collected
  <2>2. \A a \in Entitled(market, ps) : ps[a].claimed
    BY ContractOperators DEF Winners, Entitled
  <2> HIDE DEF market, ps, out
  <2>3. SumFunctionOnSet(ClaimedDues(market, ps), Account) = Backed(market)
    BY <2>1, <2>2, AllClaimed
  <2>4. CASE market.status = "Resolved"
    BY <2>1, <2>3, <2>4 DEF Book, WinBook, Backed, market
  <2>5. CASE market.status = "Cancelled"
    <3>1. \A a \in Account : out[a] \in Int /\ ClaimedDues(market, ps)[a] = out[a]
      BY <2>1, <2>5, BookNumbers DEF ClaimedDues, Book, ClaimBook, RefundBook
    <3>2. SumFunctionOnSet(ClaimedDues(market, ps), Account) = SumFunctionOnSet(out, Account)
      BY <3>1, AccountAssumption, SumSame
    <3> QED
      BY <2>1, <2>3, <2>5, <3>2 DEF AddsUp, Backed, market
  <2> QED
    BY <2>1, <2>4, <2>5, BookNumbers
<1> QED
  BY <1>1, AccountInit, AccountStep, PTL DEF Spec

\* A winner that has not claimed can, in every state.
THEOREM NoLock == Spec => []NeverFrozen
<1>1. AccountInv => NeverFrozen
  <2> SUFFICES ASSUME AccountInv, NEW m \in Market, Terminal(m), NEW a \in Winners(m),
                      ~ positions[m][a].claimed
               PROVE  ClaimSucceeds(m, a)
    BY DEF NeverFrozen
  <2>1. a \in Account /\ ClaimableStake(m, a) # 0
    <3>1. a \in Account /\ ClaimableStake(m, a) > 0
      BY DEF Winners
    <3> QED
      BY <3>1
  <2>2. MayClaim(m, a)
    BY <2>1 DEF MayClaim, Terminal
  <2>3. Payout(m, a) \in Nat /\ Payout(m, a) <= Held(markets[m])
    BY <2>1, BookOf, ClaimFunded, ContractOperators DEF Terminal
  <2>4. Held(markets[m]) <= balance /\ Held(markets[m]) \in Int /\ balance \in Nat
    <3> DEFINE f == [n \in Market |-> Held(markets[n])]
    <3>1. \A n \in Market : f[n] \in Nat
      <4> SUFFICES ASSUME NEW n \in Market PROVE Held(markets[n]) \in Nat
        OBVIOUS
      <4>1. CASE markets[n].status # "Open"
        BY <4>1, BookOf, Covered
      <4>2. CASE markets[n].status = "Open"
        <5>1. markets[n].claimedAmount = 0 /\ Collected(markets[n]) \in Nat
          BY <4>2, BookOf, OpenHeld, BookNumbers
        <5> QED
          BY <5>1 DEF Held
      <4> QED
        BY <4>1, <4>2
    <3>2. f[m] = Held(markets[m]) /\ balance = SumFunctionOnSet(f, Market)
      BY DEF AccountInv, Books
    <3> HIDE DEF f
    <3>3. SumFunctionOnSet(f, Market) \in Nat /\ f[m] <= SumFunctionOnSet(f, Market)
      BY <3>1, MarketsFinite, SumNat
    <3> QED
      BY <3>1, <3>2, <3>3
  <2>5. 0 <= Payout(m, a) /\ Payout(m, a) <= balance
    BY <2>3, <2>4
  <2> QED
    BY <2>2, <2>5 DEF ClaimSucceeds
<1> QED
  BY <1>1, AccountInit, AccountStep, PTL DEF Spec
=============================================================================
