-------------------------- MODULE PredictionMarket --------------------------
(***************************************************************************)
(* ForesynPredictionMarket.sol.  A transaction that reverts changes        *)
(* nothing and is not a step.  A call is one step, except claim, whose     *)
(* transfer runs the code of the receiver: between Claim and ClaimAccepted *)
(* or ClaimRejected any account may be called and call the contract again. *)
(*                                                                         *)
(* Left out: the metadata digest, and overflow of uint256 (no sum of wei   *)
(* that exists reaches it).                                                *)
(***************************************************************************)
EXTENDS Integers, FiniteSets, FiniteSetsExt

CONSTANTS
  Account,      \* the addresses that use the contract
  Owners,       \* those that may come to own it
  Resolvers,    \* those that may be made the resolver of a market
  Nobody,       \* address(0)
  Deadlines,    \* the deadlines a market may be given
  Amounts,      \* the wei one transaction may send
  MaxMarkets,   \* bound on the markets created
  MaxPool,      \* bound on what one market collects
  LastTime      \* bound on the clock

ASSUME AccountAssumption ==
  /\ Nobody \notin Account /\ Owners \subseteq Account /\ Resolvers \subseteq Account
  /\ IsFiniteSet(Account)   \* an address is 20 bytes
ASSUME AmountAssumption == Deadlines \subseteq Nat /\ Amounts \subseteq Nat \ {0}
ASSUME BoundAssumption == MaxMarkets \in Nat /\ MaxPool \in Nat /\ LastTime \in Nat

Market == 1 .. MaxMarkets
Outcome == {"Yes", "No"}

VARIABLES
  markets,        \* _markets
  positions,      \* _positions
  nextMarketId,
  paused,
  owner,
  balance,        \* the wei the contract holds
  paid,           \* the wei each account has received for each market
  now,            \* block.timestamp
  claiming,       \* the account whose claim is in its external call, or Nobody
  before          \* what a revert of that claim restores

storage == <<markets, positions, nextMarketId, paused, owner, balance, paid>>
vars == <<storage, now, claiming, before>>

\* A storage slot never written to.
NoMarket ==
  [resolver |-> Nobody, deadline |-> 0, status |-> "Open",
   winningOutcome |-> "Unset", yesPool |-> 0, noPool |-> 0,
   claimedWinningStake |-> 0, claimedAmount |-> 0]
NoPosition == [yesStake |-> 0, noStake |-> 0, claimed |-> FALSE]

Init ==
  /\ markets = [m \in Market |-> NoMarket]
  /\ positions = [m \in Market |-> [a \in Account |-> NoPosition]]
  /\ nextMarketId = 1
  /\ paused = FALSE
  /\ owner \in Owners
  /\ balance = 0
  /\ paid = [m \in Market |-> [a \in Account |-> 0]]
  /\ now = 0
  /\ claiming = Nobody
  /\ before = <<>>

\* _getMarket
Exists(m) == markets[m].resolver # Nobody

TotalPool(m) == markets[m].yesPool + markets[m].noPool
Pool(m, outcome) == IF outcome = "Yes" THEN markets[m].yesPool ELSE markets[m].noPool
StakeOn(m, a, outcome) ==
  IF outcome = "Yes" THEN positions[m][a].yesStake ELSE positions[m][a].noStake

----------------------------------------------------------------------------
\* Mutant: the next market gets the same id.
CreateMarketSameId(a, deadline, resolver) ==
  /\ a = owner /\ ~ paused /\ deadline > now /\ nextMarketId \in Market
  /\ markets' = [markets EXCEPT ![nextMarketId] =
                   [NoMarket EXCEPT !.resolver = resolver, !.deadline = deadline]]
  /\ UNCHANGED <<positions, nextMarketId, paused, owner, balance, paid, now, claiming, before>>

CreateMarket(a, deadline, resolver) ==
  /\ a = owner
  /\ ~ paused
  /\ deadline > now
  /\ nextMarketId \in Market
  /\ markets' = [markets EXCEPT ![nextMarketId] =
                   [NoMarket EXCEPT !.resolver = resolver, !.deadline = deadline]]
  /\ nextMarketId' = nextMarketId + 1
  /\ UNCHANGED <<positions, paused, owner, balance, paid, now, claiming, before>>

\* Mutant: a position is taken at the deadline too.
BettingOpenAtDeadline(m) == markets[m].status = "Open" /\ now <= markets[m].deadline

BettingOpen(m) == markets[m].status = "Open" /\ now < markets[m].deadline

\* Mutant: the stake goes to the pool of the other side.
PoolAfterSwapped(m, outcome, amount) ==
  IF outcome = "No" THEN [markets[m] EXCEPT !.yesPool = @ + amount]
                    ELSE [markets[m] EXCEPT !.noPool = @ + amount]

PoolAfter(m, outcome, amount) ==
  IF outcome = "Yes" THEN [markets[m] EXCEPT !.yesPool = @ + amount]
                     ELSE [markets[m] EXCEPT !.noPool = @ + amount]

TakePosition(a, m, outcome, amount) ==
  /\ ~ paused
  /\ Exists(m)
  /\ BettingOpen(m)
  /\ amount > 0
  /\ TotalPool(m) + amount <= MaxPool
  /\ markets' = [markets EXCEPT ![m] = PoolAfter(m, outcome, amount)]
  /\ positions' =
       IF outcome = "Yes"
       THEN [positions EXCEPT ![m][a].yesStake = @ + amount]
       ELSE [positions EXCEPT ![m][a].noStake = @ + amount]
  /\ balance' = balance + amount
  /\ UNCHANGED <<nextMarketId, paused, owner, paid, now, claiming, before>>

\* What resolveMarket and cancelMarket require.
Decides(a, m) ==
  /\ Exists(m)
  /\ markets[m].status = "Open"
  /\ a = markets[m].resolver
  /\ now >= markets[m].deadline

\* Mutant: an empty winning side wins.
ResolveMarketEmptySide(a, m, outcome) ==
  /\ Decides(a, m)
  /\ markets' = [markets EXCEPT ![m].status = "Resolved", ![m].winningOutcome = outcome]
  /\ UNCHANGED <<positions, nextMarketId, paused, owner, balance, paid, now,
                 claiming, before>>

ResolveMarket(a, m, outcome) ==
  /\ Decides(a, m)
  /\ markets' =
       IF Pool(m, outcome) = 0
       THEN [markets EXCEPT ![m].status = "Cancelled"]
       ELSE [markets EXCEPT ![m].status = "Resolved", ![m].winningOutcome = outcome]
  /\ UNCHANGED <<positions, nextMarketId, paused, owner, balance, paid, now,
                 claiming, before>>

\* Mutant: a resolved market can still be cancelled.
CancelMarketTerminal(a, m) ==
  /\ Exists(m)
  /\ a = markets[m].resolver
  /\ now >= markets[m].deadline
  /\ markets' = [markets EXCEPT ![m].status = "Cancelled"]
  /\ UNCHANGED <<positions, nextMarketId, paused, owner, balance, paid, now,
                 claiming, before>>

CancelMarket(a, m) ==
  /\ Decides(a, m)
  /\ markets' = [markets EXCEPT ![m].status = "Cancelled"]
  /\ UNCHANGED <<positions, nextMarketId, paused, owner, balance, paid, now,
                 claiming, before>>

----------------------------------------------------------------------------
\* claim

\* The stake a claim is about: all of it in a cancelled market.
ClaimableStake(m, a) ==
  IF markets[m].status = "Cancelled"
  THEN StakeOn(m, a, "Yes") + StakeOn(m, a, "No")
  ELSE StakeOn(m, a, markets[m].winningOutcome)

ClaimedStakeAfter(m, a) == markets[m].claimedWinningStake + ClaimableStake(m, a)

WinningPool(m) == Pool(m, markets[m].winningOutcome)

\* Math.mulDiv
MulDiv(x, y, z) == (x * y) \div z

\* Mutant: the quotient rounded up.
PayoutRoundedUp(m, a) ==
  IF markets[m].status = "Cancelled" THEN ClaimableStake(m, a)
  ELSE IF ClaimedStakeAfter(m, a) = WinningPool(m)
  THEN TotalPool(m) - markets[m].claimedAmount
  ELSE (ClaimableStake(m, a) * TotalPool(m) + WinningPool(m) - 1) \div WinningPool(m)

\* The last winner receives what is left.
Payout(m, a) ==
  IF markets[m].status = "Cancelled" THEN ClaimableStake(m, a)
  ELSE IF ClaimedStakeAfter(m, a) = WinningPool(m)
  THEN TotalPool(m) - markets[m].claimedAmount
  ELSE MulDiv(ClaimableStake(m, a), TotalPool(m), WinningPool(m))

\* Mutant: a refund is not entered in the accounts.
MarketClaimedUncounted(m, a) ==
  IF markets[m].status = "Cancelled" THEN markets[m]
  ELSE [markets[m] EXCEPT !.claimedAmount = @ + Payout(m, a),
                          !.claimedWinningStake = ClaimedStakeAfter(m, a)]

\* The market after the effects of a claim.
MarketClaimed(m, a) ==
  IF markets[m].status = "Cancelled"
  THEN [markets[m] EXCEPT !.claimedAmount = @ + Payout(m, a)]
  ELSE [markets[m] EXCEPT !.claimedAmount = @ + Payout(m, a),
                          !.claimedWinningStake = ClaimedStakeAfter(m, a)]

\* Mutants: an account claims again; claims stop with the rest.
MayClaimAgain(m, a) ==
  /\ Exists(m) /\ markets[m].status # "Open"
  /\ ClaimableStake(m, a) # 0
MayClaimUnpaused(m, a) ==
  /\ ~ paused
  /\ Exists(m) /\ markets[m].status # "Open"
  /\ ~ positions[m][a].claimed
  /\ ClaimableStake(m, a) # 0

MayClaim(m, a) ==
  /\ Exists(m) /\ markets[m].status # "Open"
  /\ ~ positions[m][a].claimed
  /\ ClaimableStake(m, a) # 0

\* No require of claim fails, the amount does not underflow, and the contract
\* can fund the transfer.
ClaimSucceeds(m, a) ==
  /\ MayClaim(m, a)
  /\ 0 <= Payout(m, a) /\ Payout(m, a) <= balance

\* The effects, then the transfer: the wei has left and the receiver runs.
Claim(a, m) ==
  /\ claiming = Nobody
  /\ ClaimSucceeds(m, a)
  /\ positions' = [positions EXCEPT ![m][a].claimed = TRUE]
  /\ markets' = [markets EXCEPT ![m] = MarketClaimed(m, a)]
  /\ balance' = balance - Payout(m, a)
  /\ paid' = [paid EXCEPT ![m][a] = @ + Payout(m, a)]
  /\ claiming' = a
  /\ before' = storage
  /\ UNCHANGED <<nextMarketId, paused, owner, now>>

\* The receiver returns.
ClaimAccepted ==
  /\ claiming # Nobody
  /\ claiming' = Nobody
  /\ before' = <<>>
  /\ UNCHANGED <<storage, now>>

\* The receiver reverts: EthTransferFailed reverts the claim and all that
\* was called from it.
ClaimRejected ==
  /\ claiming # Nobody
  /\ markets' = before[1] /\ positions' = before[2]
  /\ nextMarketId' = before[3] /\ paused' = before[4] /\ owner' = before[5]
  /\ balance' = before[6] /\ paid' = before[7]
  /\ claiming' = Nobody
  /\ before' = <<>>
  /\ UNCHANGED now

----------------------------------------------------------------------------
Pause(a) ==
  /\ a = owner /\ ~ paused
  /\ paused' = TRUE
  /\ UNCHANGED <<markets, positions, nextMarketId, owner, balance, paid, now,
                 claiming, before>>

Unpause(a) ==
  /\ a = owner /\ paused
  /\ paused' = FALSE
  /\ UNCHANGED <<markets, positions, nextMarketId, owner, balance, paid, now,
                 claiming, before>>

\* Ownable: the owner hands over, or renounces for good.
TransferOwnership(a, to) ==
  /\ a = owner
  /\ owner' = to
  /\ UNCHANGED <<markets, positions, nextMarketId, paused, balance, paid, now,
                 claiming, before>>

\* Time passes between transactions.
Tick ==
  /\ claiming = Nobody
  /\ now < LastTime
  /\ now' = now + 1
  /\ UNCHANGED <<storage, claiming, before>>

Call(a) ==
  \/ \E d \in Deadlines, r \in Resolvers : CreateMarket(a, d, r)
  \/ \E m \in Market, o \in Outcome, v \in Amounts : TakePosition(a, m, o, v)
  \/ \E m \in Market, o \in Outcome : ResolveMarket(a, m, o)
  \/ \E m \in Market : CancelMarket(a, m)
  \/ \E m \in Market : Claim(a, m)
  \/ Pause(a) \/ Unpause(a)
  \/ \E to \in Owners \cup {Nobody} : TransferOwnership(a, to)

Next ==
  \/ \E a \in Account : Call(a)
  \/ ClaimAccepted \/ ClaimRejected
  \/ Tick

Spec == Init /\ [][Next]_vars
=============================================================================
