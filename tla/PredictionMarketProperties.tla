--------------------- MODULE PredictionMarketProperties ---------------------
(***************************************************************************)
(* What settlement promises (settlement-model.md, "Invariants"), in every  *)
(* state, those in the middle of a claim's external call included.         *)
(***************************************************************************)
EXTENDS PredictionMarket

\* Every variable has its type, and a market has an outcome exactly when it
\* is resolved.
TypeOK ==
  /\ \A m \in Market :
       /\ markets[m].resolver \in Account \cup {Nobody}
       /\ markets[m].deadline \in Nat
       /\ markets[m].status \in {"Open", "Resolved", "Cancelled"}
       /\ markets[m].winningOutcome \in Outcome \cup {"Unset"}
       /\ markets[m].status = "Resolved" <=> markets[m].winningOutcome # "Unset"
       /\ markets[m].yesPool \in Nat /\ markets[m].noPool \in Nat
       /\ markets[m].claimedWinningStake \in Nat /\ markets[m].claimedAmount \in Nat
       /\ \A a \in Account :
            /\ positions[m][a].yesStake \in Nat /\ positions[m][a].noStake \in Nat
            /\ positions[m][a].claimed \in BOOLEAN
            /\ paid[m][a] \in Nat
  /\ nextMarketId \in Nat /\ now \in Nat /\ balance \in Nat
  /\ paused \in BOOLEAN
  /\ owner \in Account \cup {Nobody} /\ claiming \in Account \cup {Nobody}

\* The contract holds what its markets have collected and not paid out: no
\* market is paid from the stakes of another.
Solvent ==
  balance = SumFunction([m \in Market |-> TotalPool(m) - markets[m].claimedAmount])

\* The pools and the amounts claimed are the sums over the accounts.
AccountsAddUp ==
  \A m \in Market :
    /\ \A o \in Outcome : Pool(m, o) = SumFunction([a \in Account |-> StakeOn(m, a, o)])
    /\ markets[m].claimedAmount = SumFunction(paid[m])

\* The pari-mutuel share of an account, rounded down.
Share(m, a) ==
  IF ClaimableStake(m, a) = 0 THEN 0
  ELSE IF markets[m].status = "Cancelled" THEN ClaimableStake(m, a)
  ELSE MulDiv(ClaimableStake(m, a), TotalPool(m), WinningPool(m))

Terminal(m) == Exists(m) /\ markets[m].status # "Open"

\* Whoever has claimed, in whatever order, what a market still owes its other
\* accounts is still there.
SharesCovered ==
  \A m \in Market : Terminal(m) =>
    SumFunction([a \in Account |-> IF positions[m][a].claimed THEN 0 ELSE Share(m, a)])
      <= TotalPool(m) - markets[m].claimedAmount

Winners(m) == {a \in Account : ClaimableStake(m, a) > 0}

\* An account is paid its share, once, at most one wei for each other winner
\* more; an account of the losing side, or that has not claimed, nothing.
FairShare ==
  \A m \in Market, a \in Account :
    IF Terminal(m) /\ positions[m][a].claimed
    THEN /\ Share(m, a) <= paid[m][a]
         /\ paid[m][a] < Share(m, a) + Cardinality(Winners(m))
    ELSE paid[m][a] = 0

\* Nothing is stranded: when all with a claim have claimed, a market has paid
\* exactly what it collected.
NoDust ==
  \A m \in Market :
    Terminal(m) /\ (\A a \in Winners(m) : positions[m][a].claimed)
      => markets[m].claimedAmount = TotalPool(m)

\* A winner that has not claimed can: in every state, paused or not, whoever
\* owns the contract, a claim reverts neither for want of wei nor by an underflow.
NeverFrozen ==
  \A m \in Market : Terminal(m) =>
    \A a \in Winners(m) : ~ positions[m][a].claimed => ClaimSucceeds(m, a)

\* The part of a market no later call may touch: what was decided, and the
\* stakes once the resolver may decide.
Keeps(m) ==
  /\ markets[m].status # "Open" =>
       /\ markets'[m].status = markets[m].status
       /\ markets'[m].winningOutcome = markets[m].winningOutcome
  /\ now >= markets[m].deadline =>
       \A a \in Account :
         /\ positions'[m][a].yesStake = positions[m][a].yesStake
         /\ positions'[m][a].noStake = positions[m][a].noStake

SettledStep == ~ ClaimRejected => \A m \in Market : Exists(m) => Keeps(m)

\* No step changes a terminal market's status, outcome or stakes, nor a stake
\* once the resolver may decide; the revert of a claim only undoes what was
\* called from it.
Settled == [][SettledStep]_vars
=============================================================================
