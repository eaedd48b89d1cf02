------------------------- MODULE PipelineProperties -------------------------
(***************************************************************************)
(* What a reader of the API is told about the contract.                    *)
(***************************************************************************)
EXTENDS Pipeline

\* The contract in the last block indexed.
IndexedMarkets == Last(checkpoint).storage[1]
IndexedPositions == Last(checkpoint).storage[2]

\* The API answers what the contract's storage holds at the last block
\* indexed, market by market and account by account, whatever was mined,
\* reorganized away or staked again on another branch: pools and stakes are
\* never read from the contract, only rebuilt from its logs.
ServedIsOnChain ==
  checkpoint # NoBlock =>
    \A m \in 1 .. MaxMarkets :
      LET onChain == IndexedMarkets[m]
          answer == GetMarket(m)
      IN  IF onChain.resolver = Nobody THEN answer = <<>> /\ GetPositions(m) = {}
          ELSE /\ Len(answer) = 1
               /\ Head(answer).terms.resolver = onChain.resolver
               /\ Head(answer).terms.deadline = onChain.deadline
               /\ Head(answer).yes_pool = onChain.yesPool
               /\ Head(answer).no_pool = onChain.noPool
               /\ Head(answer).total_pool = onChain.yesPool + onChain.noPool
               /\ {<<p.user_address, p.yes_stake, p.no_stake>> : p \in GetPositions(m)} =
                  {<<a, IndexedPositions[m][a].yesStake, IndexedPositions[m][a].noStake>> :
                     a \in {b \in Account : \/ IndexedPositions[m][b].yesStake > 0
                                            \/ IndexedPositions[m][b].noStake > 0}}

\* The store accepts whatever the contract emits: the next block of the chain
\* never breaks a key of its tables or one of its defensive checks, not even
\* when the transactions of an orphaned block are mined again.
StoreAccepts ==
  Follows /\ NextHeight <= Len(head) =>
    Store!CommitErrors(Prefix(head, NextHeight), LogsOf(Prefix(head, NextHeight))) = {}

\* What the proofs about the indexer assume of every chain (LogAssumption,
\* CreationAssumption) is what the contract's logs do on every branch: a
\* transaction is in one block and a market created once, even when calls of an
\* orphaned block are sent again, and a stake is taken in a market created
\* before it.
LogsAreAsAssumed ==
  \A n \in 1 .. Len(head) : \A l \in LogsOf(Prefix(head, n)) :
    /\ \A m \in 1 .. n : \A k \in LogsOf(Prefix(head, m)) :
         /\ k.tx = l.tx => m = n
         /\ m = n /\ k.ix = l.ix => k = l
         /\ k.kind = "created" /\ l.kind = "created" /\ k.market = l.market =>
              m = n /\ k = l
    /\ l.kind = "position" =>
         \E m \in 1 .. n : \E k \in LogsOf(Prefix(head, m)) :
           /\ k.kind = "created" /\ k.market = l.market
           /\ m < n \/ k.ix < l.ix

Abstract ==
  INSTANCE CanonicalIndex WITH
    Block <- {}, Number <- Height, AncestorAt <- Prefix, DeploymentBlock <- 1,
    tip <- checkpoint, archive <- events

\* The index that the API reads moves as the abstract index that the indexer
\* implements (IsExactIndex): a child of its tip with all its logs, or back to
\* an ancestor with the logs up to it, over the histories of this chain.
MovesAsAbstract ==
  [][\/ Abstract!Append(checkpoint', LogsOf(checkpoint'))
     \/ Abstract!Rewind(checkpoint')]_<<checkpoint, events>>

\* A client that pages through the list to its end has met every market that
\* was listed when it began, with whatever limit it asked for and however many
\* markets were created meanwhile; short of a market being removed, by a
\* reorganization, under its walk.
WalkMissesNothing == walk.at = "end" => walk.missing = {}
=============================================================================
