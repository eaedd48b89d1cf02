------------------------------ MODULE Pipeline ------------------------------
(***************************************************************************)
(* From the contract to the API: the contract executes calls and emits     *)
(* logs, blocks carry them, reorganizations take them back, the decoder    *)
(* reads them (contracts.rs), the store projects them and the API answers  *)
(* from the projections.                                                   *)
(*                                                                         *)
(* The indexer is taken at the level of CanonicalIndex, which it implements *)
(* (IndexerProofs): it commits the next block of the chain with its        *)
(* logs, or rolls back to the common ancestor.                             *)
(*                                                                         *)
(* A block is the sequence of the bodies of its history, deployment first. *)
(* A body has the logs of the block, in their order, and what the block    *)
(* commits to: the contract's storage and the accounts' nonces after it.   *)
(***************************************************************************)
EXTENDS ReadApi

CONSTANTS
  Account, Owners, Resolvers, Nobody, Deadlines, Amounts, MaxMarkets, MaxPool,
  LastTime,        \* as in PredictionMarket
  MaxBlocks,       \* bound on the height of the chain
  MaxCalls         \* bound on the calls of a history

\* address(0) resolves no market, and the contract refuses an empty stake; no
\* more markets are created than a BIGINT can count.
ASSUME PipelineAssumption ==
  /\ Nobody \notin Resolvers
  /\ Deadlines \subseteq Nat /\ Amounts \subseteq Nat \ {0}
  /\ MaxMarkets \in Nat /\ MaxBlocks \in Nat
  /\ MaxBigint \in Nat /\ MaxMarkets <= MaxBigint

VARIABLES
  \* the contract at the end of the pending block
  contractMarkets, contractPositions, nextMarketId, paused, owner, balance,
  paid, now, claiming, before,
  nonce,           \* of each account
  pending,         \* the logs of the pending block
  head,            \* the last block
  blocks, events, checkpoint, coverage   \* the other tables of IndexStore

Contract ==
  INSTANCE PredictionMarket WITH markets <- contractMarkets,
                                 positions <- contractPositions

NoBlock == <<>>      \* the history that has not begun
Height(b) == Len(b)
Prefix(b, n) == SubSeq(b, 1, n)

----------------------------------------------------------------------------
\* Logs.  The first topic is the event's signature.

\* BinaryOutcome of Outcome; the contract emits no other.
BinaryOutcome(outcome) == IF outcome = "Yes" THEN "yes" ELSE "no"

\* decode_known_event: the projections of the two known events, with the
\* transaction hash and the log's index in the block as their identity.
DecodeMarketCreated(l, i) ==
  [tx |-> l.tx, ix |-> i, kind |-> "created", market |-> l.data.marketId,
   terms |-> [resolver |-> l.data.resolver, creator |-> l.data.creator,
              deadline |-> l.data.deadline]]
DecodePositionTaken(l, i) ==
  [tx |-> l.tx, ix |-> i, kind |-> "position", market |-> l.data.marketId,
   user |-> l.data.user, outcome |-> BinaryOutcome(l.data.outcome),
   yesPool |-> l.data.yesPool, noPool |-> l.data.noPool,
   stake |-> l.data.userOutcomeStake]

\* The records of a block: what the filters by signature select, decoded.
LogsOf(b) ==
  LET logs == Last(b).logs
      Selected(topic) == {i \in DOMAIN logs : logs[i].topic = topic}
  IN  {DecodeMarketCreated(logs[i], i) : i \in Selected("MarketCreated")} \cup
      {DecodePositionTaken(logs[i], i) : i \in Selected("PositionTaken")}

Store ==
  INSTANCE IndexStore WITH
    Block <- {}, Number <- Height, AncestorAt <- Prefix, MaxReorgDepth <- MaxBlocks,
    MaxShrink <- MaxBlocks, MaxLag <- 0, DeploymentBlock <- 1, LegacyHeads <- {}

storeVars == <<blocks, events, tables, checkpoint, coverage>>
contractStorage ==
  <<contractMarkets, contractPositions, nextMarketId, paused, owner, balance, paid>>
contractVars == <<contractStorage, now, claiming, before>>
chainVars == <<contractVars, nonce, pending, head>>
pipelineVars == <<chainVars, storeVars, apiVars>>

Body == [logs |-> pending, storage |-> contractStorage, nonce |-> nonce]

PipelineInit ==
  /\ Contract!Init
  /\ nonce = [a \in Account |-> 0]
  /\ pending = <<>>
  /\ head = <<Body>>
  /\ Store!EmptyStore
  /\ ApiInit

----------------------------------------------------------------------------
\* The contract, one transaction at a time.  The hash of a transaction is its
\* sender, the sender's nonce and the call: the same on every branch.

Emit(a, call, topic, data) ==
  /\ Len(head) < MaxBlocks /\ FoldFunction(+, 0, nonce) < MaxCalls
  /\ pending' = Append(pending, [topic |-> topic, data |-> data,
                                 tx |-> [from |-> a, nonce |-> nonce[a], call |-> call]])
  /\ nonce' = [nonce EXCEPT ![a] = @ + 1]
  /\ UNCHANGED <<head, storeVars, apiVars>>

CreateMarket(a, d, r) ==
  /\ Contract!CreateMarket(a, d, r)
  /\ Emit(a, <<"createMarket", d, r>>, "MarketCreated",
          [marketId |-> nextMarketId, resolver |-> r, creator |-> a, deadline |-> d])

\* Mutant: the pools are those before the stake.
EmitTakenBefore(a, m, o, v) ==
  Emit(a, <<"takePosition", m, o, v>>, "PositionTaken",
       [marketId |-> m, user |-> a, outcome |-> o,
        userOutcomeStake |-> Contract!StakeOn(m, a, o)',
        yesPool |-> contractMarkets[m].yesPool, noPool |-> contractMarkets[m].noPool])

EmitTaken(a, m, o, v) ==
  Emit(a, <<"takePosition", m, o, v>>, "PositionTaken",
       [marketId |-> m, user |-> a, outcome |-> o,
        userOutcomeStake |-> Contract!StakeOn(m, a, o)',
        yesPool |-> contractMarkets'[m].yesPool, noPool |-> contractMarkets'[m].noPool])

TakePosition(a, m, o, v) == Contract!TakePosition(a, m, o, v) /\ EmitTaken(a, m, o, v)

Transaction ==
  \E a \in Account :
    \/ \E d \in Deadlines, r \in Resolvers : CreateMarket(a, d, r)
    \/ \E m \in 1 .. MaxMarkets, o \in {"Yes", "No"}, v \in Amounts :
         TakePosition(a, m, o, v)

MineBlock ==
  /\ Len(head) < MaxBlocks
  /\ head' = Append(head, Body)
  /\ pending' = <<>>
  /\ UNCHANGED <<contractVars, nonce, storeVars, apiVars>>

\* The blocks above height n are taken back, and with them what they did.
Reorganize ==
  /\ \E n \in 1 .. Len(head) - 1 :
       /\ head' = Prefix(head, n)
       /\ contractMarkets' = head[n].storage[1] /\ contractPositions' = head[n].storage[2]
       /\ nextMarketId' = head[n].storage[3] /\ paused' = head[n].storage[4]
       /\ owner' = head[n].storage[5] /\ balance' = head[n].storage[6]
       /\ paid' = head[n].storage[7]
       /\ nonce' = head[n].nonce
  /\ pending' = <<>>
  /\ UNCHANGED <<now, claiming, before, storeVars, apiVars>>

----------------------------------------------------------------------------
\* The index

\* Mutant: the checkpoint's hash is not compared with the chain's.
FollowsUnchecked == Len(checkpoint) <= Len(head)

Follows == Store!IsAncestor(checkpoint, head)

NextHeight == Len(checkpoint) + 1

\* The next block of the chain is committed with its records.
IndexBlock ==
  /\ Follows /\ NextHeight <= Len(head)
  /\ Store!CommitBlock(Prefix(head, NextHeight), LogsOf(Prefix(head, NextHeight)))
  /\ walk' = WalkAfter
  /\ UNCHANGED <<chainVars, serving>>

CommonHeights == {n \in 1 .. Len(checkpoint) : Prefix(checkpoint, n) = Prefix(head, n)}

\* The checkpoint left the chain: back to the common ancestor.
Recover ==
  /\ ~ Follows /\ Len(checkpoint) <= Len(head)
  /\ \E n \in CommonHeights :
       /\ \A k \in CommonHeights : k <= n
       /\ Store!RollbackToAncestor(Prefix(head, n))
  /\ walk' = WalkAfter
  /\ UNCHANGED <<chainVars, serving>>

Api == ApiNext /\ UNCHANGED <<chainVars, blocks, events, checkpoint, coverage>>

PipelineNext ==
  Transaction \/ MineBlock \/ Reorganize \/ IndexBlock \/ Recover \/ Api

PipelineSpec == PipelineInit /\ [][PipelineNext]_pipelineVars
=============================================================================
