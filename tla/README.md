# Foresyn: specifications, checks and proofs

This directory holds TLA+ specifications of Foresyn, the TLC configurations that check them, and
proofs for TLAPS. Paths below are relative to the repository root.

## 1. The system

Foresyn is a prediction market. A contract takes stakes on YES or NO, a resolver decides after the
deadline, and winners share the pool. An indexer follows the contract's events through a JSON-RPC
endpoint and writes PostgreSQL tables, which a read API serves to a browser application; the
application sends stakes through the user's own wallet.

| Component | State | Operations | What is hard |
| --- | --- | --- | --- |
| Settlement contract (`contracts/src`) | markets, positions, ownership, pause, ether | create, take a position, resolve, cancel, claim, pause | rounding, calls from inside a payout, one balance for all markets |
| EVM chain and RPC endpoint (`backend/src/chain.rs`) | a moving head | chain id, latest number, block by number, logs of a range | reorganizations and failures between any two reads |
| Indexer (`indexer.rs`, `contracts.rs`) | local variables of one run | catch-up in batches, verification, ancestor search, recovery | every await is a point where chain, database and other processes move |
| Index store (`db.rs`, `migrations`) | blocks, events, projections, checkpoint, coverage | commit a block, roll back, full reindex, claim coverage | in-place projections that a rollback must rebuild, constraints that may fire |
| Indexer process (`bin/indexer.rs`) | watch loop, retry delay, Ctrl+C | startup, poll, retry, shutdown | which errors end the process, what a restart repeats, a signal at any moment |
| Market metadata (`metadata*.rs`, two commands) | `market_metadata` rows | insert, verify a digest | rows that disappear with their market in a rollback |
| Read API (`api.rs`, `read_repository.rs`, `main.rs`) | none | list with pages, market, positions | several queries over a store that moves |
| Position form (`App.tsx`, `web3/transaction.ts`, `web3/contract.ts`) | stage of a transaction | submit, wait for the receipt, wait for the index | stale baseline, wallet that changes while it is asked |
| Wallet connection (`web3/useWallet.ts`, `web3/wallet.ts`) | phase, account, network | connect, switch, events | events that overtake reads |
| Configuration (`config.rs`) | none after startup | accept or refuse an environment | what is opened before a refusal |
| Presentation, tests, scripts | - | - | - |

Interactions: the contract emits events into blocks; the indexer reads blocks and logs in separate
calls and writes one transaction per block; API queries read the same tables in transactions of
their own; the position form compares what the API says with what it knew before it sent a stake.
The indexer keeps no state between runs but the database.

What makes each part correct:

- *store and indexer*: what is stored is a gapless branch of the chain from the deployment block to
  the checkpoint; the archive holds the logs of those blocks and no others; the projections are a
  function of the archive; reorganizations are recovered from with the smallest rollback; once the
  chain rests the index reaches its safe head.
- *indexer command*: nothing touches the database before arguments, environment and chain are
  accepted; the destructive reindex happens once; delays, summaries and Ctrl+C do what they say.
- *contract*: it holds what it owes, market by market; a claimant receives its pari-mutuel share
  once, in any order of claims; nothing is stranded; decided outcomes and stakes stay.
- *metadata*: what is shown as verified is what the chain commits to, whichever branch is indexed;
  texts outlive the reorganizations that keep their market.
- *API and form*: what the API answers is what the contract's storage held at the last block
  indexed; paging through the list misses no market; "indexed" means that this transaction is in the
  index.

## 2. Modules

| Module | Models |
| --- | --- |
| `Chain` | blocks as hashes with their ancestry, the head an endpoint reports, mining, reorganizations, a lagging node; the reads of `ChainSource` |
| `IndexStore` | the tables and the transactions of `Database`, EXTENDS `Chain` |
| `Indexer` | the processes: one action per awaited call of `main`, `run_once`, recovery; EXTENDS `IndexStore` |
| `CanonicalIndex` | abstract specification: an archive of one branch that grows, is cut back, or is emptied |
| `IndexerProperties` | the indexer's properties and its refinement of `CanonicalIndex` |
| `MCChain`, `MCIndexer` | block trees and values for TLC |
| `StoreTheorems` | lemmas about the store's transactions: what a fold of rows in EVM order leaves in the tables, what a rollback replays; EXTENDS `IndexStore` |
| `IndexerProofs` | theorems about the indexer: types, the archive, the branch, the refinement, confirmed blocks, the tables and the store's refusals |
| `SingleIndexerProofs` | theorems about one indexer between whose reads nothing is reorganized, and about the texts |
| `Configuration` | the environments and command lines that are accepted; constant operators |
| `WatchLoop` | one command from start to exit around the steps of `Indexer`; EXTENDS `Indexer`, `Configuration` |
| `WatchLoopProperties`, `MCWatchLoop` | its properties and fairness, its TLC values |
| `WatchLoopProofs` | theorems about the command |
| `PredictionMarket` | the contract, with the receiver's code running inside a claim |
| `PredictionMarketProperties`, `MCPredictionMarket` | its properties, its TLC values |
| `PredictionMarketProofs` | theorems about the contract |
| `SumTheorems` | lemmas about sums over finite sets, with induction stated over sets |
| `ReadApi` | the answers of the three reads, pagination, a client that walks through the list; EXTENDS `Configuration` |
| `Pipeline` | the composition: INSTANCE of `PredictionMarket`, its logs in blocks, their decoding, INSTANCE of `IndexStore`, `ReadApi` over its tables |
| `PipelineProperties`, `MCPipeline` | its properties, its TLC values |
| `PipelineProofs` | theorems about it, with an INSTANCE of `StoreTheorems` for its store |
| `Metadata` | `market_metadata` under the indexer's transactions, the insertion command and the operator; EXTENDS `Indexer` |
| `MetadataProperties`, `MCMetadata` | its properties and fairness, its TLC values |
| `PositionForm` | the browser's transaction from click to "indexed", for one market, with the two reads of the API it polls, over an abstract chain and index |
| `PositionFormProperties`, `MCPositionForm` | its properties and fairness, its TLC values |
| `PositionFormProofs` | theorems about the form |

### Indexer, store, chain

A block is its hash, so it fixes its ancestry: `AncestorAt(b, n)` is its ancestor at height `n`, and
`parent_hash` comparisons become equalities of blocks. `head` is the tip the endpoint reports now;
`Canonical(n)` is what `block_by_number(n)` returns now, and `CanonicalLogs(from, to, kind)` what one
of the two `logs` queries of a batch returns, each log with the hash of its block.

`pc[p]` names the call process `p` awaits next, `run[p]` holds the local variables that live across
awaits (`latest_block`, the checkpoint, `next_block`, `batch_end`, `expected_parent`,
`logs_by_block`, the block), `result[p]` how its last run ended. Each database operation is one
action: the code runs it in one transaction that begins by taking the chain's advisory lock. Errors
of the store are sets of error names (`CommitErrors`, `RollbackErrors`); a transaction commits when
the set is empty.

| Code | Actions |
| --- | --- |
| `main`, preflight, `--full-reindex`, coverage | `Launch`, `Preflight`, `StartupReindex`, `StartupCoverage` |
| what ends a run | `EndRun` (it is polled again) and `Fail` (it is not) in the others: RPC errors are slept on, every other error ends the process; `WatchLoop` has the loop itself |
| `run_once_inner`, `run_catch_up_attempt` | `CheckChainId`, `ReadLatest`, `ReadCheckpoint`, `VerifyCheckpoint` |
| `process_batch` | `FetchCreatedLogs`, `FetchPositionLogs`, `FetchBlock`, `Commit` |
| `recover_from_reorg`, `find_common_ancestor` | `StartRecovery`, `ReadStoredHash`, `CompareCanonicalHash`, `Rollback` |
| the environment | `Mine`, `Reorg`, `RpcFails`, `Crash` |

`Reorganized` is the retry of `run_once_inner`: the first recoverable error starts the recovery and
a second attempt, the second ends the process with `RecoveryLimitExceeded`. `Crash` stops a process
between any two actions, which covers a shutdown, a lost database connection, and a transaction
whose answer is lost (a commit followed by a crash). A one-shot run is a watching process that is
stopped after its run.

The data of a log is what the projections read: a created log has its market and terms, a position
log the participant, outcome, the contract's pools and the participant's stake after the event.
Decoding is the name of the kind (`Pipeline` has the decoders); logs that do not decode, blocks with
another number than asked for and logs outside the requested range are left out.

### Indexer command

`WatchLoop` is `bin/indexer.rs` around the steps of one process of `Indexer`. Every step that touches
the chain or the store is an action of `Indexer`; `InRun` adds what the loop does with its outcome.
`args` and `env` are what the running command was started with, `exit` how the last one ended.
`failures` and `launch` are history variables, for the properties.

| Code | Actions |
| --- | --- |
| `parse_options_from`, `IndexerConfig::from_env` | `StartWith`, `StartRefused` over `UsageError`, `IndexerErrors` |
| `run_after_chain_preflight`, `--full-reindex` or coverage | `Preflight`, `Reindex`, `KeepIndex` in `RunOnce` |
| `run_once` and its `RunSummary` | the rest of `RunOnce`; `SummaryAfter` fills the summary in |
| `Ok` arm: reset, summary, poll sleep or return | `RunFinishes`, `ReturnOnce` |
| `Err` arm: retry delay or return | `RunFails` (`Doubled`, from `take_delay`), `RunAborts` |
| `tokio::select! { biased; .. }` | `Wake`, `Shutdown`: a pressed Ctrl+C wins over a sleep that is over |
| `shutdown_signal` | `PressCtrlC`, `FirstPoll` |
| a kill, a failing database | `Dies`; a failing endpoint is `EndpointFails` |

`tokio::signal::ctrl_c` installs its handler when it is first polled, which is at the first sleep:
`signal.listening` is false until then, and Ctrl+C kills the process (`PressCtrlC`, second disjunct),
as it does a one-shot run, which never sleeps. Durations are values in milliseconds; no clock is
modelled.

`Configuration` gives, for each variable, which error a value is refused with: missing, no integer,
out of range, zero, no URL, another scheme, no address, the zero address. `from_env` reports the first
error; which one is first is not modelled, only whether there is any.

### Contract

One action per external function. A transaction that reverts changes nothing and is not a step.
`claim` is `Claim` (the effects and the outgoing transfer), after which any account may call any
function, then `ClaimAccepted` or `ClaimRejected`; the latter restores what was saved in `before`,
because `EthTransferFailed` reverts the claim and every call made inside it. `claiming` is the
reentrancy guard. `Tick` moves `block.timestamp` between transactions. `paid` is a history variable.
`TransferOwnership` stands for OpenZeppelin's `Ownable`, renouncing included.

### Pipeline: contract, logs, index, API

A block is the sequence of the bodies of its history; a body has the block's logs and, as a block
hash does, commits to the contract's storage after it. `NoBlock`, the checkpoint of an empty index, is
the history that has not begun. `CreateMarket` and `TakePosition` are the contract's own actions
(INSTANCE of `PredictionMarket`) together with the log each emits. The hash of a transaction is its
sender, nonce and call, so that the same transaction can be mined again on another branch.
`Reorganize` takes blocks back, and the contract's storage and the nonces with them. The other
functions of the contract emit logs that the filters do not select.

`DecodeMarketCreated`, `DecodePositionTaken` and `BinaryOutcome` are `contracts.rs`. The store is an
INSTANCE of `IndexStore` itself. The indexer between them is taken at the level of `CanonicalIndex`
(commit the next block of the chain, or roll back to the common ancestor), which `Indexer` is proved
to implement; a batch that mixes branches is thus not in this module but in `Indexer`.

| Code | Actions and operators |
| --- | --- |
| `list_markets`, `market`, `market_positions` and their queries | `ListMarkets`, `GetMarket`, `GetPositions`: functions of the tables |
| `Pagination::normalized` | `Normalized` |
| a client that asks for page after page | `StartWalk`, `FetchPage` (external) |
| `main` of the API | `ApiInit`: it serves when its environment is accepted |

### Metadata

Every step of the indexer is a step here (`IndexStep`), together with the cascade of the foreign key
of migration 0004: a text disappears in the transaction that deletes its market. Beside it run
`insert-market-2-metadata`, one action per SQL statement, and an operator who uses the INSERT that
`generate-market-2` prints (with a text and a digest that need not match) or removes a row.

| Code | Actions and operators |
| --- | --- |
| `run` of the command | `StartInsert`, `ReadIndexedMarket`, `ReadExisting`, `Upsert` |
| `report` | `ReadRow`, `ReadMarketBack` |
| an error of the database, a stop | `InsertStops` |
| `market_from_row`: one query with a LEFT JOIN, the digest computed again | `Shown`, `Verified` |
| `compute_digest` | `Digest`, a constant: any injective function of the text; `Commits` |

`insert.market` is the local variable `market`, read before the statements that use it.

### Position form, read API

The projections of one market are sums over the stakes it took, so a version of the database is the
sequence of those stakes: `chain` for the canonical chain, `index` for what the indexer has
committed of it. `PoolIn` and `StakeIn` are what `GET /api/markets/{id}` and `.../positions` answer
from a version. Each answer is a version of its own (`read`), because the page asks for pools and
positions in two requests and the index moves between them.

| Code | Actions |
| --- | --- |
| `takePosition` | `Submit`, `SubmitRefused` (every early return), `Broadcast` (inside the wallet), `HashReturned`, `Rendered` (the two `delay(0)`), `Receipt`, `TransactionFails` |
| `waitForIndexedProjection` | `ReadMarket`, `ReadPositions`, `PollSees`, `PollMisses`, `PollFails`, `PollGivesUp` |
| the effect of `selectedMarketId` | `ReadMarket`, `ReadPositions`, `DetailLoaded`, `DetailFailed` |
| `MarketList`, Retry, the browser | `Select`, `ReloadTab` |
| everything else that moves | `OtherStake`, `MineStake`, `ReorgChain`, `IndexBlock` |

`Submit` takes the account the page shows and `Broadcast` the account the wallet has selected when
it signs, any two of the wallet's: the effect of every interleaving of account changes. `tx` holds
the locals of `takePosition` (account, outcome, amount, baseline, attempt) and what became of its
transaction. A request fails in `DetailFailed` and `PollFails`, which also stand for a market the
index does not have (404). `TransactionFails` may also come after the transaction was sent, as a
failing RPC node of the wallet makes it.

## 3. Runs

| Run | Question | Environment | Distinct states |
| --- | --- | --- | --- |
| `IndexerReorg` | is what is stored always sound, and are the defensive errors unreachable? | one process, everything that can go wrong: reorganizations of any depth, also below deployment, to shorter chains and in the middle of a run; lagging node, wrong chain id, RPC failures, crashes, reindexes, a database of the previous milestone | 57,920 |
| `IndexerPair` | is the index canonical and complete when confirmations suffice, and do two processes on one database damage it or stop each other? | two processes, reorganizations not deeper than the confirmations, at any moment; previous-milestone database | 57,424 |
| `WatchLoop` | does the command recover, minimally and exactly, converge, wait as documented, report what it stored, obey Ctrl+C, and touch nothing it should not? | one-shot and watching commands, also refused ones, started again and again; reorganizations of any depth above the deployment block that fall between runs; RPC failures, wrong chain id, Ctrl+C, crashes | 45,435 |
| `MarketSplit` | does rounding ever cost a claimant its share or strand wei? | one market, three accounts, stakes of 1 and 2 wei, pool up to 5 | 77,396 |
| `MarketReenter` | do reentrant calls, rejected transfers, pauses, deadlines break the accounts or the outcome? | two markets with deadlines 1 and 2, two accounts, an owner that may renounce | 860,616 |
| `Pipeline` | is what the API answers what the contract holds, from its logs alone? | two accounts, two markets, up to three calls in up to three blocks that are reorganized away and mined again, a client that pages meanwhile | 317,420 |
| `MetadataQuiet` | are texts shown for the right market, kept, and restorable? | one process that may reindex, reorganizations between its runs, at any moment of the command; two texts; an operator | 36,738 |
| `FormPoll` | does "indexed" mean indexed, and does waiting end? | two accounts in one wallet, one of which also stakes elsewhere; failed reads, reorganizations of any depth, index rollbacks, reloads | 454,159 |
| `IndexerRace` | finding 1 | reorganizations in the middle of a run | violation |
| `IndexerShrink` | finding 2 | reorganizations to a chain one block shorter | violation |
| `IndexerReindex` | finding 3 | two processes, one of which reindexes | violation |
| `FormStale` | finding 4 | one account, two transactions | violation |

Bounds of the indexer runs. The chain is a tree of three to five branches of at most six blocks after
genesis; `Tips` names the branches. The trees are chosen so that: branches fork at every height; a
market is created at different heights on different branches and not at all on a prefix; the same
transaction is mined on two branches at another height, with another log index, and reports other
pools; a block has two logs of the same market; some blocks are empty. Four or five indexed heights
with batches of two or three give several batches, partial batches and rollbacks over a batch
boundary. Deeper chains only repeat those cases. In `IndexerPair` the confirmation depth is two, as
is the deepest reorganization. The counters of the code (attempts, batches) are bounded by the code
itself; the model needs no state constraint.

Bounds of `WatchLoop`. Three branches, which fork at the deployment block and above. `Lines` has each
accepted mode and each way a command line is refused, `Settings` each way an environment is. The
documented delays end at the sixth failure in a row, so `MaxFailures`, the bound of the history
variable, is six: later failures are followed by the sixth delay (theorem `Backoff` needs no more).

Bounds of the contract runs. `MaxPool` bounds what a market collects, `MaxMarkets` and `LastTime` the
markets and the clock. Pools of up to 5 wei over three accounts give every pattern of remainders
with one, two and three winners (for example 2:1:2, which rounds twice). Two markets and two
accounts suffice to move ether between markets and to call one market from a claim of the other.

Bounds of `Pipeline`. Three calls are a market and two stakes (of one or two accounts, on one or two
sides) or two markets and a stake; three blocks let a reorganization take back one or two of them and
the same calls be mined again in another order, another block or together. `MaxLimit` is two and
`DefaultLimit` one, so a list of two markets has one page or two; the limits asked for are 0, which is
raised, and 3, which is cut.

Bounds of `MetadataQuiet`. Four branches create the market one block earlier or later, for one text
or another, so that a rollback deletes it and the replay brings it back with the same or another
digest, or before the branch creates it not at all. One market: rows of two markets share nothing.

Bounds of the form's runs. `MaxStakes` is two: the properties speak of one transaction and of one
other stake it can be confused with, by the same or another account, before or after it, on the same
or the other outcome. Amounts are equal, which makes confusing them easiest. `Attempts` is one in
`FormPoll` (30 in the code): an attempt that misses and the decision to give up; more attempts repeat
the first.

Deadlock is checked in every run but those of the contract, which may rest (all claimed, no account
acts).

### Properties

- `TypeOK` (indexer, contract): types; for the indexer, heights never go below zero, for the
  contract, an outcome is set exactly when a market is resolved.
- `IndexIsBranch`, `ArchiveSound`: what is stored is one branch, and only logs of it.
- `ProjectionIsReplay`: markets, pools and stakes equal what the archive says, computed in the
  property from the archive alone (last event of each key), not by the fold the code uses.
- `NoStoreConflict`: with one writer, none of the store's defensive errors ever occurs.
- `ArchiveComplete`: no log is missing from a covered index. `CoverageProven`: a covered index has
  no hole.
- `IndexIsCanonical`: with final confirmed blocks nothing indexed is ever orphaned.
- `NeverStops`, `RollbackIsMinimal`, `OkMeansSynced`: a watching process recovers, removes only
  orphaned blocks, and reports success only when in sync.
- `OneSurvives`: of two processes at least one is not refused by the checkpoint guard.
- `IsSoundIndex`, `IsExactIndex`: refinement of `CanonicalIndex`, the second with every log of every
  block.
- `Converges` (liveness): if from some time on the chain, the endpoint and the process behave and
  nobody reindexes, the index reaches the safe head and stays there, whether the command watches or
  is run again and again.
- `BackoffIsExponential`: the n-th RPC failure in a row is followed by the n-th delay of the
  documented table, a good run by the poll interval.
- `SummaryIsStored`: the summary of a good run names the top of the index, one block for each height,
  with the events that are stored there, also after a recovery.
- `SafeStartup`: the store changes only in an accepted command that has seen its chain, and is emptied
  at most once in its life, by `--full-reindex`.
- `ShutdownEnds` (liveness): once it is listened to, Ctrl+C ends the command.
- `Solvent`, `AccountsAddUp`, `SharesCovered`, `FairShare`, `NoDust`, `NeverFrozen`, `Settled`: the
  settlement rules of `docs/settlement-model.md`, also in the states inside a claim's transfer.
- `ServedIsOnChain`: for the last block indexed, the API answers the markets, pools and stakes of the
  contract's storage after that block, no more and no fewer, although it reads logs only.
- `StoreAccepts`: the next block of the chain never breaks a key or a defensive check of the store,
  whatever orphaned branch carried its transactions before.
- `LogsAreAsAssumed`: what the proofs about the indexer assume of a chain (§4) is what the contract's
  logs do on every branch.
- `MovesAsAbstract`: the index under the API takes the steps of `CanonicalIndex` and no others, each
  with all the logs of its block. These two tie the halves of the project together.
- `WalkMissesNothing`: a client that pages to the end has met every market that was listed when it
  began, unless a market was removed meanwhile.
- `VerifiedIsCommitted`: a text shown as verified is one that a created log on the indexed branch
  commits to; the property looks at the chain, the code at its own tables.
- `VerifiedStays`, `TextOutlivesReorgs`: what can take a verified text away: an operator, a command
  that read its digest from a market row since replaced, a full reindex, or a rollback that orphans
  the market's creation. The second of these is a real race of the command's check and its upsert.
- `RerunRestores` (liveness): running the command again brings back what was deleted.
- `IndexedIsShown`: "indexed" is said only of a transaction in the positions read, provided the page
  it was sent from showed the account's other stakes. The proviso is what finding 4 breaks.
- `ShownIsIndexed`: an attempt whose two reads show the transaction, signed by the account of the
  click, does not miss it, unless a reorganization removed something the page had shown.
- `PollEnds` (liveness): waiting for the index ends.

Every property of a passing run is broken by at least one single change of a modelled definition,
listed under `mutants` in `PROJECT.json`; the changed definitions stand beside the originals, marked
`Mutant`.

### Fairness

`FairWatchSpec` assumes weak fairness of `Command`: an awaited call returns or fails, a sleep ends,
the process is scheduled. And weak fairness of `Restart`: a command that ended is started again to
watch (a supervisor or operator), but *not* when it ended with an error of its own, which needs a
person: convergence must come without. Only an exit, an RPC error of the preflight and a wrong chain,
which depend on the endpoint, are restarted after. No fairness is assumed of the chain, of Ctrl+C or
of failures. `Converges` only claims something of behaviours where the head eventually stops moving
and calls eventually stop failing; before that anything may happen any number of times.
`ShutdownEnds` needs no calm: every call may fail for ever.

In `MetadataProperties`, `InsertSpec` assumes weak fairness of the command alone: its statements
answer and somebody runs it again when it has ended. `RerunRestores` needs no fairness of the
indexer, because it speaks of behaviours in which the market stays indexed.

In `PositionForm`, `FairSpec` assumes that a request answers or fails and that timers fire: weak
fairness of the two reads and of the end of an attempt. It assumes nothing of the wallet, the chain
or the index, so `PollEnds` speaks of the wait for the index only; waiting for the wallet or the
receipt may last for ever, in the code as in the model.

## 4. Proofs

TLAPS checks these for every value of the constants that meets the named assumptions of the modules.
Besides the types and bounds of parameters (`DepthAssumption`, `DeploymentAssumption`,
`IndexerAssumption`, `WatchAssumption`, `AmountAssumption`, `BoundAssumption`, `FormAssumption`,
`LimitAssumption`) they are:

- `AncestryAssumption`, `NoBlockAssumption`: a hash link fixes a block's ancestry.
- `LogAssumption`: a block has finitely many logs, told apart by their index, of the two kinds the
  filters select; on one branch a transaction is mined once and a market created once (nonces, and the
  counter `nextMarketId`; theorem `AssumptionsMet`). Nothing is said of two branches: they may mine the
  same transaction and create a market with other terms.
- `CreationAssumption`: a stake is taken in a market created before it on the same branch, not before
  the deployment block (`_requireMarket` in the contract; theorem `AssumptionsMet`). Without it a commit
  or a replay could violate the foreign key of the pools.
- `AccountAssumption`: `address(0)` is nobody's, and addresses are finitely many, so that sums over
  them are defined.
- `PipelineAssumption`: no resolver is `address(0)`, no stake is empty, and no more markets are created
  than a BIGINT can count.

TLC evaluates each of them on the instances of the runs whose modules extend the module it is in.

| Theorem | States | Under |
| --- | --- | --- |
| `IndexerProofs!TypeCorrect`, `SoundArchive` | `[]TypeOK`, `[]ArchiveSound` | any number of processes on one store |
| `IndexerProofs!OneBranch`, `Implements` | `[]IndexIsBranch`; `IsSoundIndex`: the indexer implements `CanonicalIndex` | one process (`SingleWriter`) |
| `IndexerProofs!Canonicity`, `Completeness` | `[]IndexIsCanonical`, `[]ArchiveComplete` | any number of processes, no reorganization deeper than the confirmations (`Finality`): finding 1 cannot happen |
| `IndexerProofs!TablesAreReplay` | `[]ProjectionIsReplay` | any number of processes |
| `IndexerProofs!NotAllRefused` | `[]OneSurvives` | any number of processes, at least one |
| `IndexerProofs!NoConflicts` | `[]NoStoreConflict` | one process |
| `SingleIndexerProofs!QuietCompleteness`, `MinimalRollback`, `SyncedWhenOk` | `[]ArchiveComplete`, `RollbackIsMinimal`, `OkMeansSynced` | one process, reorganizations of any depth between its runs (`SparedReads`) |
| `SingleIndexerProofs!ImplementsExactly` | `IsExactIndex`: `CanonicalIndex` with every log of every block | the same, and an empty database at first |
| `SingleIndexerProofs!NeverStopped` | `[]NeverStops` | the same, all branches through the deployment block, a reported head that never falls (`Favourable`): finding 2 cannot happen |
| `WatchLoopProofs!WatchRefines`, `WatchImplements` | `WatchSpec => Spec`, `IsSoundIndex`: the command implements the indexer, and with it the abstract index | |
| `WatchLoopProofs!Summaries` | `[]SummaryIsStored` | |
| `WatchLoopProofs!Backoff`, `Startups` | `[]BackoffIsExponential`, `SafeStartup` | `MaxFailures >= 6` |
| `SingleIndexerProofs!Committed`, `Kept` | `[]VerifiedIsCommitted`, `VerifiedStays` | one indexer |
| `SingleIndexerProofs!Outlives` | `TextOutlivesReorgs` | one indexer, `SparedReads` |
| `PredictionMarketProofs!ContractTypes`, `ContractSettled` | `[]TypeOK`, `Settled` | |
| `PredictionMarketProofs!Solvency`, `Accounts` | `[]Solvent`, `[]AccountsAddUp` | |
| `PredictionMarketProofs!ShareCover`, `FairShares`, `NothingStranded` | `[]SharesCovered`, `[]FairShare`, `[]NoDust` | |
| `PredictionMarketProofs!NoLock` | `[]NeverFrozen` | |
| `PipelineProofs!ServedOnChain`, `BlocksAccepted` | `[]ServedIsOnChain`, `[]StoreAccepts` | |
| `PipelineProofs!AssumptionsMet`, `IndexImplements` | `[]LogsAreAsAssumed`, `MovesAsAbstract` | |
| `PipelineProofs!NothingMissed` | `[]WalkMissesNothing` | |
| `PositionFormProofs!Indexed`, `Shown` | `IndexedIsShown`, `ShownIsIndexed` | |

### The indexer

*Soundness of the archive.* `ArchiveSound` is not inductive: a commit inserts logs fetched earlier.
`ArchiveInv` adds `Ready` for each process: every log it holds is one its block emitted, and a
process about to commit holds a block at its cursor's height that all logs of that height name.
Reading steps establish it from `LogsMatch`; steps of other processes and of the chain do not touch
local variables, which is why any number of processes is covered. Rollbacks cut blocks and events at
the same height.

*One branch.* `IndexIsBranch` needs to know that the writer's next block continues the checkpoint.
`BranchInv` says so per awaited call (`Placed`): from `created_logs` to `commit` the cursor is one
above the checkpoint, or at deployment in an empty store, and `expected_parent` is the checkpoint; a
block about to be committed passed `ensure_parent`; during recovery the cursor stays between
deployment and the checkpoint, so the block read at that height is the checkpoint's ancestor and a
rollback cuts one branch to a shorter one. Only the single writer changes the store, hence
`SingleWriter`; run `IndexerPair` checks two writers on an instance with final blocks, and
`IndexerReindex` shows what fails with a reindex among them. The temporal steps are by `PTL`.

*Finality.* `IndexIsCanonical` is not inductive: it must be known that a block about to be committed
is confirmed, and stays so while a process sleeps between its reads. `FinalInv` says that every stored
block is canonical and confirmed (`OnChain`), that each process holds a height that was reached and a
batch under its safe head (`AllConfined`), with all logs of the blocks it has yet to commit, and that
nobody is past its startup without a coverage marker (`AllCovered`). `HeadKeepsConfirmed` is the only
fact about the chain: a head move leaves the blocks at confirmed heights alone. It makes two reads of
a confirmed height agree whenever they happen, so logs and blocks cannot come from two branches, and
any number of processes is covered. That the two filters together select every log modelled is in
`LogAssumption`.

*The tables.* `ProjectionIsReplay` compares in-place upserts and the rebuild of a rollback with the
last archived log of each key. `TablesInv` has what makes the order of the archive an order: one block
at each height, the checkpoint above all of them; and for each block of which a position is archived,
all of its positions. `Fetched` carries the last to a commit: a process past its two queries holds the
positions of a block wholly or not at all. The store applies rows with a fold. That folding a set of
rows in EVM order gives the tables of its last rows is proved once, by induction over the set
(`SubsetInduction`, with the set of good subsets as a parameter); a commit is the case where the new
rows come after those applied, a rollback the case where the fold starts from empty tables.

*Refusals.* `OneSurvives` holds because some process can always go on: `LeadInv` says that one exists
which has not been refused and whose cursor is not below the checkpoint, the one that committed last or
any one when the checkpoint was taken back. `NoStoreConflict` needs that nothing stored clashes with
the block about to be committed: by `BranchInv` the archive lies on that block's own branch, strictly
below it (`ArchiveBelow`), where `LogAssumption` keeps its transactions and its markets from having
been met before; no block is stored at its height, and the checkpoint is its parent.

*Runs between which the chain moves.* `QuietInv` adds to the branch what the reads of a run have
established about the chain (`Tracks`): below a batch the checkpoint is canonical; every height the
search has passed differs from the checkpoint's branch; the ancestor found does not. So a rollback
removes orphaned blocks only, a batch's logs and blocks are of one chain, and a run that says Ok ended
with a canonical checkpoint at its safe head. `NeverStops` is proved by excluding each error at its
call (`LastingInv`): coverage, since an index without a marker is empty (`Fresh`); a head below the
checkpoint, since the chain has reached the checkpoint and never falls (`Reached`); no common ancestor,
since the deployment block is shared; a second mismatch, since the recovered checkpoint and the logs
fetched stay canonical for the rest of the run (`Steady`); a foreign key, by `CreationAssumption` and
the completeness of the archive.

*The command.* `WatchRefines` maps each step of the loop to a step of `Indexer` or a stutter, so what
is proved of the indexer holds with restarts, delays and shutdown around it. `LoopInv` ties
`next_delay` to the number of failures in a row and the call of the process to what the command has
done (`LaunchOK`: past the preflight call only after it, at startup only before a reindex); the table
of delays is unfolded by cases, all failures from the sixth on alike. `SummaryInv` reads the summary
against the cursor: within a batch it counts exactly the blocks from its first height to below the
cursor and the events stored at those heights (`Counted`); a commit adds one block, whose events were
not stored before; a second attempt starts from an empty summary.

*Texts.* A text that is verified matches the digest of a market row, and the row is the archive's
(`TablesInv`), which is the branch's (`BranchInv`); `Committed` adds only that a market has one text
(`OneTextEach`, the primary key). `Outlives` needs the foreign key (`TextsHaveMarkets`) and that a
rollback removes orphaned blocks only.

### The contract

`ContractInv` types the storage and the copy that a revert would restore (`before`), so that a rejected
claim keeps it; that the side of a resolution has stakes, without which a payout divides by zero; and
that markets are numbered in order of creation, so that `createMarket` never overwrites one. `Settled`
then follows call by call: stakes need an open market before its deadline, decisions an open market
after it.

`AccountInv` adds the books (`Books`), of the storage and of what a revert restores: pools are the sums
of the stakes, the ether is the sum over the markets of what each collected and has not paid, and of a
decided market the claimed amount is the sum of the payments. In a resolved market let *T* be the
collected wei, *W* the stakes on the winning side, *w* those claimed and *c* the wei paid. All claims
but the last pay the share rounded down, so *W c <= T w* whatever their order: the shares left are
covered, and the last claim, which is paid what remains, gets no less than its share. For the upper
bound of `FairShare`: each of the other winners has left less than one wei of its exact share, and
those remainders are all that the last one receives beyond its own.

`NeverFrozen` states the checks of `claim` one by one (`ClaimSucceeds`) rather than with `ENABLED`,
about which the provers know nothing.

### From the contract to the API

The invariant (`Inductive`) has three parts.

`ChainInv`: the chain is a history in which each body continues the one before (`WellFormed`), and the
pending body continues the last. *Continues* is the contract seen through its logs alone: a market is
in the storage after a block and not before it exactly when the block has its creation; a pool, or an
account's stake on a side, is what the last log about it in the block says, or unchanged when there is
none; a stake is taken in a market created earlier, in the block or before; each log's transaction
uses a nonce between those of the two bodies. One call more keeps this (`CreateFollows`, `TakeFollows`),
a mined block starts again with no logs (`NothingYet`), and a reorganization goes back to a part of the
history, whose last body commits to the storage that is restored. `MarketSlot` says that a market of
this module stays open: the calls that decide it are not among its transactions.

`IndexInv`: the checkpoint is itself such a history, perhaps of another branch; the stored blocks are
its parts, the archive its rows, and the tables say what the archive says (`Says`, of `StoreTheorems`).
A commit appends the rows of one block, which come after all archived ones, and a rollback leaves the
rows up to a height and replays them: both are the general facts about the store's fold, instantiated.

By induction over the heights of a history (`NumberInduction`, with the set of good heights as a
parameter) its archive *tells* its last body (`Told`, `HistoryTold`): which markets there are and their
terms, and every pool and stake, as the last archived log about it. With `Says` this is
`ServedIsOnChain`. `StoreAccepts` needs that the next block clashes with nothing archived: a log
archived has a nonce below those of the block (`NoncesTold`), a market archived an id below
`nextMarketId`, and a stake of the block has its market in the tables or earlier in the block.
`LogsAreAsAssumed` is the same comparison between any two blocks of one history. `MovesAsAbstract`
follows step by step: the block committed is the child of the checkpoint on the chain, the ancestor
rolled back to is a part of the checkpoint's own history.

`WalkInv`: of a market that a client has yet to meet, at least as many markets are above it in the list
as the client's offset. The list exists in that order and has exactly *i - 1* markets above its row *i*
(`OrderExists`, `ListOrder`), so a page that ends at an offset has shown every market with fewer above
it, and an empty page is beyond them all. Markets created meanwhile only add to what is above.

### The form

`FormInv` says that every stake anything holds (chain, index, page, an answer under way) has a number
below the next, and that while a transaction is active the page is still the one its baseline was taken
from, does not show it, and every stake with its number is what was submitted. For `IndexedIsShown`:
an amount that grew is not the amount of stakes the page had (`StakeMonotone`), so a new one is in the
answer, and the proviso leaves only the transaction. For `ShownIsIndexed`: an answer that extends the
page and has the transaction besides is larger by its amount (`AnswersGrow`), in both reads.

### Only model-checked

Liveness under fairness, which is out of the prover's reach: `Converges`, `ShutdownEnds`,
`RerunRestores`, `PollEnds`. Every other property of a passing run is stated by a theorem above; the
four runs that expect a violation check statements that do not hold.

`Indexer` and `Pipeline` meet in `CanonicalIndex`, which the index of each implements (`Implements`,
`ImplementsExactly`, `IndexImplements`), and in `AssumptionsMet`. They are not composed in one
theorem, because a block of one is a hash with an ancestry and of the other a history.

## 5. What the runs found

1. **A reorganization between the log queries and the block reads of a batch loses logs**
   (`IndexerRace`, `indexer.rs:481`). Logs are fetched first; the block read later is checked against
   the logs that were found, and a block in which none was found passes. Its logs are not asked for
   again. With enough confirmations it cannot happen
   (`IndexerPair`, theorem `Completeness`).
2. **A reorganization to a branch that is still shorter than the checkpoint ends the watching
   process** (`IndexerShrink`, `indexer.rs:435`), where ADR 0004 promises recovery without restart.
   The process must be started again; `CheckpointAboveChainHead` returns until the branch has grown.
3. **A full reindex with another commit in flight leaves a coverage marker over an index with a
   hole** (`IndexerReindex`, `db.rs:190`): the checkpoint guard refuses only smaller checkpoints.
4. **An older transaction can make a newer one look indexed** (`FormStale`, `App.tsx:121`). The
   baseline is what the page loaded earlier. After a transaction that ended as `indexing_delayed`, or
   that was sent before a reload, or from another tab, a second one of the same account and outcome
   has a baseline without the first, and the first one's appearance satisfies it.

Four statements of the documents or comments are looser than the code and have no run.
`README.md:370` calls the projections disposable and rebuildable, but a full reindex, or a rollback
below a market's creation, also deletes its text, which no replay restores (`TextOutlivesReorgs` says
exactly when, `RerunRestores` what it takes). `docs/architecture.md:120` says a later watch iteration
starts a fresh bounded attempt after the recovery limit; the limit error ends the watch loop, as
`README.md` says. `docs/settlement-model.md` speaks of sub-wei rounding; the last winner may receive
up to one wei for each other winner (`FairShare`). `docs/architecture.md:98` says that Ctrl+C exits
after the current run or polling wait; before the first sleep the handler is not installed yet and
Ctrl+C kills the process in the middle of a run, which the index survives (`IsSoundIndex`).

## 6. Hazards

`PROJECT.json` lists under `hazards` what is hard to test in this code, each at its line, with the
properties that would catch it. Three have no property: two belong to the wallet, which is not
modelled, and one (an RPC failure after the transaction was sent) contradicts no promise.

## 7. Order of construction, and what is left

Modelled in this order: chain, store and indexer; contract; metadata; position form; the indexer
command and its configuration; the read API and the pipeline from contract to API. Proved in
this order: the archive, the branch and the refinement; finality and completeness; the command and the
contract's types; the contract's accounts; the tables and the refusals; exactness and recovery; the
texts; the summaries; the form; the pipeline.

Left: the wallet hook, under events that overtake reads, and the form over it (the network of a
transaction, a wallet that is not ready). A theorem worth adding: one refinement from `Indexer` to the
two index steps of `Pipeline`, over blocks that are both hash and history.

## 8. Not modelled

The wallet connection of the frontend (`useWallet.ts`, `wallet.ts`, `web3/config.ts`): `PositionForm`
assumes nothing of it, the account shown and the account that signs may be any two of the wallet's and
a submission may be refused or fail at any point, but there is one chain only, so nothing is said of a
transaction sent on another network. The list of markets that the page loads, and its selection of the
first one. Presentation, tests, scripts, CI.

Within modelled components: malformed RPC answers and undecodable logs, conversions between
`u64`/`uint256` and the database's types, overflow of the last block number, the passing of real time,
logging; in the API `/health`, CORS headers and the texts of numbers; in the contract metadata
digests, overflow of `uint256` (the sums are bounded by existing ether) and ether forced in.
