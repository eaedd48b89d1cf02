------------------------- MODULE IndexerProperties -------------------------
(***************************************************************************)
(* What the indexer promises.  Each property says under which environment  *)
(* it is claimed; the runs of MCIndexer give the environments.             *)
(***************************************************************************)
EXTENDS Indexer

----------------------------------------------------------------------------
\* Invariants

\* A log under the block that emitted it.
Row == UNION {EventRows(b, LogsOf(b)) : b \in Block}

Call == RpcCalls \cup StoreCalls \cup {"down", "waiting", "failed"}

RunState ==
  [attempt : {1, 2}, latest : Nat, cp : Block \cup {NoBlock}, next : Nat,
   end : Nat, parent : Block \cup {NoBlock}, logs : SUBSET Row,
   block : Block \cup {NoBlock}]

\* Every variable has its type.  Heights stay natural numbers: the code's u64
\* subtractions never wrap.
TypeOK ==
  /\ head \in Block
  /\ blocks \subseteq Block
  /\ events \subseteq Row
  /\ checkpoint \in Block \cup {NoBlock}
  /\ coverage \in {NoCoverage, DeploymentBlock}
  /\ pc \in [Indexers -> Call]
  /\ run \in [Indexers -> RunState]

\* One indexer, any reorganization, crash or RPC failure: the stored blocks
\* are exactly one branch, from deployment to the checkpoint, with no gap and
\* no block of another branch.
IndexIsBranch ==
  blocks = IF checkpoint = NoBlock THEN {} ELSE Branch(checkpoint)

\* Any number of indexers: the archive never holds the log of a block that is
\* not stored, nor a log under a block that did not emit it.
ArchiveSound == \A e \in events : e.block \in blocks /\ e.log \in LogsOf(e.block)

Positions == {e \in events : e.log.kind = "position"}

StakeAfter(m, u, o) ==
  LET S == {e \in Positions : /\ e.log.market = m /\ e.log.user = u
                              /\ e.log.outcome = o}
  IN  IF S = {} THEN 0 ELSE LatestOf(S).log.stake

\* Any number of indexers: the market, pool and stake tables say what the
\* archived events say, each table computed here from the archive alone; the
\* incremental upserts and the rebuild of a rollback agree with it.
ProjectionIsReplay ==
  /\ markets = {MarketRow(e) : e \in events \ Positions}
  /\ states =
       {LET e == LatestOf({f \in Positions : f.log.market = m})
        IN  [market |-> m, yes |-> e.log.yesPool, no |-> e.log.noPool,
             at |-> Number(e.block)] :
        m \in {f.log.market : f \in Positions}}
  /\ positions =
       {LET e == LatestOf({f \in Positions : <<f.log.market, f.log.user>> = k})
        IN  [market |-> k[1], user |-> k[2],
             yes |-> StakeAfter(k[1], k[2], "yes"),
             no |-> StakeAfter(k[1], k[2], "no"), at |-> Number(e.block)] :
        k \in {<<f.log.market, f.log.user>> : f \in Positions}}

\* Every log of every stored block is archived, once the coverage marker says
\* so.  Claimed when no reorganization falls between the reads of a run, or
\* when the confirmation depth makes indexed blocks final.
ArchiveComplete ==
  coverage = DeploymentBlock =>
    \A b \in blocks : \A l \in LogsOf(b) : [block |-> b, log |-> l] \in events

\* The coverage marker is never over an index with a hole: what is between
\* deployment and the checkpoint is stored.
CoverageProven ==
  coverage = DeploymentBlock /\ checkpoint # NoBlock => Branch(checkpoint) \subseteq blocks

StoreConflicts ==
  {"CanonicalBlockConflict", "EventIdentityConflict", "MarketIdentityConflict",
   "CheckpointRegression", "RollbackAncestorMissing",
   "RollbackAncestorHashMismatch", "StoredBlockMissingDuringAncestorSearch",
   "CheckpointBeforeDeployment"}

\* One indexer, any reorganization: the defensive errors of the store never
\* occur.  In particular a transaction that is mined again on another branch,
\* at another height, never collides with its orphaned self.
NoStoreConflict == \A p \in Indexers : result[p] \notin StoreConflicts

\* When reorganizations spare the reads of a run, keep the deployment block
\* and do not shorten the chain, a process that is past its preflight call
\* never ends with an error of its own: reorganizations are recovered from, RPC
\* failures retried; only an endpoint of another chain stops it.
NeverStops ==
  \A p \in Indexers : pc[p] = "failed" => result[p] \in {"Rpc", "ChainIdMismatch"}

\* When confirmed blocks are final the index never leaves the chain.
IndexIsCanonical == \A b \in blocks : HasCanonical(Number(b)) /\ Canonical(Number(b)) = b

\* Two indexers on one database: the slower one may be refused
\* (CheckpointRegression), never both.
OneSurvives == \E p \in Indexers : result[p] # "CheckpointRegression"

----------------------------------------------------------------------------
\* Action properties

\* A rollback removes no block of the canonical chain: the ancestor found is
\* the highest one (reorganizations spare the reads of a run).
RollbackIsMinimal ==
  [][(\A p \in Indexers : ~ StartupReindex(p)) =>
       \A b \in blocks \ blocks' : ~ (HasCanonical(Number(b)) /\ Canonical(Number(b)) = b)]_vars

\* A run that ends well leaves the checkpoint on the canonical chain and not
\* below the safe head it computed.
OkMeansSynced ==
  [][\A p \in Indexers :
       result[p] = "none" /\ result'[p] = "ok" =>
         /\ checkpoint' # NoBlock => /\ HasCanonical(Number(checkpoint'))
                                     /\ Canonical(Number(checkpoint')) = checkpoint'
         /\ SafeHead(run[p]) >= DeploymentBlock =>
              checkpoint' # NoBlock /\ Number(checkpoint') >= SafeHead(run[p])]_vars

----------------------------------------------------------------------------
\* The index for a reader

Abstract == INSTANCE CanonicalIndex WITH tip <- checkpoint, archive <- events

\* One indexer, any reorganization: its steps are those of an archive of one
\* branch that grows block by block and is cut back to an ancestor.
IsSoundIndex == Abstract!SoundSpec

\* The same with every log of every block, when reorganizations spare the
\* reads of a run.
IsExactIndex == Abstract!ExactSpec

----------------------------------------------------------------------------
\* The index has reached the safe head of the canonical chain.
Synced ==
  Number(head) - Confirmations >= DeploymentBlock =>
    /\ checkpoint # NoBlock
    /\ Number(checkpoint) >= Number(head) - Confirmations
    /\ checkpoint = Canonical(Number(checkpoint))
=============================================================================
