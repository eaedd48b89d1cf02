------------------------------ MODULE Indexer ------------------------------
(***************************************************************************)
(* The indexer processes (bin/indexer.rs, indexer.rs) over the store of    *)
(* IndexStore and the chain of Chain.  A process is an invocation of the   *)
(* command; pc[p] names the call it awaits next, so that every RPC and     *)
(* every database transaction is a step of its own and the chain, the      *)
(* other processes and crashes interleave between them.                    *)
(***************************************************************************)
EXTENDS IndexStore

CONSTANTS
  Indexers,           \* the processes sharing the database
  Reindexers,         \* those that may be started with --full-reindex
  Confirmations,      \* INDEXER_CONFIRMATIONS
  BatchSize,          \* INDEXER_BATCH_SIZE
  ReorgMidRun,        \* may a reorganization fall between the reads of a run
  ChainId,            \* EVM_CHAIN_ID
  EndpointChainIds    \* the chain ids the RPC endpoint may report

ASSUME IndexerAssumption ==
  /\ Reindexers \subseteq Indexers
  /\ Confirmations \in Nat
  /\ BatchSize \in Nat \ {0}
  /\ ReorgMidRun \in BOOLEAN

VARIABLES
  pc,       \* the next awaited call of each process
  run,      \* the local variables of its run_once
  result    \* how its last run ended: "none" while running, "ok" or an error

processVars == <<pc, run, result>>
vars == <<head, storeVars, processVars>>

RpcCalls == {"preflight", "chain_id", "latest", "verify", "created_logs",
             "position_logs", "block", "canonical_hash"}
StoreCalls == {"startup", "checkpoint", "commit", "recover", "stored_hash",
               "rollback"}
Running == (RpcCalls \cup StoreCalls) \ {"preflight", "startup"}

\* Local variables at the start of run_once.
NewRun ==
  [attempt |-> 1,           \* catch-up attempt, the second follows a recovery
   latest  |-> 0,           \* latest_block of this attempt
   cp      |-> NoBlock,     \* the checkpoint read
   next    |-> 0,           \* next_block; the height of the ancestor search
   end     |-> 0,           \* batch_end
   parent  |-> NoBlock,     \* expected_parent
   logs    |-> {},          \* logs_by_block of the batch
   block   |-> NoBlock]     \* the block last fetched

Init ==
  /\ head \in Block
  /\ \/ EmptyStore
     \/ \E b \in LegacyHeads :
          /\ IsAncestor(b, head) /\ Number(b) <= Number(head) - Confirmations
          /\ LegacyStore(b)
  /\ pc = [p \in Indexers |-> "down"]
  /\ run = [p \in Indexers |-> NewRun]
  /\ result = [p \in Indexers |-> "none"]

----------------------------------------------------------------------------
\* Control

Goto(p, call, locals) ==
  /\ pc' = [pc EXCEPT ![p] = call]
  /\ run' = [run EXCEPT ![p] = locals]
  /\ UNCHANGED result

\* A run ends and the watch loop sleeps: after "ok" for the poll interval,
\* after "Rpc" for the retry delay.
EndRun(p, how) ==
  /\ pc' = [pc EXCEPT ![p] = "waiting"]
  /\ run' = [run EXCEPT ![p] = NewRun]
  /\ result' = [result EXCEPT ![p] = how]

\* Any other error ends the process.
Fail(p, error) ==
  /\ pc' = [pc EXCEPT ![p] = "failed"]
  /\ run' = [run EXCEPT ![p] = NewRun]
  /\ result' = [result EXCEPT ![p] = error]

\* Mutant: a mismatch is reported, not recovered from.
ReorganizedFatal(p) == Fail(p, "ReorgDetected")

\* A recoverable error: the first starts the recovery, the second ends the run.
Reorganized(p) ==
  \/ run[p].attempt = 1 /\ Goto(p, "recover", [NewRun EXCEPT !.attempt = 2])
  \/ run[p].attempt = 2 /\ Fail(p, "RecoveryLimitExceeded")

\* Mutant: the confirmation depth is ignored.
UnconfirmedHead(r) == r.latest

\* safe_head; below 0 there is none (checked_sub).
SafeHead(r) == r.latest - Confirmations

Least(m, n) == IF m <= n THEN m ELSE n

\* Mutant: < for <= in the while condition.
NextBatchExclusive(p, r) ==
  \/ /\ r.next < SafeHead(r)
     /\ Goto(p, "created_logs",
             [r EXCEPT !.end = Least(r.next + BatchSize - 1, SafeHead(r)),
                       !.logs = {}, !.block = NoBlock])
  \/ r.next >= SafeHead(r) /\ EndRun(p, "ok")

\* The head of the while loop: fetch the next batch or finish the run.
NextBatch(p, r) ==
  \/ /\ SafeHead(r) >= 0 /\ r.next <= SafeHead(r)
     /\ Goto(p, "created_logs",
             [r EXCEPT !.end = Least(r.next + BatchSize - 1, SafeHead(r)),
                       !.logs = {}, !.block = NoBlock])
  \/ /\ SafeHead(r) < 0 \/ r.next > SafeHead(r)
     /\ EndRun(p, "ok")

----------------------------------------------------------------------------
\* Startup: main and run_after_chain_preflight

Launch(p) ==
  /\ pc[p] \in {"down", "failed"}
  /\ pc' = [pc EXCEPT ![p] = "preflight"]
  /\ result' = [result EXCEPT ![p] = "none"]
  /\ UNCHANGED <<head, storeVars, run>>

Preflight(p) ==
  /\ pc[p] = "preflight"
  /\ \E id \in EndpointChainIds :
       \/ id = ChainId /\ Goto(p, "startup", NewRun)
       \/ id # ChainId /\ Fail(p, "ChainIdMismatch")
  /\ UNCHANGED <<head, storeVars>>

StartupReindex(p) ==
  /\ pc[p] = "startup"
  /\ p \in Reindexers
  /\ FullReindex
  /\ Goto(p, "chain_id", NewRun)
  /\ UNCHANGED head

StartupCoverage(p) ==
  /\ pc[p] = "startup"
  /\ \/ EnsurePositionCoverage /\ Goto(p, "chain_id", NewRun)
     \/ /\ CoverageRefused
        /\ Fail(p, "PositionFullReindexRequired")
        /\ UNCHANGED storeVars
  /\ UNCHANGED head

\* Mutant: the loop starts over from the startup of the command.
PollFromStartup(p) ==
  /\ pc[p] = "waiting"
  /\ pc' = [pc EXCEPT ![p] = "startup"]
  /\ result' = [result EXCEPT ![p] = "none"]
  /\ UNCHANGED <<head, storeVars, run>>

\* The sleep of the watch loop is over.
Poll(p) ==
  /\ pc[p] = "waiting"
  /\ pc' = [pc EXCEPT ![p] = "chain_id"]
  /\ result' = [result EXCEPT ![p] = "none"]
  /\ UNCHANGED <<head, storeVars, run>>

----------------------------------------------------------------------------
\* run_once and run_catch_up_attempt

CheckChainId(p) ==
  /\ pc[p] = "chain_id"
  /\ \E id \in EndpointChainIds :
       \/ id = ChainId /\ Goto(p, "latest", NewRun)
       \/ id # ChainId /\ Fail(p, "ChainIdMismatch")
  /\ UNCHANGED <<head, storeVars>>

\* Mutant: the depth is subtracted unchecked from the height read.
ReadLatestUnchecked(p) ==
  /\ pc[p] = "latest"
  /\ Goto(p, "checkpoint", [run[p] EXCEPT !.latest = Number(head) - Confirmations])
  /\ UNCHANGED <<head, storeVars>>

ReadLatest(p) ==
  /\ pc[p] = "latest"
  /\ Goto(p, "checkpoint", [run[p] EXCEPT !.latest = Number(head)])
  /\ UNCHANGED <<head, storeVars>>

\* validate_checkpoint_window and the height test of verify_checkpoint.
CheckpointErrors(latest) ==
  {x \in {"CheckpointBeforeDeployment"} : Number(checkpoint) < DeploymentBlock}
  \cup
  {x \in {"CheckpointAboveChainHead"} :
     Number(checkpoint) >= DeploymentBlock /\ Number(checkpoint) > latest}

\* Mutant: every run scans from deployment.
ReadCheckpointIgnored(p) ==
  /\ pc[p] = "checkpoint"
  /\ NextBatch(p, [run[p] EXCEPT !.next = DeploymentBlock])
  /\ UNCHANGED <<head, storeVars>>

ReadCheckpoint(p) ==
  /\ pc[p] = "checkpoint"
  /\ \/ /\ checkpoint = NoBlock
        /\ NextBatch(p, [run[p] EXCEPT !.next = DeploymentBlock])
     \/ /\ checkpoint # NoBlock
        /\ CheckpointErrors(run[p].latest) = {}
        /\ Goto(p, "verify", [run[p] EXCEPT !.cp = checkpoint])
     \/ /\ checkpoint # NoBlock
        /\ \E e \in CheckpointErrors(run[p].latest) : Fail(p, e)
  /\ UNCHANGED <<head, storeVars>>

VerifyCheckpoint(p) ==
  LET r == run[p]
      n == Number(r.cp)
  IN  /\ pc[p] = "verify"
      /\ \/ HasCanonical(n) /\ Canonical(n) = r.cp
            /\ NextBatch(p, [r EXCEPT !.next = n + 1, !.parent = r.cp,
                                      !.cp = NoBlock])
         \/ HasCanonical(n) /\ Canonical(n) # r.cp /\ Reorganized(p)
         \/ ~ HasCanonical(n) /\ Fail(p, "CheckpointBlockMissing")
      /\ UNCHANGED <<head, storeVars>>

----------------------------------------------------------------------------
\* process_batch

FetchCreatedLogs(p) ==
  LET r == run[p]
  IN  /\ pc[p] = "created_logs"
      /\ Goto(p, "position_logs",
              [r EXCEPT !.logs = CanonicalLogs(r.next, r.end, "created")])
      /\ UNCHANGED <<head, storeVars>>

FetchPositionLogs(p) ==
  LET r == run[p]
  IN  /\ pc[p] = "position_logs"
      /\ Goto(p, "block",
              [r EXCEPT !.logs = @ \cup CanonicalLogs(r.next, r.end, "position")])
      /\ UNCHANGED <<head, storeVars>>

\* The fetched logs that claim to be in the block numbered n.
BatchLogs(r, n) == {e \in r.logs : Number(e.block) = n}

\* Mutants: the parent, or the block hash of a log, is not compared.
FollowsParentUnchecked(r, b) == TRUE
LogsMatchUnchecked(r, b) == TRUE

\* ensure_parent and the hash test of decode_block_logs.
FollowsParent(r, b) == r.parent # NoBlock => IsParent(r.parent, b)
LogsMatch(r, b) == \A e \in BatchLogs(r, Number(b)) : e.block = b

FetchBlock(p) ==
  LET r == run[p]
      b == Canonical(r.next)
  IN  /\ pc[p] = "block"
      /\ \/ ~ HasCanonical(r.next) /\ EndRun(p, "Rpc")
         \/ /\ HasCanonical(r.next)
            /\ ~ FollowsParent(r, b) \/ ~ LogsMatch(r, b)
            /\ Reorganized(p)
         \/ /\ HasCanonical(r.next)
            /\ FollowsParent(r, b) /\ LogsMatch(r, b)
            /\ Goto(p, "commit", [r EXCEPT !.block = b])
      /\ UNCHANGED <<head, storeVars>>

Records(r) == {e.log : e \in BatchLogs(r, r.next)}

AfterCommit(p) ==
  LET r == [run[p] EXCEPT !.next = @ + 1, !.parent = run[p].block,
                          !.block = NoBlock,
                          !.logs = @ \ BatchLogs(run[p], run[p].next)]
  IN  \/ r.next <= r.end /\ Goto(p, "block", r)
      \/ r.next > r.end /\ NextBatch(p, r)

Commit(p) ==
  LET r == run[p]
  IN  /\ pc[p] = "commit"
      /\ \/ CommitBlock(r.block, Records(r)) /\ AfterCommit(p)
         \/ /\ \E e \in CommitErrors(r.block, Records(r)) : Fail(p, e)
            /\ UNCHANGED storeVars
      /\ UNCHANGED head

----------------------------------------------------------------------------
\* recover_from_reorg and find_common_ancestor

\* Mutant: the search starts at the deployment block and goes up.
StartRecoveryAtDeployment(p) ==
  /\ pc[p] = "recover"
  /\ checkpoint # NoBlock
  /\ Goto(p, "stored_hash", [run[p] EXCEPT !.next = DeploymentBlock])
  /\ UNCHANGED <<head, storeVars>>

StartRecovery(p) ==
  /\ pc[p] = "recover"
  /\ \/ /\ checkpoint = NoBlock
        /\ Fail(p, "RecoveryCheckpointMissing")
     \/ /\ checkpoint # NoBlock /\ Number(checkpoint) < DeploymentBlock
        /\ Fail(p, "CheckpointBeforeDeployment")
     \/ /\ checkpoint # NoBlock /\ Number(checkpoint) >= DeploymentBlock
        /\ Goto(p, "stored_hash", [run[p] EXCEPT !.next = Number(checkpoint)])
  /\ UNCHANGED <<head, storeVars>>

ReadStoredHash(p) ==
  /\ pc[p] = "stored_hash"
  /\ \/ \E b \in StoredAt(run[p].next) :
          Goto(p, "canonical_hash", [run[p] EXCEPT !.block = b])
     \/ /\ StoredAt(run[p].next) = {}
        /\ Fail(p, "StoredBlockMissingDuringAncestorSearch")
  /\ UNCHANGED <<head, storeVars>>

CompareCanonicalHash(p) ==
  LET r == run[p]
      diverged == HasCanonical(r.next) /\ Canonical(r.next) # r.block
  IN  /\ pc[p] = "canonical_hash"
      /\ \/ HasCanonical(r.next) /\ ~ diverged /\ Goto(p, "rollback", r)
         \/ /\ diverged /\ r.next > DeploymentBlock
            /\ Goto(p, "stored_hash", [r EXCEPT !.next = @ - 1, !.block = NoBlock])
         \/ /\ diverged /\ r.next = DeploymentBlock
            /\ Fail(p, "NoCommonAncestor")
         \/ /\ ~ HasCanonical(r.next)
            /\ Fail(p, "RpcBlockMissingDuringAncestorSearch")
      /\ UNCHANGED <<head, storeVars>>

\* The rollback transaction, after which the second attempt begins.
Rollback(p) ==
  LET a == run[p].block
  IN  /\ pc[p] = "rollback"
      /\ \/ RollbackToAncestor(a) /\ Goto(p, "latest", [NewRun EXCEPT !.attempt = 2])
         \/ /\ \E e \in RollbackErrors(a) : Fail(p, e)
            /\ UNCHANGED storeVars
      /\ UNCHANGED head

----------------------------------------------------------------------------
\* Faults

\* A transport error: fatal before the watch loop, retried inside it.
RpcFails(p) ==
  /\ pc[p] \in RpcCalls
  /\ \/ pc[p] = "preflight" /\ Fail(p, "Rpc")
     \/ pc[p] # "preflight" /\ EndRun(p, "Rpc")
  /\ UNCHANGED <<head, storeVars>>

\* The process dies (or is stopped, or loses its database) between two steps;
\* the transactions it has committed stay.
Crash(p) ==
  /\ pc[p] \notin {"down", "failed"}
  /\ pc' = [pc EXCEPT ![p] = "down"]
  /\ run' = [run EXCEPT ![p] = NewRun]
  /\ result' = [result EXCEPT ![p] = "none"]
  /\ UNCHANGED <<head, storeVars>>

----------------------------------------------------------------------------
CatchUp(p) ==
  \/ CheckChainId(p) \/ ReadLatest(p) \/ ReadCheckpoint(p)
  \/ VerifyCheckpoint(p)
  \/ FetchCreatedLogs(p) \/ FetchPositionLogs(p) \/ FetchBlock(p) \/ Commit(p)

Recovery(p) ==
  \/ StartRecovery(p) \/ ReadStoredHash(p) \/ CompareCanonicalHash(p)
  \/ Rollback(p)

Startup(p) ==
  \/ Launch(p) \/ Preflight(p) \/ StartupReindex(p) \/ StartupCoverage(p)

Step(p) == Startup(p) \/ Poll(p) \/ CatchUp(p) \/ Recovery(p)

Fault(p) == RpcFails(p) \/ Crash(p)

Mine == Extend /\ UNCHANGED <<storeVars, processVars>>

Reorg ==
  /\ ReorgMidRun \/ \A p \in Indexers : pc[p] \notin Running
  /\ Reorganize \/ FallBehind
  /\ UNCHANGED <<storeVars, processVars>>

Next ==
  \/ \E p \in Indexers : Step(p) \/ Fault(p)
  \/ Mine \/ Reorg

Spec == Init /\ [][Next]_vars
=============================================================================
