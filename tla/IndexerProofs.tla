--------------------------- MODULE IndexerProofs ----------------------------
(***************************************************************************)
(* Theorems about the indexer, for every chain, every number of processes  *)
(* and every value of the other constants; then about one indexer on its   *)
(* database: whatever the chain, the endpoint and the crashes do, the      *)
(* index is one branch of the chain and changes only as CanonicalIndex     *)
(* says.  Then about confirmed blocks: when no reorganization is deeper    *)
(* than the confirmations, any number of indexers sharing the database     *)
(* keep it on the chain and, once it is covered, complete.  Last, what the *)
(* store holds: the tables are the replay of the archive, however many     *)
(* indexers write them; of several indexers one is never refused; one      *)
(* alone meets no defensive error of the store.                            *)
(***************************************************************************)
EXTENDS IndexerProperties, StoreTheorems


----------------------------------------------------------------------------
\* Any number of indexers: the archive is sound.

\* What a call relies on: a checkpoint to verify has been read; the block to
\* commit has the height of the cursor, and the logs selected for it name it.
Ready(call, r) ==
  /\ call = "verify" => r.cp \in Block
  /\ call = "commit" => /\ r.block \in Block
                        /\ Number(r.block) = r.next
                        /\ LogsMatch(r, r.block)

AllReady == \A p \in Indexers : Ready(pc[p], run[p])

\* The step leaves process p at a call, with local variables, that satisfy
\* the invariant.
Moves(p) ==
  \E call \in Call, r \in RunState :
    /\ pc' = [pc EXCEPT ![p] = call]
    /\ run' = [run EXCEPT ![p] = r]
    /\ Ready(call, r)

ArchiveInv == TypeOK /\ AllReady /\ ArchiveSound

\* A row of the archive is a block and one of its logs.
LEMMA RowFields ==
  ASSUME NEW e
  PROVE  e \in Row <=> /\ e = [block |-> e.block, log |-> e.log]
                       /\ e.block \in Block
                       /\ e.log \in LogsOf(e.block)
  BY DEF Row, EventRows

\* A canonical block is a block with the number asked for.
LEMMA CanonicalBlock ==
  ASSUME head \in Block, NEW n \in Nat, HasCanonical(n)
  PROVE  Canonical(n) \in Block /\ Number(Canonical(n)) = n
  BY AncestryAssumption DEF HasCanonical, Canonical

\* eth_getLogs returns rows.
LEMMA CanonicalLogsAreRows ==
  ASSUME head \in Block, NEW from \in Nat, NEW to \in Nat, NEW kind
  PROVE  CanonicalLogs(from, to, kind) \subseteq Row
<1> SUFFICES ASSUME NEW e \in CanonicalLogs(from, to, kind)
             PROVE  e \in Row
  OBVIOUS
<1>1. PICK n \in {m \in from .. to : HasCanonical(m)} :
        e \in {[block |-> Canonical(n), log |-> l] :
                 l \in {k \in LogsOf(Canonical(n)) : k.kind = kind}}
  BY DEF CanonicalLogs
<1>2. Canonical(n) \in Block
  BY <1>1, CanonicalBlock
<1> QED
  BY <1>1, <1>2 DEF Row, EventRows

\* The local variables of a fresh run.
LEMMA NewRunType == NewRun \in RunState /\ [NewRun EXCEPT !.attempt = 2] \in RunState
  BY DEF NewRun, RunState

\* A step of one process keeps the types and what its calls rely on.
LEMMA MovesPreserves ==
  ASSUME TypeOK, AllReady, NEW p \in Indexers, Moves(p)
  PROVE  /\ pc' \in [Indexers -> Call] /\ run' \in [Indexers -> RunState]
         /\ AllReady'
<1>1. PICK call \in Call, r \in RunState :
        /\ pc' = [pc EXCEPT ![p] = call]
        /\ run' = [run EXCEPT ![p] = r]
        /\ Ready(call, r)
  BY DEF Moves
<1>2. pc' \in [Indexers -> Call] /\ run' \in [Indexers -> RunState]
  BY <1>1 DEF TypeOK
<1>3. ASSUME NEW q \in Indexers
      PROVE  Ready(pc'[q], run'[q])
  <2>1. CASE q = p
    BY <1>1, <2>1 DEF TypeOK
  <2>2. CASE q # p
    BY <1>1, <2>2 DEF TypeOK, AllReady
  <2> QED
    BY <2>1, <2>2
<1> QED
  BY <1>2, <1>3 DEF AllReady, Ready, LogsMatch, BatchLogs

\* Ends and jumps.
LEMMA EndMoves ==
  ASSUME NEW p \in Indexers, NEW how,
         EndRun(p, how) \/ Fail(p, how)
  PROVE  Moves(p)
  BY NewRunType DEF EndRun, Fail, Moves, Call, Ready

\* A run that goes on to a call that is ready moves.
LEMMA GotoMoves ==
  ASSUME NEW p \in Indexers, NEW call \in Call, NEW r \in RunState,
         Goto(p, call, r), Ready(call, r)
  PROVE  Moves(p)
  BY DEF Goto, Moves

\* So does one that starts its recovery or gives up.
LEMMA ReorganizedMoves ==
  ASSUME NEW p \in Indexers, Reorganized(p)
  PROVE  Moves(p)
<1>1. CASE Goto(p, "recover", [NewRun EXCEPT !.attempt = 2])
  BY <1>1, NewRunType, GotoMoves DEF Ready, Ready, Call, StoreCalls
<1>2. CASE Fail(p, "RecoveryLimitExceeded")
  BY <1>2, EndMoves
<1> QED
  BY <1>1, <1>2 DEF Reorganized

\* So does one that asks for its next batch or has none.
LEMMA NextBatchMoves ==
  ASSUME NEW p \in Indexers, NEW r \in RunState, NextBatch(p, r)
  PROVE  Moves(p)
<1> DEFINE b == [r EXCEPT !.end = Least(r.next + BatchSize - 1, SafeHead(r)),
                          !.logs = {}, !.block = NoBlock]
<1>1. CASE SafeHead(r) >= 0 /\ r.next <= SafeHead(r) /\ Goto(p, "created_logs", b)
  <2>1. r.next \in Nat /\ SafeHead(r) \in Int
    BY IndexerAssumption DEF RunState, SafeHead
  <2>2. Least(r.next + BatchSize - 1, SafeHead(r)) \in Nat
    BY <1>1, <2>1, IndexerAssumption DEF Least
  <2>3. b \in RunState
    BY <2>2 DEF RunState
  <2> QED
    BY <1>1, <2>3, GotoMoves DEF Ready, Call, RpcCalls
<1>2. CASE EndRun(p, "ok")
  BY <1>2, EndMoves
<1> QED
  BY <1>1, <1>2 DEF NextBatch

\* The steps of a run that leave the store alone.
LEMMA StartupMoves ==
  ASSUME TypeOK, NEW p \in Indexers,
         Launch(p) \/ Preflight(p) \/ Poll(p) \/ CheckChainId(p)
  PROVE  Moves(p)
<1>1. ASSUME NEW call \in Call \ {"commit", "verify"}, pc' = [pc EXCEPT ![p] = call],
             UNCHANGED run
      PROVE  Moves(p)
  <2>1. run[p] \in RunState /\ run' = [run EXCEPT ![p] = run[p]]
    BY <1>1 DEF TypeOK
  <2> QED
    BY <1>1, <2>1 DEF Moves, Ready
<1>2. CASE Launch(p)
  BY <1>1, <1>2 DEF Launch, Call, RpcCalls
<1>3. CASE Poll(p)
  BY <1>1, <1>3 DEF Poll, Call, RpcCalls
<1>4. CASE Preflight(p)
  BY <1>4, EndMoves, GotoMoves, NewRunType DEF Ready, Preflight, Call, StoreCalls
<1>5. CASE CheckChainId(p)
  BY <1>5, EndMoves, GotoMoves, NewRunType DEF Ready, CheckChainId, Call, RpcCalls
<1> QED
  BY <1>2, <1>3, <1>4, <1>5

\* The cursor of a run is moved.
LEMMA CursorType ==
  ASSUME NEW r \in RunState, NEW n \in Nat, NEW b \in Block \cup {NoBlock},
         NEW logs \in SUBSET Row
  PROVE  /\ [r EXCEPT !.next = n, !.parent = b, !.cp = NoBlock] \in RunState
         /\ [r EXCEPT !.next = n, !.parent = b, !.block = NoBlock, !.logs = logs]
              \in RunState
         /\ [r EXCEPT !.next = n, !.block = NoBlock] \in RunState
  BY DEF RunState

\* The height of the head is a number.
LEMMA ReadLatestMoves ==
  ASSUME TypeOK, NEW p \in Indexers, ReadLatest(p)
  PROVE  Moves(p)
<1>1. Number(head) \in Nat /\ run[p] \in RunState
  BY AncestryAssumption DEF TypeOK
<1>2. [run[p] EXCEPT !.latest = Number(head)] \in RunState
  BY <1>1 DEF RunState
<1> QED
  BY <1>2, GotoMoves DEF Ready, ReadLatest, Call, StoreCalls

\* The checkpoint that is read is a block, and the one to verify.
LEMMA ReadCheckpointMoves ==
  ASSUME TypeOK, NEW p \in Indexers, ReadCheckpoint(p)
  PROVE  Moves(p)
<1>1. run[p] \in RunState
  BY DEF TypeOK
<1>2. CASE NextBatch(p, [run[p] EXCEPT !.next = DeploymentBlock])
  <2>1. [run[p] EXCEPT !.next = DeploymentBlock] \in RunState
    BY <1>1, DeploymentAssumption DEF RunState
  <2> QED
    BY <1>2, <2>1, NextBatchMoves
<1>3. CASE checkpoint # NoBlock /\ Goto(p, "verify", [run[p] EXCEPT !.cp = checkpoint])
  <2>1. checkpoint \in Block
    BY <1>3 DEF TypeOK
  <2>2. [run[p] EXCEPT !.cp = checkpoint] \in RunState
    BY <1>1, <2>1 DEF RunState
  <2>3. Ready("verify", [run[p] EXCEPT !.cp = checkpoint])
    BY <1>1, <2>1 DEF Ready, RunState
  <2> QED
    BY <1>3, <2>2, <2>3, GotoMoves DEF Call, RpcCalls
<1>4. CASE \E e : Fail(p, e)
  BY <1>4, EndMoves
<1> QED
  BY <1>2, <1>3, <1>4 DEF ReadCheckpoint

\* The cursor after a checkpoint is one above it.
LEMMA VerifyCheckpointMoves ==
  ASSUME TypeOK, AllReady, NEW p \in Indexers, VerifyCheckpoint(p)
  PROVE  Moves(p)
<1> DEFINE r == run[p]
           n == Number(r.cp)
<1>1. r \in RunState /\ n \in Nat
  BY AncestryAssumption DEF TypeOK, AllReady, Ready, VerifyCheckpoint
<1>2. CASE NextBatch(p, [r EXCEPT !.next = n + 1, !.parent = r.cp, !.cp = NoBlock])
  <2>1. n + 1 \in Nat /\ r.cp \in Block \cup {NoBlock} /\ {} \in SUBSET Row
    BY <1>1 DEF RunState
  <2>2. [r EXCEPT !.next = n + 1, !.parent = r.cp, !.cp = NoBlock] \in RunState
    BY <1>1, <2>1, CursorType
  <2> QED
    BY <1>2, <2>2, NextBatchMoves
<1>3. CASE Reorganized(p)
  BY <1>3, ReorganizedMoves
<1>4. CASE Fail(p, "CheckpointBlockMissing")
  BY <1>4, EndMoves
<1> QED
  BY <1>2, <1>3, <1>4 DEF VerifyCheckpoint

\* The logs fetched are rows of the blocks they name.
LEMMA FetchLogsMoves ==
  ASSUME TypeOK, NEW p \in Indexers, FetchCreatedLogs(p) \/ FetchPositionLogs(p)
  PROVE  Moves(p)
<1> DEFINE r == run[p]
           created == CanonicalLogs(r.next, r.end, "created")
           position == CanonicalLogs(r.next, r.end, "position")
<1>1. r \in RunState /\ r.logs \subseteq Row /\ r.next \in Nat /\ r.end \in Nat
  BY DEF TypeOK, RunState
<1>2. created \subseteq Row /\ position \subseteq Row
  BY <1>1, CanonicalLogsAreRows DEF TypeOK
<1>3. CASE FetchCreatedLogs(p)
  <2>1. [r EXCEPT !.logs = created] \in RunState
    BY <1>1, <1>2 DEF RunState
  <2> QED
    BY <1>3, <2>1, GotoMoves DEF Ready, FetchCreatedLogs, Call, RpcCalls
<1>4. CASE FetchPositionLogs(p)
  <2>1. [r EXCEPT !.logs = @ \cup position] \in RunState
    BY <1>1, <1>2 DEF RunState
  <2> QED
    BY <1>4, <2>1, GotoMoves DEF Ready, FetchPositionLogs, Call, RpcCalls
<1> QED
  BY <1>3, <1>4

\* What FetchBlock hands to the commit is ready.
LEMMA FetchBlockMoves ==
  ASSUME TypeOK, NEW p \in Indexers, FetchBlock(p)
  PROVE  Moves(p)
<1> DEFINE r == run[p]
           b == Canonical(r.next)
<1>1. r \in RunState /\ r.next \in Nat
  BY DEF TypeOK, RunState
<1>2. CASE HasCanonical(r.next) /\ LogsMatch(r, b)
           /\ Goto(p, "commit", [r EXCEPT !.block = b])
  <2>1. b \in Block /\ Number(b) = r.next
    BY <1>1, <1>2, CanonicalBlock DEF TypeOK
  <2>2. [r EXCEPT !.block = b] \in RunState
    BY <1>1, <2>1 DEF RunState
  <2>3. Ready("commit", [r EXCEPT !.block = b])
    BY <1>1, <1>2, <2>1 DEF Ready, LogsMatch, BatchLogs, RunState
  <2> QED
    BY <1>2, <2>2, <2>3, GotoMoves DEF Ready, Call, StoreCalls
<1>3. CASE EndRun(p, "Rpc")
  BY <1>3, EndMoves
<1>4. CASE Reorganized(p)
  BY <1>4, ReorganizedMoves
<1> QED
  BY <1>2, <1>3, <1>4 DEF FetchBlock

\* After a commit the cursor is one higher and its logs are taken off.
LEMMA CommitMoves ==
  ASSUME TypeOK, AllReady, NEW p \in Indexers, Commit(p)
  PROVE  Moves(p)
<1> DEFINE r == [run[p] EXCEPT !.next = @ + 1, !.parent = run[p].block,
                               !.block = NoBlock,
                               !.logs = @ \ BatchLogs(run[p], run[p].next)]
<1>1. r \in RunState
  <2>1. run[p] \in RunState
    BY DEF TypeOK
  <2>2. /\ run[p].next + 1 \in Nat
        /\ run[p].block \in Block \cup {NoBlock}
        /\ run[p].logs \ BatchLogs(run[p], run[p].next) \in SUBSET Row
    BY <2>1 DEF RunState
  <2> QED
    BY <2>1, <2>2, CursorType
<1>2. CASE Goto(p, "block", r)
  BY <1>1, <1>2, GotoMoves DEF Ready, Call, RpcCalls
<1>3. CASE NextBatch(p, r)
  BY <1>1, <1>3, NextBatchMoves
<1>4. CASE \E e : Fail(p, e)
  BY <1>4, EndMoves
<1> QED
  BY <1>2, <1>3, <1>4 DEF Commit, AfterCommit

\* The recovery's cursor stays a height.
LEMMA RecoveryMoves ==
  ASSUME TypeOK, NEW p \in Indexers, Recovery(p)
  PROVE  Moves(p)
<1> DEFINE r == run[p]
<1>1. r \in RunState /\ r.next \in Nat
  BY DEF TypeOK, RunState
<1>2. CASE \E e : Fail(p, e)
  BY <1>2, EndMoves
<1>3. CASE StartRecovery(p) /\ ~ \E e : Fail(p, e)
  <2>1. checkpoint \in Block /\ Goto(p, "stored_hash", [r EXCEPT !.next = Number(checkpoint)])
    BY <1>3 DEF StartRecovery, TypeOK
  <2>2. [r EXCEPT !.next = Number(checkpoint)] \in RunState
    BY <1>1, <2>1, AncestryAssumption DEF RunState
  <2> QED
    BY <2>1, <2>2, GotoMoves DEF Ready, Call, StoreCalls
<1>4. CASE ReadStoredHash(p) /\ ~ \E e : Fail(p, e)
  <2>1. PICK b \in StoredAt(r.next) : Goto(p, "canonical_hash", [r EXCEPT !.block = b])
    BY <1>4 DEF ReadStoredHash
  <2>2. [r EXCEPT !.block = b] \in RunState
    BY <1>1 DEF RunState, StoredAt, TypeOK
  <2> QED
    BY <2>1, <2>2, GotoMoves DEF Ready, Call, RpcCalls
<1>5. CASE CompareCanonicalHash(p) /\ ~ \E e : Fail(p, e)
  <2>1. CASE Goto(p, "rollback", r)
    BY <1>1, <2>1, GotoMoves DEF Ready, Call, StoreCalls
  <2>2. CASE r.next > DeploymentBlock
             /\ Goto(p, "stored_hash", [r EXCEPT !.next = @ - 1, !.block = NoBlock])
    <3>1. r.next - 1 \in Nat
      BY <1>1, <2>2, DeploymentAssumption
    <3>2. [r EXCEPT !.next = @ - 1, !.block = NoBlock] \in RunState
      BY <1>1, <3>1 DEF RunState
    <3> QED
      BY <2>2, <3>2, GotoMoves DEF Ready, Call, StoreCalls
  <2> QED
    BY <1>5, <2>1, <2>2 DEF CompareCanonicalHash
<1>6. CASE Rollback(p) /\ ~ \E e : Fail(p, e)
  BY <1>6, NewRunType, GotoMoves DEF Ready, Ready, Rollback, Call, RpcCalls
<1> QED
  BY <1>2, <1>3, <1>4, <1>5, <1>6 DEF Recovery

\* A fault leaves a process with nothing.
LEMMA FaultMoves ==
  ASSUME TypeOK, NEW p \in Indexers, Fault(p)
  PROVE  Moves(p)
<1>1. CASE RpcFails(p)
  BY <1>1, EndMoves DEF RpcFails
<1>2. CASE Crash(p)
  <2>1. "down" \in Call /\ Ready("down", NewRun)
    BY DEF Call, Ready
  <2> QED
    BY <1>2, <2>1, NewRunType DEF Crash, Moves
<1> QED
  BY <1>1, <1>2 DEF Fault

----------------------------------------------------------------------------
\* The part of the invariant that is about the tables.
StoreOK ==
  /\ blocks \subseteq Block
  /\ events \subseteq Row
  /\ checkpoint \in Block \cup {NoBlock}
  /\ coverage \in {NoCoverage, DeploymentBlock}
  /\ ArchiveSound

\* A branch is made of blocks.
LEMMA BranchOfBlocks ==
  ASSUME NEW b \in Block
  PROVE  Branch(b) \subseteq Block
  BY AncestryAssumption, DeploymentAssumption DEF Branch

\* The empty store and a legacy one are sound.
LEMMA InitStore == Init => StoreOK
<1> SUFFICES ASSUME Init PROVE StoreOK
  OBVIOUS
<1>1. CASE EmptyStore
  BY <1>1 DEF EmptyStore, StoreOK, ArchiveSound
<1>2. ASSUME NEW b \in LegacyHeads, LegacyStore(b)
      PROVE  StoreOK
  <2>1. b \in Block /\ Branch(b) \subseteq Block
    BY BranchOfBlocks, DeploymentAssumption
  <2>2. \A e \in events : \E c \in Branch(b) : \E l \in LogsOf(c) : e = [block |-> c, log |-> l]
    BY <1>2 DEF LegacyStore
  <2>3. events \subseteq Row /\ ArchiveSound
    BY <1>2, <2>1, <2>2, RowFields DEF LegacyStore, ArchiveSound
  <2> QED
    BY <1>2, <2>1, <2>3 DEF LegacyStore, StoreOK
<1> QED
  BY <1>1, <1>2 DEF Init

\* commit_block adds a block and logs of that block.
LEMMA CommitStore ==
  ASSUME StoreOK, TypeOK, AllReady, NEW p \in Indexers, Commit(p)
  PROVE  StoreOK'
<1> DEFINE r == run[p]
           b == r.block
<1>1. CASE UNCHANGED storeVars
  BY <1>1 DEF StoreOK, ArchiveSound, storeVars
<1>2. CASE CommitBlock(b, Records(r))
  <2>1. r \in RunState /\ b \in Block /\ Number(b) = r.next /\ LogsMatch(r, b)
    BY DEF TypeOK, AllReady, Ready, Commit
  <2>2. Records(r) \subseteq LogsOf(b)
    <3> SUFFICES ASSUME NEW e \in BatchLogs(r, r.next) PROVE e.log \in LogsOf(b)
      BY DEF Records
    <3>1. e \in Row /\ e.block = b
      BY <2>1 DEF RunState, BatchLogs, LogsMatch
    <3> QED
      BY <3>1, RowFields
  <2>3. EventRows(b, Records(r)) \subseteq Row
    BY <2>1, <2>2, RowFields DEF EventRows
  <2>4. \A e \in EventRows(b, Records(r)) : e.block = b /\ e.log \in LogsOf(b)
    BY <2>2 DEF EventRows
  <2> QED
    BY <1>2, <2>1, <2>3, <2>4 DEF CommitBlock, StoreOK, ArchiveSound
<1> QED
  BY <1>1, <1>2 DEF Commit

\* rollback_to_ancestor removes an event with its block.
LEMMA RollbackStore ==
  ASSUME StoreOK, TypeOK, NEW p \in Indexers, Rollback(p)
  PROVE  StoreOK'
<1> DEFINE a == run[p].block
<1>1. CASE UNCHANGED storeVars
  BY <1>1 DEF StoreOK, ArchiveSound, storeVars
<1>2. CASE RollbackToAncestor(a)
  <2>1. a \in Block \cup {NoBlock}
    BY DEF TypeOK, RunState
  <2>2. events' = {e \in events : Number(e.block) <= Number(a)}
    BY <1>2 DEF RollbackToAncestor, RetainedEvents
  <2> QED
    BY <1>2, <2>1, <2>2 DEF RollbackToAncestor, StoreOK, ArchiveSound
<1> QED
  BY <1>1, <1>2 DEF Rollback

\* The transactions of the startup.
LEMMA StartupStore ==
  ASSUME StoreOK, NEW p \in Indexers, StartupReindex(p) \/ StartupCoverage(p)
  PROVE  StoreOK'
<1>1. CASE StartupReindex(p)
  BY <1>1 DEF StartupReindex, FullReindex, StoreOK, ArchiveSound
<1>2. CASE StartupCoverage(p)
  BY <1>2 DEF StartupCoverage, EnsurePositionCoverage, StoreOK, ArchiveSound, storeVars
<1> QED
  BY <1>1, <1>2

\* The chain moves to another block of its tree.
LEMMA ChainStep ==
  ASSUME head \in Block, Extend \/ Reorganize \/ FallBehind
  PROVE  head' \in Block
<1>1. CASE FallBehind
  <2>1. PICK n \in 0 .. Number(head) - 1 : head' = AncestorAt(head, n)
    BY <1>1 DEF FallBehind, Canonical
  <2>2. Number(head) \in Nat
    BY AncestryAssumption
  <2>3. n \in 0 .. Number(head)
    BY <2>2
  <2> QED
    BY <2>1, <2>3, AncestryAssumption
<1> QED
  BY <1>1 DEF Extend, Reorganize

\* The invariant holds initially.
LEMMA ArchiveInit == Init => ArchiveInv
<1> SUFFICES ASSUME Init PROVE ArchiveInv
  OBVIOUS
<1>1. StoreOK
  BY InitStore
<1>2. /\ pc \in [Indexers -> Call] /\ run \in [Indexers -> RunState]
      /\ AllReady
  BY NewRunType DEF Init, Call, AllReady, Ready
<1>3. head \in Block
  BY DEF Init
<1> QED
  BY <1>1, <1>2, <1>3 DEF ArchiveInv, TypeOK, StoreOK

\* Every step keeps it.
LEMMA ArchiveStep == ArchiveInv /\ [Next]_vars => ArchiveInv'
<1> SUFFICES ASSUME ArchiveInv, [Next]_vars PROVE ArchiveInv'
  OBVIOUS
<1>0. TypeOK /\ AllReady /\ StoreOK
  BY DEF ArchiveInv, TypeOK, StoreOK
<1>1. ASSUME NEW p \in Indexers, Moves(p), head' \in Block, StoreOK'
      PROVE  ArchiveInv'
  BY <1>0, <1>1, MovesPreserves DEF ArchiveInv, TypeOK, StoreOK
<1>2. ASSUME NEW p \in Indexers, Moves(p), UNCHANGED <<head, storeVars>>
      PROVE  ArchiveInv'
  <2>1. head' \in Block /\ StoreOK'
    BY <1>0, <1>2 DEF TypeOK, StoreOK, ArchiveSound, storeVars
  <2> QED
    BY <1>1, <1>2, <2>1
<1>3. ASSUME head' \in Block, UNCHANGED <<storeVars, processVars>>
      PROVE  ArchiveInv'
  BY <1>0, <1>3 DEF ArchiveInv, TypeOK, AllReady, Ready, LogsMatch, BatchLogs,
                    ArchiveSound, storeVars, processVars
<1>4. ASSUME NEW p \in Indexers, Startup(p)
      PROVE  ArchiveInv'
  <2>1. CASE Launch(p) \/ Preflight(p)
    BY <1>0, <1>2, <2>1, StartupMoves DEF Launch, Preflight
  <2>2. CASE StartupReindex(p)
    <3>1. Moves(p)
      BY <2>2, NewRunType, GotoMoves DEF StartupReindex, Call, RpcCalls, Ready
    <3> QED
      BY <1>0, <1>1, <2>2, <3>1, StartupStore DEF StartupReindex, TypeOK
  <2>3. CASE StartupCoverage(p)
    <3>1. Moves(p)
      BY <2>3, EndMoves, NewRunType, GotoMoves DEF StartupCoverage, Call, RpcCalls, Ready
    <3> QED
      BY <1>0, <1>1, <2>3, <3>1, StartupStore DEF StartupCoverage, TypeOK
  <2> QED
    BY <1>4, <2>1, <2>2, <2>3 DEF Startup
<1>5. ASSUME NEW p \in Indexers, Poll(p)
      PROVE  ArchiveInv'
  BY <1>0, <1>2, <1>5, StartupMoves DEF Poll
<1>6. ASSUME NEW p \in Indexers, CatchUp(p)
      PROVE  ArchiveInv'
  <2>1. CASE CheckChainId(p)
    BY <1>0, <1>2, <2>1, StartupMoves DEF CheckChainId
  <2>2. CASE ReadLatest(p)
    BY <1>0, <1>2, <2>2, ReadLatestMoves DEF ReadLatest
  <2>3. CASE ReadCheckpoint(p)
    BY <1>0, <1>2, <2>3, ReadCheckpointMoves DEF ReadCheckpoint
  <2>4. CASE VerifyCheckpoint(p)
    BY <1>0, <1>2, <2>4, VerifyCheckpointMoves DEF VerifyCheckpoint
  <2>5. CASE FetchCreatedLogs(p) \/ FetchPositionLogs(p)
    BY <1>0, <1>2, <2>5, FetchLogsMoves DEF FetchCreatedLogs, FetchPositionLogs
  <2>6. CASE FetchBlock(p)
    BY <1>0, <1>2, <2>6, FetchBlockMoves DEF FetchBlock
  <2>7. CASE Commit(p)
    BY <1>0, <1>1, <2>7, CommitMoves, CommitStore DEF Commit, TypeOK
  <2> QED
    BY <1>6, <2>1, <2>2, <2>3, <2>4, <2>5, <2>6, <2>7 DEF CatchUp
<1>7. ASSUME NEW p \in Indexers, Recovery(p)
      PROVE  ArchiveInv'
  <2>1. Moves(p)
    BY <1>0, <1>7, RecoveryMoves
  <2>2. CASE Rollback(p)
    BY <1>0, <1>1, <2>1, <2>2, RollbackStore DEF Rollback, TypeOK
  <2> QED
    BY <1>2, <1>7, <2>1, <2>2
    DEF Recovery, StartRecovery, ReadStoredHash, CompareCanonicalHash
<1>8. ASSUME NEW p \in Indexers, Fault(p)
      PROVE  ArchiveInv'
  BY <1>0, <1>2, <1>8, FaultMoves DEF Fault, RpcFails, Crash
<1>9. CASE Mine \/ Reorg
  BY <1>0, <1>3, <1>9, ChainStep DEF Mine, Reorg, TypeOK
<1>10. CASE UNCHANGED vars
  BY <1>0, <1>3, <1>10 DEF vars, TypeOK, storeVars, processVars
<1> QED
  BY <1>4, <1>5, <1>6, <1>7, <1>8, <1>9, <1>10 DEF Next, Step

\* Whatever the chain, the endpoint, the crashes and however many indexers
\* write to the database: every variable keeps its type.
THEOREM TypeCorrect == Spec => []TypeOK
<1>1. ArchiveInv => TypeOK
  BY DEF ArchiveInv
<1> QED
  BY <1>1, ArchiveInit, ArchiveStep, PTL DEF Spec

\* In the same generality: an archived log is a log of a stored block, the one
\* that emitted it.
THEOREM SoundArchive == Spec => []ArchiveSound
<1>1. ArchiveInv => ArchiveSound
  BY DEF ArchiveInv
<1> QED
  BY <1>1, ArchiveInit, ArchiveStep, PTL DEF Spec

----------------------------------------------------------------------------
\* One indexer on its database.

SingleWriter == \A p, q \in Indexers : p = q

----------------------------------------------------------------------------
\* Branches

\* A child block makes the branch one block longer.
LEMMA BranchGrows ==
  ASSUME NEW a \in Block, NEW b \in Block, IsParent(a, b), Number(a) >= DeploymentBlock
  PROVE  Number(b) = Number(a) + 1 /\ Branch(b) = Branch(a) \cup {b}
<1>1. Number(a) \in Nat /\ Number(b) \in Nat /\ DeploymentBlock \in Nat
  BY AncestryAssumption, DeploymentAssumption
<1>2. Number(b) = Number(a) + 1
  BY <1>1, AncestryAssumption DEF IsParent
<1>3. a = AncestorAt(b, Number(a))
  BY <1>1, <1>2 DEF IsParent
<1>4. \A n \in DeploymentBlock .. Number(a) : AncestorAt(b, n) = AncestorAt(a, n)
  BY <1>1, <1>2, <1>3, AncestryAssumption
<1>5. DeploymentBlock .. Number(b) = (DeploymentBlock .. Number(a)) \cup {Number(b)}
  BY <1>1, <1>2
<1>6. AncestorAt(b, Number(b)) = b
  BY AncestryAssumption
<1> QED
  BY <1>2, <1>4, <1>5, <1>6 DEF Branch

\* The branch of a block at the deployment height is that block.
LEMMA BranchStarts ==
  ASSUME NEW b \in Block, Number(b) = DeploymentBlock
  PROVE  Branch(b) = {b}
<1>1. DeploymentBlock .. Number(b) = {Number(b)}
  BY DeploymentAssumption
<1>2. AncestorAt(b, Number(b)) = b
  BY AncestryAssumption
<1> QED
  BY <1>1, <1>2 DEF Branch

\* Cut at one of its blocks, a branch is that block's branch.
LEMMA BranchCut ==
  ASSUME NEW b \in Block, NEW n \in DeploymentBlock .. Number(b)
  PROVE  /\ AncestorAt(b, n) \in Block /\ Number(AncestorAt(b, n)) = n
         /\ {c \in Branch(b) : Number(c) <= n} = Branch(AncestorAt(b, n))
         /\ \A c \in Branch(b) : Number(c) = n => c = AncestorAt(b, n)
<1>1. Number(b) \in Nat /\ DeploymentBlock \in Nat /\ n \in 0 .. Number(b)
  BY AncestryAssumption, DeploymentAssumption
<1>2. AncestorAt(b, n) \in Block /\ Number(AncestorAt(b, n)) = n
  BY <1>1, AncestryAssumption
<1>3. \A m \in DeploymentBlock .. Number(b) :
        m \in 0 .. Number(b) /\ Number(AncestorAt(b, m)) = m
  BY <1>1, AncestryAssumption
<1>4. \A m \in DeploymentBlock .. n :
        AncestorAt(AncestorAt(b, n), m) = AncestorAt(b, m)
  BY <1>1, AncestryAssumption
<1>5. {c \in Branch(b) : Number(c) <= n} = {AncestorAt(b, m) : m \in DeploymentBlock .. n}
  BY <1>1, <1>3 DEF Branch
<1>6. Branch(AncestorAt(b, n)) = {AncestorAt(b, m) : m \in DeploymentBlock .. n}
  BY <1>2, <1>4 DEF Branch
<1> QED
  BY <1>2, <1>3, <1>5, <1>6 DEF Branch

----------------------------------------------------------------------------
\* The inductive invariant

\* The height after the checkpoint cp.
After(cp) == IF cp = NoBlock THEN DeploymentBlock ELSE Number(cp) + 1

\* How the local variables of a run relate to the checkpoint cp, call by call:
\* the cursor is on the block after it, the search is on its branch.
Placed(call, r, cp) ==
  /\ call \in {"latest", "checkpoint"} => r.parent = NoBlock
  /\ call = "verify" => cp # NoBlock /\ r.cp = cp
  /\ call \in {"created_logs", "position_logs", "block", "commit"} =>
       r.parent = cp /\ r.next = After(cp)
  /\ call = "commit" => FollowsParent(r, r.block)
  /\ call \in {"stored_hash", "canonical_hash", "rollback"} =>
       cp # NoBlock /\ r.next \in DeploymentBlock .. Number(cp)
  /\ call \in {"canonical_hash", "rollback"} => r.block = AncestorAt(cp, r.next)

BranchInv ==
  /\ IndexIsBranch
  /\ checkpoint # NoBlock => Number(checkpoint) >= DeploymentBlock
  /\ \A p \in Indexers : Placed(pc[p], run[p], checkpoint)

\* The step leaves process p at a call that fits the checkpoint it leaves.
PlacedMove(p) ==
  \E call, r :
    /\ pc' = [pc EXCEPT ![p] = call]
    /\ run' = [run EXCEPT ![p] = r]
    /\ Placed(call, r, checkpoint')

\* The only process is placed after its step.
LEMMA PlacedPreserved ==
  ASSUME SingleWriter, TypeOK, NEW p \in Indexers, PlacedMove(p)
  PROVE  \A q \in Indexers : Placed(pc'[q], run'[q], checkpoint')
<1>1. PICK call, r : /\ pc' = [pc EXCEPT ![p] = call]
                     /\ run' = [run EXCEPT ![p] = r]
                     /\ Placed(call, r, checkpoint')
  BY DEF PlacedMove
<1>2. pc'[p] = call /\ run'[p] = r
  BY <1>1 DEF TypeOK
<1> QED
  BY <1>1, <1>2 DEF SingleWriter

\* A run that ends holds nothing to place.
LEMMA EndPlaced ==
  ASSUME NEW p \in Indexers, NEW how, EndRun(p, how) \/ Fail(p, how)
  PROVE  PlacedMove(p)
<1>1. Placed("waiting", NewRun, checkpoint') /\ Placed("failed", NewRun, checkpoint')
  BY DEF Placed
<1> QED
  BY <1>1 DEF EndRun, Fail, PlacedMove

\* A run that goes on to a call is placed if the call is.
LEMMA GotoPlaced ==
  ASSUME NEW p \in Indexers, NEW call, NEW r, Goto(p, call, r),
         Placed(call, r, checkpoint')
  PROVE  PlacedMove(p)
  BY DEF Goto, PlacedMove

\* A second attempt holds nothing to place either.
LEMMA ReorganizedPlaced ==
  ASSUME NEW p \in Indexers, Reorganized(p)
  PROVE  PlacedMove(p)
<1>1. Placed("recover", [NewRun EXCEPT !.attempt = 2], checkpoint')
  BY DEF Placed
<1> QED
  BY <1>1, GotoPlaced, EndPlaced DEF Reorganized

\* A batch starts right above the checkpoint.
LEMMA NextBatchPlaced ==
  ASSUME NEW p \in Indexers, NEW r \in RunState, NextBatch(p, r),
         r.parent = checkpoint', r.next = After(checkpoint')
  PROVE  PlacedMove(p)
<1> DEFINE b == [r EXCEPT !.end = Least(r.next + BatchSize - 1, SafeHead(r)),
                          !.logs = {}, !.block = NoBlock]
<1>1. b.parent = r.parent /\ b.next = r.next
  BY DEF RunState
<1>2. Placed("created_logs", b, checkpoint')
  BY <1>1 DEF Placed
<1> QED
  BY <1>2, GotoPlaced, EndPlaced DEF NextBatch

----------------------------------------------------------------------------
\* The steps that leave the store alone

\* The steps up to the read of the head leave the index alone.
LEMMA StartupPlaced ==
  ASSUME TypeOK, BranchInv, NEW p \in Indexers,
         Launch(p) \/ Preflight(p) \/ Poll(p) \/ CheckChainId(p) \/ ReadLatest(p)
  PROVE  PlacedMove(p)
<1>2. ASSUME NEW call \in {"preflight", "chain_id"}, pc' = [pc EXCEPT ![p] = call],
             UNCHANGED run
      PROVE  PlacedMove(p)
  <2>1. run' = [run EXCEPT ![p] = run[p]]
    BY <1>2 DEF TypeOK
  <2>2. Placed(call, run[p], checkpoint')
    BY DEF Placed
  <2> QED
    BY <1>2, <2>1, <2>2 DEF PlacedMove
<1>3. CASE Launch(p)
  BY <1>2, <1>3 DEF Launch
<1>4. CASE Poll(p)
  BY <1>2, <1>4 DEF Poll
<1>5. CASE Preflight(p)
  <2>1. Placed("startup", NewRun, checkpoint')
    BY DEF Placed
  <2> QED
    BY <1>5, <2>1, EndPlaced, GotoPlaced DEF Preflight
<1>6. CASE CheckChainId(p)
  <2>1. Placed("latest", NewRun, checkpoint')
    BY DEF Placed, NewRun
  <2> QED
    BY <1>6, <2>1, EndPlaced, GotoPlaced DEF CheckChainId
<1>7. CASE ReadLatest(p)
  <2>1. run[p] \in RunState /\ run[p].parent = NoBlock
    BY <1>7 DEF TypeOK, BranchInv, Placed, ReadLatest
  <2>2. Placed("checkpoint", [run[p] EXCEPT !.latest = Number(head)], checkpoint')
    BY <2>1 DEF Placed, RunState
  <2> QED
    BY <1>7, <2>2, GotoPlaced DEF ReadLatest
<1> QED
  BY <1>3, <1>4, <1>5, <1>6, <1>7

\* The checkpoint read is the one of the store.
LEMMA ReadCheckpointPlaced ==
  ASSUME TypeOK, BranchInv, NEW p \in Indexers, ReadCheckpoint(p)
  PROVE  PlacedMove(p)
<1>1. run[p] \in RunState /\ run[p].parent = NoBlock /\ checkpoint' = checkpoint
  BY DEF TypeOK, BranchInv, Placed, ReadCheckpoint, storeVars
<1>2. CASE checkpoint = NoBlock /\ NextBatch(p, [run[p] EXCEPT !.next = DeploymentBlock])
  <2> DEFINE r == [run[p] EXCEPT !.next = DeploymentBlock]
  <2>1. r \in RunState /\ r.parent = checkpoint' /\ r.next = After(checkpoint')
    BY <1>1, <1>2, DeploymentAssumption DEF RunState, After
  <2> QED
    BY <1>2, <2>1, NextBatchPlaced
<1>3. CASE checkpoint # NoBlock /\ Goto(p, "verify", [run[p] EXCEPT !.cp = checkpoint])
  <2>1. Placed("verify", [run[p] EXCEPT !.cp = checkpoint], checkpoint')
    BY <1>1, <1>3 DEF Placed, RunState
  <2> QED
    BY <1>3, <2>1, GotoPlaced
<1>4. CASE \E e : Fail(p, e)
  BY <1>4, EndPlaced
<1> QED
  BY <1>2, <1>3, <1>4 DEF ReadCheckpoint

\* A verified checkpoint is the parent the batch expects.
LEMMA VerifyCheckpointPlaced ==
  ASSUME TypeOK, AllReady, BranchInv, NEW p \in Indexers, VerifyCheckpoint(p)
  PROVE  PlacedMove(p)
<1> DEFINE r == run[p]
           n == Number(r.cp)
           s == [r EXCEPT !.next = n + 1, !.parent = r.cp, !.cp = NoBlock]
<1>1. /\ r \in RunState /\ r.cp \in Block
      /\ checkpoint' = checkpoint /\ checkpoint # NoBlock /\ r.cp = checkpoint
  BY DEF TypeOK, AllReady, Ready, BranchInv, Placed, VerifyCheckpoint, storeVars
<1>2. CASE NextBatch(p, s)
  <2>1. n + 1 \in Nat
    BY <1>1, AncestryAssumption
  <2>2. s \in RunState
    BY <1>1, <2>1, CursorType
  <2>3. s.parent = checkpoint' /\ s.next = After(checkpoint')
    BY <1>1 DEF RunState, After
  <2> QED
    BY <1>2, <2>2, <2>3, NextBatchPlaced
<1>3. CASE Reorganized(p)
  BY <1>3, ReorganizedPlaced
<1>4. CASE Fail(p, "CheckpointBlockMissing")
  BY <1>4, EndPlaced
<1> QED
  BY <1>2, <1>3, <1>4 DEF VerifyCheckpoint

\* What is fetched above the checkpoint follows it.
LEMMA FetchPlaced ==
  ASSUME TypeOK, BranchInv, NEW p \in Indexers,
         FetchCreatedLogs(p) \/ FetchPositionLogs(p) \/ FetchBlock(p)
  PROVE  PlacedMove(p)
<1> DEFINE r == run[p]
           b == Canonical(r.next)
<1>1. /\ r \in RunState /\ checkpoint' = checkpoint
      /\ r.parent = checkpoint /\ r.next = After(checkpoint)
  BY DEF TypeOK, BranchInv, Placed, FetchCreatedLogs, FetchPositionLogs, FetchBlock,
         storeVars
<1>2. ASSUME NEW logs, NEW call \in {"position_logs", "block"},
             Goto(p, call, [r EXCEPT !.logs = logs])
      PROVE  PlacedMove(p)
  <2>1. Placed(call, [r EXCEPT !.logs = logs], checkpoint')
    BY <1>1 DEF Placed, RunState
  <2> QED
    BY <1>2, <2>1, GotoPlaced
<1>3. CASE FetchCreatedLogs(p) \/ FetchPositionLogs(p)
  BY <1>2, <1>3 DEF FetchCreatedLogs, FetchPositionLogs
<1>4. CASE FollowsParent(r, b) /\ Goto(p, "commit", [r EXCEPT !.block = b])
  <2>1. Placed("commit", [r EXCEPT !.block = b], checkpoint')
    BY <1>1, <1>4 DEF Placed, RunState, FollowsParent
  <2> QED
    BY <1>4, <2>1, GotoPlaced
<1>5. CASE FetchBlock(p)
  BY <1>4, <1>5, EndPlaced, ReorganizedPlaced DEF FetchBlock
<1> QED
  BY <1>3, <1>5

\* The search goes down the branch of the checkpoint.
LEMMA SearchPlaced ==
  ASSUME TypeOK, BranchInv, NEW p \in Indexers,
         StartRecovery(p) \/ ReadStoredHash(p) \/ CompareCanonicalHash(p)
  PROVE  PlacedMove(p)
<1> DEFINE r == run[p]
<1>1. r \in RunState /\ checkpoint' = checkpoint
  BY DEF TypeOK, StartRecovery, ReadStoredHash, CompareCanonicalHash, storeVars
<1>2. CASE \E e : Fail(p, e)
  BY <1>2, EndPlaced
<1>3. CASE StartRecovery(p) /\ ~ \E e : Fail(p, e)
  <2>1. /\ checkpoint # NoBlock /\ Number(checkpoint) >= DeploymentBlock
        /\ Goto(p, "stored_hash", [r EXCEPT !.next = Number(checkpoint)])
    BY <1>3 DEF StartRecovery
  <2>2. Number(checkpoint) \in Nat
    BY <2>1, AncestryAssumption DEF TypeOK
  <2>3. Number(checkpoint) \in DeploymentBlock .. Number(checkpoint)
    BY <2>1, <2>2, DeploymentAssumption
  <2>4. Placed("stored_hash", [r EXCEPT !.next = Number(checkpoint)], checkpoint')
    BY <1>1, <2>1, <2>3 DEF Placed, RunState
  <2> QED
    BY <2>1, <2>4, GotoPlaced
<1>4. CASE ReadStoredHash(p) /\ ~ \E e : Fail(p, e)
  <2>1. PICK b \in StoredAt(r.next) : Goto(p, "canonical_hash", [r EXCEPT !.block = b])
    BY <1>4 DEF ReadStoredHash
  <2>2. checkpoint # NoBlock /\ r.next \in DeploymentBlock .. Number(checkpoint)
    BY <1>4 DEF BranchInv, Placed, ReadStoredHash
  <2>3. b = AncestorAt(checkpoint, r.next)
    BY <2>1, <2>2, BranchCut DEF StoredAt, BranchInv, IndexIsBranch, TypeOK
  <2>4. Placed("canonical_hash", [r EXCEPT !.block = b], checkpoint')
    BY <1>1, <2>2, <2>3 DEF Placed, RunState
  <2> QED
    BY <2>1, <2>4, GotoPlaced
<1>5. CASE CompareCanonicalHash(p) /\ ~ \E e : Fail(p, e)
  <2>1. /\ checkpoint # NoBlock /\ r.next \in DeploymentBlock .. Number(checkpoint)
        /\ r.block = AncestorAt(checkpoint, r.next)
    BY <1>5 DEF BranchInv, Placed, CompareCanonicalHash
  <2>2. CASE Goto(p, "rollback", r)
    <3>1. Placed("rollback", r, checkpoint')
      BY <1>1, <2>1 DEF Placed
    <3> QED
      BY <2>2, <3>1, GotoPlaced
  <2>3. CASE r.next > DeploymentBlock
             /\ Goto(p, "stored_hash", [r EXCEPT !.next = @ - 1, !.block = NoBlock])
    <3>1. r.next - 1 \in DeploymentBlock .. Number(checkpoint)
      <4>1. Number(checkpoint) \in Nat /\ DeploymentBlock \in Nat
        BY <2>1, AncestryAssumption, DeploymentAssumption DEF TypeOK
      <4> QED
        BY <2>1, <2>3, <4>1
    <3>2. [r EXCEPT !.next = @ - 1, !.block = NoBlock].next = r.next - 1
      BY <1>1 DEF RunState
    <3>3. Placed("stored_hash", [r EXCEPT !.next = @ - 1, !.block = NoBlock], checkpoint')
      BY <1>1, <2>1, <3>1, <3>2 DEF Placed
    <3> QED
      BY <2>3, <3>3, GotoPlaced
  <2> QED
    BY <1>5, <2>2, <2>3 DEF CompareCanonicalHash
<1> QED
  BY <1>2, <1>3, <1>4, <1>5

\* A fault leaves a process with nothing to place.
LEMMA FaultPlaced ==
  ASSUME NEW p \in Indexers, Fault(p)
  PROVE  PlacedMove(p)
<1>1. Placed("down", NewRun, checkpoint')
  BY DEF Placed
<1>2. CASE Crash(p)
  BY <1>1, <1>2 DEF Crash, PlacedMove
<1>3. CASE RpcFails(p)
  BY <1>3, EndPlaced DEF RpcFails
<1> QED
  BY <1>2, <1>3 DEF Fault

----------------------------------------------------------------------------
\* The transactions

IndexOK ==
  /\ IndexIsBranch
  /\ checkpoint # NoBlock => Number(checkpoint) >= DeploymentBlock

\* The block of a commit is the one after the checkpoint.
LEMMA CommitBlockFollows ==
  ASSUME TypeOK, AllReady, BranchInv, NEW p \in Indexers, pc[p] = "commit"
  PROVE  /\ run[p].block \in Block
         /\ run[p].next = After(checkpoint)
         /\ Number(run[p].block) = After(checkpoint)
         /\ checkpoint # NoBlock => IsParent(checkpoint, run[p].block)
  BY DEF AllReady, Ready, BranchInv, Placed, FollowsParent

\* A committed block makes the branch one block longer.
LEMMA CommitIndex ==
  ASSUME TypeOK, AllReady, BranchInv, NEW p \in Indexers, Commit(p),
         CommitBlock(run[p].block, Records(run[p]))
  PROVE  IndexOK'
<1> DEFINE b == run[p].block
<1>1. /\ b \in Block /\ Number(b) = After(checkpoint)
      /\ checkpoint # NoBlock => IsParent(checkpoint, b)
  BY CommitBlockFollows DEF Commit
<1>2. blocks' = blocks \cup {b} /\ checkpoint' = b /\ b # NoBlock
  BY <1>1, NoBlockAssumption DEF CommitBlock
<1>3. CASE checkpoint = NoBlock
  <2>1. Number(b) = DeploymentBlock /\ blocks = {}
    BY <1>1, <1>3 DEF After, BranchInv, IndexIsBranch
  <2> QED
    BY <1>1, <1>2, <2>1, BranchStarts, DeploymentAssumption
    DEF IndexOK, IndexIsBranch, Branch
<1>4. CASE checkpoint # NoBlock
  <2>1. checkpoint \in Block /\ Number(checkpoint) >= DeploymentBlock
        /\ blocks = Branch(checkpoint) /\ Number(checkpoint) \in Nat
    BY <1>4, AncestryAssumption DEF TypeOK, BranchInv, IndexIsBranch
  <2>2. Branch(b) = blocks \cup {b} /\ Number(b) = Number(checkpoint) + 1
    BY <1>1, <1>4, <2>1, BranchGrows
  <2>3. Number(b) >= DeploymentBlock
    BY <2>1, <2>2, DeploymentAssumption
  <2> QED
    BY <1>2, <2>2, <2>3 DEF IndexOK, IndexIsBranch, Branch
<1> QED
  BY <1>3, <1>4

\* After a commit the cursor is right above the new checkpoint.
LEMMA CommitPlaced ==
  ASSUME TypeOK, AllReady, BranchInv, NEW p \in Indexers, Commit(p)
  PROVE  PlacedMove(p)
<1> DEFINE b == run[p].block
           logs == run[p].logs \ BatchLogs(run[p], run[p].next)
           r == [run[p] EXCEPT !.next = @ + 1, !.parent = b, !.block = NoBlock,
                               !.logs = logs]
<1>1. /\ b \in Block /\ run[p].next = After(checkpoint) /\ Number(b) = run[p].next
  BY CommitBlockFollows DEF Commit
<1>2. run[p] \in RunState /\ run[p].next + 1 \in Nat /\ logs \in SUBSET Row
  <2>1. run[p] \in RunState
    BY DEF TypeOK
  <2> QED
    BY <2>1 DEF RunState
<1>3. r \in RunState
  BY <1>1, <1>2, CursorType
<1>4. CASE CommitBlock(b, Records(run[p])) /\ AfterCommit(p)
  <2>1. checkpoint' = b /\ b # NoBlock
    BY <1>1, <1>4, NoBlockAssumption DEF CommitBlock
  <2>2. r.parent = checkpoint' /\ r.next = After(checkpoint')
    BY <1>1, <1>2, <2>1 DEF After, RunState
  <2>3. CASE Goto(p, "block", r)
    <3>1. Placed("block", r, checkpoint')
      BY <2>2 DEF Placed
    <3> QED
      BY <2>3, <3>1, GotoPlaced
  <2>4. CASE NextBatch(p, r)
    BY <1>3, <2>2, <2>4, NextBatchPlaced
  <2> QED
    BY <1>4, <2>3, <2>4 DEF AfterCommit
<1>5. CASE \E e : Fail(p, e)
  BY <1>5, EndPlaced
<1> QED
  BY <1>4, <1>5 DEF Commit

\* The block of a rollback is on the branch of the checkpoint.
LEMMA RollbackBlock ==
  ASSUME TypeOK, BranchInv, NEW p \in Indexers, pc[p] = "rollback"
  PROVE  /\ checkpoint \in Block /\ run[p].next \in DeploymentBlock .. Number(checkpoint)
         /\ run[p].block = AncestorAt(checkpoint, run[p].next)
         /\ run[p].block \in Block /\ Number(run[p].block) = run[p].next
  BY BranchCut DEF TypeOK, BranchInv, Placed

\* A rollback cuts the branch.
LEMMA RollbackIndex ==
  ASSUME TypeOK, BranchInv, NEW p \in Indexers, Rollback(p),
         RollbackToAncestor(run[p].block)
  PROVE  IndexOK'
<1> DEFINE a == run[p].block
           n == run[p].next
<1>1. /\ checkpoint \in Block /\ n \in DeploymentBlock .. Number(checkpoint)
      /\ a = AncestorAt(checkpoint, n) /\ a \in Block /\ Number(a) = n
  BY RollbackBlock DEF Rollback
<1>2. blocks = Branch(checkpoint)
  BY <1>1, NoBlockAssumption DEF BranchInv, IndexIsBranch
<1>3. blocks' = Branch(a) /\ checkpoint' = a
  BY <1>1, <1>2, BranchCut DEF RollbackToAncestor
<1>4. a # NoBlock /\ Number(a) >= DeploymentBlock
  BY <1>1, NoBlockAssumption, DeploymentAssumption
<1> QED
  BY <1>3, <1>4 DEF IndexOK, IndexIsBranch, Branch

\* The second attempt starts from nothing.
LEMMA RollbackPlaced ==
  ASSUME NEW p \in Indexers, Rollback(p)
  PROVE  PlacedMove(p)
<1>1. Placed("latest", [NewRun EXCEPT !.attempt = 2], checkpoint')
  BY DEF Placed, NewRun
<1> QED
  BY <1>1, EndPlaced, GotoPlaced DEF Rollback

\* full_reindex and ensure_position_coverage leave one branch.
LEMMA StartupTransactions ==
  ASSUME BranchInv, NEW p \in Indexers, StartupReindex(p) \/ StartupCoverage(p)
  PROVE  PlacedMove(p) /\ IndexOK'
<1>1. Placed("chain_id", NewRun, checkpoint')
  BY DEF Placed
<1>2. PlacedMove(p)
  BY <1>1, EndPlaced, GotoPlaced DEF StartupReindex, StartupCoverage
<1>3. CASE StartupReindex(p)
  <2>1. blocks' = {} /\ checkpoint' = NoBlock
    BY <1>3 DEF StartupReindex, FullReindex
  <2> QED
    BY <1>2, <2>1 DEF IndexOK, IndexIsBranch
<1>4. CASE StartupCoverage(p)
  <2>1. blocks' = blocks /\ checkpoint' = checkpoint
    BY <1>4 DEF StartupCoverage, EnsurePositionCoverage, storeVars
  <2> QED
    BY <1>2, <2>1 DEF BranchInv, IndexOK, IndexIsBranch, Branch
<1> QED
  BY <1>3, <1>4

----------------------------------------------------------------------------
\* The invariant holds initially.
LEMMA BranchInit == Init => BranchInv
<1> SUFFICES ASSUME Init PROVE BranchInv
  OBVIOUS
<1>1. \A p \in Indexers : Placed(pc[p], run[p], checkpoint)
  BY DEF Init, Placed
<1>2. CASE EmptyStore
  BY <1>1, <1>2 DEF EmptyStore, BranchInv, IndexIsBranch
<1>3. ASSUME NEW b \in LegacyHeads, LegacyStore(b)
      PROVE  BranchInv
  BY <1>1, <1>3, DeploymentAssumption, NoBlockAssumption
  DEF LegacyStore, BranchInv, IndexIsBranch
<1> QED
  BY <1>2, <1>3 DEF Init

\* Every step of one indexer keeps it.
LEMMA BranchStep ==
  ASSUME SingleWriter
  PROVE  ArchiveInv /\ BranchInv /\ [Next]_vars => BranchInv'
<1> SUFFICES ASSUME ArchiveInv, BranchInv, [Next]_vars PROVE BranchInv'
  OBVIOUS
<1>0. TypeOK /\ AllReady /\ IndexOK
  BY DEF ArchiveInv, BranchInv, IndexOK
<1>1. ASSUME NEW p \in Indexers, PlacedMove(p), IndexOK'
      PROVE  BranchInv'
  BY <1>0, <1>1, PlacedPreserved DEF BranchInv, IndexOK, IndexIsBranch
<1>2. ASSUME UNCHANGED storeVars
      PROVE  IndexOK'
  BY <1>0, <1>2 DEF IndexOK, IndexIsBranch, Branch, storeVars
<1>3. ASSUME UNCHANGED <<storeVars, processVars>>
      PROVE  BranchInv'
  <2>1. IndexOK'
    BY <1>2, <1>3
  <2> QED
    BY <1>3, <2>1 DEF BranchInv, IndexOK, storeVars, processVars, Placed, FollowsParent
<1>4. ASSUME NEW p \in Indexers, Startup(p) \/ Poll(p)
      PROVE  BranchInv'
  <2>1. CASE StartupReindex(p) \/ StartupCoverage(p)
    BY <1>1, <2>1, StartupTransactions
  <2>2. CASE Launch(p) \/ Preflight(p) \/ Poll(p)
    BY <1>0, <1>1, <1>2, <2>2, StartupPlaced DEF Launch, Preflight, Poll
  <2> QED
    BY <1>4, <2>1, <2>2 DEF Startup
<1>5. ASSUME NEW p \in Indexers, CatchUp(p)
      PROVE  BranchInv'
  <2>1. CASE CheckChainId(p) \/ ReadLatest(p)
    BY <1>0, <1>1, <1>2, <2>1, StartupPlaced DEF CheckChainId, ReadLatest
  <2>2. CASE ReadCheckpoint(p)
    BY <1>0, <1>1, <1>2, <2>2, ReadCheckpointPlaced DEF ReadCheckpoint
  <2>3. CASE VerifyCheckpoint(p)
    BY <1>0, <1>1, <1>2, <2>3, VerifyCheckpointPlaced DEF VerifyCheckpoint
  <2>4. CASE FetchCreatedLogs(p) \/ FetchPositionLogs(p) \/ FetchBlock(p)
    BY <1>0, <1>1, <1>2, <2>4, FetchPlaced
    DEF FetchCreatedLogs, FetchPositionLogs, FetchBlock
  <2>5. CASE Commit(p)
    <3>1. IndexOK'
      BY <1>0, <1>2, <2>5, CommitIndex DEF Commit
    <3> QED
      BY <1>0, <1>1, <2>5, <3>1, CommitPlaced
  <2> QED
    BY <1>5, <2>1, <2>2, <2>3, <2>4, <2>5 DEF CatchUp
<1>6. ASSUME NEW p \in Indexers, Recovery(p)
      PROVE  BranchInv'
  <2>1. CASE Rollback(p)
    <3>1. IndexOK'
      BY <1>0, <1>2, <2>1, RollbackIndex DEF Rollback
    <3> QED
      BY <1>1, <2>1, <3>1, RollbackPlaced
  <2>2. CASE StartRecovery(p) \/ ReadStoredHash(p) \/ CompareCanonicalHash(p)
    BY <1>0, <1>1, <1>2, <2>2, SearchPlaced
    DEF StartRecovery, ReadStoredHash, CompareCanonicalHash
  <2> QED
    BY <1>6, <2>1, <2>2 DEF Recovery
<1>7. ASSUME NEW p \in Indexers, Fault(p)
      PROVE  BranchInv'
  BY <1>1, <1>2, <1>7, FaultPlaced DEF Fault, RpcFails, Crash
<1>8. CASE Mine \/ Reorg
  BY <1>3, <1>8 DEF Mine, Reorg
<1>9. CASE UNCHANGED vars
  BY <1>3, <1>9 DEF vars
<1> QED
  BY <1>4, <1>5, <1>6, <1>7, <1>8, <1>9 DEF Next, Step

\* One indexer on its database: in every state, mid-recovery and after any
\* crash included, the stored blocks are the branch of the checkpoint from the
\* deployment block on, with no gap and no orphan.
THEOREM OneBranch ==
  ASSUME SingleWriter
  PROVE  Spec => []IndexIsBranch
<1>1. BranchInv => IndexIsBranch
  BY DEF BranchInv
<1> QED
  BY <1>1, ArchiveInit, ArchiveStep, BranchInit, BranchStep, PTL DEF Spec

----------------------------------------------------------------------------
\* Implementation of CanonicalIndex

\* The initial stores are those of the abstract index.
LEMMA AbstractInit == Init => Abstract!SoundInit
<1> SUFFICES ASSUME Init PROVE Abstract!SoundInit
  OBVIOUS
<1>1. CASE EmptyStore
  BY <1>1 DEF EmptyStore, Abstract!SoundInit
<1>2. ASSUME NEW b \in LegacyHeads, LegacyStore(b)
      PROVE  Abstract!SoundInit
  <2>1. b \in Block /\ Number(b) >= DeploymentBlock /\ checkpoint = b
    BY <1>2, DeploymentAssumption DEF LegacyStore
  <2>2. events \subseteq UNION {Abstract!Rows(c, LogsOf(c)) : c \in Branch(b)}
    BY <1>2 DEF LegacyStore, Abstract!Rows
  <2> QED
    BY <2>1, <2>2 DEF Abstract!SoundInit, Branch
<1> QED
  BY <1>1, <1>2 DEF Init

\* A commit appends the next block of the branch with logs of it.
LEMMA CommitAppends ==
  ASSUME TypeOK, AllReady, BranchInv, NEW p \in Indexers, Commit(p),
         CommitBlock(run[p].block, Records(run[p]))
  PROVE  /\ run[p].block \in Block /\ Records(run[p]) \in SUBSET LogsOf(run[p].block)
         /\ Abstract!Append(run[p].block, Records(run[p]))
<1> DEFINE b == run[p].block
           S == Records(run[p])
<1>1. /\ b \in Block /\ Number(b) = After(checkpoint)
      /\ checkpoint # NoBlock => IsParent(checkpoint, b)
  BY CommitBlockFollows DEF Commit
<1>2. S \in SUBSET LogsOf(b)
  <2>1. run[p] \in RunState /\ LogsMatch(run[p], b) /\ Number(b) = run[p].next
    BY DEF TypeOK, AllReady, Ready, Commit
  <2>2. \A e \in BatchLogs(run[p], run[p].next) : e \in Row /\ e.block = b
    BY <2>1 DEF RunState, BatchLogs, LogsMatch
  <2> QED
    BY <2>2, RowFields DEF Records
<1>3. Abstract!Follows(b)
  <2>1. CASE checkpoint = NoBlock
    BY <1>1, <2>1 DEF Abstract!Follows, After
  <2>2. CASE checkpoint # NoBlock
    <3>1. checkpoint \in Block /\ Number(checkpoint) >= DeploymentBlock
      BY <2>2 DEF TypeOK, BranchInv
    <3>2. Number(b) = Number(checkpoint) + 1
      BY <1>1, <2>2, <3>1, BranchGrows
    <3>3. Number(b) \in Nat /\ Number(checkpoint) \in Nat
      BY <1>1, <3>1, AncestryAssumption
    <3>4. AncestorAt(b, Number(checkpoint)) = checkpoint
      BY <1>1, <2>2, <3>2, <3>3 DEF IsParent
    <3> QED
      BY <2>2, <3>2, <3>4 DEF Abstract!Follows
  <2> QED
    BY <2>1, <2>2
<1> QED
  BY <1>1, <1>2, <1>3 DEF CommitBlock, EventRows, Abstract!Append, Abstract!Rows

\* A rollback rewinds to an ancestor.
LEMMA RollbackRewinds ==
  ASSUME TypeOK, BranchInv, NEW p \in Indexers, Rollback(p),
         RollbackToAncestor(run[p].block)
  PROVE  run[p].block \in Block /\ Abstract!Rewind(run[p].block)
<1>1. /\ checkpoint \in Block /\ run[p].next \in DeploymentBlock .. Number(checkpoint)
      /\ run[p].block = AncestorAt(checkpoint, run[p].next) /\ run[p].block \in Block
      /\ Number(run[p].block) = run[p].next
  BY RollbackBlock DEF Rollback
<1> QED
  BY <1>1, NoBlockAssumption DEF RollbackToAncestor, RetainedEvents, Abstract!Rewind

\* Nothing else but a reindex changes the checkpoint, the blocks or the archive.
LEMMA IndexSteps ==
  ASSUME NEW p \in Indexers, Step(p) \/ Fault(p),
         ~ UNCHANGED <<checkpoint, blocks, events>>
  PROVE  \/ StartupReindex(p)
         \/ Commit(p) /\ CommitBlock(run[p].block, Records(run[p]))
         \/ Rollback(p) /\ RollbackToAncestor(run[p].block)
<1>1. CASE Startup(p) \/ Poll(p)
  BY <1>1 DEF Startup, Poll, Launch, Preflight, StartupCoverage,
              EnsurePositionCoverage, storeVars
<1>2. CASE CatchUp(p)
  BY <1>2 DEF CatchUp, CheckChainId, ReadLatest, ReadCheckpoint, VerifyCheckpoint,
              FetchCreatedLogs, FetchPositionLogs, FetchBlock, Commit, storeVars
<1>3. CASE Recovery(p)
  BY <1>3 DEF Recovery, StartRecovery, ReadStoredHash, CompareCanonicalHash,
              Rollback, storeVars
<1>4. CASE Fault(p)
  BY <1>4 DEF Fault, RpcFails, Crash, storeVars
<1> QED
  BY <1>1, <1>2, <1>3, <1>4 DEF Step

\* Every step of one indexer is a step of the abstract index, or changes nothing of it.
LEMMA AbstractStep ==
  ASSUME SingleWriter
  PROVE  ArchiveInv /\ BranchInv /\ [Next]_vars
           => [Abstract!SoundNext]_<<checkpoint, events>>
<1> SUFFICES ASSUME ArchiveInv, BranchInv, [Next]_vars,
                    ~ UNCHANGED <<checkpoint, events>>
             PROVE  Abstract!SoundNext
  OBVIOUS
<1>0. TypeOK /\ AllReady
  BY DEF ArchiveInv
<1>1. PICK p \in Indexers : Step(p) \/ Fault(p)
  BY DEF Next, Mine, Reorg, vars, storeVars
<1>2. CASE StartupReindex(p)
  BY <1>2 DEF StartupReindex, FullReindex, Abstract!SoundNext, Abstract!Clear
<1>3. CASE Commit(p) /\ CommitBlock(run[p].block, Records(run[p]))
  BY <1>0, <1>3, CommitAppends DEF Abstract!SoundNext
<1>4. CASE Rollback(p) /\ RollbackToAncestor(run[p].block)
  BY <1>0, <1>4, RollbackRewinds DEF Abstract!SoundNext
<1> QED
  BY <1>1, <1>2, <1>3, <1>4, IndexSteps

\* One indexer on its database implements the archive of one branch: a commit
\* appends a child block with logs of that block, a rollback rewinds to an
\* ancestor, and nothing else changes what a reader finds.
THEOREM Implements ==
  ASSUME SingleWriter
  PROVE  Spec => IsSoundIndex
  BY ArchiveInit, ArchiveStep, BranchInit, BranchStep, AbstractInit, AbstractStep, PTL
  DEF Spec, IsSoundIndex, Abstract!SoundSpec

----------------------------------------------------------------------------
\* Final confirmed blocks.

\* The endpoint never takes back a block under `Confirmations' others.
Finality == MaxReorgDepth <= Confirmations /\ MaxShrink = 0 /\ MaxLag = 0

----------------------------------------------------------------------------
\* Confirmed heights

Confirmed(n) == n \in Nat /\ n + Confirmations <= Number(head)

\* A mined block leaves the blocks under it.
LEMMA ExtendKeeps ==
  ASSUME head \in Block, Extend
  PROVE  /\ head' \in Block /\ Number(head) <= Number(head')
         /\ \A n \in 0 .. Number(head) : Canonical(n)' = Canonical(n)
<1>1. head' \in Block /\ Number(head) \in Nat /\ Number(head') \in Nat
  BY ChainStep, AncestryAssumption
<1>2. Number(head') > 0 /\ head = AncestorAt(head', Number(head') - 1)
  BY DEF Extend, IsParent
<1>3. Number(head) = Number(head') - 1
  BY <1>1, <1>2, AncestryAssumption
<1>4. \A n \in 0 .. Number(head) : AncestorAt(head', n) = AncestorAt(head, n)
  BY <1>1, <1>2, <1>3, AncestryAssumption
<1> QED
  BY <1>1, <1>3, <1>4 DEF Canonical

\* What head moves leave: the blocks at confirmed heights.
LEMMA HeadKeepsConfirmed ==
  ASSUME Finality, head \in Block, Extend \/ Reorganize \/ FallBehind
  PROVE  /\ head' \in Block /\ Number(head) <= Number(head')
         /\ \A n : Confirmed(n) => Canonical(n)' = Canonical(n)
<1>1. /\ head' \in Block /\ Number(head) \in Nat /\ Number(head') \in Nat
      /\ Confirmations \in Nat /\ MaxReorgDepth \in Nat
  BY ChainStep, AncestryAssumption, IndexerAssumption, DepthAssumption
<1>2. CASE Extend
  <2>1. \A n : Confirmed(n) => n \in 0 .. Number(head)
    BY <1>1 DEF Confirmed
  <2> QED
    BY <1>2, <2>1, ExtendKeeps
<1>3. CASE Reorganize
  <2>1. Number(head) <= Number(head') /\ KeepsBuried(head')
    BY <1>1, <1>3 DEF Reorganize, Finality
  <2>2. ASSUME NEW n, Confirmed(n)
        PROVE  AncestorAt(head', n) = AncestorAt(head, n)
    <3> DEFINE deep == Number(head) - MaxReorgDepth
    <3>1. deep \in 0 .. Number(head) /\ n \in 0 .. deep /\ deep \in 0 .. Number(head')
      BY <1>1, <2>1, <2>2 DEF Confirmed, Finality
    <3>2. AncestorAt(head', deep) = AncestorAt(head, deep)
      BY <2>1, <3>1 DEF KeepsBuried
    <3>3. AncestorAt(AncestorAt(head', deep), n) = AncestorAt(head', n)
      BY <1>1, <3>1, AncestryAssumption
    <3>4. AncestorAt(AncestorAt(head, deep), n) = AncestorAt(head, n)
      BY <1>1, <3>1, AncestryAssumption
    <3> QED
      BY <3>2, <3>3, <3>4
  <2> QED
    BY <1>1, <2>1, <2>2 DEF Canonical
<1>4. ~ FallBehind
  BY <1>1 DEF FallBehind, Finality
<1> QED
  BY <1>2, <1>3, <1>4

----------------------------------------------------------------------------
\* The invariant

OnChain == \A b \in blocks : Confirmed(Number(b)) /\ Canonical(Number(b)) = b

\* The rows of the canonical block at a height, all of them or of one kind.
RowsAt(n) == EventRows(Canonical(n), LogsOf(Canonical(n)))
RowsOfKind(n, kind) == {e \in RowsAt(n) : e.log.kind = kind}

InBatch == {"created_logs", "position_logs", "block", "commit"}

\* A run reads a head that was reached, its batch is confirmed, and it holds
\* every log of the blocks it has yet to commit.
Confined(call, r) ==
  /\ call \in {"checkpoint", "verify"} \cup InBatch => r.latest <= Number(head)
  /\ call \in InBatch => r.next <= r.end /\ r.end <= SafeHead(r)
  /\ call = "position_logs" =>
       \A n \in r.next .. r.end : RowsOfKind(n, "created") \subseteq r.logs
  /\ call \in {"block", "commit"} => \A n \in r.next .. r.end : RowsAt(n) \subseteq r.logs
  /\ call = "commit" => r.block = Canonical(r.next)

AllConfined == \A p \in Indexers : Confined(pc[p], run[p])

\* Only a process over a covered index gets past its startup.
BeforeCoverage == {"down", "failed", "preflight", "startup"}
AllCovered == \A p \in Indexers : pc[p] \notin BeforeCoverage => coverage = DeploymentBlock

FinalInv == ArchiveInv /\ OnChain /\ ArchiveComplete /\ AllConfined /\ AllCovered

\* The step takes p to a confined state, past its startup only when covered.
Confines(p) ==
  \E call \in Call, r \in RunState :
    /\ pc' = [pc EXCEPT ![p] = call]
    /\ run' = [run EXCEPT ![p] = r]
    /\ Confined(call, r)
    /\ call \notin BeforeCoverage =>
         pc[p] \notin BeforeCoverage \/ coverage' = DeploymentBlock

\* The batch of a confined run is confirmed.
LEMMA BatchConfirmed ==
  ASSUME head \in Block, NEW r \in RunState, r.latest <= Number(head),
         r.end <= SafeHead(r), NEW n \in Nat, n <= r.end
  PROVE  Confirmed(n) /\ HasCanonical(n)
<1>1. r.latest \in Nat /\ r.end \in Nat /\ Number(head) \in Nat /\ Confirmations \in Nat
  BY AncestryAssumption, IndexerAssumption DEF RunState
<1> QED
  BY <1>1 DEF Confirmed, HasCanonical, SafeHead

----------------------------------------------------------------------------
\* One lemma for each way a process moves

\* A run that fails holds nothing that has to be confirmed.
LEMMA FailConfines ==
  ASSUME NEW p \in Indexers, NEW how, Fail(p, how)
  PROVE  Confines(p)
  BY NewRunType DEF Fail, Confines, Confined, Call, InBatch, BeforeCoverage

\* Nor does a run that has ended.
LEMMA EndConfines ==
  ASSUME NEW p \in Indexers, NEW how, EndRun(p, how), pc[p] \notin BeforeCoverage
  PROVE  Confines(p)
  BY NewRunType DEF EndRun, Confines, Confined, Call, InBatch

\* A run that only moves on stays confined.
LEMMA GotoConfines ==
  ASSUME NEW p \in Indexers, NEW call \in Call, NEW r \in RunState, Goto(p, call, r),
         Confined(call, r), pc[p] \notin BeforeCoverage \/ coverage' = DeploymentBlock
  PROVE  Confines(p)
  BY DEF Goto, Confines

\* So does one that starts its second attempt or gives up.
LEMMA ReorganizedConfines ==
  ASSUME NEW p \in Indexers, Reorganized(p), pc[p] \notin BeforeCoverage
  PROVE  Confines(p)
<1>1. CASE Goto(p, "recover", [NewRun EXCEPT !.attempt = 2])
  BY <1>1, NewRunType, GotoConfines DEF Confined, Call, StoreCalls, InBatch
<1>2. CASE Fail(p, "RecoveryLimitExceeded")
  BY <1>2, FailConfines
<1> QED
  BY <1>1, <1>2 DEF Reorganized

\* A new batch ends at the safe head of the height the run has read.
LEMMA NextBatchConfines ==
  ASSUME NEW p \in Indexers, NEW r \in RunState, NextBatch(p, r),
         r.latest <= Number(head), pc[p] \notin BeforeCoverage
  PROVE  Confines(p)
<1> DEFINE b == [r EXCEPT !.end = Least(r.next + BatchSize - 1, SafeHead(r)),
                          !.logs = {}, !.block = NoBlock]
<1>1. CASE SafeHead(r) >= 0 /\ r.next <= SafeHead(r) /\ Goto(p, "created_logs", b)
  <2>1. /\ r.next \in Nat /\ r.latest \in Nat /\ SafeHead(r) \in Int
        /\ BatchSize \in Nat \ {0} /\ Confirmations \in Nat
    BY IndexerAssumption DEF RunState, SafeHead
  <2>2. /\ Least(r.next + BatchSize - 1, SafeHead(r)) \in Nat
        /\ r.next <= Least(r.next + BatchSize - 1, SafeHead(r))
        /\ Least(r.next + BatchSize - 1, SafeHead(r)) <= SafeHead(r)
    BY <1>1, <2>1 DEF Least
  <2>3. /\ b \in RunState /\ b.latest = r.latest /\ b.next = r.next
        /\ b.end = Least(r.next + BatchSize - 1, SafeHead(r))
    BY <2>2 DEF RunState
  <2>4. SafeHead(b) = SafeHead(r)
    BY <2>3 DEF SafeHead
  <2>5. Confined("created_logs", b)
    BY <2>2, <2>3, <2>4 DEF Confined, InBatch
  <2> QED
    BY <1>1, <2>3, <2>5, GotoConfines DEF Call, RpcCalls
<1>2. CASE EndRun(p, "ok")
  BY <1>2, EndConfines
<1> QED
  BY <1>1, <1>2 DEF NextBatch

\* Startup.
LEMMA StartupConfines ==
  ASSUME TypeOK, NEW p \in Indexers, Startup(p) \/ Poll(p) \/ CheckChainId(p)
  PROVE  Confines(p)
<1>1. run[p] \in RunState /\ run = [run EXCEPT ![p] = run[p]]
  BY DEF TypeOK
<1>2. CASE Launch(p)
  BY <1>1, <1>2 DEF Launch, Confines, Confined, Call, RpcCalls, InBatch, BeforeCoverage
<1>3. CASE Preflight(p)
  <2>1. CASE Goto(p, "startup", NewRun)
    BY <2>1, NewRunType DEF Goto, Confines, Confined, Call, StoreCalls, InBatch, BeforeCoverage
  <2> QED
    BY <1>3, <2>1, FailConfines DEF Preflight
<1>4. CASE StartupReindex(p)
  BY <1>4, NewRunType, GotoConfines
  DEF StartupReindex, FullReindex, Confined, Call, RpcCalls, InBatch
<1>5. CASE StartupCoverage(p)
  <2>1. CASE EnsurePositionCoverage /\ Goto(p, "chain_id", NewRun)
    BY <2>1, NewRunType, GotoConfines
    DEF EnsurePositionCoverage, Confined, Call, RpcCalls, InBatch
  <2> QED
    BY <1>5, <2>1, FailConfines DEF StartupCoverage
<1>6. CASE Poll(p)
  BY <1>1, <1>6 DEF Poll, Confines, Confined, Call, RpcCalls, InBatch, BeforeCoverage
<1>7. CASE CheckChainId(p)
  <2>1. CASE Goto(p, "latest", NewRun)
    BY <1>7, <2>1, NewRunType, GotoConfines
    DEF CheckChainId, Confined, Call, RpcCalls, InBatch, BeforeCoverage
  <2> QED
    BY <1>7, <2>1, FailConfines DEF CheckChainId
<1> QED
  BY <1>2, <1>3, <1>4, <1>5, <1>6, <1>7 DEF Startup

\* The reads before a batch.
LEMMA ReadsConfine ==
  ASSUME TypeOK, AllReady, AllConfined, NEW p \in Indexers,
         ReadLatest(p) \/ ReadCheckpoint(p) \/ VerifyCheckpoint(p)
  PROVE  Confines(p)
<1> DEFINE r == run[p]
<1>1. r \in RunState /\ Number(head) \in Nat /\ DeploymentBlock \in Nat
  BY AncestryAssumption, DeploymentAssumption DEF TypeOK
<1>2. CASE ReadLatest(p)
  <2>1. [r EXCEPT !.latest = Number(head)] \in RunState
    BY <1>1 DEF RunState
  <2>2. Confined("checkpoint", [r EXCEPT !.latest = Number(head)])
    BY <1>1 DEF Confined, InBatch, RunState
  <2> QED
    BY <1>2, <2>1, <2>2, GotoConfines DEF ReadLatest, Call, StoreCalls, BeforeCoverage
<1>3. CASE ReadCheckpoint(p)
  <2>1. r.latest <= Number(head) /\ pc[p] \notin BeforeCoverage
    BY <1>3 DEF ReadCheckpoint, AllConfined, Confined, BeforeCoverage
  <2>2. CASE NextBatch(p, [r EXCEPT !.next = DeploymentBlock])
    <3>1. [r EXCEPT !.next = DeploymentBlock] \in RunState
          /\ [r EXCEPT !.next = DeploymentBlock].latest = r.latest
      BY <1>1 DEF RunState
    <3> QED
      BY <2>1, <2>2, <3>1, NextBatchConfines
  <2>3. CASE checkpoint # NoBlock /\ Goto(p, "verify", [r EXCEPT !.cp = checkpoint])
    <3>1. [r EXCEPT !.cp = checkpoint] \in RunState
          /\ [r EXCEPT !.cp = checkpoint].latest = r.latest
      BY <1>1, <2>3 DEF RunState, TypeOK
    <3>2. Confined("verify", [r EXCEPT !.cp = checkpoint])
      BY <2>1, <3>1 DEF Confined, InBatch
    <3> QED
      BY <2>1, <2>3, <3>1, <3>2, GotoConfines DEF Call, RpcCalls
  <2> QED
    BY <1>3, <2>2, <2>3, FailConfines DEF ReadCheckpoint
<1>4. CASE VerifyCheckpoint(p)
  <2> DEFINE n == Number(r.cp)
             next == [r EXCEPT !.next = n + 1, !.parent = r.cp, !.cp = NoBlock]
  <2>1. r.latest <= Number(head) /\ pc[p] \notin BeforeCoverage
    BY <1>4 DEF VerifyCheckpoint, AllConfined, Confined, BeforeCoverage
  <2>2. r.cp \in Block /\ n \in Nat
    BY <1>4, AncestryAssumption DEF VerifyCheckpoint, AllReady, Ready
  <2>3. next \in RunState
    <3>1. n + 1 \in Nat /\ r.cp \in Block \cup {NoBlock} /\ {} \in SUBSET Row
      BY <2>2
    <3> QED
      BY <1>1, <3>1, CursorType
  <2>5. next.latest = r.latest
    BY <1>1 DEF RunState
  <2>4. CASE NextBatch(p, next)
    BY <2>1, <2>3, <2>4, <2>5, NextBatchConfines
  <2> QED
    BY <1>4, <2>1, <2>4, ReorganizedConfines, FailConfines DEF VerifyCheckpoint
<1> QED
  BY <1>2, <1>3, <1>4

\* The logs of a block are of the two kinds that are asked for.
LEMMA RowsByKind ==
  ASSUME head \in Block, NEW n \in Nat, HasCanonical(n)
  PROVE  RowsAt(n) \subseteq RowsOfKind(n, "created") \cup RowsOfKind(n, "position")
<1>1. Canonical(n) \in Block
  BY CanonicalBlock
<1> QED
  BY <1>1, LogAssumption DEF RowsAt, RowsOfKind, EventRows

\* eth_getLogs returns all logs of a kind of the blocks in its range.
LEMMA LogsComplete ==
  ASSUME NEW from \in Nat, NEW to \in Nat, NEW kind, NEW n \in from .. to, HasCanonical(n)
  PROVE  RowsOfKind(n, kind) \subseteq CanonicalLogs(from, to, kind)
<1> SUFFICES ASSUME NEW l \in LogsOf(Canonical(n)), l.kind = kind
             PROVE  [block |-> Canonical(n), log |-> l] \in CanonicalLogs(from, to, kind)
  BY DEF RowsOfKind, RowsAt, EventRows
<1>1. n \in {m \in from .. to : HasCanonical(m)}
  OBVIOUS
<1> QED
  BY <1>1 DEF CanonicalLogs

\* The two log queries of a batch.
LEMMA FetchLogsConfine ==
  ASSUME TypeOK, AllConfined, NEW p \in Indexers,
         FetchCreatedLogs(p) \/ FetchPositionLogs(p)
  PROVE  Confines(p)
<1> DEFINE r == run[p]
           created == CanonicalLogs(r.next, r.end, "created")
           position == CanonicalLogs(r.next, r.end, "position")
<1>1. /\ r \in RunState /\ r.logs \subseteq Row /\ r.next \in Nat /\ r.end \in Nat
      /\ head \in Block
  BY DEF TypeOK, RunState
<1>2. created \subseteq Row /\ position \subseteq Row
  BY <1>1, CanonicalLogsAreRows
<1>3. /\ r.latest <= Number(head) /\ r.next <= r.end /\ r.end <= SafeHead(r)
      /\ pc[p] \notin BeforeCoverage
  BY DEF FetchCreatedLogs, FetchPositionLogs, AllConfined, Confined, InBatch, BeforeCoverage
<1>4. \A n \in r.next .. r.end : n \in Nat /\ HasCanonical(n)
  BY <1>1, <1>3, BatchConfirmed
<1>5. ASSUME NEW logs \in SUBSET Row
      PROVE  /\ [r EXCEPT !.logs = logs] \in RunState
             /\ [r EXCEPT !.logs = logs].latest = r.latest
             /\ [r EXCEPT !.logs = logs].next = r.next
             /\ [r EXCEPT !.logs = logs].end = r.end
             /\ [r EXCEPT !.logs = logs].logs = logs
             /\ SafeHead([r EXCEPT !.logs = logs]) = SafeHead(r)
  BY <1>1, <1>5 DEF RunState, SafeHead
<1>6. CASE FetchCreatedLogs(p)
  <2>1. \A n \in r.next .. r.end : RowsOfKind(n, "created") \subseteq created
    BY <1>1, <1>4, LogsComplete
  <2>2. Confined("position_logs", [r EXCEPT !.logs = created])
    BY <1>2, <1>3, <1>5, <2>1 DEF Confined, InBatch
  <2> QED
    BY <1>2, <1>3, <1>5, <1>6, <2>2, GotoConfines DEF FetchCreatedLogs, Call, RpcCalls
<1>7. CASE FetchPositionLogs(p)
  <2>1. \A n \in r.next .. r.end : RowsOfKind(n, "created") \subseteq r.logs
    BY <1>7 DEF FetchPositionLogs, AllConfined, Confined
  <2>2. \A n \in r.next .. r.end : RowsOfKind(n, "position") \subseteq position
    BY <1>1, <1>4, LogsComplete
  <2>3. \A n \in r.next .. r.end : RowsAt(n) \subseteq r.logs \cup position
    BY <1>1, <1>4, <2>1, <2>2, RowsByKind
  <2>4. r.logs \cup position \in SUBSET Row
    BY <1>1, <1>2
  <2>5. Confined("block", [r EXCEPT !.logs = r.logs \cup position])
    BY <1>3, <1>5, <2>3, <2>4 DEF Confined, InBatch
  <2> QED
    BY <1>3, <1>5, <1>7, <2>4, <2>5, GotoConfines DEF FetchPositionLogs, Call, RpcCalls
<1> QED
  BY <1>6, <1>7

\* The block read is the confirmed one of its height.
LEMMA FetchBlockConfines ==
  ASSUME TypeOK, AllConfined, NEW p \in Indexers, FetchBlock(p)
  PROVE  Confines(p)
<1> DEFINE r == run[p]
           b == Canonical(r.next)
<1>1. r \in RunState /\ r.next \in Nat /\ head \in Block
  BY DEF TypeOK, RunState
<1>2. Confined("block", r) /\ pc[p] \notin BeforeCoverage
  BY DEF FetchBlock, AllConfined, BeforeCoverage
<1>3. CASE HasCanonical(r.next) /\ Goto(p, "commit", [r EXCEPT !.block = b])
  <2>1. b \in Block
    BY <1>1, <1>3, CanonicalBlock
  <2>2. /\ [r EXCEPT !.block = b] \in RunState
        /\ Confined("commit", [r EXCEPT !.block = b])
    BY <1>1, <1>2, <2>1 DEF Confined, InBatch, RunState, SafeHead
  <2> QED
    BY <1>2, <1>3, <2>2, GotoConfines DEF Call, StoreCalls
<1> QED
  BY <1>2, <1>3, EndConfines, ReorganizedConfines DEF FetchBlock

\* After a commit the rest of the batch is still confined.
LEMMA CommitConfines ==
  ASSUME TypeOK, AllConfined, NEW p \in Indexers, Commit(p)
  PROVE  Confines(p)
<1> DEFINE old == run[p]
           logs == old.logs \ BatchLogs(old, old.next)
           r == [old EXCEPT !.next = @ + 1, !.parent = old.block,
                            !.block = NoBlock, !.logs = logs]
<1>1. /\ old \in RunState /\ old.next \in Nat /\ old.end \in Nat /\ head \in Block
      /\ Number(head) \in Nat
  BY AncestryAssumption DEF TypeOK, RunState
<1>2. Confined("commit", old) /\ pc[p] \notin BeforeCoverage
  BY DEF Commit, AllConfined, BeforeCoverage
<1>3. r \in RunState
  <2>1. old.next + 1 \in Nat /\ old.block \in Block \cup {NoBlock} /\ logs \in SUBSET Row
    BY <1>1 DEF RunState
  <2> QED
    BY <1>1, <2>1, CursorType
<1>4. /\ r.latest = old.latest /\ r.next = old.next + 1 /\ r.end = old.end
      /\ r.logs = logs /\ SafeHead(r) = SafeHead(old)
  BY <1>1 DEF RunState, SafeHead
<1>5. CASE r.next <= r.end /\ Goto(p, "block", r)
  <2>1. ASSUME NEW n \in r.next .. r.end
        PROVE  RowsAt(n) \subseteq r.logs
    <3>1. n \in old.next .. old.end /\ n # old.next /\ n \in Nat
      BY <1>1, <1>4
    <3>2. HasCanonical(n)
      BY <1>1, <1>2, <3>1, BatchConfirmed DEF Confined, InBatch
    <3>3. \A e \in RowsAt(n) : Number(e.block) = n
      BY <1>1, <3>1, <3>2, CanonicalBlock DEF RowsAt, EventRows
    <3>4. RowsAt(n) \subseteq old.logs
      BY <1>2, <3>1 DEF Confined
    <3> QED
      BY <1>4, <3>1, <3>3, <3>4 DEF BatchLogs
  <2>2. Confined("block", r)
    BY <1>2, <1>4, <1>5, <2>1 DEF Confined, InBatch
  <2> QED
    BY <1>2, <1>3, <1>5, <2>2, GotoConfines DEF Call, RpcCalls
<1>6. CASE NextBatch(p, r)
  <2>1. r.latest <= Number(head)
    BY <1>2, <1>4 DEF Confined, InBatch
  <2> QED
    BY <1>2, <1>3, <1>6, <2>1, NextBatchConfines
<1>7. CASE \E e : Fail(p, e)
  BY <1>7, FailConfines
<1> QED
  BY <1>5, <1>6, <1>7 DEF Commit, AfterCommit

\* A recovery holds nothing that has to be confirmed.
LEMMA RecoveryConfines ==
  ASSUME TypeOK, NEW p \in Indexers, Recovery(p)
  PROVE  Confines(p)
<1>1. pc[p] \notin BeforeCoverage
  BY DEF Recovery, StartRecovery, ReadStoredHash, CompareCanonicalHash, Rollback,
         BeforeCoverage
<1>2. PICK call \in Call, r \in RunState :
        pc' = [pc EXCEPT ![p] = call] /\ run' = [run EXCEPT ![p] = r]
  BY RecoveryMoves DEF Moves
<1>3. pc'[p] \notin {"checkpoint", "verify"} \cup InBatch
  BY DEF Recovery, StartRecovery, ReadStoredHash, CompareCanonicalHash, Rollback,
         Goto, Fail, TypeOK, InBatch
<1>4. call \notin {"checkpoint", "verify"} \cup InBatch
  BY <1>2, <1>3 DEF TypeOK
<1> QED
  BY <1>1, <1>2, <1>4 DEF Confines, Confined, InBatch

\* A failed call or a crash ends the run.
LEMMA FaultConfines ==
  ASSUME NEW p \in Indexers, Fault(p)
  PROVE  Confines(p)
<1>1. CASE RpcFails(p)
  BY <1>1, FailConfines, EndConfines DEF RpcFails, RpcCalls, BeforeCoverage
<1>2. CASE Crash(p)
  BY <1>2, NewRunType DEF Crash, Confines, Confined, Call, InBatch, BeforeCoverage
<1> QED
  BY <1>1, <1>2 DEF Fault

\* Every step of a process keeps it confined.
LEMMA StepConfines ==
  ASSUME TypeOK, AllReady, AllConfined, NEW p \in Indexers, Step(p) \/ Fault(p)
  PROVE  Confines(p)
<1>1. CASE CatchUp(p)
  BY <1>1, StartupConfines, ReadsConfine, FetchLogsConfine, FetchBlockConfines,
     CommitConfines DEF CatchUp
<1> QED
  BY <1>1, StartupConfines, RecoveryConfines, FaultConfines DEF Step

----------------------------------------------------------------------------
\* The tables

\* The blocks a step stores are confirmed ones of the chain.
StoresConfirmed ==
  \A b \in blocks' \ blocks : Confirmed(Number(b)) /\ Canonical(Number(b)) = b

\* A run that commits holds the confirmed block and all its logs.
LEMMA CommitHolds ==
  ASSUME TypeOK, AllReady, AllConfined, NEW p \in Indexers, pc[p] = "commit"
  PROVE  /\ run[p].block \in Block /\ Number(run[p].block) = run[p].next
         /\ run[p].block = Canonical(run[p].next)
         /\ Confirmed(run[p].next) /\ HasCanonical(run[p].next)
         /\ LogsOf(run[p].block) \subseteq Records(run[p])
<1> DEFINE r == run[p]
           b == r.block
<1>1. /\ r \in RunState /\ r.next \in Nat /\ head \in Block /\ b \in Block
      /\ Number(b) = r.next
  BY DEF TypeOK, RunState, AllReady, Ready
<1>2. Confined("commit", r)
  BY DEF AllConfined
<1>3. /\ b = Canonical(r.next) /\ RowsAt(r.next) \subseteq r.logs
      /\ Confirmed(r.next) /\ HasCanonical(r.next)
  <2>1. r.next \in r.next .. r.end
    BY <1>1, <1>2 DEF Confined, InBatch, RunState
  <2> QED
    BY <1>1, <1>2, <2>1, BatchConfirmed DEF Confined, InBatch
<1>4. ASSUME NEW l \in LogsOf(b)
      PROVE  l \in Records(r)
  <2> DEFINE e == [block |-> b, log |-> l]
  <2>1. e \in r.logs
    BY <1>3, <1>4 DEF RowsAt, EventRows
  <2>2. e \in BatchLogs(r, r.next) /\ e.log = l
    BY <1>1, <2>1 DEF BatchLogs
  <2> QED
    BY <2>2 DEF Records
<1> QED
  BY <1>1, <1>3, <1>4

\* A commit adds a confirmed block of the chain with all its logs.
LEMMA CommitTables ==
  ASSUME TypeOK, AllReady, AllConfined, ArchiveComplete, NEW p \in Indexers,
         pc[p] = "commit", CommitBlock(run[p].block, Records(run[p]))
  PROVE  ArchiveComplete' /\ StoresConfirmed
<1> DEFINE b == run[p].block
<1>1. /\ b = Canonical(Number(b)) /\ Confirmed(Number(b))
      /\ LogsOf(b) \subseteq Records(run[p])
  BY CommitHolds
<1>2. blocks' = blocks \cup {b} /\ events \subseteq events' /\ coverage' = coverage
      /\ EventRows(b, Records(run[p])) \subseteq events'
  BY DEF CommitBlock
<1>3. \A l \in LogsOf(b) : [block |-> b, log |-> l] \in events'
  BY <1>1, <1>2 DEF EventRows
<1> QED
  BY <1>1, <1>2, <1>3 DEF StoresConfirmed, ArchiveComplete

\* A rollback keeps the events of the blocks it keeps.
LEMMA RollbackTables ==
  ASSUME ArchiveComplete, NEW a, RollbackToAncestor(a)
  PROVE  ArchiveComplete' /\ StoresConfirmed
<1>1. /\ blocks' = {b \in blocks : Number(b) <= Number(a)}
      /\ events' = {e \in events : Number(e.block) <= Number(a)}
      /\ coverage' = coverage
  BY DEF RollbackToAncestor, RetainedEvents
<1> QED
  BY <1>1 DEF ArchiveComplete, StoresConfirmed

\* The marker is set over an index that is empty, or complete already.
LEMMA StartupTables ==
  ASSUME ArchiveComplete, FullReindex \/ EnsurePositionCoverage
  PROVE  ArchiveComplete' /\ StoresConfirmed /\ coverage' = DeploymentBlock
<1>1. CASE FullReindex
  BY <1>1 DEF FullReindex, ArchiveComplete, StoresConfirmed
<1>2. CASE EnsurePositionCoverage
  <2>1. coverage = DeploymentBlock \/ blocks = {}
    BY <1>2 DEF EnsurePositionCoverage, CoverageRefused
  <2> QED
    BY <1>2, <2>1 DEF EnsurePositionCoverage, ArchiveComplete, StoresConfirmed
<1> QED
  BY <1>1, <1>2

\* What the tables promise depends on the store alone.
LEMMA TablesUnchanged ==
  ASSUME ArchiveComplete, UNCHANGED storeVars
  PROVE  ArchiveComplete' /\ StoresConfirmed
  BY DEF ArchiveComplete, StoresConfirmed, storeVars

\* A step of a process, and that it never withdraws the marker.
LEMMA StepTables ==
  ASSUME TypeOK, AllReady, AllConfined, ArchiveComplete, NEW p \in Indexers,
         Step(p) \/ Fault(p)
  PROVE  /\ ArchiveComplete' /\ StoresConfirmed /\ head' = head
         /\ coverage = DeploymentBlock => coverage' = DeploymentBlock
<1>0. CASE UNCHANGED <<head, storeVars>>
  BY <1>0, TablesUnchanged DEF storeVars
<1>1. CASE Startup(p) \/ Poll(p)
  <2>1. CASE StartupReindex(p)
    BY <2>1, StartupTables DEF StartupReindex
  <2>2. CASE StartupCoverage(p)
    BY <1>0, <2>2, StartupTables DEF StartupCoverage
  <2> QED
    BY <1>0, <1>1, <2>1, <2>2 DEF Startup, Launch, Preflight, Poll
<1>2. CASE CatchUp(p)
  <2>1. CASE Commit(p)
    <3>1. CASE CommitBlock(run[p].block, Records(run[p]))
      BY <2>1, <3>1, CommitTables DEF Commit, CommitBlock
    <3> QED
      BY <1>0, <2>1, <3>1 DEF Commit
  <2> QED
    BY <1>0, <1>2, <2>1
    DEF CatchUp, CheckChainId, ReadLatest, ReadCheckpoint, VerifyCheckpoint,
        FetchCreatedLogs, FetchPositionLogs, FetchBlock
<1>3. CASE Recovery(p)
  <2>1. CASE Rollback(p)
    <3>1. CASE RollbackToAncestor(run[p].block)
      BY <2>1, <3>1, RollbackTables DEF Rollback, RollbackToAncestor
    <3> QED
      BY <1>0, <2>1, <3>1 DEF Rollback
  <2> QED
    BY <1>0, <1>3, <2>1
    DEF Recovery, StartRecovery, ReadStoredHash, CompareCanonicalHash
<1>4. CASE Fault(p)
  BY <1>0, <1>4 DEF Fault, RpcFails, Crash
<1> QED
  BY <1>1, <1>2, <1>3, <1>4 DEF Step

----------------------------------------------------------------------------
\* Induction

\* A head that keeps what is confirmed under it keeps the runs confined.
LEMMA HeadConfines ==
  ASSUME TypeOK, AllConfined, head' \in Block, Number(head) <= Number(head'),
         \A n : Confirmed(n) => Canonical(n)' = Canonical(n), UNCHANGED processVars
  PROVE  AllConfined'
<1>1. head \in Block /\ Number(head) \in Nat /\ Number(head') \in Nat
  BY AncestryAssumption DEF TypeOK
<1>2. ASSUME NEW p \in Indexers
      PROVE  Confined(pc[p], run[p])'
  <2> DEFINE r == run[p]
  <2>1. /\ r \in RunState /\ r' = r /\ pc'[p] = pc[p] /\ Confined(pc[p], r)
        /\ r.latest \in Nat /\ r.next \in Nat /\ r.end \in Nat
    BY DEF TypeOK, RunState, AllConfined, processVars
  <2>2. pc[p] \in {"checkpoint", "verify"} \cup InBatch => r.latest <= Number(head')
    BY <1>1, <2>1 DEF Confined
  <2>3. ASSUME pc[p] \in InBatch, NEW n \in r.next .. r.end
        PROVE  Canonical(n)' = Canonical(n)
    <3>1. n \in Nat /\ n <= r.end /\ r.latest <= Number(head) /\ r.end <= SafeHead(r)
      BY <2>1, <2>3 DEF Confined
    <3>2. Confirmed(n)
      BY <1>1, <2>1, <3>1, BatchConfirmed
    <3> QED
      BY <3>2
  <2>4. pc[p] \in InBatch => r.next \in r.next .. r.end
    BY <2>1 DEF Confined
  <2>5. pc[p] = "position_logs" =>
          \A n \in r.next .. r.end : RowsOfKind(n, "created")' \subseteq r.logs
    BY <2>1, <2>3 DEF Confined, RowsOfKind, RowsAt, EventRows, InBatch
  <2>6. pc[p] \in {"block", "commit"} =>
          \A n \in r.next .. r.end : RowsAt(n)' \subseteq r.logs
    BY <2>1, <2>3 DEF Confined, RowsAt, EventRows, InBatch
  <2>7. pc[p] = "commit" => r.block = Canonical(r.next)'
    BY <2>1, <2>3, <2>4 DEF Confined, InBatch
  <2> QED
    BY <2>1, <2>2, <2>5, <2>6, <2>7 DEF Confined, SafeHead, Canonical, RowsAt, RowsOfKind
<1> QED
  BY <1>2 DEF AllConfined

\* The head moves, and confirmed blocks stay under it.
LEMMA HeadStep ==
  ASSUME Finality, FinalInv, Extend \/ Reorganize \/ FallBehind,
         UNCHANGED <<storeVars, processVars>>
  PROVE  OnChain' /\ ArchiveComplete' /\ AllConfined' /\ AllCovered'
<1>1. /\ head \in Block /\ TypeOK
      /\ OnChain /\ ArchiveComplete /\ AllConfined /\ AllCovered
  BY DEF FinalInv, ArchiveInv, TypeOK
<1>2. /\ head' \in Block /\ Number(head) <= Number(head')
      /\ \A n : Confirmed(n) => Canonical(n)' = Canonical(n)
  BY <1>1, HeadKeepsConfirmed
<1>3. Number(head) \in Nat /\ Number(head') \in Nat /\ Confirmations \in Nat
  BY <1>1, <1>2, AncestryAssumption, IndexerAssumption
<1>4. \A n : Confirmed(n) => Confirmed(n)'
  BY <1>2, <1>3 DEF Confirmed
<1>5. OnChain' /\ ArchiveComplete'
  BY <1>1, <1>2, <1>4 DEF OnChain, ArchiveComplete, storeVars, Canonical, Confirmed
<1>6. AllConfined'
  BY <1>1, <1>2, HeadConfines
<1>7. AllCovered'
  BY <1>1 DEF AllCovered, storeVars, processVars
<1> QED
  BY <1>5, <1>6, <1>7

\* One process moves; the others are where they were.
LEMMA ConfinesAll ==
  ASSUME TypeOK, AllConfined, AllCovered, head' = head,
         coverage = DeploymentBlock => coverage' = DeploymentBlock,
         NEW p \in Indexers, Confines(p)
  PROVE  AllConfined' /\ AllCovered'
<1>1. PICK call \in Call, r \in RunState :
        /\ pc' = [pc EXCEPT ![p] = call]
        /\ run' = [run EXCEPT ![p] = r]
        /\ Confined(call, r)
        /\ call \notin BeforeCoverage =>
             pc[p] \notin BeforeCoverage \/ coverage' = DeploymentBlock
  BY DEF Confines
<1>2. ASSUME NEW q \in Indexers
      PROVE  /\ Confined(pc[q], run[q])'
             /\ (pc[q] \notin BeforeCoverage => coverage = DeploymentBlock)'
  <2>1. CASE q = p
    <3>1. pc'[q] = call /\ run'[q] = r
      BY <1>1, <2>1 DEF TypeOK
    <3>2. Confined(pc[q], run[q])'
      BY <1>1, <3>1 DEF Confined, RowsAt, RowsOfKind, Canonical
    <3> QED
      BY <1>1, <2>1, <3>1, <3>2 DEF AllCovered
  <2>2. CASE q # p
    <3>1. pc'[q] = pc[q] /\ run'[q] = run[q]
      BY <1>1, <2>2 DEF TypeOK
    <3>2. Confined(pc[q], run[q])'
      BY <3>1 DEF AllConfined, Confined, RowsAt, RowsOfKind, Canonical
    <3> QED
      BY <3>1, <3>2 DEF AllCovered
  <2> QED
    BY <2>1, <2>2
<1> QED
  BY <1>2 DEF AllConfined, AllCovered

\* A step of one process.
LEMMA ProcessStep ==
  ASSUME FinalInv, NEW p \in Indexers, Step(p) \/ Fault(p)
  PROVE  OnChain' /\ ArchiveComplete' /\ AllConfined' /\ AllCovered'
<1>1. TypeOK /\ AllReady /\ OnChain /\ ArchiveComplete /\ AllConfined /\ AllCovered
  BY DEF FinalInv, ArchiveInv
<1>2. /\ ArchiveComplete' /\ StoresConfirmed /\ head' = head
      /\ coverage = DeploymentBlock => coverage' = DeploymentBlock
  BY <1>1, StepTables
<1>3. OnChain'
  BY <1>1, <1>2 DEF OnChain, StoresConfirmed, Confirmed, Canonical
<1> QED
  BY <1>1, <1>2, <1>3, StepConfines, ConfinesAll

\* The invariant holds initially.
LEMMA FinalInit == Init => FinalInv
<1> SUFFICES ASSUME Init PROVE FinalInv
  OBVIOUS
<1>1. AllConfined /\ AllCovered
  BY DEF Init, AllConfined, Confined, InBatch, AllCovered, BeforeCoverage
<1>2. EmptyStore => OnChain /\ ArchiveComplete
  BY DEF EmptyStore, OnChain, ArchiveComplete
<1>3. ASSUME NEW b \in LegacyHeads, IsAncestor(b, head), LegacyStore(b),
             Number(b) <= Number(head) - Confirmations
      PROVE  OnChain /\ ArchiveComplete
  <2>1. /\ b \in Block /\ head \in Block /\ DeploymentBlock \in Nat /\ Confirmations \in Nat
        /\ Number(b) \in Nat /\ Number(head) \in Nat
    BY AncestryAssumption, DeploymentAssumption, IndexerAssumption DEF Init
  <2>2. ASSUME NEW n \in DeploymentBlock .. Number(b)
        PROVE  /\ Number(AncestorAt(b, n)) = n /\ Confirmed(n)
               /\ Canonical(n) = AncestorAt(b, n)
    <3>1. n \in 0 .. Number(b) /\ Number(b) \in 0 .. Number(head)
      BY <1>3, <2>1
    <3>2. b = AncestorAt(head, Number(b))
      BY <1>3 DEF IsAncestor
    <3>3. AncestorAt(AncestorAt(head, Number(b)), n) = AncestorAt(head, n)
      BY <2>1, <3>1, AncestryAssumption
    <3> QED
      BY <1>3, <2>1, <3>1, <3>2, <3>3, AncestryAssumption DEF Confirmed, Canonical
  <2>3. blocks = {AncestorAt(b, n) : n \in DeploymentBlock .. Number(b)}
        /\ coverage # DeploymentBlock
    BY <1>3, <2>1 DEF LegacyStore, Branch, NoCoverage
  <2> QED
    BY <2>2, <2>3 DEF OnChain, ArchiveComplete
<1> QED
  BY <1>1, <1>2, <1>3, ArchiveInit DEF Init, FinalInv

\* Every step keeps it when confirmed blocks are final.
LEMMA FinalStep ==
  ASSUME Finality
  PROVE  FinalInv /\ [Next]_vars => FinalInv'
<1> SUFFICES ASSUME FinalInv, [Next]_vars PROVE FinalInv'
  OBVIOUS
<1>1. ArchiveInv'
  BY ArchiveStep DEF FinalInv
<1>2. CASE \E p \in Indexers : Step(p) \/ Fault(p)
  BY <1>1, <1>2, ProcessStep DEF FinalInv
<1>3. CASE Mine \/ Reorg
  BY <1>1, <1>3, HeadStep DEF Mine, Reorg, FinalInv
<1>4. CASE UNCHANGED vars
  <2>1. UNCHANGED <<head, storeVars, pc, run>>
    BY <1>4 DEF vars, processVars
  <2>2. OnChain' /\ ArchiveComplete'
    BY <2>1 DEF FinalInv, OnChain, ArchiveComplete, Confirmed, Canonical, storeVars
  <2>3. AllConfined' /\ AllCovered'
    BY <2>1 DEF FinalInv, AllConfined, Confined, RowsAt, RowsOfKind, Canonical,
                AllCovered, storeVars
  <2> QED
    BY <1>1, <2>2, <2>3 DEF FinalInv
<1> QED
  BY <1>2, <1>3, <1>4 DEF Next

----------------------------------------------------------------------------
\* When confirmed blocks are final, every stored block is on the canonical
\* chain at every moment, however many indexers share the database, whenever
\* they read, crash, recover or reindex.
THEOREM Canonicity ==
  ASSUME Finality
  PROVE  Spec => []IndexIsCanonical
<1>1. FinalInv => IndexIsCanonical
  <2> SUFFICES ASSUME FinalInv, NEW b \in blocks
               PROVE  HasCanonical(Number(b)) /\ Canonical(Number(b)) = b
    BY DEF IndexIsCanonical
  <2>1. Number(head) \in Nat /\ Confirmations \in Nat
    BY AncestryAssumption, IndexerAssumption DEF FinalInv, ArchiveInv, TypeOK
  <2> QED
    BY <2>1 DEF FinalInv, OnChain, Confirmed, HasCanonical
<1> QED
  BY <1>1, FinalInit, FinalStep, PTL DEF Spec

\* In the same generality: an index with a coverage marker holds every log of
\* every stored block, although logs and blocks are read at different times.
THEOREM Completeness ==
  ASSUME Finality
  PROVE  Spec => []ArchiveComplete
<1>1. FinalInv => ArchiveComplete
  BY DEF FinalInv
<1> QED
  BY <1>1, FinalInit, FinalStep, PTL DEF Spec

----------------------------------------------------------------------------
\* The tables are what the archive says.

\* The property is about the tables and the archive of the store.
LEMMA ReplaySays == ProjectionIsReplay <=> Says(Tables, events)
<1>1. Positions = PositionsIn(events)
  BY DEF Positions, PositionsIn
<1>2. ASSUME NEW k \in {<<f.log.market, f.log.user>> : f \in Positions}, NEW o
      PROVE  StakeIn(events, k, o) = StakeAfter(k[1], k[2], o)
  <2>1. PICK g \in Positions : k = <<g.log.market, g.log.user>>
    OBVIOUS
  <2>2. OfSide(events, k, o) = {e \in Positions : /\ e.log.market = k[1]
                                                 /\ e.log.user = k[2]
                                                 /\ e.log.outcome = o}
    BY <1>1, <2>1 DEF OfSide, OfUser
  <2> QED
    BY <2>2 DEF StakeIn, StakeAfter
<1>3. \A m : StateIn(events, m) =
        LET e == LatestOf({f \in Positions : f.log.market = m})
        IN  [market |-> m, yes |-> e.log.yesPool, no |-> e.log.noPool,
             at |-> Number(e.block)]
  BY <1>1 DEF StateIn, OfMarket
<1>4. StatesSaid(events) =
       {LET e == LatestOf({f \in Positions : f.log.market = m})
        IN  [market |-> m, yes |-> e.log.yesPool, no |-> e.log.noPool,
             at |-> Number(e.block)] :
        m \in {f.log.market : f \in Positions}}
  BY <1>1, <1>3 DEF StatesSaid
<1>5. ASSUME NEW k \in {<<f.log.market, f.log.user>> : f \in Positions}
      PROVE  UserIn(events, k) =
               LET e == LatestOf({f \in Positions : <<f.log.market, f.log.user>> = k})
               IN  [market |-> k[1], user |-> k[2],
                    yes |-> StakeAfter(k[1], k[2], "yes"),
                    no |-> StakeAfter(k[1], k[2], "no"), at |-> Number(e.block)]
  BY <1>1, <1>2 DEF UserIn, OfUser
<1>6. UsersSaid(events) =
       {LET e == LatestOf({f \in Positions : <<f.log.market, f.log.user>> = k})
        IN  [market |-> k[1], user |-> k[2],
             yes |-> StakeAfter(k[1], k[2], "yes"),
             no |-> StakeAfter(k[1], k[2], "no"), at |-> Number(e.block)] :
        k \in {<<f.log.market, f.log.user>> : f \in Positions}}
  BY <1>1, <1>5 DEF UsersSaid
<1>7. MarketsSaid(events) = {MarketRow(e) : e \in events \ Positions}
  BY <1>1 DEF MarketsSaid
<1> QED
  BY <1>4, <1>6, <1>7 DEF ProjectionIsReplay, Says, Tables

\* A block has finitely many rows, and their order is EVM order.
LEMMA RowsFinite ==
  ASSUME NEW b \in Block, NEW logs \in SUBSET LogsOf(b)
  PROVE  IsFiniteSet(EventRows(b, logs))
<1> DEFINE f == [l \in logs |-> [block |-> b, log |-> l]]
           R == EventRows(b, logs)
<1>1. IsFiniteSet(logs)
  BY LogAssumption, FS_Subset
<1>2. f \in [logs -> R] /\ \A e \in R : \E l \in logs : f[l] = e
  BY DEF EventRows
<1> HIDE DEF f
<1> QED
  BY <1>1, <1>2, ImageFinite

\* So have the blocks of a branch.
LEMMA BranchFinite ==
  ASSUME NEW b \in Block
  PROVE  IsFiniteSet(Branch(b))
<1> DEFINE I == DeploymentBlock .. Number(b)
           f == [n \in I |-> AncestorAt(b, n)]
<1>1. IsFiniteSet(I)
  BY FS_Interval, AncestryAssumption, DeploymentAssumption
<1>2. f \in [I -> Branch(b)] /\ \A c \in Branch(b) : \E n \in I : f[n] = c
  BY DEF Branch
<1> HIDE DEF f, I
<1> QED
  BY <1>1, <1>2, ImageFinite

\* A legacy store is finite.
LEMMA LegacyFinite ==
  ASSUME NEW b \in Block, LegacyStore(b)
  PROVE  IsFiniteSet(events)
<1> DEFINE Created(c) == {k \in LogsOf(c) : k.kind = "created"}
           f == [c \in Branch(b) |-> EventRows(c, Created(c))]
           T == {f[c] : c \in Branch(b)}
<1>1. Branch(b) \subseteq Block
  BY BranchOfBlocks
<1>2. \A c \in Branch(b) : IsFiniteSet(EventRows(c, Created(c)))
  BY <1>1, RowsFinite
<1>3. f \in [Branch(b) -> T] /\ \A y \in T : \E c \in Branch(b) : f[c] = y
  OBVIOUS
<1>4. \A y \in T : IsFiniteSet(y)
  BY <1>2
<1>5. events = UNION T
  BY DEF LegacyStore, EventRows
<1> HIDE DEF f, T
<1>6. IsFiniteSet(T)
  BY <1>3, BranchFinite, ImageFinite
<1> QED
  BY <1>4, <1>5, <1>6, FS_UNION

----------------------------------------------------------------------------
\* The invariant

\* Of the positions of a block, a set of rows has all or none.
WholePositions(E) ==
  \A e \in E : e.log.kind = "position" =>
    \A l \in LogsOf(e.block) :
      l.kind = "position" => [block |-> e.block, log |-> l] \in E

\* One block per height, from deployment to the checkpoint; what the tables
\* say, over an archive that has whole blocks of positions.
TablesInv ==
  /\ \A b, c \in blocks : Number(b) = Number(c) => b = c
  /\ \A b \in blocks : /\ Number(b) >= DeploymentBlock
                       /\ checkpoint # NoBlock /\ Number(b) <= Number(checkpoint)
  /\ IsFiniteSet(events)
  /\ WholePositions(events)
  /\ Says(Tables, events)

\* What each call of a run has fetched: heights from deployment on, and
\* whole blocks of positions.
Fetched(call, r) ==
  /\ call = "verify" => Number(r.cp) >= DeploymentBlock
  /\ call \in {"created_logs", "position_logs", "block", "commit"} =>
       r.next >= DeploymentBlock
  /\ call = "position_logs" => \A e \in r.logs : e.log.kind = "created"
  /\ call \in {"block", "commit"} => WholePositions(r.logs)

ReplayInv == TablesInv /\ \A p \in Indexers : Fetched(pc[p], run[p])

\* The tables of the store, without the coverage marker.
indexVars == <<blocks, events, markets, states, positions, checkpoint>>

\* The archived rows are in EVM order.
LEMMA ArchiveChronicle ==
  ASSUME TypeOK, ArchiveSound, TablesInv
  PROVE  Chronicle(events)
<1>1. \A e \in events : e \in Row /\ e.block \in blocks
  BY DEF TypeOK, ArchiveSound
<1>2. \A e \in events : /\ e.block \in Block /\ e.log \in LogsOf(e.block)
                        /\ e = [block |-> e.block, log |-> e.log]
  BY <1>1, RowFields
<1>3. \A e \in events : Number(e.block) \in Nat /\ e.log.ix \in Nat
  BY <1>2, AncestryAssumption, LogAssumption
<1>4. ASSUME NEW e \in events, NEW f \in events, e # f
      PROVE  Precedes(e, f) \/ Precedes(f, e)
  <2>1. CASE Number(e.block) # Number(f.block)
    BY <1>3, <2>1 DEF Precedes
  <2>2. CASE Number(e.block) = Number(f.block)
    <3>1. e.block = f.block
      BY <1>1, <2>2 DEF TablesInv
    <3>2. e.log.ix # f.log.ix
      BY <1>2, <1>4, <3>1, LogAssumption
    <3> QED
      BY <1>3, <2>2, <3>2 DEF Precedes
  <2> QED
    BY <2>1, <2>2
<1> QED
  BY <1>3, <1>4 DEF Chronicle

\* A row is of a creation or of a position.
LEMMA RowKinds ==
  ASSUME NEW e \in Row
  PROVE  e.log.kind \in {"created", "position"}
  BY RowFields, LogAssumption

\* The tables of the first start.
LEMMA InitTables == Init => TablesInv
<1> SUFFICES ASSUME Init PROVE TablesInv
  OBVIOUS
<1>1. CASE EmptyStore
  <2>1. MarketsSaid({}) = {} /\ StatesSaid({}) = {} /\ UsersSaid({}) = {}
    BY DEF MarketsSaid, StatesSaid, UsersSaid, PositionsIn
  <2>2. Says(Tables, events)
    BY <1>1, <2>1 DEF EmptyStore, Says, Tables
  <2> QED
    BY <1>1, <2>2, FS_EmptySet DEF EmptyStore, TablesInv, WholePositions
<1>2. ASSUME NEW b \in LegacyHeads, LegacyStore(b)
      PROVE  TablesInv
  <2>1. b \in Block /\ b # NoBlock /\ checkpoint = b /\ blocks = Branch(b)
    BY <1>2, DeploymentAssumption, NoBlockAssumption DEF LegacyStore
  <2>2. \A n \in DeploymentBlock .. Number(b) : n \in 0 .. Number(b)
    BY DeploymentAssumption
  <2>3. \A c \in blocks : /\ Number(c) \in DeploymentBlock .. Number(b)
                          /\ c = AncestorAt(b, Number(c))
    BY <2>1, <2>2, AncestryAssumption DEF Branch
  <2>4. \A e \in events : e.log.kind = "created"
    BY <1>2 DEF LegacyStore
  <2>5. PositionsIn(events) = {}
    BY <2>4 DEF PositionsIn
  <2>6. Says(Tables, events)
    BY <1>2, <2>5 DEF LegacyStore, Says, Tables, MarketsSaid, StatesSaid, UsersSaid
  <2>7. WholePositions(events)
    BY <2>4 DEF WholePositions
  <2>8. \A c, d \in blocks : Number(c) = Number(d) => c = d
    BY <2>3
  <2>9. \A c \in blocks : Number(c) >= DeploymentBlock /\ Number(c) <= Number(checkpoint)
    BY <2>1, <2>3, DeploymentAssumption, AncestryAssumption
  <2> QED
    BY <1>2, <2>1, <2>6, <2>7, <2>8, <2>9, LegacyFinite DEF TablesInv
<1> QED
  BY <1>1, <1>2 DEF Init

----------------------------------------------------------------------------
\* The transactions

\* The rows of a commit are those fetched for the height of its block.
LEMMA CommitRows ==
  ASSUME TypeOK, AllReady, NEW p \in Indexers, pc[p] = "commit"
  PROVE  /\ run[p].block \in Block /\ Number(run[p].block) = run[p].next
         /\ run[p] \in RunState /\ run[p].next \in Nat
         /\ Records(run[p]) \in SUBSET LogsOf(run[p].block)
         /\ EventRows(run[p].block, Records(run[p])) = BatchLogs(run[p], run[p].next)
         /\ \A e \in BatchLogs(run[p], run[p].next) : e \in Row /\ e.block = run[p].block
<1> DEFINE r == run[p]
<1>1. r \in RunState /\ r.block \in Block /\ Number(r.block) = r.next /\ LogsMatch(r, r.block)
  BY DEF TypeOK, AllReady, Ready
<1>2. \A e \in BatchLogs(r, r.next) : e \in Row /\ e.block = r.block
  BY <1>1 DEF RunState, BatchLogs, LogsMatch
<1>3. \A e \in BatchLogs(r, r.next) :
        e = [block |-> r.block, log |-> e.log] /\ e.log \in LogsOf(r.block)
  BY <1>2, RowFields
<1>4. EventRows(r.block, Records(r)) = BatchLogs(r, r.next)
  BY <1>3 DEF EventRows, Records
<1>5. Records(r) \in SUBSET LogsOf(r.block)
  BY <1>3 DEF Records
<1> QED
  BY <1>1, <1>2, <1>4, <1>5 DEF RunState

\* The tables a transaction starts from are without error.
LEMMA TablesAreTables == IsTables(Tables) /\ Tables.error = "none"
  BY DEF IsTables, Tables

\* The rows new to the archive can be applied in EVM order.
LEMMA NewRows ==
  ASSUME TypeOK, AllReady, NEW p \in Indexers, pc[p] = "commit",
         NEW new, new = EventRows(run[p].block, Records(run[p])) \ events
  PROVE  /\ Ordered(Tables, new)
         /\ \A e \in new : /\ e \in BatchLogs(run[p], run[p].next) \ events
                           /\ e \in Row /\ e.block = run[p].block
<1> DEFINE b == run[p].block
           R == BatchLogs(run[p], run[p].next)
<1>1. /\ b \in Block /\ Number(b) \in Nat
      /\ Records(run[p]) \in SUBSET LogsOf(b)
      /\ EventRows(b, Records(run[p])) = R
      /\ \A e \in R : e \in Row /\ e.block = b
  BY CommitRows, AncestryAssumption
<1>2. IsFiniteSet(new)
  <2>1. IsFiniteSet(EventRows(b, Records(run[p])))
    BY <1>1, RowsFinite
  <2> QED
    BY <2>1, FS_Subset
<1>3. \A e \in new : e \in Row /\ e.block = b /\ e.log.kind \in {"created", "position"}
  BY <1>1, RowKinds
<1>4. \A e \in new : /\ e.log \in LogsOf(b) /\ e = [block |-> b, log |-> e.log]
                     /\ Number(e.block) = Number(b) /\ e.log.ix \in Nat
  BY <1>1, <1>3, RowFields, LogAssumption
<1>5. Chronicle(new)
  <2>1. ASSUME NEW e \in new, NEW f \in new, e # f
        PROVE  Precedes(e, f) \/ Precedes(f, e)
    <3>1. e.log.ix # f.log.ix
      BY <1>1, <1>4, <2>1, LogAssumption
    <3> QED
      BY <1>4, <3>1 DEF Precedes
  <2> QED
    BY <1>1, <1>4, <2>1 DEF Chronicle
<1> QED
  BY <1>1, <1>2, <1>3, <1>5, TablesAreTables DEF Ordered

\* They come after what is archived, when the commit meets no other block at
\* its height and no checkpoint above it.
LEMMA NewRowsFollow ==
  ASSUME TypeOK, AllReady, ArchiveSound, TablesInv, NEW p \in Indexers, pc[p] = "commit",
         \A c \in StoredAt(Number(run[p].block)) : c = run[p].block,
         checkpoint # NoBlock => Number(checkpoint) <= Number(run[p].block),
         NEW new, new = EventRows(run[p].block, Records(run[p])) \ events
  PROVE  Applicable(Tables, events, new)
<1> DEFINE b == run[p].block
<1>1. b \in Block /\ Number(b) \in Nat /\ Ordered(Tables, new)
  BY CommitRows, NewRows, AncestryAssumption
<1>2. \A e \in new : e \in Row /\ e.block = b /\ e \notin events
  BY NewRows
<1>3. ASSUME NEW e \in PositionsIn(new), NEW f \in PositionsIn(events)
      PROVE  Earlier(f, e)
  <2>1. e \in new /\ e.log.kind = "position" /\ e \notin events /\ e.block = b
        /\ e.log \in LogsOf(b) /\ e = [block |-> b, log |-> e.log]
    BY <1>2, RowFields DEF PositionsIn
  <2>2. f \in events /\ f.log.kind = "position" /\ f.block \in blocks
    BY DEF PositionsIn, ArchiveSound
  <2>3. f.block \in Block /\ Number(f.block) \in Nat /\ Number(f.block) <= Number(checkpoint)
        /\ checkpoint \in Block /\ checkpoint # NoBlock
    BY <2>2, AncestryAssumption DEF TypeOK, TablesInv
  <2>4. Number(f.block) <= Number(b)
    BY <1>1, <2>3, AncestryAssumption
  <2>5. f.block # b
    BY <2>1, <2>2 DEF TablesInv, WholePositions
  <2>6. Number(f.block) # Number(b)
    BY <2>2, <2>5 DEF StoredAt
  <2> QED
    BY <1>1, <2>1, <2>3, <2>4, <2>6 DEF Earlier, Precedes
<1> QED
  BY <1>1, <1>3 DEF Applicable, TablesInv

\* commit_block projects exactly what it archives.
LEMMA CommitTablesInv ==
  ASSUME TypeOK, AllReady, ArchiveSound, TablesInv, NEW p \in Indexers, Commit(p),
         Fetched(pc[p], run[p]), CommitBlock(run[p].block, Records(run[p]))
  PROVE  TablesInv'
<1> DEFINE b == run[p].block
           R == EventRows(b, Records(run[p]))
           new == R \ events
<1>1. /\ b \in Block /\ Number(b) \in Nat /\ Number(b) = run[p].next
      /\ Records(run[p]) \in SUBSET LogsOf(b)
      /\ R = BatchLogs(run[p], run[p].next)
      /\ \A e \in R : e \in Row /\ e.block = b
  BY CommitRows, AncestryAssumption DEF Commit
<1>2. CommitErrors(b, Records(run[p])) = {}
  BY DEF CommitBlock
<1>3. /\ \A c \in StoredAt(Number(b)) : c = b
      /\ ApplyInOrder(Tables, new).error = "none"
      /\ checkpoint # NoBlock => ~ (Number(checkpoint) > Number(b))
  BY <1>2 DEF CommitErrors, Projected
<1>4. checkpoint # NoBlock => Number(checkpoint) \in Nat /\ Number(checkpoint) <= Number(b)
  BY <1>1, <1>3, AncestryAssumption DEF TypeOK
<1>5. /\ blocks' = blocks \cup {b} /\ checkpoint' = b
      /\ events' = events \cup R
      /\ markets' = ApplyInOrder(Tables, new).markets
      /\ states' = ApplyInOrder(Tables, new).states
      /\ positions' = ApplyInOrder(Tables, new).positions
  BY DEF CommitBlock, Projected
<1>6. /\ \A c, d \in blocks' : Number(c) = Number(d) => c = d
      /\ \A c \in blocks' : /\ Number(c) >= DeploymentBlock
                            /\ checkpoint' # NoBlock /\ Number(c) <= Number(checkpoint')
  <2>1. Number(b) >= DeploymentBlock /\ b # NoBlock
    BY <1>1, NoBlockAssumption DEF Fetched, Commit
  <2>2. \A c \in blocks : Number(c) \in Nat /\ Number(c) <= Number(b)
    BY <1>1, <1>4, AncestryAssumption DEF TypeOK, TablesInv
  <2>3. \A c \in blocks : Number(c) = Number(b) => c = b
    BY <1>3 DEF StoredAt
  <2> QED
    BY <1>1, <1>5, <2>1, <2>2, <2>3 DEF TablesInv
<1>7. Applicable(Tables, events, new)
  BY <1>3, <1>4, NewRowsFollow DEF Commit
<1>8. IsFiniteSet(events')
  <2>1. events' = events \cup new
    BY <1>5
  <2> QED
    BY <1>7, <2>1, FS_Union DEF TablesInv, Applicable, Ordered
<1>9. WholePositions(events')
  <2>1. WholePositions(run[p].logs)
    BY DEF Fetched, Commit
  <2>2. ASSUME NEW e \in R, e.log.kind = "position", NEW l \in LogsOf(b), l.kind = "position"
        PROVE  [block |-> b, log |-> l] \in R
    <3>1. e \in run[p].logs /\ e.block = b
      BY <1>1 DEF BatchLogs
    <3>2. [block |-> b, log |-> l] \in run[p].logs
      BY <2>1, <2>2, <3>1 DEF WholePositions
    <3> QED
      BY <1>1, <3>2 DEF BatchLogs
  <2>3. WholePositions(events) /\ \A e \in R : e.block = b
    BY <1>1 DEF TablesInv
  <2> HIDE DEF R, b
  <2> QED
    BY <1>5, <2>2, <2>3 DEF WholePositions
<1>10. Says(ApplyInOrder(Tables, new), events \cup new)
  <2> HIDE DEF new
  <2> QED
    BY <1>3, <1>7, AppliedInOrder
<1>11. Says(Tables, events)'
  <2>1. events' = events \cup new
    BY <1>5
  <2> HIDE DEF new
  <2> QED
    BY <1>5, <1>10, <2>1 DEF Says, Tables
<1> QED
  BY <1>6, <1>8, <1>9, <1>11 DEF TablesInv, WholePositions

\* A rollback replays the retained positions over the retained creations.
LEMMA ReplayApplies ==
  ASSUME TypeOK, ArchiveSound, TablesInv, NEW a
  PROVE  /\ Replayed(a) = ApplyInOrder(ReplayBase(a), ReplayRows(a))
         /\ Applicable(ReplayBase(a), Creations(a), ReplayRows(a))
         /\ Creations(a) \cup ReplayRows(a) = RetainedEvents(a)
<1>1. \A e \in events : /\ e.log.kind \in {"created", "position"}
                        /\ Number(e.block) >= DeploymentBlock
  BY RowKinds DEF TypeOK, ArchiveSound, TablesInv
<1>2. Says(Tables, events) /\ IsFiniteSet(events) /\ Chronicle(events)
  BY ArchiveChronicle DEF TablesInv
<1> QED
  BY <1>1, <1>2, RollbackReplays

\* What a rollback can be refused with.
LEMMA RollbackRejects ==
  ASSUME TypeOK, ArchiveSound, TablesInv, NEW a
  PROVE  RollbackErrors(a) \subseteq {"RollbackAncestorMissing",
                                      "RollbackAncestorHashMismatch"}
                                     \cup ProjectionErrors
<1>1. Replayed(a).error \in ProjectionErrors \cup {"none"}
  BY ReplayApplies, AppliedErrors DEF Applicable
<1> QED
  BY <1>1 DEF RollbackErrors

\* rollback_to_ancestor rebuilds what the retained archive says.
LEMMA RollbackTablesInv ==
  ASSUME TypeOK, ArchiveSound, TablesInv, NEW a, RollbackToAncestor(a)
  PROVE  TablesInv'
<1>1. /\ StoredAt(Number(a)) # {} /\ \A c \in StoredAt(Number(a)) : c = a
      /\ Replayed(a).error = "none"
  BY DEF RollbackToAncestor, RollbackErrors
<1>2. a \in blocks /\ a \in Block /\ a # NoBlock /\ Number(a) \in Nat
  BY <1>1, AncestryAssumption, NoBlockAssumption DEF StoredAt, TypeOK
<1>3. /\ blocks' = {b \in blocks : Number(b) <= Number(a)} /\ checkpoint' = a
      /\ events' = RetainedEvents(a)
      /\ markets' = Replayed(a).markets
      /\ states' = Replayed(a).states
      /\ positions' = Replayed(a).positions
  BY DEF RollbackToAncestor
<1>4. Says(Replayed(a), RetainedEvents(a))
  BY <1>1, ReplayApplies, AppliedInOrder
<1>5. Says(Tables, events)'
  BY <1>3, <1>4 DEF Says, Tables
<1>6. WholePositions(events') /\ IsFiniteSet(events')
  BY <1>3, FS_Subset DEF TablesInv, WholePositions, RetainedEvents
<1> QED
  BY <1>2, <1>3, <1>5, <1>6 DEF TablesInv, WholePositions

\* full_reindex empties every table.
LEMMA ReindexTablesInv ==
  ASSUME FullReindex
  PROVE  TablesInv'
<1>1. MarketsSaid({}) = {} /\ StatesSaid({}) = {} /\ UsersSaid({}) = {}
  BY DEF MarketsSaid, StatesSaid, UsersSaid, PositionsIn
<1>2. Says(Tables, events)'
  BY <1>1 DEF FullReindex, Says, Tables
<1> QED
  BY <1>2, FS_EmptySet DEF FullReindex, TablesInv, WholePositions

\* A step of a process that is none of these leaves the tables alone.
LEMMA OtherSteps ==
  ASSUME NEW p \in Indexers, Step(p) \/ Fault(p)
  PROVE  \/ StartupReindex(p)
         \/ Commit(p) /\ CommitBlock(run[p].block, Records(run[p]))
         \/ Rollback(p) /\ RollbackToAncestor(run[p].block)
         \/ UNCHANGED indexVars
<1>1. CASE Startup(p) \/ Poll(p)
  BY <1>1 DEF Startup, Poll, Launch, Preflight, StartupCoverage,
              EnsurePositionCoverage, storeVars, indexVars
<1>2. CASE CatchUp(p)
  BY <1>2 DEF CatchUp, CheckChainId, ReadLatest, ReadCheckpoint, VerifyCheckpoint,
              FetchCreatedLogs, FetchPositionLogs, FetchBlock, Commit, storeVars, indexVars
<1>3. CASE Recovery(p)
  BY <1>3 DEF Recovery, StartRecovery, ReadStoredHash, CompareCanonicalHash,
              Rollback, storeVars, indexVars
<1>4. CASE Fault(p)
  BY <1>4 DEF Fault, RpcFails, Crash, storeVars, indexVars
<1> QED
  BY <1>1, <1>2, <1>3, <1>4 DEF Step

\* A step that leaves the tables alone keeps the invariant.
LEMMA UnchangedTablesInv ==
  ASSUME TablesInv, UNCHANGED indexVars
  PROVE  TablesInv'
<1>1. Says(Tables, events)'
  BY DEF TablesInv, Says, Tables, indexVars
<1> QED
  BY <1>1 DEF TablesInv, WholePositions, indexVars

\* Every step of a process keeps it.
LEMMA ProcessTablesInv ==
  ASSUME ArchiveInv, ReplayInv, NEW p \in Indexers, Step(p) \/ Fault(p)
  PROVE  TablesInv'
<1>1. TypeOK /\ AllReady /\ ArchiveSound /\ TablesInv /\ Fetched(pc[p], run[p])
  BY DEF ArchiveInv, ReplayInv
<1> QED
  BY <1>1, OtherSteps, ReindexTablesInv, CommitTablesInv, RollbackTablesInv,
     UnchangedTablesInv DEF StartupReindex

----------------------------------------------------------------------------
\* The runs

\* The step leaves process p at a call with what the call needs.
FetchedMove(p) ==
  \E call, r : /\ pc' = [pc EXCEPT ![p] = call]
               /\ run' = [run EXCEPT ![p] = r]
               /\ Fetched(call, r)

\* A step of one process leaves the logs of the others alone.
LEMMA FetchedPreserved ==
  ASSUME TypeOK, NEW p \in Indexers, FetchedMove(p),
         \A q \in Indexers : Fetched(pc[q], run[q])
  PROVE  \A q \in Indexers : Fetched(pc'[q], run'[q])
  BY DEF FetchedMove, TypeOK

\* A run that ends holds no logs.
LEMMA EndFetched ==
  ASSUME NEW p \in Indexers, NEW how, EndRun(p, how) \/ Fail(p, how)
  PROVE  FetchedMove(p)
<1>1. Fetched("waiting", NewRun) /\ Fetched("failed", NewRun)
  BY DEF Fetched
<1> QED
  BY <1>1 DEF EndRun, Fail, FetchedMove

\* A run that goes on to a call holds what the call needs.
LEMMA GotoFetched ==
  ASSUME NEW p \in Indexers, NEW call, NEW r, Goto(p, call, r), Fetched(call, r)
  PROVE  FetchedMove(p)
  BY DEF Goto, FetchedMove

\* A second attempt holds no logs.
LEMMA ReorganizedFetched ==
  ASSUME NEW p \in Indexers, Reorganized(p)
  PROVE  FetchedMove(p)
<1>1. Fetched("recover", [NewRun EXCEPT !.attempt = 2])
  BY DEF Fetched
<1> QED
  BY <1>1, GotoFetched, EndFetched DEF Reorganized

\* A new batch holds none yet.
LEMMA NextBatchFetched ==
  ASSUME NEW p \in Indexers, NEW r \in RunState, NextBatch(p, r), r.next >= DeploymentBlock
  PROVE  FetchedMove(p)
<1> DEFINE b == [r EXCEPT !.end = Least(r.next + BatchSize - 1, SafeHead(r)),
                          !.logs = {}, !.block = NoBlock]
<1>1. b.next = r.next
  BY DEF RunState
<1>2. Fetched("created_logs", b)
  BY <1>1 DEF Fetched
<1> QED
  BY <1>2, GotoFetched, EndFetched DEF NextBatch

\* The rows of one kind come in whole blocks.
LEMMA PositionsFetched ==
  ASSUME NEW logs, \A e \in logs : e.log.kind = "created", NEW from, NEW to
  PROVE  WholePositions(logs \cup CanonicalLogs(from, to, "position"))
<1> DEFINE P == CanonicalLogs(from, to, "position")
<1>1. ASSUME NEW e \in P, NEW l \in LogsOf(e.block), l.kind = "position"
      PROVE  [block |-> e.block, log |-> l] \in P
  <2>1. PICK n \in {m \in from .. to : HasCanonical(m)} :
          e \in {[block |-> Canonical(n), log |-> k] :
                   k \in {j \in LogsOf(Canonical(n)) : j.kind = "position"}}
    BY DEF CanonicalLogs
  <2>2. e.block = Canonical(n)
    BY <2>1
  <2> QED
    BY <1>1, <2>2 DEF CanonicalLogs
<1>2. WholePositions(logs \cup P)
  <2> HIDE DEF P
  <2> QED
    BY <1>1 DEF WholePositions
<1> QED
  BY <1>2

\* The rows of one height more are gone, with all of a block's positions.
LEMMA HeightRemoved ==
  ASSUME NEW r, WholePositions(r.logs), NEW n
  PROVE  WholePositions(r.logs \ BatchLogs(r, n))
  BY DEF WholePositions, BatchLogs

\* Nor does a run before its first batch.
LEMMA StartupFetched ==
  ASSUME TypeOK, NEW p \in Indexers,
         Startup(p) \/ Poll(p) \/ CheckChainId(p) \/ ReadLatest(p) \/ Crash(p)
  PROVE  FetchedMove(p)
<1>1. ASSUME NEW call \in {"preflight", "chain_id"}, pc' = [pc EXCEPT ![p] = call],
             UNCHANGED run
      PROVE  FetchedMove(p)
  <2>1. run' = [run EXCEPT ![p] = run[p]] /\ Fetched(call, run[p])
    BY <1>1 DEF TypeOK, Fetched
  <2> QED
    BY <1>1, <2>1 DEF FetchedMove
<1>2. \A call \in {"startup", "chain_id", "latest", "down"} : Fetched(call, NewRun)
  BY DEF Fetched
<1>3. CASE Startup(p)
  BY <1>1, <1>2, <1>3, EndFetched, GotoFetched
  DEF Startup, Launch, Preflight, StartupReindex, StartupCoverage
<1>4. CASE Poll(p)
  BY <1>1, <1>4 DEF Poll
<1>5. CASE CheckChainId(p)
  BY <1>2, <1>5, EndFetched, GotoFetched DEF CheckChainId
<1>6. CASE ReadLatest(p)
  <2>1. Fetched("checkpoint", [run[p] EXCEPT !.latest = Number(head)])
    BY DEF Fetched
  <2> QED
    BY <1>6, <2>1, GotoFetched DEF ReadLatest
<1>7. CASE Crash(p)
  BY <1>2, <1>7 DEF Crash, FetchedMove
<1> QED
  BY <1>3, <1>4, <1>5, <1>6, <1>7

\* A scan without a checkpoint starts at the deployment block.
LEMMA ReadCheckpointFetched ==
  ASSUME TypeOK, NEW p \in Indexers, ReadCheckpoint(p)
  PROVE  FetchedMove(p)
<1>1. run[p] \in RunState
  BY DEF TypeOK
<1>2. CASE NextBatch(p, [run[p] EXCEPT !.next = DeploymentBlock])
  <2> DEFINE r == [run[p] EXCEPT !.next = DeploymentBlock]
  <2>1. r \in RunState /\ r.next >= DeploymentBlock
    BY <1>1, DeploymentAssumption DEF RunState
  <2> QED
    BY <1>2, <2>1, NextBatchFetched
<1>3. CASE /\ checkpoint # NoBlock /\ CheckpointErrors(run[p].latest) = {}
           /\ Goto(p, "verify", [run[p] EXCEPT !.cp = checkpoint])
  <2>1. ~ (Number(checkpoint) < DeploymentBlock)
    BY <1>3 DEF CheckpointErrors
  <2>2. Number(checkpoint) >= DeploymentBlock
    BY <1>3, <2>1, AncestryAssumption, DeploymentAssumption DEF TypeOK
  <2>3. [run[p] EXCEPT !.cp = checkpoint].cp = checkpoint
    BY <1>1 DEF RunState
  <2>4. Fetched("verify", [run[p] EXCEPT !.cp = checkpoint])
    BY <2>2, <2>3 DEF Fetched
  <2> QED
    BY <1>3, <2>4, GotoFetched
<1>4. CASE \E e : Fail(p, e)
  BY <1>4, EndFetched
<1> QED
  BY <1>2, <1>3, <1>4 DEF ReadCheckpoint

\* A scan from a checkpoint starts above the deployment block.
LEMMA VerifyCheckpointFetched ==
  ASSUME TypeOK, AllReady, NEW p \in Indexers, VerifyCheckpoint(p), Fetched(pc[p], run[p])
  PROVE  FetchedMove(p)
<1> DEFINE n == Number(run[p].cp)
           r == [run[p] EXCEPT !.next = n + 1, !.parent = run[p].cp, !.cp = NoBlock]
<1>1. /\ run[p] \in RunState /\ n \in Nat /\ n >= DeploymentBlock
      /\ run[p].cp \in Block \cup {NoBlock}
  BY AncestryAssumption DEF TypeOK, AllReady, Ready, VerifyCheckpoint, Fetched
<1>2. CASE NextBatch(p, r)
  <2>1. r \in RunState
    <3>1. n + 1 \in Nat /\ {} \in SUBSET Row
      BY <1>1
    <3> QED
      BY <1>1, <3>1, CursorType
  <2>2. r.next >= DeploymentBlock
    BY <1>1, DeploymentAssumption DEF RunState
  <2> QED
    BY <1>2, <2>1, <2>2, NextBatchFetched
<1>3. CASE Reorganized(p) \/ \E e : Fail(p, e)
  BY <1>3, ReorganizedFetched, EndFetched
<1> QED
  BY <1>2, <1>3 DEF VerifyCheckpoint

\* After both queries the positions held are whole blocks of positions.
LEMMA FetchLogsFetched ==
  ASSUME TypeOK, NEW p \in Indexers, FetchCreatedLogs(p) \/ FetchPositionLogs(p),
         Fetched(pc[p], run[p])
  PROVE  FetchedMove(p)
<1> DEFINE r == run[p]
           created == CanonicalLogs(r.next, r.end, "created")
           position == CanonicalLogs(r.next, r.end, "position")
<1>1. ASSUME NEW logs
      PROVE  /\ [r EXCEPT !.logs = logs].logs = logs
             /\ [r EXCEPT !.logs = logs].next = r.next
  BY DEF TypeOK, RunState
<1>2. r.next >= DeploymentBlock
  BY DEF Fetched, FetchCreatedLogs, FetchPositionLogs
<1>3. CASE FetchCreatedLogs(p)
  <2>1. \A e \in created : e.log.kind = "created"
    BY DEF CanonicalLogs
  <2> HIDE DEF r, created
  <2>2. Fetched("position_logs", [r EXCEPT !.logs = created])
    BY <1>1, <1>2, <2>1 DEF Fetched
  <2>3. Goto(p, "position_logs", [r EXCEPT !.logs = created])
    BY <1>3 DEF FetchCreatedLogs, r, created
  <2> QED
    BY <2>2, <2>3, GotoFetched
<1>4. CASE FetchPositionLogs(p)
  <2>1. \A e \in r.logs : e.log.kind = "created"
    BY <1>4 DEF Fetched, FetchPositionLogs
  <2>2. WholePositions(r.logs \cup position)
    BY <2>1, PositionsFetched
  <2>3. Goto(p, "block", [r EXCEPT !.logs = r.logs \cup position])
    BY <1>4 DEF FetchPositionLogs, TypeOK, RunState
  <2> HIDE DEF r, position
  <2>4. Fetched("block", [r EXCEPT !.logs = r.logs \cup position])
    BY <1>1, <1>2, <2>2 DEF Fetched
  <2> QED
    BY <2>3, <2>4, GotoFetched
<1> QED
  BY <1>3, <1>4

\* Fetching a block changes no logs.
LEMMA FetchBlockFetched ==
  ASSUME TypeOK, NEW p \in Indexers, FetchBlock(p), Fetched(pc[p], run[p])
  PROVE  FetchedMove(p)
<1> DEFINE r == [run[p] EXCEPT !.block = Canonical(run[p].next)]
<1>1. r.logs = run[p].logs /\ r.next = run[p].next
  BY DEF TypeOK, RunState
<1>2. Fetched("commit", r)
  BY <1>1 DEF Fetched, FetchBlock
<1> QED
  BY <1>2, ReorganizedFetched, EndFetched, GotoFetched DEF FetchBlock

\* A commit takes the logs of its whole height off.
LEMMA CommitFetched ==
  ASSUME TypeOK, NEW p \in Indexers, Commit(p), Fetched(pc[p], run[p])
  PROVE  FetchedMove(p)
<1> DEFINE r == [run[p] EXCEPT !.next = @ + 1, !.parent = run[p].block,
                               !.block = NoBlock,
                               !.logs = @ \ BatchLogs(run[p], run[p].next)]
<1>1. run[p] \in RunState
  BY DEF TypeOK
<1>2. /\ run[p].next + 1 \in Nat
      /\ run[p].block \in Block \cup {NoBlock}
      /\ run[p].logs \ BatchLogs(run[p], run[p].next) \in SUBSET Row
  BY <1>1 DEF RunState
<1>3. r \in RunState
  BY <1>1, <1>2, CursorType
<1>4. r.next = run[p].next + 1 /\ r.logs = run[p].logs \ BatchLogs(run[p], run[p].next)
  BY <1>1 DEF RunState
<1>5. run[p].next >= DeploymentBlock /\ WholePositions(run[p].logs)
  BY DEF Fetched, Commit
<1>6. r.next >= DeploymentBlock /\ WholePositions(r.logs)
  <2>1. r.next >= DeploymentBlock
    <3>1. run[p].next \in Nat
      BY <1>1 DEF RunState
    <3> HIDE DEF r
    <3> QED
      BY <1>4, <1>5, <3>1, DeploymentAssumption
  <2> QED
    BY <1>4, <1>5, <2>1, HeightRemoved
<1>7. CASE AfterCommit(p)
  <2>1. Goto(p, "block", r) \/ NextBatch(p, r)
    BY <1>7 DEF AfterCommit
  <2> HIDE DEF r
  <2>2. Fetched("block", r)
    BY <1>6 DEF Fetched
  <2> QED
    BY <1>3, <1>6, <2>1, <2>2, GotoFetched, NextBatchFetched
<1>8. CASE \E e : Fail(p, e)
  BY <1>8, EndFetched
<1> QED
  BY <1>7, <1>8 DEF Commit

\* A recovery holds no logs.
LEMMA RecoveryFetched ==
  ASSUME NEW p \in Indexers, Recovery(p)
  PROVE  FetchedMove(p)
<1>1. ASSUME NEW call \in {"stored_hash", "canonical_hash", "rollback", "latest"}, NEW r
      PROVE  Fetched(call, r)
  BY DEF Fetched
<1> QED
  BY <1>1, EndFetched, GotoFetched
  DEF Recovery, StartRecovery, ReadStoredHash, CompareCanonicalHash, Rollback

\* Every step of a process keeps what its calls need.
LEMMA StepFetched ==
  ASSUME TypeOK, AllReady, NEW p \in Indexers, Step(p) \/ Fault(p), Fetched(pc[p], run[p])
  PROVE  FetchedMove(p)
<1>1. CASE CatchUp(p)
  BY <1>1, StartupFetched, ReadCheckpointFetched, VerifyCheckpointFetched,
     FetchLogsFetched, FetchBlockFetched, CommitFetched DEF CatchUp
<1>2. CASE Fault(p)
  BY <1>2, StartupFetched, EndFetched DEF Fault, RpcFails
<1> QED
  BY <1>1, <1>2, StartupFetched, RecoveryFetched DEF Step

----------------------------------------------------------------------------
\* Induction

\* The invariant holds initially.
LEMMA ReplayInit == Init => ReplayInv
<1>1. Init => \A p \in Indexers : Fetched(pc[p], run[p])
  BY DEF Init, Fetched
<1> QED
  BY <1>1, InitTables DEF ReplayInv

\* Every step keeps it.
LEMMA ReplayStepInv == ArchiveInv /\ ReplayInv /\ [Next]_vars => ReplayInv'
<1> SUFFICES ASSUME ArchiveInv, ReplayInv, [Next]_vars PROVE ReplayInv'
  OBVIOUS
<1>1. ASSUME NEW p \in Indexers, Step(p) \/ Fault(p)
      PROVE  ReplayInv'
  <2>1. TypeOK /\ AllReady /\ \A q \in Indexers : Fetched(pc[q], run[q])
    BY DEF ArchiveInv, ReplayInv
  <2>2. \A q \in Indexers : Fetched(pc'[q], run'[q])
    BY <1>1, <2>1, StepFetched, FetchedPreserved
  <2>3. TablesInv'
    BY <1>1, ProcessTablesInv
  <2> QED
    BY <2>2, <2>3 DEF ReplayInv, Fetched, WholePositions
<1>2. ASSUME UNCHANGED <<storeVars, processVars>>
      PROVE  ReplayInv'
  <2>1. TablesInv'
    BY <1>2, UnchangedTablesInv DEF ReplayInv, storeVars, indexVars
  <2> QED
    BY <1>2, <2>1 DEF ReplayInv, processVars, Fetched, WholePositions
<1> QED
  BY <1>1, <1>2 DEF Next, Mine, Reorg, vars

\* However many indexers write to the database, whatever the chain and the
\* endpoint do and wherever a process is killed: the tables a reader is served
\* from are the archived logs applied once each in EVM order, computed from
\* the archive alone.
THEOREM TablesAreReplay == Spec => []ProjectionIsReplay
<1>1. ReplayInv => ProjectionIsReplay
  BY ReplaySays DEF ReplayInv, TablesInv
<1> QED
  BY <1>1, ArchiveInit, ArchiveStep, ReplayInit, ReplayStepInv, PTL DEF Spec

----------------------------------------------------------------------------
\* Two indexers on one database

\* The call is not behind a checkpoint cp: what it reads and commits is from
\* cp's height on.
Lead(call, r, cp) ==
  cp # NoBlock =>
    /\ call = "verify" => Number(cp) <= Number(r.cp)
    /\ call \in {"created_logs", "position_logs", "block", "commit"} =>
         Number(cp) <= r.next

Leads(p) == result[p] # "CheckpointRegression" /\ Lead(pc[p], run[p], checkpoint)

\* Some process is never refused: the one that committed last, or any of them
\* when the checkpoint has been taken back.
LeadInv ==
  /\ result = [p \in Indexers |-> result[p]]
  /\ \A p \in Indexers : result[p] = "CheckpointRegression" => pc[p] = "failed"
  /\ \E p \in Indexers : Leads(p)

\* The step leaves process p at a call, with a result, and leading if it led.
LeadMove(p) ==
  \E call, r, how :
    /\ pc' = [pc EXCEPT ![p] = call]
    /\ run' = [run EXCEPT ![p] = r]
    /\ result' = [result EXCEPT ![p] = how]
    /\ how = "CheckpointRegression" => call = "failed"
    /\ Leads(p) => how # "CheckpointRegression" /\ Lead(call, r, checkpoint')

\* A checkpoint that is gone or lower.
TakenBack ==
  checkpoint' # NoBlock => checkpoint # NoBlock /\ Number(checkpoint') <= Number(checkpoint)

\* A run that goes on to a call leads if the call does.
LEMMA GotoLeads ==
  ASSUME LeadInv, NEW p \in Indexers, NEW call, NEW r, Goto(p, call, r), pc[p] # "failed",
         Leads(p) => Lead(call, r, checkpoint')
  PROVE  LeadMove(p)
<1>1. result' = [result EXCEPT ![p] = result[p]]
  BY DEF LeadInv, Goto
<1>2. result[p] # "CheckpointRegression"
  BY DEF LeadInv
<1> QED
  BY <1>1, <1>2 DEF Goto, LeadMove

\* A run that ends without being refused keeps its lead.
LEMMA EndLeads ==
  ASSUME NEW p \in Indexers, NEW how, EndRun(p, how) \/ Fail(p, how),
         how # "CheckpointRegression"
  PROVE  LeadMove(p)
<1>1. Lead("waiting", NewRun, checkpoint') /\ Lead("failed", NewRun, checkpoint')
  BY DEF Lead
<1> QED
  BY <1>1 DEF EndRun, Fail, LeadMove

\* So does one that starts its recovery or gives up.
LEMMA ReorganizedLeads ==
  ASSUME LeadInv, NEW p \in Indexers, Reorganized(p), pc[p] # "failed"
  PROVE  LeadMove(p)
<1>1. Lead("recover", [NewRun EXCEPT !.attempt = 2], checkpoint')
  BY DEF Lead
<1> QED
  BY <1>1, GotoLeads, EndLeads DEF Reorganized

\* So does one whose next batch is not below the checkpoint.
LEMMA NextBatchLeads ==
  ASSUME LeadInv, NEW p \in Indexers, NEW r \in RunState, NextBatch(p, r), pc[p] # "failed",
         Leads(p) /\ checkpoint' # NoBlock => Number(checkpoint') <= r.next
  PROVE  LeadMove(p)
<1> DEFINE b == [r EXCEPT !.end = Least(r.next + BatchSize - 1, SafeHead(r)),
                          !.logs = {}, !.block = NoBlock]
<1>1. b.next = r.next
  BY DEF RunState
<1>2. Leads(p) => Lead("created_logs", b, checkpoint')
  BY <1>1 DEF Lead
<1> QED
  BY <1>2, GotoLeads, EndLeads DEF NextBatch

\* A process that has no result and leads at its call.
LEMMA NoneLeads ==
  ASSUME NEW p \in Indexers, NEW call, NEW r,
         pc' = [pc EXCEPT ![p] = call], run' = [run EXCEPT ![p] = r],
         result' = [result EXCEPT ![p] = "none"], Lead(call, r, checkpoint')
  PROVE  LeadMove(p)
<1>1. \E how : /\ result' = [result EXCEPT ![p] = how]
               /\ how # "CheckpointRegression"
  <2> WITNESS "none"
  <2> QED
    OBVIOUS
<1> QED
  BY <1>1 DEF LeadMove

\* The steps before the read of the checkpoint.
LEMMA StartupLeads ==
  ASSUME TypeOK, LeadInv, NEW p \in Indexers,
         Startup(p) \/ Poll(p) \/ CheckChainId(p) \/ ReadLatest(p) \/ Crash(p)
  PROVE  LeadMove(p)
<1>1. ASSUME NEW call \in {"preflight", "chain_id"}, pc' = [pc EXCEPT ![p] = call],
             UNCHANGED run, result' = [result EXCEPT ![p] = "none"]
      PROVE  LeadMove(p)
  <2>1. run' = [run EXCEPT ![p] = run[p]] /\ Lead(call, run[p], checkpoint')
    BY <1>1 DEF TypeOK, Lead
  <2> QED
    BY <1>1, <2>1, NoneLeads
<1>2. ASSUME NEW call \in {"startup", "chain_id", "latest", "down", "checkpoint"}, NEW r
      PROVE  Lead(call, r, checkpoint')
  BY DEF Lead
<1>3. CASE Startup(p)
  BY <1>1, <1>2, <1>3, EndLeads, GotoLeads
  DEF Startup, Launch, Preflight, StartupReindex, StartupCoverage
<1>4. CASE Poll(p)
  BY <1>1, <1>4 DEF Poll
<1>5. CASE CheckChainId(p)
  BY <1>2, <1>5, EndLeads, GotoLeads DEF CheckChainId
<1>6. CASE ReadLatest(p)
  BY <1>2, <1>6, GotoLeads DEF ReadLatest
<1>7. CASE Crash(p)
  BY <1>2, <1>7, NoneLeads DEF Crash
<1> QED
  BY <1>3, <1>4, <1>5, <1>6, <1>7

\* The checkpoint read is not ahead of itself.
LEMMA ReadCheckpointLeads ==
  ASSUME TypeOK, LeadInv, NEW p \in Indexers, ReadCheckpoint(p)
  PROVE  LeadMove(p)
<1>1. run[p] \in RunState /\ checkpoint' = checkpoint /\ pc[p] # "failed"
  BY DEF TypeOK, ReadCheckpoint, storeVars
<1>2. CASE checkpoint = NoBlock /\ NextBatch(p, [run[p] EXCEPT !.next = DeploymentBlock])
  <2>1. [run[p] EXCEPT !.next = DeploymentBlock] \in RunState
    BY <1>1, DeploymentAssumption DEF RunState
  <2> QED
    BY <1>1, <1>2, <2>1, NextBatchLeads
<1>3. CASE checkpoint # NoBlock /\ Goto(p, "verify", [run[p] EXCEPT !.cp = checkpoint])
  <2>1. [run[p] EXCEPT !.cp = checkpoint].cp = checkpoint /\ Number(checkpoint) \in Nat
    BY <1>1, <1>3, AncestryAssumption DEF RunState, TypeOK
  <2>2. Lead("verify", [run[p] EXCEPT !.cp = checkpoint], checkpoint')
    BY <1>1, <2>1 DEF Lead
  <2> QED
    BY <1>1, <1>3, <2>2, GotoLeads
<1>4. CASE \E e \in CheckpointErrors(run[p].latest) : Fail(p, e)
  BY <1>4, EndLeads DEF CheckpointErrors
<1> QED
  BY <1>2, <1>3, <1>4 DEF ReadCheckpoint

\* A process that leads verifies a checkpoint not below the one stored.
LEMMA VerifyCheckpointLeads ==
  ASSUME TypeOK, AllReady, LeadInv, NEW p \in Indexers, VerifyCheckpoint(p)
  PROVE  LeadMove(p)
<1> DEFINE n == Number(run[p].cp)
           r == [run[p] EXCEPT !.next = n + 1, !.parent = run[p].cp, !.cp = NoBlock]
<1>1. /\ run[p] \in RunState /\ n \in Nat /\ run[p].cp \in Block \cup {NoBlock}
      /\ checkpoint' = checkpoint /\ pc[p] = "verify"
  BY AncestryAssumption DEF TypeOK, AllReady, Ready, VerifyCheckpoint, storeVars
<1>2. CASE NextBatch(p, r)
  <2>1. r \in RunState
    <3>1. n + 1 \in Nat /\ {} \in SUBSET Row
      BY <1>1
    <3> QED
      BY <1>1, <3>1, CursorType
  <2>2. r.next = n + 1
    BY <1>1 DEF RunState
  <2>3. Leads(p) /\ checkpoint' # NoBlock => Number(checkpoint') <= n + 1
    BY <1>1, AncestryAssumption DEF Leads, Lead, TypeOK
  <2> HIDE DEF r, n
  <2> QED
    BY <1>1, <1>2, <2>1, <2>2, <2>3, NextBatchLeads
<1>3. CASE Reorganized(p)
  BY <1>1, <1>3, ReorganizedLeads
<1>4. CASE Fail(p, "CheckpointBlockMissing")
  BY <1>4, EndLeads
<1> QED
  BY <1>2, <1>3, <1>4 DEF VerifyCheckpoint

\* Fetching leaves the cursor where it is.
LEMMA FetchLeads ==
  ASSUME TypeOK, LeadInv, NEW p \in Indexers,
         FetchCreatedLogs(p) \/ FetchPositionLogs(p) \/ FetchBlock(p)
  PROVE  LeadMove(p)
<1> DEFINE r == run[p]
<1>1. r \in RunState /\ checkpoint' = checkpoint
      /\ pc[p] \in {"created_logs", "position_logs", "block"}
  BY DEF TypeOK, FetchCreatedLogs, FetchPositionLogs, FetchBlock, storeVars
<1>2. ASSUME NEW logs, NEW b
      PROVE  [r EXCEPT !.logs = logs].next = r.next /\ [r EXCEPT !.block = b].next = r.next
  BY <1>1 DEF RunState
<1>3. ASSUME NEW call \in {"position_logs", "block", "commit"}, NEW q, q.next = r.next
      PROVE  Leads(p) => Lead(call, q, checkpoint')
  BY <1>1, <1>3 DEF Leads, Lead
<1> HIDE DEF r
<1>4. CASE FetchCreatedLogs(p)
  BY <1>1, <1>2, <1>3, <1>4, GotoLeads DEF FetchCreatedLogs, r
<1>5. CASE FetchPositionLogs(p)
  BY <1>1, <1>2, <1>3, <1>5, GotoLeads DEF FetchPositionLogs, r
<1>6. CASE FetchBlock(p)
  BY <1>1, <1>2, <1>3, <1>6, GotoLeads, EndLeads, ReorganizedLeads DEF FetchBlock, r
<1> QED
  BY <1>4, <1>5, <1>6

\* The only way to be refused is to commit below the checkpoint.
LEMMA RefusedBehind ==
  ASSUME TypeOK, AllReady, ArchiveSound, TablesInv, NEW p \in Indexers, pc[p] = "commit",
         Fetched(pc[p], run[p]),
         "CheckpointRegression" \in CommitErrors(run[p].block, Records(run[p]))
  PROVE  ~ Leads(p)
<1> DEFINE b == run[p].block
           new == EventRows(b, Records(run[p])) \ events
<1>1. Number(b) = run[p].next /\ b \in Block
  BY CommitRows
<1>2. CASE checkpoint # NoBlock /\ Number(checkpoint) > Number(b)
  BY <1>1, <1>2, AncestryAssumption DEF Leads, Lead, TypeOK
<1>3. CASE ~ (checkpoint # NoBlock /\ Number(checkpoint) > Number(b))
  <2>1. ApplyInOrder(Tables, new).error = "CheckpointRegression"
    BY <1>3 DEF CommitErrors, Projected
  <2>2. Ordered(Tables, new)
    BY NewRows
  <2>3. ApplyInOrder(Tables, new).error \in ProjectionErrors \cup {"none"}
    <3> HIDE DEF new
    <3> QED
      BY <2>2, AppliedErrors
  <2> QED
    BY <2>1, <2>3 DEF ProjectionErrors
<1> QED
  BY <1>2, <1>3

\* A commit that is not refused leaves its process leading.
LEMMA CommitLeads ==
  ASSUME ArchiveInv, ReplayInv, LeadInv, NEW p \in Indexers, Commit(p)
  PROVE  /\ LeadMove(p)
         /\ CommitBlock(run[p].block, Records(run[p])) => Leads(p)'
<1> DEFINE b == run[p].block
           r == [run[p] EXCEPT !.next = @ + 1, !.parent = b, !.block = NoBlock,
                               !.logs = @ \ BatchLogs(run[p], run[p].next)]
<1>0. TypeOK /\ AllReady /\ ArchiveSound /\ TablesInv /\ pc[p] = "commit"
      /\ Fetched(pc[p], run[p])
  BY DEF ArchiveInv, ReplayInv, Commit
<1>1. /\ run[p] \in RunState /\ run[p].next \in Nat
      /\ b \in Block /\ Number(b) = run[p].next
  BY <1>0, CommitRows
<1>2. r \in RunState /\ r.next = run[p].next + 1
  <2>1. /\ run[p].next + 1 \in Nat /\ b \in Block \cup {NoBlock}
        /\ run[p].logs \ BatchLogs(run[p], run[p].next) \in SUBSET Row
    BY <1>1 DEF RunState
  <2>2. r \in RunState
    BY <1>1, <2>1, CursorType
  <2> QED
    BY <1>1, <2>2 DEF RunState
<1>3. ASSUME CommitBlock(b, Records(run[p])), AfterCommit(p)
      PROVE  LeadMove(p) /\ Leads(p)'
  <2>1. checkpoint' = b
    BY <1>3 DEF CommitBlock
  <2>2. Goto(p, "block", r) \/ NextBatch(p, r)
    BY <1>3 DEF AfterCommit
  <2>3. Number(checkpoint') <= r.next
    <3> HIDE DEF r
    <3> QED
      BY <1>1, <1>2, <2>1
  <2> HIDE DEF r
  <2>4. Lead("block", r, checkpoint')
    BY <2>3 DEF Lead
  <2>5. LeadMove(p)
    BY <1>0, <1>2, <2>2, <2>3, <2>4, GotoLeads, NextBatchLeads
  <2>6. \/ /\ pc' = [pc EXCEPT ![p] = "block"] /\ run' = [run EXCEPT ![p] = r]
           /\ result' = result
        \/ /\ pc' = [pc EXCEPT ![p] = "created_logs"] /\ result' = result
           /\ \E q : q.next = r.next /\ run' = [run EXCEPT ![p] = q]
        \/ pc' = [pc EXCEPT ![p] = "waiting"] /\ result' = [result EXCEPT ![p] = "ok"]
    <3>1. CASE Goto(p, "block", r)
      BY <3>1 DEF Goto
    <3>2. CASE NextBatch(p, r)
      <4> DEFINE q == [r EXCEPT !.end = Least(r.next + BatchSize - 1, SafeHead(r)),
                                !.logs = {}, !.block = NoBlock]
      <4>1. q.next = r.next
        BY <1>2 DEF RunState
      <4>2. Goto(p, "created_logs", q) \/ EndRun(p, "ok")
        BY <3>2 DEF NextBatch
      <4> HIDE DEF q
      <4> QED
        BY <4>1, <4>2 DEF Goto, EndRun
    <3> QED
      BY <2>2, <3>1, <3>2
  <2>7. pc \in [Indexers -> Call] /\ run \in [Indexers -> RunState]
        /\ result = [q \in Indexers |-> result[q]] /\ result[p] # "CheckpointRegression"
    BY <1>0 DEF TypeOK, LeadInv
  <2>8. result'[p] # "CheckpointRegression"
    BY <2>6, <2>7
  <2>9. Lead(pc'[p], run'[p], checkpoint')
    BY <2>3, <2>6, <2>7 DEF Lead
  <2>10. Leads(p)'
    BY <2>8, <2>9 DEF Leads, Lead
  <2> QED
    BY <2>5, <2>10
<1>4. ASSUME NEW e \in CommitErrors(b, Records(run[p])), Fail(p, e)
      PROVE  LeadMove(p)
  <2>1. CASE e # "CheckpointRegression"
    BY <1>4, <2>1, EndLeads
  <2>2. CASE e = "CheckpointRegression"
    <3>1. ~ Leads(p)
      BY <1>0, <1>4, <2>2, RefusedBehind
    <3> QED
      BY <1>4, <3>1 DEF Fail, LeadMove
  <2> QED
    BY <2>1, <2>2
<1>5. ASSUME NEW e \in CommitErrors(b, Records(run[p])), Fail(p, e)
      PROVE  ~ CommitBlock(b, Records(run[p]))
  BY <1>5 DEF CommitBlock
<1> QED
  BY <1>3, <1>4, <1>5 DEF Commit

\* A recovery is never refused for its height.
LEMMA RecoveryLeads ==
  ASSUME TypeOK, ArchiveSound, TablesInv, LeadInv, NEW p \in Indexers, Recovery(p)
  PROVE  LeadMove(p)
<1>1. ASSUME NEW call \in {"stored_hash", "canonical_hash", "rollback", "latest"}, NEW r
      PROVE  Lead(call, r, checkpoint')
  BY DEF Lead
<1>2. ASSUME NEW a, "CheckpointRegression" \in RollbackErrors(a)
      PROVE  FALSE
  BY <1>2, RollbackRejects DEF ProjectionErrors
<1>3. CASE StartRecovery(p)
  BY <1>1, <1>3, GotoLeads, EndLeads DEF StartRecovery
<1>4. CASE ReadStoredHash(p)
  BY <1>1, <1>4, GotoLeads, EndLeads DEF ReadStoredHash
<1>5. CASE CompareCanonicalHash(p)
  BY <1>1, <1>5, GotoLeads, EndLeads DEF CompareCanonicalHash
<1>6. CASE Rollback(p)
  BY <1>1, <1>2, <1>6, GotoLeads, EndLeads DEF Rollback
<1> QED
  BY <1>3, <1>4, <1>5, <1>6 DEF Recovery

\* Every step of a process keeps its own lead.
LEMMA StepLeads ==
  ASSUME ArchiveInv, ReplayInv, LeadInv, NEW p \in Indexers, Step(p) \/ Fault(p)
  PROVE  LeadMove(p)
<1>1. TypeOK /\ AllReady /\ ArchiveSound /\ TablesInv
  BY DEF ArchiveInv, ReplayInv
<1>2. CASE Recovery(p)
  BY <1>1, <1>2, RecoveryLeads
<1>3. CASE CatchUp(p)
  BY <1>1, <1>3, StartupLeads, ReadCheckpointLeads, VerifyCheckpointLeads, FetchLeads,
     CommitLeads DEF CatchUp
<1>4. CASE RpcFails(p)
  BY <1>4, EndLeads DEF RpcFails
<1> QED
  BY <1>1, <1>2, <1>3, <1>4, StartupLeads DEF Step, Fault

\* A transaction of p takes the checkpoint back, or is a commit after which p leads.
LEMMA StepCheckpoint ==
  ASSUME ArchiveInv, ReplayInv, LeadInv, NEW p \in Indexers, Step(p) \/ Fault(p)
  PROVE  TakenBack \/ Leads(p)'
<1>1. TypeOK /\ TablesInv
  BY DEF ArchiveInv, ReplayInv
<1>2. CASE StartupReindex(p)
  BY <1>2 DEF StartupReindex, FullReindex, TakenBack
<1>3. CASE Commit(p) /\ CommitBlock(run[p].block, Records(run[p]))
  BY <1>3, CommitLeads
<1>4. CASE RollbackToAncestor(run[p].block)
  <2>1. run[p].block \in blocks /\ checkpoint' = run[p].block
    BY <1>4 DEF RollbackToAncestor, RollbackErrors, StoredAt
  <2> QED
    BY <1>1, <2>1 DEF TakenBack, TablesInv
<1>5. CASE UNCHANGED indexVars
  BY <1>1, <1>5, AncestryAssumption DEF indexVars, TakenBack, TypeOK
<1> QED
  BY <1>2, <1>3, <1>4, <1>5, OtherSteps

\* Every process leads over an empty store and over a legacy one.
LEMMA LeadInit ==
  ASSUME Indexers # {}
  PROVE  Init => LeadInv
BY DEF Init, LeadInv, Leads, Lead

\* Every step leaves a process that leads.
LEMMA LeadStep == ArchiveInv /\ ReplayInv /\ LeadInv /\ [Next]_vars => LeadInv'
<1> SUFFICES ASSUME ArchiveInv, ReplayInv, LeadInv, [Next]_vars PROVE LeadInv'
  OBVIOUS
<1>1. TypeOK /\ AllReady
  BY DEF ArchiveInv
<1>2. checkpoint' \in Block \cup {NoBlock}
  BY ArchiveStep DEF ArchiveInv, TypeOK
<1>3. ASSUME NEW p \in Indexers, Step(p) \/ Fault(p)
      PROVE  LeadInv'
  <2>1. LeadMove(p)
    BY <1>3, StepLeads
  <2>2. PICK call, r, how :
          /\ pc' = [pc EXCEPT ![p] = call]
          /\ run' = [run EXCEPT ![p] = r]
          /\ result' = [result EXCEPT ![p] = how]
          /\ how = "CheckpointRegression" => call = "failed"
          /\ Leads(p) => how # "CheckpointRegression" /\ Lead(call, r, checkpoint')
    BY <2>1 DEF LeadMove
  <2>3. pc \in [Indexers -> Call] /\ run \in [Indexers -> RunState]
        /\ result = [q \in Indexers |-> result[q]]
    BY <1>1 DEF TypeOK, LeadInv
  <2>4. result' = [q \in Indexers |-> result'[q]]
    BY <2>2, <2>3
  <2>5. \A q \in Indexers : result'[q] = "CheckpointRegression" => pc'[q] = "failed"
    BY <2>2, <2>3 DEF LeadInv
  <2>6. ASSUME NEW q \in Indexers, Leads(q), TakenBack
        PROVE  Leads(q)'
    <3>1. CASE q = p
      <4>1. pc'[p] = call /\ run'[p] = r /\ result'[p] = how
        BY <2>2, <2>3
      <4> QED
        BY <2>2, <2>6, <3>1, <4>1 DEF Leads, Lead
    <3>2. CASE q # p
      <4>1. pc'[q] = pc[q] /\ run'[q] = run[q] /\ result'[q] = result[q]
        BY <2>2, <2>3, <3>2
      <4>2. checkpoint' # NoBlock =>
              /\ Number(checkpoint') \in Nat /\ Number(checkpoint) \in Nat
              /\ Number(checkpoint') <= Number(checkpoint)
        BY <1>1, <1>2, <2>6, AncestryAssumption DEF TakenBack, TypeOK
      <4>3. /\ run[q].next \in Nat
            /\ pc[q] = "verify" => Number(run[q].cp) \in Nat
        BY <1>1, AncestryAssumption DEF TypeOK, RunState, AllReady, Ready
      <4>4. Lead(pc[q], run[q], checkpoint) /\ (checkpoint' # NoBlock => checkpoint # NoBlock)
        BY <2>6 DEF Leads, TakenBack
      <4>5. Lead(pc[q], run[q], checkpoint')
        BY <4>2, <4>3, <4>4 DEF Lead
      <4> QED
        BY <2>6, <4>1, <4>5 DEF Leads, Lead
    <3> QED
      BY <3>1, <3>2
  <2>7. \E q \in Indexers : Leads(q)'
    <3>1. CASE TakenBack
      BY <2>6, <3>1 DEF LeadInv
    <3>2. CASE Leads(p)'
      BY <3>2
    <3> QED
      BY <1>3, <3>1, <3>2, StepCheckpoint
  <2> QED
    BY <2>4, <2>5, <2>7 DEF LeadInv
<1>4. ASSUME UNCHANGED <<storeVars, processVars>>
      PROVE  LeadInv'
  BY <1>4 DEF storeVars, processVars, LeadInv, Leads, Lead
<1> QED
  BY <1>3, <1>4 DEF Next, Mine, Reorg, vars

\* However many indexers share the database, one of them is not refused: the
\* upsert of the checkpoint that turns a slower one away is passed by the one
\* that committed last, unless the checkpoint has been taken back below it.
THEOREM NotAllRefused ==
  ASSUME Indexers # {}
  PROVE  Spec => []OneSurvives
<1>1. LeadInv => OneSurvives
  BY DEF LeadInv, Leads, OneSurvives
<1> QED
  BY <1>1, ArchiveInit, ArchiveStep, ReplayInit, ReplayStepInv, LeadInit, LeadStep, PTL
  DEF Spec

----------------------------------------------------------------------------
\* One indexer: the defensive errors of the store

ResultInv ==
  /\ result = [p \in Indexers |-> result[p]]
  /\ NoStoreConflict

\* The step leaves process p with a result that is no store conflict.
Quiet(p) ==
  \E how : result' = [result EXCEPT ![p] = how] /\ how \notin StoreConflicts

\* A step of one process leaves the results of the others alone.
LEMMA QuietPreserved ==
  ASSUME ResultInv, NEW p \in Indexers, Quiet(p)
  PROVE  ResultInv'
<1>1. PICK how : result' = [result EXCEPT ![p] = how] /\ how \notin StoreConflicts
  BY DEF Quiet
<1>2. result' = [q \in Indexers |-> IF q = p THEN how ELSE result[q]]
  BY <1>1 DEF ResultInv
<1> QED
  BY <1>1, <1>2 DEF ResultInv, NoStoreConflict

\* A run that goes on has no result.
LEMMA GotoQuiet ==
  ASSUME ResultInv, NEW p \in Indexers, NEW call, NEW r, Goto(p, call, r)
  PROVE  Quiet(p)
<1>1. result' = [result EXCEPT ![p] = result[p]]
  BY DEF ResultInv, Goto
<1> QED
  BY <1>1 DEF Quiet, ResultInv, NoStoreConflict

\* A run that ends otherwise is no conflict.
LEMMA EndQuiet ==
  ASSUME NEW p \in Indexers, NEW how, how \notin StoreConflicts,
         EndRun(p, how) \/ Fail(p, how)
  PROVE  Quiet(p)
BY DEF Quiet, EndRun, Fail

\* Nor is one that has nothing more to fetch.
LEMMA NextBatchQuiet ==
  ASSUME ResultInv, NEW p \in Indexers, NEW r, NextBatch(p, r)
  PROVE  Quiet(p)
<1>1. "ok" \notin StoreConflicts
  BY DEF StoreConflicts
<1> QED
  BY <1>1, GotoQuiet, EndQuiet DEF NextBatch

\* Nor is one that gives up.
LEMMA ReorganizedQuiet ==
  ASSUME ResultInv, NEW p \in Indexers, Reorganized(p)
  PROVE  Quiet(p)
<1>1. "RecoveryLimitExceeded" \notin StoreConflicts
  BY DEF StoreConflicts
<1> QED
  BY <1>1, GotoQuiet, EndQuiet DEF Reorganized

\* The archive lies on the branch of the block to be committed, below it.
LEMMA ArchiveBelow ==
  ASSUME TypeOK, AllReady, ArchiveSound, BranchInv, NEW p \in Indexers, pc[p] = "commit",
         NEW f \in events
  PROVE  /\ Number(f.block) \in 0 .. Number(run[p].block)
         /\ Number(f.block) < Number(run[p].block)
         /\ f.block = AncestorAt(run[p].block, Number(f.block))
         /\ f.log \in LogsOf(AncestorAt(run[p].block, Number(f.block)))
<1> DEFINE b == run[p].block
<1>1. /\ b \in Block /\ Number(b) = After(checkpoint) /\ Number(b) \in Nat
      /\ checkpoint # NoBlock => IsParent(checkpoint, b)
  BY CommitBlockFollows, AncestryAssumption
<1>2. f.block \in blocks /\ f.log \in LogsOf(f.block)
  BY DEF ArchiveSound
<1>3. checkpoint # NoBlock /\ f.block \in Branch(checkpoint)
  BY <1>2 DEF BranchInv, IndexIsBranch
<1>4. PICK n \in DeploymentBlock .. Number(checkpoint) : f.block = AncestorAt(checkpoint, n)
  BY <1>3 DEF Branch
<1>5. /\ Number(b) = Number(checkpoint) + 1 /\ Number(checkpoint) \in Nat
      /\ checkpoint \in Block /\ checkpoint = AncestorAt(b, Number(checkpoint))
  BY <1>1, <1>3, AncestryAssumption DEF IsParent, After, TypeOK
<1>6. n \in 0 .. Number(checkpoint) /\ Number(f.block) = n
  BY <1>4, <1>5, AncestryAssumption, DeploymentAssumption
<1>7. Number(checkpoint) \in 0 .. Number(b) /\ n \in 0 .. Number(b) /\ n < Number(b)
  BY <1>5, <1>6
<1>8. AncestorAt(AncestorAt(b, Number(checkpoint)), n) = AncestorAt(b, n)
  BY <1>1, <1>6, <1>7, AncestryAssumption
<1>9. f.block = AncestorAt(b, n)
  BY <1>4, <1>5, <1>8
<1> QED
  BY <1>2, <1>6, <1>7, <1>9

\* One writer is refused by no statement of commit_block but the foreign key.
LEMMA CommitQuiet ==
  ASSUME ArchiveInv, ReplayInv, BranchInv, NEW p \in Indexers, pc[p] = "commit"
  PROVE  CommitErrors(run[p].block, Records(run[p])) \subseteq {"ForeignKeyViolation"}
<1> DEFINE b == run[p].block
           rows == EventRows(b, Records(run[p]))
           new == rows \ events
<1>1. TypeOK /\ AllReady /\ ArchiveSound /\ TablesInv
  BY DEF ArchiveInv, ReplayInv
<1>2. /\ b \in Block /\ Number(b) \in Nat /\ Number(b) = After(checkpoint)
      /\ \A e \in rows : e.block = b /\ e.log \in LogsOf(b)
      /\ \A e \in rows : e \in Row
  <2>1. b \in Block /\ Number(b) = After(checkpoint)
    BY <1>1, CommitBlockFollows
  <2>2. rows = BatchLogs(run[p], run[p].next)
        /\ \A e \in BatchLogs(run[p], run[p].next) : e \in Row /\ e.block = b
    BY <1>1, CommitRows
  <2> HIDE DEF rows
  <2> QED
    BY <2>1, <2>2, RowFields, AncestryAssumption
<1>3. checkpoint # NoBlock => Number(checkpoint) < Number(b)
  BY <1>1, <1>2, AncestryAssumption DEF After, TypeOK
<1>4. StoredAt(Number(b)) = {}
  <2>1. \A c \in blocks : /\ checkpoint # NoBlock /\ checkpoint \in Block
                          /\ Number(c) \in Nat /\ Number(c) <= Number(checkpoint)
    BY <1>1, AncestryAssumption DEF TablesInv, TypeOK
  <2> QED
    BY <1>2, <1>3, <2>1, AncestryAssumption DEF StoredAt
<1>5. \A e \in rows, f \in events :
        /\ ~ SameIdentity(e, f)
        /\ ~ (e.log.kind = "created" /\ f.log.kind = "created" /\ e.log.market = f.log.market)
  <2> SUFFICES ASSUME NEW e \in rows, NEW f \in events
               PROVE  /\ ~ SameIdentity(e, f)
                      /\ ~ (/\ e.log.kind = "created" /\ f.log.kind = "created"
                            /\ e.log.market = f.log.market)
    OBVIOUS
  <2>1. /\ Number(f.block) \in 0 .. Number(b) /\ Number(f.block) < Number(b)
        /\ f.log \in LogsOf(AncestorAt(b, Number(f.block)))
    BY <1>1, ArchiveBelow
  <2>2. e.log \in LogsOf(b) /\ Number(f.block) # Number(b)
    BY <1>2, <2>1
  <2> HIDE DEF b, rows
  <2> QED
    BY <1>2, <2>1, <2>2, LogAssumption DEF SameIdentity
<1>6. Applicable(Tables, events, new)
  <2>1. \A c \in StoredAt(Number(b)) : c = b
    BY <1>4
  <2>2. checkpoint # NoBlock => Number(checkpoint) <= Number(b)
    BY <1>1, <1>2, <1>3, AncestryAssumption DEF TypeOK
  <2> QED
    BY <1>1, <2>1, <2>2, NewRowsFollow
<1>7. SameCreations(events, new)
  <2> SUFFICES ASSUME NEW e \in new, NEW f \in events \cup new, e.log.kind = "created",
                      f.log.kind # "position", e.log.market = f.log.market
               PROVE  MarketRow(e) = MarketRow(f)
    BY DEF SameCreations
  <2>1. e \in rows /\ f.log.kind = "created"
    BY <1>1, <1>2, RowKinds DEF TypeOK
  <2>2. f \in rows
    BY <1>5, <2>1
  <2>3. e.log = f.log /\ e.block = f.block
    <3>1. /\ e.log \in LogsOf(b) /\ f.log \in LogsOf(b) /\ e.block = b /\ f.block = b
          /\ AncestorAt(b, Number(b)) = b /\ Number(b) \in 0 .. Number(b)
      BY <1>2, <2>1, <2>2, AncestryAssumption
    <3> HIDE DEF b, rows, new
    <3> QED
      BY <1>2, <2>1, <3>1, LogAssumption
  <2> QED
    BY <2>3 DEF MarketRow
<1>8. Projected(b, Records(run[p])).error \in {"ForeignKeyViolation", "none"}
  <2>1. Projected(b, Records(run[p])) = ApplyInOrder(Tables, new)
    BY DEF Projected
  <2>2. Ordered(Tables, new)
    BY <1>6 DEF Applicable
  <2> HIDE DEF new
  <2> QED
    BY <1>6, <1>7, <2>1, <2>2, NoIdentityConflict, AppliedErrors DEF ProjectionErrors
<1>9. ~ (checkpoint # NoBlock /\ Number(checkpoint) > Number(b))
  BY <1>1, <1>2, <1>3, AncestryAssumption DEF TypeOK
<1> QED
  BY <1>4, <1>5, <1>8, <1>9 DEF CommitErrors

\* One writer is refused by no statement of rollback_to_ancestor but the foreign key.
LEMMA RollbackQuiet ==
  ASSUME ArchiveInv, ReplayInv, BranchInv, NEW p \in Indexers, pc[p] = "rollback"
  PROVE  RollbackErrors(run[p].block) \subseteq {"ForeignKeyViolation"}
<1> DEFINE a == run[p].block
<1>1. TypeOK /\ AllReady /\ ArchiveSound /\ TablesInv
  BY DEF ArchiveInv, ReplayInv
<1>2. a \in blocks
  <2>1. /\ checkpoint \in Block /\ run[p].next \in DeploymentBlock .. Number(checkpoint)
        /\ a = AncestorAt(checkpoint, run[p].next)
    BY <1>1, RollbackBlock
  <2> QED
    BY <2>1, NoBlockAssumption DEF BranchInv, IndexIsBranch, Branch
<1>3. StoredAt(Number(a)) = {a}
  BY <1>1, <1>2 DEF StoredAt, TablesInv
<1>4. Replayed(a).error \in {"ForeignKeyViolation", "none"}
  <2>1. /\ Replayed(a) = ApplyInOrder(ReplayBase(a), ReplayRows(a))
        /\ Applicable(ReplayBase(a), Creations(a), ReplayRows(a))
    BY <1>1, ReplayApplies
  <2>2. SameCreations(Creations(a), ReplayRows(a))
    BY DEF SameCreations, ReplayRows
  <2>3. Ordered(ReplayBase(a), ReplayRows(a))
    BY <2>1 DEF Applicable
  <2> QED
    BY <2>1, <2>2, <2>3, NoIdentityConflict, AppliedErrors DEF ProjectionErrors
<1> QED
  BY <1>3, <1>4 DEF RollbackErrors

\* No step of one indexer ends in a conflict.
LEMMA StepQuiet ==
  ASSUME ArchiveInv, ReplayInv, BranchInv, ResultInv, NEW p \in Indexers, Step(p) \/ Fault(p)
  PROVE  Quiet(p)
<1> DEFINE Ends ==
      {"none", "ok", "Rpc", "ChainIdMismatch", "PositionFullReindexRequired",
       "CheckpointAboveChainHead", "CheckpointBlockMissing", "RecoveryCheckpointMissing",
       "NoCommonAncestor", "RpcBlockMissingDuringAncestorSearch", "ForeignKeyViolation"}
<1>1. \A how \in Ends : how \notin StoreConflicts
  BY DEF StoreConflicts
<1>2. ASSUME result' = [result EXCEPT ![p] = "none"]
      PROVE  Quiet(p)
  BY <1>1, <1>2 DEF Quiet
<1>3. ASSUME NEW how \in Ends, EndRun(p, how) \/ Fail(p, how)
      PROVE  Quiet(p)
  BY <1>1, <1>3, EndQuiet
<1>4. CASE Startup(p) \/ Poll(p) \/ Fault(p)
  BY <1>1, <1>2, <1>3, <1>4, GotoQuiet
  DEF Startup, Launch, Preflight, StartupReindex, StartupCoverage, Poll, Fault, RpcFails,
      Crash
<1>5. CASE CheckChainId(p) \/ ReadLatest(p) \/ FetchCreatedLogs(p) \/ FetchPositionLogs(p)
           \/ FetchBlock(p)
  BY <1>1, <1>3, <1>5, GotoQuiet, ReorganizedQuiet
  DEF CheckChainId, ReadLatest, FetchCreatedLogs, FetchPositionLogs, FetchBlock
<1>6. checkpoint # NoBlock => ~ (Number(checkpoint) < DeploymentBlock)
  BY AncestryAssumption, DeploymentAssumption DEF BranchInv, ArchiveInv, TypeOK
<1>7. CASE ReadCheckpoint(p) \/ VerifyCheckpoint(p)
  BY <1>1, <1>3, <1>6, <1>7, GotoQuiet, NextBatchQuiet, ReorganizedQuiet
  DEF ReadCheckpoint, VerifyCheckpoint, CheckpointErrors
<1>8. CASE Commit(p)
  BY <1>1, <1>3, <1>8, CommitQuiet, GotoQuiet, NextBatchQuiet DEF Commit, AfterCommit
<1>9. CASE StartRecovery(p) \/ CompareCanonicalHash(p)
  BY <1>1, <1>3, <1>6, <1>9, GotoQuiet DEF StartRecovery, CompareCanonicalHash
<1>10. CASE ReadStoredHash(p)
  <2>1. checkpoint # NoBlock /\ run[p].next \in DeploymentBlock .. Number(checkpoint)
    BY <1>10 DEF BranchInv, Placed, ReadStoredHash
  <2>2. AncestorAt(checkpoint, run[p].next) \in blocks
    BY <2>1 DEF BranchInv, IndexIsBranch, Branch
  <2>3. checkpoint \in Block /\ run[p].next \in 0 .. Number(checkpoint)
    BY <2>1, DeploymentAssumption, AncestryAssumption DEF ArchiveInv, TypeOK
  <2>4. StoredAt(run[p].next) # {}
    BY <2>2, <2>3, AncestryAssumption DEF StoredAt
  <2> QED
    BY <1>10, <2>4, GotoQuiet DEF ReadStoredHash
<1>11. CASE Rollback(p)
  BY <1>1, <1>3, <1>11, RollbackQuiet, GotoQuiet DEF Rollback
<1> QED
  BY <1>4, <1>5, <1>7, <1>8, <1>9, <1>10, <1>11 DEF Step, CatchUp, Recovery

\* No process has a result initially.
LEMMA ResultInit == Init => ResultInv
<1>1. "none" \notin StoreConflicts
  BY DEF StoreConflicts
<1> QED
  BY <1>1 DEF Init, ResultInv, NoStoreConflict

\* Every step of one indexer keeps the conflicts away.
LEMMA ResultStep ==
  ArchiveInv /\ ReplayInv /\ BranchInv /\ ResultInv /\ [Next]_vars => ResultInv'
<1> SUFFICES ASSUME ArchiveInv, ReplayInv, BranchInv, ResultInv, [Next]_vars
             PROVE  ResultInv'
  OBVIOUS
<1>1. ASSUME NEW p \in Indexers, Step(p) \/ Fault(p)
      PROVE  ResultInv'
  BY <1>1, StepQuiet, QuietPreserved
<1>2. ASSUME UNCHANGED <<storeVars, processVars>>
      PROVE  ResultInv'
  BY <1>2 DEF processVars, ResultInv, NoStoreConflict
<1> QED
  BY <1>1, <1>2 DEF Next, Mine, Reorg, vars

\* With one indexer the defensive errors of the store never end a process,
\* whatever branch the chain moves to and whatever was orphaned: a transaction
\* mined again on another branch finds its orphaned self rolled back.
THEOREM NoConflicts ==
  ASSUME SingleWriter
  PROVE  Spec => []NoStoreConflict
<1>1. ResultInv => NoStoreConflict
  BY DEF ResultInv
<1> QED
  BY <1>1, ArchiveInit, ArchiveStep, ReplayInit, ReplayStepInv, BranchInit, BranchStep,
     ResultInit, ResultStep, PTL DEF Spec
=============================================================================
