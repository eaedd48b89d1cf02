------------------------ MODULE SingleIndexerProofs -------------------------
(***************************************************************************)
(* Theorems about an indexer that has its database to itself.  When no     *)
(* reorganization falls between its reads (the branches may change in any  *)
(* way, at any depth, while it starts, sleeps or is down), a run that ends *)
(* well is synchronized, a rollback goes no deeper than it must, and the   *)
(* index holds every log.  Then, for any texts and digests, the texts of   *)
(* markets that an operator keeps beside the index.                        *)
(***************************************************************************)
EXTENDS MetadataProperties, IndexerProofs

----------------------------------------------------------------------------
\* No reorganization between the reads of a run

SparedReads == SingleWriter /\ ~ ReorgMidRun

----------------------------------------------------------------------------
\* The invariant

Search == {"stored_hash", "canonical_hash", "rollback"}

OnHead(n, b) == HasCanonical(n) /\ Canonical(n) = b

\* What the reads of a run have established about the chain: a batch goes on
\* from a canonical checkpoint; what a search has passed has diverged, and the
\* ancestor it has found has not.
Tracks(call, r, cp) ==
  /\ call \in InBatch /\ cp # NoBlock => OnHead(Number(cp), cp)
  /\ call \in Search =>
       \A n \in r.next + 1 .. Number(cp) :
         HasCanonical(n) /\ Canonical(n) # AncestorAt(cp, n)
  /\ call = "rollback" => OnHead(r.next, r.block)

QuietInv ==
  /\ ArchiveInv /\ BranchInv
  /\ ArchiveComplete /\ AllConfined /\ AllCovered
  /\ \A p \in Indexers : Tracks(pc[p], run[p], checkpoint)

\* The step leaves process p at a call that fits the chain and the checkpoint.
TrackMove(p) ==
  \E call, r :
    /\ pc' = [pc EXCEPT ![p] = call]
    /\ run' = [run EXCEPT ![p] = r]
    /\ Tracks(call, r, checkpoint')

\* The only process is on track after its step.
LEMMA TrackPreserved ==
  ASSUME SingleWriter, TypeOK, NEW p \in Indexers, TrackMove(p), head' = head
  PROVE  (\A q \in Indexers : Tracks(pc[q], run[q], checkpoint))'
<1>1. PICK call, r : /\ pc' = [pc EXCEPT ![p] = call]
                     /\ run' = [run EXCEPT ![p] = r]
                     /\ Tracks(call, r, checkpoint')
  BY DEF TrackMove
<1>2. pc'[p] = call /\ run'[p] = r
  BY <1>1 DEF TypeOK
<1>3. \A q \in Indexers : q = p
  BY DEF SingleWriter
<1>4. Tracks(pc[p], run[p], checkpoint)'
  BY <1>1, <1>2 DEF Tracks, OnHead, HasCanonical, Canonical
<1> QED
  BY <1>3, <1>4

\* A call that neither fetches, commits nor searches has nothing to keep to.
LEMMA IdleTracks ==
  ASSUME NEW call, NEW r, NEW cp, call \notin InBatch \cup Search
  PROVE  Tracks(call, r, cp)
  BY DEF Tracks, Search

\* A run that ends holds nothing.
LEMMA EndTracks ==
  ASSUME NEW p \in Indexers, NEW how, EndRun(p, how) \/ Fail(p, how)
  PROVE  TrackMove(p)
<1>1. Tracks("waiting", NewRun, checkpoint') /\ Tracks("failed", NewRun, checkpoint')
  BY IdleTracks DEF InBatch, Search
<1> QED
  BY <1>1 DEF EndRun, Fail, TrackMove

\* A run that goes on is on track if its call is.
LEMMA GotoTracks ==
  ASSUME NEW p \in Indexers, NEW call, NEW r, Goto(p, call, r),
         Tracks(call, r, checkpoint')
  PROVE  TrackMove(p)
  BY DEF Goto, TrackMove

\* A second attempt holds nothing yet.
LEMMA ReorganizedTracks ==
  ASSUME NEW p \in Indexers, Reorganized(p)
  PROVE  TrackMove(p)
<1>1. Tracks("recover", [NewRun EXCEPT !.attempt = 2], checkpoint')
  BY IdleTracks DEF InBatch, Search
<1> QED
  BY <1>1, GotoTracks, EndTracks DEF Reorganized

\* A batch follows a checkpoint on the chain.
LEMMA NextBatchTracks ==
  ASSUME NEW p \in Indexers, NEW r, NextBatch(p, r),
         checkpoint' # NoBlock => OnHead(Number(checkpoint'), checkpoint')
  PROVE  TrackMove(p)
<1> DEFINE b == [r EXCEPT !.end = Least(r.next + BatchSize - 1, SafeHead(r)),
                          !.logs = {}, !.block = NoBlock]
<1>1. Tracks("created_logs", b, checkpoint')
  BY DEF Tracks, Search
<1> QED
  BY <1>1, GotoTracks, EndTracks DEF NextBatch

----------------------------------------------------------------------------
\* The steps of a process

\* Startup, sleep, the reads before a batch, and the faults.
LEMMA ReadsTrack ==
  ASSUME TypeOK, BranchInv, NEW p \in Indexers,
         \/ Startup(p) \/ Poll(p) \/ Fault(p)
         \/ CheckChainId(p) \/ ReadLatest(p) \/ ReadCheckpoint(p) \/ VerifyCheckpoint(p)
  PROVE  TrackMove(p)
<1>1. \A r : \A call \in {"preflight", "chain_id", "startup", "latest", "checkpoint", "verify",
                   "down"} :
        Tracks(call, r, checkpoint')
  BY IdleTracks DEF InBatch, Search
<1>2. run = [run EXCEPT ![p] = run[p]]
  BY DEF TypeOK
<1>3. CASE Launch(p) \/ Poll(p) \/ Crash(p)
  BY <1>1, <1>2, <1>3 DEF Launch, Poll, Crash, TrackMove
<1>4. CASE Preflight(p) \/ StartupReindex(p) \/ StartupCoverage(p) \/ RpcFails(p)
  BY <1>1, <1>4, GotoTracks, EndTracks
  DEF Preflight, StartupReindex, StartupCoverage, RpcFails
<1>5. CASE CheckChainId(p) \/ ReadLatest(p)
  BY <1>1, <1>5, GotoTracks, EndTracks DEF CheckChainId, ReadLatest
<1>6. CASE ReadCheckpoint(p)
  <2>1. checkpoint' = checkpoint
    BY <1>6 DEF ReadCheckpoint, storeVars
  <2> QED
    BY <1>1, <1>6, <2>1, GotoTracks, EndTracks, NextBatchTracks DEF ReadCheckpoint
<1>7. CASE VerifyCheckpoint(p)
  <2>1. checkpoint' = checkpoint /\ run[p].cp = checkpoint
    BY <1>7 DEF VerifyCheckpoint, storeVars, BranchInv, Placed
  <2> QED
    BY <1>7, <2>1, EndTracks, ReorganizedTracks, NextBatchTracks DEF VerifyCheckpoint, OnHead
<1> QED
  BY <1>3, <1>4, <1>5, <1>6, <1>7 DEF Startup, Fault

\* The calls of a batch.
LEMMA BatchTracks ==
  ASSUME QuietInv, NEW p \in Indexers,
         FetchCreatedLogs(p) \/ FetchPositionLogs(p) \/ FetchBlock(p) \/ Commit(p)
  PROVE  TrackMove(p)
<1>1. TypeOK /\ AllReady /\ AllConfined /\ Tracks(pc[p], run[p], checkpoint)
  BY DEF QuietInv, ArchiveInv
<1>2. CASE FetchCreatedLogs(p) \/ FetchPositionLogs(p) \/ FetchBlock(p)
  <2>1. checkpoint' = checkpoint /\ pc[p] \in InBatch
    BY <1>2 DEF FetchCreatedLogs, FetchPositionLogs, FetchBlock, storeVars, InBatch
  <2>2. \A r : \A call \in InBatch : Tracks(call, r, checkpoint')
    BY <1>1, <2>1 DEF Tracks, InBatch, Search
  <2> QED
    BY <1>2, <2>2, GotoTracks, EndTracks, ReorganizedTracks
    DEF FetchCreatedLogs, FetchPositionLogs, FetchBlock, InBatch
<1>3. CASE Commit(p)
  <2>1. CASE CommitBlock(run[p].block, Records(run[p])) /\ AfterCommit(p)
    <3>1. checkpoint' = run[p].block
      BY <2>1 DEF CommitBlock
    <3>2. OnHead(Number(checkpoint'), checkpoint')
      BY <1>1, <1>3, <3>1, CommitHolds DEF OnHead, Commit
    <3>3. \A r : Tracks("block", r, checkpoint')
      BY <3>2 DEF Tracks, Search
    <3> QED
      BY <2>1, <3>2, <3>3, GotoTracks, NextBatchTracks DEF AfterCommit
  <2> QED
    BY <1>3, <2>1, EndTracks DEF Commit
<1> QED
  BY <1>2, <1>3

\* The search and the rollback.
LEMMA RecoveryTracks ==
  ASSUME TypeOK, BranchInv, NEW p \in Indexers, Tracks(pc[p], run[p], checkpoint),
         Recovery(p)
  PROVE  TrackMove(p)
<1> DEFINE r == run[p]
<1>1. r \in RunState /\ r.next \in Nat
  BY DEF TypeOK, RunState
<1>2. CASE StartRecovery(p)
  <2> DEFINE s == [r EXCEPT !.next = Number(checkpoint)]
  <2>1. CASE checkpoint # NoBlock /\ Goto(p, "stored_hash", s)
    <3>1. checkpoint' = checkpoint /\ Number(checkpoint) \in Nat
      BY <1>2, <2>1, AncestryAssumption DEF StartRecovery, storeVars, TypeOK
    <3>2. s.next = Number(checkpoint)
      BY <1>1 DEF RunState
    <3>3. s.next + 1 .. Number(checkpoint) = {}
      BY <3>1, <3>2
    <3>4. Tracks("stored_hash", s, checkpoint')
      BY <3>1, <3>3 DEF Tracks, InBatch
    <3> QED
      BY <2>1, <3>4, GotoTracks
  <2> QED
    BY <1>2, <2>1, EndTracks DEF StartRecovery
<1>3. CASE ReadStoredHash(p)
  <2>1. ASSUME NEW b, Goto(p, "canonical_hash", [r EXCEPT !.block = b])
        PROVE  TrackMove(p)
    <3>1. checkpoint' = checkpoint /\ pc[p] = "stored_hash"
      BY <1>3 DEF ReadStoredHash, storeVars
    <3>2. [r EXCEPT !.block = b].next = r.next
      BY <1>1 DEF RunState
    <3>3. Tracks("canonical_hash", [r EXCEPT !.block = b], checkpoint')
      BY <3>1, <3>2 DEF Tracks, InBatch, Search
    <3> QED
      BY <2>1, <3>3, GotoTracks
  <2> QED
    BY <1>3, <2>1, EndTracks DEF ReadStoredHash
<1>4. CASE CompareCanonicalHash(p)
  <2>1. /\ checkpoint' = checkpoint /\ pc[p] = "canonical_hash"
        /\ r.block = AncestorAt(checkpoint, r.next)
        /\ \A n \in r.next + 1 .. Number(checkpoint) :
             HasCanonical(n) /\ Canonical(n) # AncestorAt(checkpoint, n)
    BY <1>4 DEF CompareCanonicalHash, storeVars, BranchInv, Placed, Tracks, Search
  <2>2. CASE HasCanonical(r.next) /\ Canonical(r.next) = r.block /\ Goto(p, "rollback", r)
    <3>1. Tracks("rollback", r, checkpoint')
      BY <2>1, <2>2 DEF Tracks, InBatch, OnHead
    <3> QED
      BY <2>2, <3>1, GotoTracks
  <2>3. CASE /\ HasCanonical(r.next) /\ Canonical(r.next) # r.block
             /\ Goto(p, "stored_hash", [r EXCEPT !.next = @ - 1, !.block = NoBlock])
    <3> DEFINE s == [r EXCEPT !.next = r.next - 1, !.block = NoBlock]
    <3>1. s.next = r.next - 1
      BY <1>1 DEF RunState
    <3>2. \A n \in s.next + 1 .. Number(checkpoint) :
            n = r.next \/ n \in r.next + 1 .. Number(checkpoint)
      BY <1>1, <3>1
    <3>3. \A n \in s.next + 1 .. Number(checkpoint) :
            HasCanonical(n) /\ Canonical(n) # AncestorAt(checkpoint, n)
      BY <2>1, <2>3, <3>2
    <3> HIDE DEF s
    <3>4. Tracks("stored_hash", s, checkpoint')
      BY <2>1, <3>3 DEF Tracks, InBatch
    <3> QED
      BY <2>3, <3>4, GotoTracks DEF s
  <2> QED
    BY <1>4, <2>2, <2>3, EndTracks DEF CompareCanonicalHash
<1>5. CASE Rollback(p)
  <2>1. Tracks("latest", [NewRun EXCEPT !.attempt = 2], checkpoint')
    BY IdleTracks DEF InBatch, Search
  <2> QED
    BY <1>5, <2>1, GotoTracks, EndTracks DEF Rollback
<1> QED
  BY <1>2, <1>3, <1>4, <1>5 DEF Recovery

----------------------------------------------------------------------------
\* Induction

\* The invariant holds initially.
LEMMA QuietInit == Init => QuietInv
<1> SUFFICES ASSUME Init PROVE QuietInv
  OBVIOUS
<1>1. \A p \in Indexers : Tracks(pc[p], run[p], checkpoint)
  BY DEF Init, Tracks, InBatch, Search
<1> QED
  BY <1>1, FinalInit, ArchiveInit, BranchInit DEF FinalInv, QuietInv

\* A mined block leaves every run on track.
LEMMA MineTracks ==
  ASSUME QuietInv, Mine
  PROVE  AllConfined' /\ (\A p \in Indexers : Tracks(pc[p], run[p], checkpoint))'
<1>1. /\ head \in Block /\ TypeOK /\ AllConfined /\ Number(head) \in Nat
      /\ Confirmations \in Nat
  BY AncestryAssumption, IndexerAssumption DEF QuietInv, ArchiveInv, TypeOK
<1>2. /\ head' \in Block /\ Number(head) <= Number(head') /\ Number(head') \in Nat
      /\ \A n \in 0 .. Number(head) : Canonical(n)' = Canonical(n)
      /\ UNCHANGED <<storeVars, processVars>>
  BY <1>1, ExtendKeeps, AncestryAssumption DEF Mine
<1>3. \A n : Confirmed(n) => Canonical(n)' = Canonical(n)
  BY <1>1, <1>2 DEF Confirmed
<1>4. AllConfined'
  BY <1>1, <1>2, <1>3, HeadConfines
<1>5. \A n \in Nat : HasCanonical(n) => HasCanonical(n)' /\ Canonical(n)' = Canonical(n)
  BY <1>1, <1>2 DEF HasCanonical
<1>6. ASSUME NEW p \in Indexers
      PROVE  Tracks(pc[p], run[p], checkpoint)'
  <2>1. /\ Tracks(pc[p], run[p], checkpoint) /\ Placed(pc[p], run[p], checkpoint)
        /\ pc' = pc /\ run' = run /\ checkpoint' = checkpoint
        /\ run[p].next \in Nat /\ checkpoint \in Block \cup {NoBlock}
    BY <1>1, <1>2 DEF QuietInv, BranchInv, storeVars, processVars, TypeOK, RunState
  <2>2. checkpoint # NoBlock => Number(checkpoint) \in Nat
    BY <2>1, AncestryAssumption
  <2>3. (pc[p] \in InBatch /\ checkpoint # NoBlock
           => OnHead(Number(checkpoint), checkpoint))'
    BY <1>5, <2>1, <2>2 DEF Tracks, OnHead
  <2>4. (pc[p] = "rollback" => OnHead(run[p].next, run[p].block))'
    BY <1>5, <2>1 DEF Tracks, OnHead
  <2>5. ASSUME pc[p] \in Search, NEW n \in run[p].next + 1 .. Number(checkpoint)
        PROVE  HasCanonical(n)' /\ Canonical(n)' # AncestorAt(checkpoint, n)
    <3>1. checkpoint # NoBlock
      BY <2>1, <2>5 DEF Placed, Search
    <3>2. n \in Nat
      BY <2>1, <2>2, <3>1
    <3> QED
      BY <1>5, <2>1, <2>5, <3>2 DEF Tracks
  <2> QED
    BY <2>1, <2>3, <2>4, <2>5 DEF Tracks
<1> QED
  BY <1>4, <1>6

\* Every step keeps the invariant.
LEMMA QuietStep ==
  ASSUME SparedReads
  PROVE  QuietInv /\ [Next]_vars => QuietInv'
<1> SUFFICES ASSUME QuietInv, [Next]_vars PROVE QuietInv'
  OBVIOUS
<1>0. /\ TypeOK /\ AllReady /\ AllConfined /\ AllCovered /\ ArchiveComplete
      /\ ArchiveInv /\ BranchInv
  BY DEF QuietInv, ArchiveInv
<1>1. ArchiveInv' /\ BranchInv'
  BY <1>0, ArchiveStep, BranchStep DEF SparedReads
<1>2. ASSUME NEW p \in Indexers, Step(p) \/ Fault(p)
      PROVE  QuietInv'
  <2>1. /\ ArchiveComplete' /\ head' = head
        /\ coverage = DeploymentBlock => coverage' = DeploymentBlock
    BY <1>0, <1>2, StepTables
  <2>2. AllConfined' /\ AllCovered'
    BY <1>0, <1>2, <2>1, StepConfines, ConfinesAll
  <2>3. TrackMove(p)
    <3>1. Tracks(pc[p], run[p], checkpoint)
      BY DEF QuietInv
    <3> QED
      BY <1>0, <1>2, <3>1, ReadsTrack, BatchTracks, RecoveryTracks DEF Step, CatchUp
  <2>4. (\A q \in Indexers : Tracks(pc[q], run[q], checkpoint))'
    BY <1>0, <2>1, <2>3, TrackPreserved DEF SparedReads
  <2> QED
    BY <1>1, <2>1, <2>2, <2>4 DEF QuietInv
<1>3. ASSUME UNCHANGED <<storeVars, processVars>>
      PROVE  ArchiveComplete' /\ AllCovered'
  BY <1>0, <1>3 DEF ArchiveComplete, AllCovered, storeVars, processVars
<1>4. CASE Mine
  BY <1>1, <1>3, <1>4, MineTracks DEF Mine, QuietInv
<1>5. CASE Reorg
  <2>1. /\ \A p \in Indexers : pc[p] \notin Running
        /\ UNCHANGED <<storeVars, processVars>>
    BY <1>5 DEF Reorg, SparedReads
  <2>2. ASSUME NEW p \in Indexers
        PROVE  Confined(pc[p], run[p])' /\ Tracks(pc[p], run[p], checkpoint)'
    <3>1. pc'[p] \notin {"checkpoint", "verify"} \cup InBatch \cup Search
      BY <2>1 DEF processVars, Running, RpcCalls, StoreCalls, InBatch, Search
    <3> QED
      BY <3>1 DEF Confined, Tracks, InBatch, Search
  <2> QED
    BY <1>1, <1>3, <2>1, <2>2 DEF QuietInv, AllConfined
<1>6. CASE UNCHANGED vars
  BY <1>0, <1>1, <1>3, <1>6
  DEF vars, processVars, storeVars, QuietInv, AllConfined, Confined, RowsAt, RowsOfKind,
      Canonical, HasCanonical, Tracks, OnHead
<1> QED
  BY <1>2, <1>4, <1>5, <1>6 DEF Next

----------------------------------------------------------------------------
\* The index holds every log, in the other regime in which it may: not because
\* blocks are final, but because the logs and the blocks of a batch are read
\* from one chain.
THEOREM QuietCompleteness ==
  ASSUME SparedReads
  PROVE  Spec => []ArchiveComplete
<1>1. QuietInv => ArchiveComplete
  BY DEF QuietInv
<1> QED
  BY <1>1, QuietInit, QuietStep, PTL DEF Spec

----------------------------------------------------------------------------
\* Rollbacks

\* The blocks that one step of the index removes, short of a full reindex,
\* were passed by the search.
LEMMA MinimalStep ==
  ASSUME SparedReads, QuietInv, [Next]_vars, \A p \in Indexers : ~ StartupReindex(p)
  PROVE  \A b \in blocks \ blocks' :
           ~ (HasCanonical(Number(b)) /\ Canonical(Number(b)) = b)
<1> SUFFICES ASSUME NEW b \in blocks, b \notin blocks'
             PROVE  ~ (HasCanonical(Number(b)) /\ Canonical(Number(b)) = b)
  OBVIOUS
<1>1. TypeOK /\ BranchInv
  BY DEF QuietInv, ArchiveInv
<1>2. PICK p \in Indexers : Step(p) \/ Fault(p)
  BY DEF Next, Mine, Reorg, vars, storeVars
<1>3. Rollback(p) /\ RollbackToAncestor(run[p].block)
  BY <1>2, IndexSteps DEF CommitBlock
<1>4. /\ checkpoint \in Block /\ run[p].next \in DeploymentBlock .. Number(checkpoint)
      /\ Number(run[p].block) = run[p].next
  BY <1>1, <1>3, RollbackBlock DEF Rollback
<1>5. PICK n \in DeploymentBlock .. Number(checkpoint) : b = AncestorAt(checkpoint, n)
  BY <1>1, <1>4, NoBlockAssumption DEF BranchInv, IndexIsBranch, Branch
<1>6. n \in 0 .. Number(checkpoint) /\ Number(b) = n /\ run[p].next \in Nat
  BY <1>4, <1>5, AncestryAssumption, DeploymentAssumption
<1>7. n \in run[p].next + 1 .. Number(checkpoint)
  <2>1. ~ (n <= run[p].next)
    BY <1>3, <1>4, <1>6 DEF RollbackToAncestor
  <2> QED
    BY <1>6, <2>1
<1>8. pc[p] = "rollback" /\ Tracks(pc[p], run[p], checkpoint)
  BY <1>3 DEF Rollback, QuietInv
<1> QED
  BY <1>5, <1>6, <1>7, <1>8 DEF Tracks, Search

\* A rollback removes no block of the canonical chain, however deep the
\* reorganizations and at whatever height the branches meet.
THEOREM MinimalRollback ==
  ASSUME SparedReads
  PROVE  Spec => RollbackIsMinimal
<1>1. QuietInv /\ [Next]_vars
        => [(\A p \in Indexers : ~ StartupReindex(p)) =>
              \A b \in blocks \ blocks' :
                ~ (HasCanonical(Number(b)) /\ Canonical(Number(b)) = b)]_vars
  BY MinimalStep
<1> QED
  BY <1>1, QuietInit, QuietStep, PTL DEF Spec, RollbackIsMinimal

----------------------------------------------------------------------------
\* Runs that end well

\* What the steps that only move on, start a recovery or fail do to the result.
LEMMA ResultOf ==
  ASSUME result = [q \in Indexers |-> result[q]], NEW p \in Indexers
  PROVE  /\ \A how : EndRun(p, how) \/ Fail(p, how) => result'[p] = how
         /\ \A call, r : Goto(p, call, r) => result'[p] = result[p]
         /\ Reorganized(p) => result'[p] \in {result[p], "RecoveryLimitExceeded"}
<1>1. \A how : [result EXCEPT ![p] = how][p] = how
  OBVIOUS
<1>2. \A how : EndRun(p, how) \/ Fail(p, how) => result'[p] = how
  BY <1>1 DEF EndRun, Fail
<1>3. \A call, r : Goto(p, call, r) => result'[p] = result[p]
  BY DEF Goto
<1> QED
  BY <1>2, <1>3 DEF Reorganized

\* What OkMeansSynced asks of a checkpoint cp and a run of process p.
SyncedAt(p, cp) ==
  /\ cp # NoBlock => OnHead(Number(cp), cp)
  /\ SafeHead(run[p]) >= DeploymentBlock => cp # NoBlock /\ Number(cp) >= SafeHead(run[p])

\* The while loop ends at the safe head.
LEMMA BatchEnds ==
  ASSUME result = [q \in Indexers |-> result[q]], NEW p \in Indexers, NEW r,
         NextBatch(p, r), result[p] # "ok", result'[p] = "ok"
  PROVE  SafeHead(r) < 0 \/ r.next > SafeHead(r)
  BY ResultOf DEF NextBatch

\* The three ways a run ends well.
LEMMA OkSteps ==
  ASSUME TypeOK, AllReady, AllConfined, BranchInv, ResultInv, NEW p \in Indexers,
         Tracks(pc[p], run[p], checkpoint),
         ReadCheckpoint(p) \/ VerifyCheckpoint(p) \/ Commit(p), ~ \E e : Fail(p, e),
         result[p] # "ok", result'[p] = "ok"
  PROVE  SyncedAt(p, checkpoint')
<1> DEFINE r == run[p]
<1>1. /\ r \in RunState /\ r.latest \in Nat /\ r.next \in Nat /\ r.end \in Nat
      /\ Confirmations \in Nat /\ SafeHead(r) \in Int /\ DeploymentBlock \in Nat
      /\ result = [q \in Indexers |-> result[q]]
  BY IndexerAssumption, DeploymentAssumption DEF TypeOK, RunState, SafeHead, ResultInv
<1>2. CASE ReadCheckpoint(p)
  <2> DEFINE s == [r EXCEPT !.next = DeploymentBlock]
  <2>1. checkpoint' = checkpoint /\ checkpoint = NoBlock /\ NextBatch(p, s)
    BY <1>1, <1>2, ResultOf DEF ReadCheckpoint, storeVars
  <2>2. s.next = DeploymentBlock /\ SafeHead(s) = SafeHead(r)
    BY <1>1 DEF RunState, SafeHead
  <2>3. SafeHead(s) < 0 \/ s.next > SafeHead(s)
    BY <1>1, <2>1, BatchEnds
  <2> QED
    BY <1>1, <2>1, <2>2, <2>3 DEF SyncedAt
<1>3. CASE VerifyCheckpoint(p)
  <2> DEFINE s == [r EXCEPT !.next = Number(r.cp) + 1, !.parent = r.cp, !.cp = NoBlock]
  <2>1. checkpoint' = checkpoint /\ r.cp = checkpoint /\ checkpoint # NoBlock
    BY <1>3 DEF VerifyCheckpoint, storeVars, BranchInv, Placed
  <2>2. OnHead(Number(r.cp), r.cp) /\ NextBatch(p, s)
    BY <1>1, <1>3, ResultOf DEF VerifyCheckpoint, OnHead
  <2>3. s.next = Number(checkpoint) + 1 /\ SafeHead(s) = SafeHead(r)
    BY <1>1, <2>1 DEF RunState, SafeHead
  <2>4. SafeHead(s) < 0 \/ s.next > SafeHead(s)
    BY <1>1, <2>2, BatchEnds
  <2>5. Number(checkpoint) \in Nat
    BY <2>1, AncestryAssumption DEF TypeOK
  <2> QED
    BY <1>1, <2>1, <2>2, <2>3, <2>4, <2>5 DEF SyncedAt
<1>4. CASE Commit(p)
  <2> DEFINE s == [r EXCEPT !.next = @ + 1, !.parent = r.block, !.block = NoBlock,
                            !.logs = @ \ BatchLogs(r, r.next)]
  <2>1. CommitBlock(r.block, Records(r)) /\ AfterCommit(p)
    BY <1>4 DEF Commit
  <2>2. /\ checkpoint' = r.block /\ r.block \in Block /\ Number(r.block) = r.next
        /\ OnHead(Number(checkpoint'), checkpoint') /\ checkpoint' # NoBlock
    BY <1>4, <2>1, CommitHolds, NoBlockAssumption DEF Commit, CommitBlock, OnHead
  <2>3. NextBatch(p, s)
    BY <1>1, <2>1, ResultOf DEF AfterCommit
  <2>4. s.next = r.next + 1 /\ SafeHead(s) = SafeHead(r)
    BY <1>1 DEF RunState, SafeHead
  <2>5. SafeHead(s) < 0 \/ s.next > SafeHead(s)
    BY <1>1, <2>3, BatchEnds
  <2> QED
    BY <1>1, <2>2, <2>4, <2>5 DEF SyncedAt
<1> QED
  BY <1>2, <1>3, <1>4

\* No other step ends a run well.
LEMMA OkComesFrom ==
  ASSUME ArchiveInv, ReplayInv, BranchInv, ResultInv, NEW p \in Indexers,
         Step(p) \/ Fault(p), result[p] # "ok", result'[p] = "ok"
  PROVE  /\ ReadCheckpoint(p) \/ VerifyCheckpoint(p) \/ Commit(p)
         /\ ~ \E e : Fail(p, e)
<1> DEFINE Other == {"none", "Rpc", "ChainIdMismatch", "PositionFullReindexRequired",
                     "CheckpointBeforeDeployment", "CheckpointAboveChainHead",
                     "CheckpointBlockMissing", "RecoveryCheckpointMissing",
                     "StoredBlockMissingDuringAncestorSearch", "NoCommonAncestor",
                     "RpcBlockMissingDuringAncestorSearch", "ForeignKeyViolation"}
<1>1. result = [q \in Indexers |-> result[q]] /\ "ok" \notin Other
  BY DEF ResultInv
<1>2. /\ \A how \in Other : ~ EndRun(p, how) /\ ~ Fail(p, how)
      /\ \A call, r : ~ Goto(p, call, r)
      /\ ~ Reorganized(p)
  BY <1>1, ResultOf
<1>3. ~ (result' = [result EXCEPT ![p] = "none"])
  BY <1>1
<1> HIDE DEF Other
<1>4. {"none", "Rpc", "ChainIdMismatch", "PositionFullReindexRequired",
       "CheckpointBeforeDeployment", "CheckpointAboveChainHead",
       "CheckpointBlockMissing", "RecoveryCheckpointMissing",
       "StoredBlockMissingDuringAncestorSearch", "NoCommonAncestor",
       "RpcBlockMissingDuringAncestorSearch", "ForeignKeyViolation"} \subseteq Other
  BY DEF Other
<1>5. ~ Startup(p) /\ ~ Poll(p) /\ ~ Fault(p)
  BY <1>2, <1>3, <1>4
  DEF Startup, Launch, Preflight, StartupReindex, StartupCoverage, Poll, Fault, RpcFails,
      Crash
<1>6. ~ Recovery(p)
  <2>1. ~ Rollback(p)
    BY <1>2, <1>4, RollbackQuiet DEF Rollback
  <2> QED
    BY <1>2, <1>4, <2>1 DEF Recovery, StartRecovery, ReadStoredHash, CompareCanonicalHash
<1>7. ReadCheckpoint(p) \/ VerifyCheckpoint(p) \/ Commit(p)
  BY <1>2, <1>4, <1>5, <1>6
  DEF Step, CatchUp, CheckChainId, ReadLatest, FetchCreatedLogs, FetchPositionLogs,
      FetchBlock
<1>8. \E how : EndRun(p, how)
  <2>1. \A r : NextBatch(p, r) => EndRun(p, "ok")
    BY <1>2 DEF NextBatch
  <2>2. CASE ReadCheckpoint(p)
    BY <1>2, <1>4, <2>1, <2>2 DEF ReadCheckpoint, CheckpointErrors
  <2>3. CASE VerifyCheckpoint(p)
    BY <1>2, <1>4, <2>1, <2>3 DEF VerifyCheckpoint
  <2>4. CASE Commit(p)
    <3>1. ~ \E e \in CommitErrors(run[p].block, Records(run[p])) : Fail(p, e)
      BY <1>2, <1>4, <2>4, CommitQuiet DEF Commit
    <3> QED
      BY <1>2, <2>1, <2>4, <3>1 DEF Commit, AfterCommit
  <2> QED
    BY <1>7, <2>2, <2>3, <2>4
<1>9. ~ \E e : Fail(p, e)
  <2>1. pc'[p] = "waiting"
    BY <1>8 DEF EndRun, ArchiveInv, TypeOK
  <2> QED
    BY <2>1 DEF Fail, ArchiveInv, TypeOK
<1> QED
  BY <1>7, <1>9

\* A step of one indexer ends a run well only at the safe head.
LEMMA OkStep ==
  ASSUME SparedReads, QuietInv, ReplayInv, ResultInv, [Next]_vars, NEW p \in Indexers,
         result[p] = "none", result'[p] = "ok"
  PROVE  SyncedAt(p, checkpoint')
<1>1. TypeOK /\ AllReady /\ AllConfined /\ BranchInv /\ ArchiveInv
  BY DEF QuietInv, ArchiveInv
<1>2. PICK q \in Indexers : Step(q) \/ Fault(q)
  BY DEF Next, Mine, Reorg, vars, processVars
<1>3. q = p
  BY DEF SparedReads, SingleWriter
<1>4. Tracks(pc[p], run[p], checkpoint)
  BY DEF QuietInv
<1> QED
  BY <1>1, <1>2, <1>3, <1>4, OkComesFrom, OkSteps

\* A run that ends well leaves the checkpoint on the canonical chain, as it is
\* at that moment, and not below the safe head the run computed: blocks mined
\* while it runs wait for the next one.
THEOREM SyncedWhenOk ==
  ASSUME SparedReads
  PROVE  Spec => OkMeansSynced
<1>1. QuietInv /\ ReplayInv /\ ResultInv /\ [Next]_vars
        => [\A p \in Indexers :
              result[p] = "none" /\ result'[p] = "ok" =>
                /\ checkpoint' # NoBlock => /\ HasCanonical(Number(checkpoint'))
                                            /\ Canonical(Number(checkpoint')) = checkpoint'
                /\ SafeHead(run[p]) >= DeploymentBlock =>
                     checkpoint' # NoBlock /\ Number(checkpoint') >= SafeHead(run[p])]_vars
  BY OkStep DEF SyncedAt, OnHead
<1>2. QuietInv => ArchiveInv /\ BranchInv
  BY DEF QuietInv
<1>3. SingleWriter
  BY DEF SparedReads
<1> QED
  BY <1>1, <1>2, <1>3, QuietInit, QuietStep, ReplayInit, ReplayStepInv, ResultInit,
     ResultStep, PTL DEF Spec, OkMeansSynced

----------------------------------------------------------------------------
\* Implementation of CanonicalIndex with every log

\* A commit appends the next block with all its logs.
LEMMA ExactStep ==
  ASSUME SparedReads, QuietInv, [Next]_vars, ~ UNCHANGED <<checkpoint, events>>
  PROVE  Abstract!ExactNext
<1>0. TypeOK /\ AllReady /\ AllConfined /\ BranchInv
  BY DEF QuietInv, ArchiveInv
<1>1. PICK p \in Indexers : Step(p) \/ Fault(p)
  BY DEF Next, Mine, Reorg, vars, storeVars
<1>2. CASE StartupReindex(p)
  BY <1>2 DEF StartupReindex, FullReindex, Abstract!ExactNext, Abstract!Clear
<1>3. CASE Commit(p) /\ CommitBlock(run[p].block, Records(run[p]))
  <2>1. /\ run[p].block \in Block /\ Records(run[p]) \subseteq LogsOf(run[p].block)
        /\ Abstract!Append(run[p].block, Records(run[p]))
    BY <1>0, <1>3, CommitAppends
  <2>2. LogsOf(run[p].block) \subseteq Records(run[p])
    BY <1>0, <1>3, CommitHolds DEF Commit
  <2>3. Records(run[p]) = LogsOf(run[p].block)
    BY <2>1, <2>2
  <2> QED
    BY <2>1, <2>3 DEF Abstract!ExactNext
<1>4. CASE Rollback(p) /\ RollbackToAncestor(run[p].block)
  BY <1>0, <1>4, RollbackRewinds DEF Abstract!ExactNext
<1> QED
  BY <1>1, <1>2, <1>3, <1>4, IndexSteps

\* An indexer that starts on an empty database implements the archive of one
\* branch with every log of every block: a commit appends the whole of a child
\* block, a rollback rewinds to an ancestor, and nothing else shows.
THEOREM ImplementsExactly ==
  ASSUME SparedReads, LegacyHeads = {}
  PROVE  Spec => IsExactIndex
<1>1. Init => events = {} /\ checkpoint = NoBlock
  BY DEF Init, EmptyStore
<1>2. QuietInv /\ [Next]_vars => [Abstract!ExactNext]_<<checkpoint, events>>
  BY ExactStep
<1> QED
  BY <1>1, <1>2, QuietInit, QuietStep, PTL DEF Spec, IsExactIndex, Abstract!ExactSpec

----------------------------------------------------------------------------
\* One indexer that never stops

\* The branches share the deployment block, reorganizations spare the reads
\* and do not shorten the chain, and the index was begun by this program.
SharedDeployment ==
  \A b, c \in Block : Number(b) >= DeploymentBlock /\ Number(c) >= DeploymentBlock =>
    AncestorAt(b, DeploymentBlock) = AncestorAt(c, DeploymentBlock)

Favourable ==
  SparedReads /\ SharedDeployment /\ MaxShrink = 0 /\ MaxLag = 0 /\ LegacyHeads = {}

\* A recovery has a checkpoint to search from; the checkpoint is not above the
\* height read, and on the chain once it has been recovered; the logs fetched
\* are those of the chain.
Steady(call, r, cp) ==
  /\ call = "recover" => cp # NoBlock
  /\ call = "checkpoint" /\ cp # NoBlock => Number(cp) <= r.latest
  /\ call \in {"latest", "checkpoint", "verify"} /\ r.attempt = 2 /\ cp # NoBlock =>
       OnHead(Number(cp), cp)
  /\ call \in {"position_logs", "block", "commit"} =>
       \A e \in r.logs : OnHead(Number(e.block), e.block)

AllSteady == \A p \in Indexers : Steady(pc[p], run[p], checkpoint)

\* The chain has reached the checkpoint; an index without marker is empty.
Reached == checkpoint # NoBlock => Number(checkpoint) <= Number(head)
Fresh ==
  coverage = NoCoverage =>
    blocks = {} /\ events = {} /\ markets = {} /\ checkpoint = NoBlock

LastingInv == AllSteady /\ Reached /\ Fresh /\ NeverStops

Excused == {"Rpc", "ChainIdMismatch"}

\* The step leaves process p steady, or stopped for a reason that is not its own.
Survives(p) ==
  \E call, r, how :
    /\ pc' = [pc EXCEPT ![p] = call]
    /\ run' = [run EXCEPT ![p] = r]
    /\ result' = [result EXCEPT ![p] = how]
    /\ Steady(call, r, checkpoint')
    /\ call = "failed" => how \in Excused

\* The only process survives its step.
LEMMA SurvivesPreserved ==
  ASSUME SingleWriter, TypeOK, ResultInv, NEW p \in Indexers, Survives(p), head' = head
  PROVE  AllSteady' /\ NeverStops'
<1>1. PICK call, r, how : /\ pc' = [pc EXCEPT ![p] = call]
                          /\ run' = [run EXCEPT ![p] = r]
                          /\ result' = [result EXCEPT ![p] = how]
                          /\ Steady(call, r, checkpoint')
                          /\ call = "failed" => how \in Excused
  BY DEF Survives
<1>2. pc'[p] = call /\ run'[p] = r /\ result'[p] = how
  BY <1>1 DEF TypeOK, ResultInv
<1>3. \A q \in Indexers : q = p
  BY DEF SingleWriter
<1>4. Steady(pc[p], run[p], checkpoint)'
  BY <1>1, <1>2 DEF Steady, OnHead, HasCanonical, Canonical
<1>5. AllSteady'
  BY <1>3, <1>4 DEF AllSteady
<1> QED
  BY <1>1, <1>2, <1>3, <1>5 DEF NeverStops, Excused

\* Most calls hold nothing to keep to.
LEMMA IdleSteady ==
  ASSUME NEW call, NEW r, NEW cp,
         call \notin {"recover", "latest", "checkpoint", "verify", "position_logs",
                      "block", "commit"}
  PROVE  Steady(call, r, cp)
  BY DEF Steady

\* A run that ends, by itself or excused.
LEMMA EndSurvives ==
  ASSUME NEW p \in Indexers, NEW how, EndRun(p, how) \/ (Fail(p, how) /\ how \in Excused)
  PROVE  Survives(p)
<1>1. Steady("waiting", NewRun, checkpoint') /\ Steady("failed", NewRun, checkpoint')
  BY IdleSteady
<1> QED
  BY <1>1 DEF EndRun, Fail, Survives

\* A run that goes on.
LEMMA GotoSurvives ==
  ASSUME ResultInv, NEW p \in Indexers, NEW call, NEW r, Goto(p, call, r),
         call # "failed", Steady(call, r, checkpoint')
  PROVE  Survives(p)
<1>1. result' = [result EXCEPT ![p] = result[p]]
  BY DEF ResultInv, Goto
<1> QED
  BY <1>1 DEF Goto, Survives

\* The head of the while loop.
LEMMA NextBatchSurvives ==
  ASSUME ResultInv, NEW p \in Indexers, NEW r, NextBatch(p, r)
  PROVE  Survives(p)
<1>1. \A s : Steady("created_logs", s, checkpoint')
  BY IdleSteady
<1> QED
  BY <1>1, GotoSurvives, EndSurvives DEF NextBatch

\* Startup, sleep and faults: an index this program has begun is never refused
\* for its coverage.
LEMMA StartupSurvives ==
  ASSUME TypeOK, ResultInv, Fresh, NEW p \in Indexers,
         Startup(p) \/ Poll(p) \/ Fault(p)
  PROVE  Survives(p)
<1>1. \A r : \A call \in {"preflight", "startup", "chain_id", "down"} :
        Steady(call, r, checkpoint')
  BY IdleSteady
<1>2. run = [run EXCEPT ![p] = run[p]]
  BY DEF TypeOK
<1>3. CASE Launch(p) \/ Poll(p) \/ Crash(p)
  BY <1>1, <1>2, <1>3 DEF Launch, Poll, Crash, Survives
<1>4. ~ CoverageRefused
  BY DEF CoverageRefused, Fresh, TypeOK
<1>5. CASE Preflight(p) \/ StartupReindex(p) \/ StartupCoverage(p) \/ RpcFails(p)
  BY <1>1, <1>4, <1>5, GotoSurvives, EndSurvives
  DEF Preflight, StartupReindex, StartupCoverage, RpcFails, Excused
<1> QED
  BY <1>3, <1>5 DEF Startup, Fault

\* The reads before a batch: a checkpoint off the chain starts a recovery in
\* the first attempt and is impossible in the second.
LEMMA ReadsSurvive ==
  ASSUME QuietInv, ResultInv, LastingInv, NEW p \in Indexers,
         CheckChainId(p) \/ ReadLatest(p) \/ ReadCheckpoint(p) \/ VerifyCheckpoint(p)
  PROVE  Survives(p)
<1> DEFINE r == run[p]
<1>1. /\ TypeOK /\ BranchInv /\ Reached /\ r \in RunState /\ checkpoint' = checkpoint
      /\ head \in Block /\ Number(head) \in Nat
  BY AncestryAssumption
  DEF QuietInv, ArchiveInv, LastingInv, TypeOK, CheckChainId, ReadLatest, ReadCheckpoint,
      VerifyCheckpoint, storeVars
<1>2. Steady(pc[p], r, checkpoint) /\ Placed(pc[p], r, checkpoint)
  BY DEF LastingInv, AllSteady, QuietInv, BranchInv
<1>3. checkpoint # NoBlock => checkpoint \in Block /\ Number(checkpoint) \in Nat
  BY <1>1, AncestryAssumption DEF TypeOK
<1>4. CASE CheckChainId(p)
  <2>1. Steady("latest", NewRun, checkpoint')
    BY DEF Steady, NewRun
  <2> QED
    BY <1>4, <2>1, GotoSurvives, EndSurvives DEF CheckChainId, Excused
<1>5. CASE ReadLatest(p)
  <2> DEFINE s == [r EXCEPT !.latest = Number(head)]
  <2>1. s.latest = Number(head) /\ s.attempt = r.attempt
    BY <1>1 DEF RunState
  <2>2. pc[p] = "latest" /\ Goto(p, "checkpoint", s)
    BY <1>5 DEF ReadLatest
  <2> HIDE DEF s
  <2>3. Steady("checkpoint", s, checkpoint')
    BY <1>1, <1>2, <2>1, <2>2 DEF Steady, Reached
  <2> QED
    BY <2>2, <2>3, GotoSurvives
<1>6. CASE ReadCheckpoint(p)
  <2>1. checkpoint # NoBlock => CheckpointErrors(r.latest) = {}
    BY <1>2, <1>3, <1>1, <1>6, DeploymentAssumption
    DEF CheckpointErrors, ReadCheckpoint, Steady, BranchInv, RunState
  <2>2. CASE Goto(p, "verify", [r EXCEPT !.cp = checkpoint])
    <3> DEFINE s == [r EXCEPT !.cp = checkpoint]
    <3>1. s.attempt = r.attempt
      BY <1>1 DEF RunState
    <3> HIDE DEF s
    <3>2. Steady("verify", s, checkpoint')
      BY <1>1, <1>2, <1>6, <3>1 DEF Steady, ReadCheckpoint
    <3> QED
      BY <2>2, <3>2, GotoSurvives DEF s
  <2> QED
    BY <1>6, <2>1, <2>2, NextBatchSurvives DEF ReadCheckpoint
<1>7. CASE VerifyCheckpoint(p)
  <2>1. pc[p] = "verify" /\ r.cp = checkpoint /\ checkpoint # NoBlock
    BY <1>2, <1>7 DEF VerifyCheckpoint, Placed
  <2>2. HasCanonical(Number(r.cp))
    BY <1>1, <2>1 DEF Reached, HasCanonical
  <2>3. ASSUME Canonical(Number(r.cp)) # r.cp, Reorganized(p)
        PROVE  Survives(p)
    <3>1. r.attempt # 2
      BY <1>2, <2>1, <2>3 DEF Steady, OnHead
    <3>2. Goto(p, "recover", [NewRun EXCEPT !.attempt = 2])
      BY <2>3, <3>1 DEF Reorganized
    <3>3. Steady("recover", [NewRun EXCEPT !.attempt = 2], checkpoint')
      BY <1>1, <2>1 DEF Steady
    <3> QED
      BY <3>2, <3>3, GotoSurvives
  <2> QED
    BY <1>7, <2>2, <2>3, NextBatchSurvives DEF VerifyCheckpoint
<1> QED
  BY <1>4, <1>5, <1>6, <1>7

\* eth_getLogs returns logs of canonical blocks.
LEMMA LogsOnHead ==
  ASSUME head \in Block, NEW from \in Nat, NEW to \in Nat, NEW kind,
         NEW e \in CanonicalLogs(from, to, kind)
  PROVE  OnHead(Number(e.block), e.block)
<1>1. PICK n \in {m \in from .. to : HasCanonical(m)} :
        e \in {[block |-> Canonical(n), log |-> l] :
                 l \in {k \in LogsOf(Canonical(n)) : k.kind = kind}}
  BY DEF CanonicalLogs
<1>2. n \in Nat /\ HasCanonical(n) /\ e.block = Canonical(n)
  BY <1>1
<1> QED
  BY <1>2, CanonicalBlock DEF OnHead

\* The block above a canonical one is its child.
LEMMA ChildOnHead ==
  ASSUME head \in Block, NEW c \in Block, OnHead(Number(c), c), HasCanonical(Number(c) + 1)
  PROVE  IsParent(c, Canonical(Number(c) + 1))
<1> DEFINE n == Number(c) + 1
           b == Canonical(n)
<1>1. Number(c) \in Nat /\ n \in Nat /\ Number(head) \in Nat /\ n <= Number(head)
  BY AncestryAssumption DEF HasCanonical
<1>2. b \in Block /\ Number(b) = n
  BY <1>1, CanonicalBlock
<1>3. n \in 0 .. Number(head) /\ Number(c) \in 0 .. n
  BY <1>1
<1>4. AncestorAt(AncestorAt(head, n), Number(c)) = AncestorAt(head, Number(c))
  BY <1>3, AncestryAssumption
<1>5. Number(b) - 1 = Number(c) /\ Number(b) > 0
  BY <1>1, <1>2
<1> QED
  BY <1>4, <1>5 DEF IsParent, OnHead, Canonical

\* Of a block of the index, the ancestors from deployment on are in the index.
LEMMA AncestorsStored ==
  ASSUME TypeOK, BranchInv, NEW c \in blocks, NEW n \in DeploymentBlock .. Number(c)
  PROVE  AncestorAt(c, n) \in blocks /\ Number(AncestorAt(c, n)) = n
<1>1. checkpoint \in Block /\ blocks = Branch(checkpoint) /\ Number(checkpoint) \in Nat
  BY AncestryAssumption DEF TypeOK, BranchInv, IndexIsBranch
<1>2. PICK m \in DeploymentBlock .. Number(checkpoint) : c = AncestorAt(checkpoint, m)
  BY <1>1 DEF Branch
<1>3. m \in 0 .. Number(checkpoint) /\ Number(c) = m
  BY <1>1, <1>2, AncestryAssumption, DeploymentAssumption
<1>4. /\ n \in 0 .. m /\ n \in 0 .. Number(checkpoint)
      /\ n \in DeploymentBlock .. Number(checkpoint)
  BY <1>1, <1>3, DeploymentAssumption
<1>5. AncestorAt(c, n) = AncestorAt(checkpoint, n)
  BY <1>1, <1>2, <1>3, <1>4, AncestryAssumption
<1> QED
  BY <1>1, <1>4, <1>5, AncestryAssumption DEF Branch

\* A position's market was created in the same block, before it, or in an
\* earlier block since deployment.
LEMMA CreationOf ==
  ASSUME NEW b \in Block, NEW l \in LogsOf(b), l.kind = "position"
  PROVE  \E n \in DeploymentBlock .. Number(b) : \E k \in LogsOf(AncestorAt(b, n)) :
           /\ k.kind = "created" /\ k.market = l.market
           /\ n < Number(b) \/ k.ix < l.ix
  BY CreationAssumption

\* Each position of a commit is of a market that the archive or the commit
\* itself creates.
LEMMA CommitCreated ==
  ASSUME QuietInv, NEW p \in Indexers, pc[p] = "commit", NEW new,
         new = EventRows(run[p].block, Records(run[p])) \ events
  PROVE  CreatedBefore(events, new)
<1> DEFINE b == run[p].block
<1>1. /\ TypeOK /\ AllReady /\ AllConfined /\ BranchInv /\ ArchiveComplete
      /\ coverage = DeploymentBlock
  BY DEF QuietInv, ArchiveInv, AllCovered, BeforeCoverage
<1>2. /\ b \in Block /\ Number(b) = After(checkpoint) /\ Number(b) \in Nat
      /\ checkpoint # NoBlock => IsParent(checkpoint, b)
      /\ LogsOf(b) \subseteq Records(run[p])
      /\ \A e \in new : e.block = b /\ e.log \in LogsOf(b)
  <2>1. /\ b \in Block /\ Number(b) = After(checkpoint)
        /\ checkpoint # NoBlock => IsParent(checkpoint, b)
    BY <1>1, CommitBlockFollows
  <2>2. LogsOf(b) \subseteq Records(run[p])
    BY <1>1, CommitHolds
  <2>3. \A e \in new : e \in Row /\ e.block = b
    BY <1>1, NewRows
  <2> HIDE DEF b
  <2> QED
    BY <2>1, <2>2, <2>3, RowFields, AncestryAssumption
<1> SUFFICES ASSUME NEW e \in new, e.log.kind = "position"
             PROVE  \E f \in events \cup new :
                      /\ f.log.kind # "position" /\ f.log.market = e.log.market
                      /\ f \in events \/ Precedes(f, e)
  BY DEF CreatedBefore, PositionsIn
<1>3. PICK n \in DeploymentBlock .. Number(b) : \E k \in LogsOf(AncestorAt(b, n)) :
        /\ k.kind = "created" /\ k.market = e.log.market
        /\ n < Number(b) \/ k.ix < e.log.ix
  BY <1>2, CreationOf
<1>4. PICK k \in LogsOf(AncestorAt(b, n)) :
        /\ k.kind = "created" /\ k.market = e.log.market
        /\ n < Number(b) \/ k.ix < e.log.ix
  BY <1>3
<1> DEFINE f == [block |-> AncestorAt(b, n), log |-> k]
<1>5. CASE n = Number(b)
  <2>1. AncestorAt(b, n) = b /\ k.ix < e.log.ix
    BY <1>2, <1>4, <1>5, AncestryAssumption
  <2>2. f \in events \cup new
    BY <1>2, <2>1 DEF EventRows
  <2>3. Precedes(f, e)
    BY <1>2, <2>1 DEF Precedes
  <2> QED
    BY <1>4, <2>2, <2>3
<1>6. CASE n # Number(b)
  <2>1. n < Number(b) /\ n \in Nat
    BY <1>2, <1>6, DeploymentAssumption
  <2>2. checkpoint # NoBlock /\ checkpoint \in Block /\ Number(checkpoint) \in Nat
        /\ Number(b) = Number(checkpoint) + 1 /\ checkpoint = AncestorAt(b, Number(checkpoint))
    <3>1. checkpoint # NoBlock
      BY <1>2, <2>1 DEF After
    <3>2. checkpoint \in Block /\ Number(checkpoint) \in Nat
      BY <1>1, <3>1, AncestryAssumption DEF TypeOK
    <3> QED
      BY <1>2, <3>1, <3>2 DEF After, IsParent
  <2>3. n \in DeploymentBlock .. Number(checkpoint) /\ n \in 0 .. Number(checkpoint)
        /\ Number(checkpoint) \in 0 .. Number(b)
    BY <2>1, <2>2
  <2>4. AncestorAt(b, n) = AncestorAt(checkpoint, n)
    BY <1>2, <2>2, <2>3, AncestryAssumption
  <2>5. AncestorAt(b, n) \in blocks
    BY <1>1, <2>2, <2>3, <2>4 DEF BranchInv, IndexIsBranch, Branch
  <2>6. f \in events
    BY <1>1, <2>5 DEF ArchiveComplete
  <2> QED
    BY <1>4, <2>6
<1> QED
  BY <1>5, <1>6

\* A commit is not refused.
LEMMA CommitAccepted ==
  ASSUME QuietInv, ReplayInv, NEW p \in Indexers, pc[p] = "commit"
  PROVE  CommitErrors(run[p].block, Records(run[p])) = {}
<1> DEFINE b == run[p].block
           new == EventRows(b, Records(run[p])) \ events
<1>1. CommitErrors(b, Records(run[p])) \subseteq {"ForeignKeyViolation"}
  BY CommitQuiet DEF QuietInv
<1>2. /\ \A c \in StoredAt(Number(b)) : c = b
      /\ checkpoint # NoBlock => ~ (Number(checkpoint) > Number(b))
  BY <1>1 DEF CommitErrors
<1>3. TypeOK /\ AllReady /\ ArchiveSound /\ TablesInv /\ b \in Block
  BY CommitRows DEF QuietInv, ArchiveInv, ReplayInv
<1>4. checkpoint # NoBlock => Number(checkpoint) <= Number(b)
  BY <1>2, <1>3, AncestryAssumption DEF TypeOK
<1>5. Applicable(Tables, events, new)
  BY <1>2, <1>3, <1>4, NewRowsFollow
<1>6. CreatedBefore(events, new)
  BY CommitCreated
<1>7. Projected(b, Records(run[p])) = ApplyInOrder(Tables, new)
  BY DEF Projected
<1> HIDE DEF new
<1>8. Projected(b, Records(run[p])).error # "ForeignKeyViolation"
  BY <1>5, <1>6, <1>7, NoForeignKeyViolation
<1>9. "ForeignKeyViolation" \notin CommitErrors(b, Records(run[p]))
  BY <1>8 DEF CommitErrors
<1> QED
  BY <1>1, <1>9

\* Nor is a rollback: the creations it retains are those of the positions it
\* replays.
LEMMA RollbackAccepted ==
  ASSUME QuietInv, ReplayInv, NEW p \in Indexers, pc[p] = "rollback"
  PROVE  RollbackErrors(run[p].block) = {}
<1> DEFINE a == run[p].block
<1>1. RollbackErrors(a) \subseteq {"ForeignKeyViolation"}
  BY RollbackQuiet DEF QuietInv
<1>2. /\ TypeOK /\ ArchiveSound /\ TablesInv /\ BranchInv /\ ArchiveComplete
      /\ coverage = DeploymentBlock
  BY DEF QuietInv, ArchiveInv, ReplayInv, AllCovered, BeforeCoverage
<1>3. a \in Block /\ Number(a) \in Nat
  BY <1>2, RollbackBlock, AncestryAssumption
<1>4. /\ Replayed(a) = ApplyInOrder(ReplayBase(a), ReplayRows(a))
      /\ Applicable(ReplayBase(a), Creations(a), ReplayRows(a))
  BY <1>2, ReplayApplies
<1>5. CreatedBefore(Creations(a), ReplayRows(a))
  <2> SUFFICES ASSUME NEW e \in ReplayRows(a), e.log.kind = "position"
               PROVE  \E f \in Creations(a) :
                        f.log.kind # "position" /\ f.log.market = e.log.market
    BY DEF CreatedBefore, PositionsIn
  <2>1. e \in events /\ Number(e.block) <= Number(a)
    BY DEF ReplayRows, RetainedEvents
  <2>2. /\ e.block \in blocks /\ e.block \in Block /\ e.log \in LogsOf(e.block)
        /\ Number(e.block) \in Nat
    BY <1>2, <2>1, AncestryAssumption DEF ArchiveSound, TypeOK
  <2>3. PICK n \in DeploymentBlock .. Number(e.block) :
          \E k \in LogsOf(AncestorAt(e.block, n)) :
            k.kind = "created" /\ k.market = e.log.market
    BY <2>2, CreationOf
  <2>4. PICK k \in LogsOf(AncestorAt(e.block, n)) :
          k.kind = "created" /\ k.market = e.log.market
    BY <2>3
  <2> DEFINE f == [block |-> AncestorAt(e.block, n), log |-> k]
  <2>5. AncestorAt(e.block, n) \in blocks /\ Number(AncestorAt(e.block, n)) = n
    BY <1>2, <2>2, AncestorsStored
  <2>6. f \in events
    BY <1>2, <2>5 DEF ArchiveComplete
  <2>7. n <= Number(a)
    BY <1>3, <2>1, <2>2, DeploymentAssumption
  <2>8. f \in Creations(a)
    BY <2>4, <2>5, <2>6, <2>7 DEF Creations
  <2> QED
    BY <2>4, <2>8
<1>6. Replayed(a).error # "ForeignKeyViolation"
  BY <1>4, <1>5, NoForeignKeyViolation
<1>7. "ForeignKeyViolation" \notin RollbackErrors(a)
  BY <1>6 DEF RollbackErrors
<1> QED
  BY <1>1, <1>7

\* The calls of a batch: its blocks are children of the checkpoint with the
\* logs fetched, and its commits are accepted.
LEMMA BatchSurvives ==
  ASSUME QuietInv, ReplayInv, ResultInv, LastingInv, NEW p \in Indexers,
         FetchCreatedLogs(p) \/ FetchPositionLogs(p) \/ FetchBlock(p) \/ Commit(p)
  PROVE  Survives(p)
<1> DEFINE r == run[p]
<1>1. /\ TypeOK /\ AllReady /\ AllConfined /\ BranchInv /\ head \in Block
      /\ r \in RunState /\ r.next \in Nat /\ r.end \in Nat
  BY DEF QuietInv, ArchiveInv, TypeOK, RunState
<1>2. /\ Steady(pc[p], r, checkpoint) /\ Placed(pc[p], r, checkpoint)
      /\ Tracks(pc[p], r, checkpoint) /\ Confined(pc[p], r)
  BY DEF LastingInv, AllSteady, QuietInv, BranchInv, AllConfined
<1>3. \A logs : [r EXCEPT !.logs = logs].logs = logs
  BY <1>1 DEF RunState
<1>4. CASE FetchCreatedLogs(p)
  <2> DEFINE created == CanonicalLogs(r.next, r.end, "created")
             s == [r EXCEPT !.logs = created]
  <2>1. \A e \in created : OnHead(Number(e.block), e.block)
    BY <1>1, LogsOnHead
  <2>2. s.logs = created
    BY <1>3
  <2>3. Goto(p, "position_logs", s)
    BY <1>4 DEF FetchCreatedLogs
  <2> HIDE DEF s, created
  <2>4. Steady("position_logs", s, checkpoint')
    BY <2>1, <2>2 DEF Steady
  <2> QED
    BY <2>3, <2>4, GotoSurvives
<1>5. CASE FetchPositionLogs(p)
  <2> DEFINE position == CanonicalLogs(r.next, r.end, "position")
             s == [r EXCEPT !.logs = r.logs \cup position]
  <2>1. \A e \in position : OnHead(Number(e.block), e.block)
    BY <1>1, LogsOnHead
  <2>2. s.logs = r.logs \cup position
    BY <1>3
  <2>3. Goto(p, "block", s) /\ pc[p] = "position_logs"
    BY <1>5 DEF FetchPositionLogs
  <2> HIDE DEF s, position
  <2>4. Steady("block", s, checkpoint')
    BY <1>2, <2>1, <2>2, <2>3 DEF Steady
  <2> QED
    BY <2>3, <2>4, GotoSurvives
<1>6. CASE FetchBlock(p)
  <2> DEFINE b == Canonical(r.next)
             s == [r EXCEPT !.block = b]
  <2>1. pc[p] = "block"
    BY <1>6 DEF FetchBlock
  <2>2. HasCanonical(r.next) /\ b \in Block /\ Number(b) = r.next
    BY <1>1, <1>2, <2>1, BatchConfirmed, CanonicalBlock DEF Confined, InBatch
  <2>3. FollowsParent(r, b)
    <3>1. r.parent = checkpoint /\ r.next = After(checkpoint)
      BY <1>2, <2>1 DEF Placed
    <3>2. ASSUME checkpoint # NoBlock
          PROVE  IsParent(checkpoint, b)
      <4>1. checkpoint \in Block /\ OnHead(Number(checkpoint), checkpoint)
        BY <1>1, <1>2, <2>1, <3>2 DEF TypeOK, Tracks, InBatch
      <4>2. r.next = Number(checkpoint) + 1
        BY <3>1, <3>2 DEF After
      <4> QED
        BY <1>1, <2>2, <4>1, <4>2, ChildOnHead
    <3> QED
      BY <3>1, <3>2 DEF FollowsParent
  <2>4. LogsMatch(r, b)
    BY <1>2, <2>1, <2>2 DEF LogsMatch, BatchLogs, Steady, OnHead
  <2>5. Goto(p, "commit", s)
    BY <1>6, <2>2, <2>3, <2>4 DEF FetchBlock
  <2>6. s.logs = r.logs
    BY <1>1 DEF RunState
  <2> HIDE DEF s
  <2>7. Steady("commit", s, checkpoint')
    BY <1>2, <2>1, <2>6 DEF Steady
  <2> QED
    BY <2>5, <2>7, GotoSurvives
<1>7. CASE Commit(p)
  <2> DEFINE s == [r EXCEPT !.next = @ + 1, !.parent = r.block, !.block = NoBlock,
                            !.logs = @ \ BatchLogs(r, r.next)]
  <2>1. pc[p] = "commit" /\ AfterCommit(p)
    BY <1>7, CommitAccepted DEF Commit
  <2>2. s.logs = r.logs \ BatchLogs(r, r.next)
    BY <1>1 DEF RunState
  <2>3. Goto(p, "block", s) \/ NextBatch(p, s)
    BY <2>1 DEF AfterCommit
  <2> HIDE DEF s
  <2>4. Steady("block", s, checkpoint')
    BY <1>2, <2>1, <2>2 DEF Steady
  <2> QED
    BY <2>3, <2>4, GotoSurvives, NextBatchSurvives
<1> QED
  BY <1>4, <1>5, <1>6, <1>7

\* The search ends at the deployment block at the latest, and the rollback is
\* accepted.
LEMMA RecoverySurvives ==
  ASSUME SharedDeployment, QuietInv, ReplayInv, ResultInv, LastingInv, NEW p \in Indexers,
         Recovery(p)
  PROVE  Survives(p)
<1> DEFINE r == run[p]
<1>1. /\ TypeOK /\ BranchInv /\ Reached /\ r \in RunState /\ head \in Block
      /\ Number(head) \in Nat
  BY AncestryAssumption DEF QuietInv, ArchiveInv, LastingInv, TypeOK
<1>2. /\ Steady(pc[p], r, checkpoint) /\ Placed(pc[p], r, checkpoint)
      /\ Tracks(pc[p], r, checkpoint)
  BY DEF LastingInv, AllSteady, QuietInv, BranchInv
<1>3. checkpoint # NoBlock => /\ checkpoint \in Block /\ Number(checkpoint) \in Nat
                              /\ DeploymentBlock <= Number(checkpoint)
                              /\ Number(checkpoint) <= Number(head)
  BY <1>1, AncestryAssumption, DeploymentAssumption DEF TypeOK, BranchInv, Reached
<1>4. \A s : \A call \in {"stored_hash", "canonical_hash", "rollback"} :
        Steady(call, s, checkpoint')
  BY IdleSteady
<1>5. CASE StartRecovery(p)
  <2>1. checkpoint # NoBlock /\ ~ (Number(checkpoint) < DeploymentBlock)
    BY <1>2, <1>3, <1>5, DeploymentAssumption DEF StartRecovery, Steady
  <2> QED
    BY <1>4, <1>5, <2>1, GotoSurvives DEF StartRecovery
<1>6. CASE ReadStoredHash(p)
  <2>1. /\ checkpoint \in Block /\ checkpoint \in blocks
        /\ r.next \in DeploymentBlock .. Number(checkpoint)
    <3>1. checkpoint # NoBlock /\ r.next \in DeploymentBlock .. Number(checkpoint)
      BY <1>2, <1>6 DEF Placed, ReadStoredHash
    <3>2. Number(checkpoint) \in DeploymentBlock .. Number(checkpoint)
      BY <1>3, <3>1, DeploymentAssumption
    <3>3. AncestorAt(checkpoint, Number(checkpoint)) = checkpoint
      BY <1>3, <3>1, AncestryAssumption
    <3> QED
      BY <1>1, <1>3, <3>1, <3>2, <3>3 DEF BranchInv, IndexIsBranch, Branch
  <2>2. StoredAt(r.next) # {}
    BY <1>1, <2>1, AncestorsStored DEF StoredAt
  <2> QED
    BY <1>4, <1>6, <2>2, GotoSurvives DEF ReadStoredHash
<1>7. CASE CompareCanonicalHash(p)
  <2>1. /\ checkpoint # NoBlock /\ r.next \in DeploymentBlock .. Number(checkpoint)
        /\ r.block = AncestorAt(checkpoint, r.next)
    BY <1>2, <1>7 DEF Placed, CompareCanonicalHash
  <2>2. HasCanonical(r.next)
    BY <1>1, <1>3, <2>1, DeploymentAssumption DEF HasCanonical
  <2>3. ~ (Canonical(r.next) # r.block /\ r.next = DeploymentBlock)
    BY <1>1, <1>3, <2>1, DeploymentAssumption DEF SharedDeployment, Canonical
  <2> QED
    BY <1>4, <1>7, <2>2, <2>3, GotoSurvives DEF CompareCanonicalHash
<1>8. CASE Rollback(p)
  <2> DEFINE s == [NewRun EXCEPT !.attempt = 2]
  <2>1. pc[p] = "rollback" /\ RollbackToAncestor(r.block) /\ Goto(p, "latest", s)
    BY <1>8, RollbackAccepted DEF Rollback
  <2>2. /\ checkpoint' = r.block /\ OnHead(r.next, r.block)
        /\ Number(r.block) = r.next
    BY <1>1, <1>2, <2>1, RollbackBlock DEF RollbackToAncestor, Tracks
  <2> HIDE DEF s
  <2>3. Steady("latest", s, checkpoint')
    BY <2>2 DEF Steady
  <2> QED
    BY <2>1, <2>3, GotoSurvives
<1> QED
  BY <1>5, <1>6, <1>7, <1>8 DEF Recovery

\* The checkpoint stays within the chain, and a covered index stays covered.
LEMMA StepReaches ==
  ASSUME QuietInv, LastingInv, NEW p \in Indexers, Step(p) \/ Fault(p)
  PROVE  Reached' /\ Fresh'
<1>1. /\ TypeOK /\ AllReady /\ AllConfined /\ AllCovered /\ ArchiveComplete /\ BranchInv
      /\ Reached /\ Fresh
  BY DEF QuietInv, ArchiveInv, LastingInv
<1>2. /\ head' = head
      /\ coverage = DeploymentBlock => coverage' = DeploymentBlock
  BY <1>1, StepTables
<1>3. Reached'
  <2>1. CASE UNCHANGED <<checkpoint, blocks, events>>
    BY <1>1, <1>2, <2>1 DEF Reached
  <2>2. CASE StartupReindex(p)
    BY <2>2 DEF StartupReindex, FullReindex, Reached
  <2>3. CASE Commit(p) /\ CommitBlock(run[p].block, Records(run[p]))
    BY <1>1, <1>2, <2>3, CommitHolds DEF Commit, CommitBlock, Reached, HasCanonical
  <2>4. CASE Rollback(p) /\ RollbackToAncestor(run[p].block)
    <3>1. /\ checkpoint \in Block /\ Number(checkpoint) \in Nat /\ Number(head) \in Nat
          /\ run[p].next \in DeploymentBlock .. Number(checkpoint)
          /\ Number(run[p].block) = run[p].next
      BY <1>1, <2>4, RollbackBlock, AncestryAssumption DEF Rollback, TypeOK
    <3>2. checkpoint' = run[p].block /\ Number(checkpoint) <= Number(head)
      BY <1>1, <2>4, <3>1, NoBlockAssumption DEF RollbackToAncestor, Reached
    <3>3. Number(run[p].block) <= Number(head)
      BY <3>1, <3>2, DeploymentAssumption
    <3> QED
      BY <1>2, <3>2, <3>3 DEF Reached
  <2> QED
    BY <2>1, <2>2, <2>3, <2>4, IndexSteps
<1>4. Fresh'
  <2> SUFFICES ASSUME coverage # DeploymentBlock, coverage' # DeploymentBlock
               PROVE  /\ blocks' = {} /\ events' = {} /\ markets' = {}
                      /\ checkpoint' = NoBlock
    BY <1>2, DeploymentAssumption DEF Fresh, NoCoverage
  <2>1. coverage = NoCoverage /\ pc[p] \in BeforeCoverage
    BY <1>1 DEF TypeOK, AllCovered
  <2>2. Startup(p) \/ Fault(p)
    BY <2>1 DEF BeforeCoverage, Step, Poll, CatchUp, CheckChainId, ReadLatest,
                ReadCheckpoint, VerifyCheckpoint, FetchCreatedLogs, FetchPositionLogs,
                FetchBlock, Commit, Recovery, StartRecovery, ReadStoredHash,
                CompareCanonicalHash, Rollback
  <2>3. UNCHANGED <<blocks, events, markets, checkpoint>>
    BY <2>2 DEF Startup, Launch, Preflight, StartupReindex, FullReindex, StartupCoverage,
                EnsurePositionCoverage, Fault, RpcFails, Crash, storeVars
  <2> QED
    BY <1>1, <2>1, <2>3 DEF Fresh
<1> QED
  BY <1>3, <1>4

\* The head is never lowered, and moves between the reads of a run only up.
LEMMA HeadLasts ==
  ASSUME MaxShrink = 0, MaxLag = 0, ~ ReorgMidRun, QuietInv, LastingInv, Mine \/ Reorg
  PROVE  LastingInv'
<1>1. /\ TypeOK /\ head \in Block /\ Number(head) \in Nat /\ head' \in Block
      /\ Number(head') \in Nat /\ UNCHANGED <<storeVars, processVars>>
      /\ AllSteady /\ Reached /\ Fresh /\ NeverStops
  BY ChainStep, AncestryAssumption DEF QuietInv, ArchiveInv, TypeOK, Mine, Reorg, LastingInv
<1>2. checkpoint # NoBlock => checkpoint \in Block /\ Number(checkpoint) \in Nat
  BY <1>1, AncestryAssumption DEF TypeOK
<1>3. Number(head) <= Number(head')
  <2>1. CASE Mine
    BY <1>1, <2>1, ExtendKeeps DEF Mine
  <2>2. CASE Reorganize
    BY <1>1, <2>2 DEF Reorganize
  <2>3. ~ FallBehind
    BY <1>1 DEF FallBehind
  <2> QED
    BY <2>1, <2>2, <2>3 DEF Reorg
<1>4. Reached' /\ Fresh' /\ NeverStops'
  BY <1>1, <1>2, <1>3 DEF Reached, Fresh, NeverStops, storeVars, processVars
<1>5. ASSUME NEW p \in Indexers
      PROVE  Steady(pc[p], run[p], checkpoint)'
  <2>1. /\ Steady(pc[p], run[p], checkpoint) /\ pc' = pc /\ run' = run
        /\ checkpoint' = checkpoint
    BY <1>1 DEF AllSteady, storeVars, processVars
  <2>2. CASE Reorg
    <3>1. pc[p] \notin Running
      BY <2>2 DEF Reorg
    <3> QED
      BY <2>1, <3>1 DEF Steady, Running, RpcCalls, StoreCalls
  <2>3. CASE Mine
    <3>1. \A n \in 0 .. Number(head) : Canonical(n)' = Canonical(n)
      BY <1>1, <2>3, ExtendKeeps DEF Mine
    <3>2. \A b : \A n \in Nat : OnHead(n, b) => OnHead(n, b)'
      BY <1>1, <1>3, <3>1 DEF OnHead, HasCanonical
    <3>3. \A e \in run[p].logs : Number(e.block) \in Nat
      BY <1>1, RowFields, AncestryAssumption DEF TypeOK, RunState
    <3> QED
      BY <1>2, <2>1, <3>2, <3>3 DEF Steady
  <2> QED
    BY <2>2, <2>3
<1> QED
  BY <1>4, <1>5 DEF LastingInv, AllSteady

\* The invariant holds initially.
LEMMA LastingInit ==
  ASSUME Favourable
  PROVE  Init => LastingInv
  BY DEF Favourable, Init, EmptyStore, LastingInv, AllSteady, Steady, Reached, Fresh,
         NeverStops

\* Every step keeps it.
LEMMA LastingStep ==
  ASSUME Favourable
  PROVE  QuietInv /\ ReplayInv /\ ResultInv /\ LastingInv /\ [Next]_vars => LastingInv'
<1> SUFFICES ASSUME QuietInv, ReplayInv, ResultInv, LastingInv, [Next]_vars
             PROVE  LastingInv'
  OBVIOUS
<1>1. ASSUME NEW p \in Indexers, Step(p) \/ Fault(p)
      PROVE  LastingInv'
  <2>1. Reached' /\ Fresh'
    BY <1>1, StepReaches
  <2>2. TypeOK /\ Fresh /\ AllReady /\ AllConfined /\ AllCovered /\ ArchiveComplete
    BY DEF QuietInv, ArchiveInv, LastingInv
  <2>3. head' = head
    BY <1>1, <2>2, StepTables
  <2>4. Survives(p)
    BY <1>1, <2>2, StartupSurvives, ReadsSurvive, BatchSurvives, RecoverySurvives
    DEF Favourable, Step, CatchUp
  <2>5. AllSteady' /\ NeverStops'
    BY <2>2, <2>3, <2>4, SurvivesPreserved DEF Favourable, SparedReads
  <2> QED
    BY <2>1, <2>5 DEF LastingInv
<1>2. CASE Mine \/ Reorg
  BY <1>2, HeadLasts DEF Favourable, SparedReads
<1>3. CASE UNCHANGED vars
  BY <1>3 DEF vars, storeVars, processVars, LastingInv, AllSteady, Steady, Reached, Fresh,
              NeverStops, OnHead, HasCanonical, Canonical
<1> QED
  BY <1>1, <1>2, <1>3 DEF Next

\* A process past its preflight call never ends with an error of its own: every
\* reorganization is recovered from in one attempt, and no transaction of the
\* store is refused.
THEOREM NeverStopped ==
  ASSUME Favourable
  PROVE  Spec => []NeverStops
<1>1. LastingInv => NeverStops
  BY DEF LastingInv
<1>2. QuietInv => ArchiveInv /\ BranchInv
  BY DEF QuietInv
<1>3. SparedReads /\ SingleWriter
  BY DEF Favourable, SparedReads
<1> QED
  BY <1>1, <1>2, <1>3, QuietInit, QuietStep, ReplayInit, ReplayStepInv, ResultInit,
     ResultStep, LastingInit, LastingStep, PTL DEF Spec

----------------------------------------------------------------------------
\* The texts of markets

\* The primary key of market_metadata.
OneTextEach == \A r, s \in metadata : r.market = s.market => r = s

\* Every step beside the index leaves it alone.
LEMMA MetadataRefines == MetadataSpec => Spec
<1>1. MetadataInit => Init
  BY DEF MetadataInit
<1>2. [MetadataNext]_metadataVars => [Next]_vars
  BY DEF MetadataNext, metadataVars, IndexStep, Insert, StartInsert, ReadIndexedMarket,
         ReadExisting, Upsert, ReadRow, ReadMarketBack, InsertStops, Operator,
         OperatorRecords, OperatorRemoves
<1> QED
  BY <1>1, <1>2, PTL DEF MetadataSpec, Spec

\* Every write of the table keeps its key: an upsert replaces, an insert is of
\* a market without a row.
LEMMA KeyStep == OneTextEach /\ [MetadataNext]_metadataVars => OneTextEach'
<1> SUFFICES ASSUME OneTextEach, [MetadataNext]_metadataVars PROVE OneTextEach'
  OBVIOUS
<1>1. CASE metadata' \subseteq metadata
  BY <1>1 DEF OneTextEach
<1>2. CASE Upsert
  BY <1>1, <1>2 DEF Upsert, Existing, NewRow, OneTextEach
<1>3. CASE \E s, t \in Text : OperatorRecords(s, t)
  BY <1>3 DEF OperatorRecords, Shown, OneTextEach
<1>4. CASE IndexStep
  BY <1>1, <1>4 DEF IndexStep, Cascade
<1> QED
  BY <1>1, <1>2, <1>3, <1>4
  DEF MetadataNext, metadataVars, Insert, StartInsert, ReadIndexedMarket, ReadExisting,
      ReadRow, ReadMarketBack, InsertStops, Operator, OperatorRemoves

\* A market of the table was created on the branch of the checkpoint.
LEMMA MarketsOnBranch ==
  ASSUME TypeOK, ArchiveSound, TablesInv, IndexIsBranch, NEW m \in markets
  PROVE  \E n \in DeploymentBlock .. Number(checkpoint) :
           \E l \in LogsOf(AncestorAt(checkpoint, n)) :
             l.kind = "created" /\ l.market = m.market /\ l.terms = m.terms
<1>1. PICK e \in events \ PositionsIn(events) : m = MarketRow(e)
  BY DEF TablesInv, Says, Tables, MarketsSaid
<1>2. e.block \in blocks /\ e.log \in LogsOf(e.block) /\ e.log.kind = "created"
  BY <1>1, RowKinds DEF ArchiveSound, PositionsIn, TypeOK
<1>3. PICK n \in DeploymentBlock .. Number(checkpoint) : e.block = AncestorAt(checkpoint, n)
  BY <1>2 DEF IndexIsBranch, Branch
<1>4. e.log.market = m.market /\ e.log.terms = m.terms
  BY <1>1 DEF MarketRow
<1> QED
  BY <1>2, <1>3, <1>4

\* Whoever writes texts, and whatever is rolled back, reindexed or created
\* again on another branch meanwhile: a text that the API calls verified is one
\* that the followed branch commits to.
THEOREM Committed ==
  ASSUME SingleWriter
  PROVE  MetadataSpec => []VerifiedIsCommitted
<1>1. ArchiveInv /\ ReplayInv /\ BranchInv /\ OneTextEach => VerifiedIsCommitted
  <2> SUFFICES ASSUME ArchiveInv, ReplayInv, BranchInv, OneTextEach,
                      NEW m \in markets, Verified(m), NEW r \in Shown(m)
               PROVE  \E n \in DeploymentBlock .. Number(checkpoint) :
                        \E l \in LogsOf(AncestorAt(checkpoint, n)) :
                          /\ l.kind = "created" /\ l.market = m.market
                          /\ l.terms.digest = Digest(r.text)
    BY DEF VerifiedIsCommitted
  <2>1. m.terms.digest = Digest(r.text)
    BY DEF Verified, Commits, Shown, OneTextEach
  <2>2. \E n \in DeploymentBlock .. Number(checkpoint) :
          \E l \in LogsOf(AncestorAt(checkpoint, n)) :
            l.kind = "created" /\ l.market = m.market /\ l.terms = m.terms
    BY MarketsOnBranch DEF ArchiveInv, ReplayInv, BranchInv
  <2> QED
    BY <2>1, <2>2
<1>2. MetadataInit => OneTextEach
  BY DEF MetadataInit, OneTextEach
<1>3. MetadataSpec => [](ArchiveInv /\ ReplayInv /\ BranchInv)
  BY MetadataRefines, ArchiveInit, ArchiveStep, ReplayInit, ReplayStepInv, BranchInit,
     BranchStep, PTL DEF Spec
<1>4. MetadataSpec => []OneTextEach
  BY <1>2, KeyStep, PTL DEF MetadataSpec
<1> QED
  BY <1>1, <1>3, <1>4, PTL

----------------------------------------------------------------------------
\* What the command relies on

\* A market is created once on a branch.
LEMMA OneRowEach ==
  ASSUME TypeOK, ArchiveSound, TablesInv, IndexIsBranch,
         NEW m \in markets, NEW k \in markets, m.market = k.market
  PROVE  m = k
<1>1. ASSUME NEW e \in events \ PositionsIn(events)
      PROVE  /\ e.log \in LogsOf(e.block) /\ e.log.kind = "created"
             /\ checkpoint \in Block /\ Number(checkpoint) \in Nat
             /\ e.block \in Block /\ Number(e.block) \in 0 .. Number(checkpoint)
             /\ e.block = AncestorAt(checkpoint, Number(e.block))
  <2>1. e.block \in blocks /\ e.log \in LogsOf(e.block) /\ e.log.kind = "created"
    BY <1>1, RowKinds DEF ArchiveSound, PositionsIn, TypeOK
  <2>2. checkpoint \in Block /\ Number(checkpoint) \in Nat
    BY <2>1, AncestryAssumption DEF IndexIsBranch, TypeOK
  <2>3. PICK n \in DeploymentBlock .. Number(checkpoint) : e.block = AncestorAt(checkpoint, n)
    BY <2>1 DEF IndexIsBranch, Branch
  <2>4. n \in 0 .. Number(checkpoint)
    BY <2>2, DeploymentAssumption
  <2> QED
    BY <2>1, <2>2, <2>3, <2>4, AncestryAssumption
<1>2. PICK e \in events \ PositionsIn(events) : m = MarketRow(e)
  BY DEF TablesInv, Says, Tables, MarketsSaid
<1>3. PICK f \in events \ PositionsIn(events) : k = MarketRow(f)
  BY DEF TablesInv, Says, Tables, MarketsSaid
<1>4. e.log.market = f.log.market
  BY <1>2, <1>3 DEF MarketRow
<1>5. ASSUME NEW c \in events \ PositionsIn(events), NEW d \in events \ PositionsIn(events),
             c.log.market = d.log.market, Number(c.block) <= Number(d.block)
      PROVE  c.log = d.log /\ Number(c.block) = Number(d.block)
  <2>1. Number(c.block) \in 0 .. Number(d.block) /\ d.block \in Block
        /\ Number(d.block) \in 0 .. Number(checkpoint) /\ checkpoint \in Block
    BY <1>1, <1>5
  <2>2. AncestorAt(AncestorAt(checkpoint, Number(d.block)), Number(c.block))
          = AncestorAt(checkpoint, Number(c.block))
    BY <2>1, AncestryAssumption
  <2>3. AncestorAt(d.block, Number(c.block)) = c.block
    BY <1>1, <2>2
  <2>4. /\ c.log \in LogsOf(AncestorAt(d.block, Number(c.block))) /\ d.log \in LogsOf(d.block)
        /\ c.log.kind = "created" /\ d.log.kind = "created"
    BY <1>1, <2>3
  <2> QED
    BY <1>5, <2>1, <2>4, LogAssumption
<1>6. Number(e.block) \in Nat /\ Number(f.block) \in Nat
  BY <1>1
<1>7. e.log = f.log /\ Number(e.block) = Number(f.block)
  BY <1>4, <1>5, <1>6
<1> QED
  BY <1>2, <1>3, <1>7 DEF MarketRow

\* Past its first statement the command has read a market that its text is of.
Checked ==
  /\ insert = [at |-> insert.at, market |-> insert.market]
  /\ insert.at \in {"existing", "upsert"} => \A m \in insert.market : MarketMatches(m)

\* The market that the command has read is the only one of its number.
LEMMA CheckedStep ==
  ASSUME TypeOK, ArchiveSound, TablesInv, IndexIsBranch
  PROVE  Checked /\ [MetadataNext]_metadataVars => Checked'
<1> SUFFICES ASSUME Checked, [MetadataNext]_metadataVars PROVE Checked'
  OBVIOUS
<1>1. CASE UNCHANGED insert
  BY <1>1 DEF Checked, MarketMatches
<1>2. CASE ReadIndexedMarket
  <2>1. CASE (\E m \in IndexedMarket : MarketMatches(m))
             /\ insert' = [at |-> "existing", market |-> IndexedMarket]
    <3>1. \A m \in IndexedMarket : MarketMatches(m)
      BY <2>1, OneRowEach DEF IndexedMarket
    <3> QED
      BY <2>1, <3>1 DEF Checked, MarketMatches
  <2>2. CASE End("error")
    BY <2>2 DEF End, Checked
  <2> QED
    BY <1>2, <2>1, <2>2 DEF ReadIndexedMarket
<1>3. ASSUME NEW statement, Then(statement)
      PROVE  insert' = [at |-> statement, market |-> insert.market]
  BY <1>3 DEF Then, Checked
<1>4. CASE ReadExisting
  <2>1. ASSUME NEW statement, Then(statement)
        PROVE  Checked'
    BY <1>4, <1>3, <2>1 DEF Checked, MarketMatches, ReadExisting
  <2> QED
    BY <1>4, <2>1 DEF ReadExisting, End, Checked
<1>5. CASE StartInsert \/ InsertStops \/ ReadMarketBack
  BY <1>5 DEF StartInsert, InsertStops, ReadMarketBack, End, Checked
<1>6. CASE Upsert \/ ReadRow
  <2>1. \/ insert' = [at |-> "read_row", market |-> insert.market]
        \/ insert' = [at |-> "read_market", market |-> insert.market]
        \/ insert' = [at |-> "error", market |-> {}]
    BY <1>6, <1>3 DEF Upsert, ReadRow, End
  <2> QED
    BY <2>1 DEF Checked
<1> QED
  BY <1>1, <1>2, <1>4, <1>5, <1>6
  DEF MetadataNext, metadataVars, IndexStep, Insert, Operator, OperatorRecords,
      OperatorRemoves

----------------------------------------------------------------------------
\* A market that stays verified

\* What each write does to the texts of a market that is not removed.
LEMMA StaysStep ==
  ASSUME TypeOK, ArchiveSound, TablesInv, IndexIsBranch, OneTextEach, Checked,
         [MetadataNext]_metadataVars, NEW m \in markets, m \in markets', Verified(m),
         ~ OperatorRemoves, ~ (Upsert /\ m \notin insert.market)
  PROVE  Verified(m)'
<1>1. PICK r \in metadata : r.market = m.market /\ Commits(m.terms.digest, r.text)
  BY DEF Verified, Shown
<1>2. ASSUME r \in metadata'
      PROVE  Verified(m)'
  BY <1>1, <1>2 DEF Verified, Shown, Commits
<1>3. CASE metadata \subseteq metadata'
  BY <1>2, <1>3
<1>4. CASE Upsert
  <2>1. CASE m.market = MarketId /\ metadata' = (metadata \ Existing) \cup {NewRow}
    <3>1. MarketMatches(m)
      BY <1>4 DEF Checked, Upsert
    <3>2. NewRow \in metadata' /\ NewRow.market = m.market /\ NewRow.text = NewText
      BY <2>1 DEF NewRow
    <3>3. NewRow.text = NewText /\ Commits(m.terms.digest, NewRow.text)
      BY <3>1, <3>2 DEF MarketMatches
    <3> QED
      BY <3>2, <3>3 DEF Verified, Shown, Commits
  <2>2. CASE m.market # MarketId \/ metadata' = metadata
    BY <1>1, <1>2, <1>4, <2>2 DEF Upsert, Existing
  <2> QED
    BY <1>4, <2>1, <2>2 DEF Upsert
<1>5. CASE IndexStep
  <2>1. r \in Cascade
    BY <1>1 DEF Cascade
  <2> QED
    BY <1>2, <1>5, <2>1 DEF IndexStep
<1> QED
  BY <1>3, <1>4, <1>5
  DEF MetadataNext, metadataVars, Insert, StartInsert, ReadIndexedMarket, ReadExisting,
      ReadRow, ReadMarketBack, InsertStops, Operator, OperatorRecords

\* A verified text of a market that the index keeps is lost to nothing but an
\* operator's removal, or to a command that read another market row: neither the
\* cascade of a rollback nor an upsert that overtakes another writer takes it.
THEOREM Kept ==
  ASSUME SingleWriter
  PROVE  MetadataSpec => VerifiedStays
<1>1. MetadataSpec => [](ArchiveInv /\ ReplayInv /\ BranchInv)
  BY MetadataRefines, ArchiveInit, ArchiveStep, ReplayInit, ReplayStepInv, BranchInit,
     BranchStep, PTL DEF Spec
<1>2. MetadataInit => OneTextEach /\ Checked
  BY DEF MetadataInit, OneTextEach, Checked
<1>3. ArchiveInv /\ ReplayInv /\ BranchInv
        => TypeOK /\ ArchiveSound /\ TablesInv /\ IndexIsBranch
  BY DEF ArchiveInv, ReplayInv, BranchInv
<1>4. ArchiveInv /\ ReplayInv /\ BranchInv /\ OneTextEach /\ Checked
        /\ [MetadataNext]_metadataVars
        => OneTextEach' /\ Checked'
  BY <1>3, KeyStep, CheckedStep
<1>5. ArchiveInv /\ ReplayInv /\ BranchInv /\ OneTextEach /\ Checked
        /\ [MetadataNext]_metadataVars
        => [\A m \in markets \cap markets' :
              Verified(m) /\ ~ Verified(m)' =>
                OperatorRemoves \/ (Upsert /\ m \notin insert.market)]_metadataVars
  BY <1>3, StaysStep
<1> QED
  BY <1>1, <1>2, <1>4, <1>5, PTL DEF MetadataSpec, VerifiedStays

----------------------------------------------------------------------------
\* The foreign key of market_metadata.
TextsHaveMarkets == \A r \in metadata : \E m \in markets : m.market = r.market

\* It holds at every write, and the cascade keeps it.
LEMMA ForeignKeyStep == TextsHaveMarkets /\ [MetadataNext]_metadataVars => TextsHaveMarkets'
<1> SUFFICES ASSUME TextsHaveMarkets, [MetadataNext]_metadataVars PROVE TextsHaveMarkets'
  OBVIOUS
<1>1. CASE IndexStep
  BY <1>1 DEF IndexStep, Cascade, TextsHaveMarkets
<1>2. CASE markets' = markets /\ metadata' \subseteq metadata
  BY <1>2 DEF TextsHaveMarkets
<1>3. CASE Upsert
  BY <1>2, <1>3
  DEF Upsert, Existing, NewRow, IndexedMarket, TextsHaveMarkets, vars, storeVars
<1>4. CASE \E s, t \in Text : OperatorRecords(s, t)
  BY <1>4 DEF OperatorRecords, TextsHaveMarkets, vars, storeVars
<1> QED
  BY <1>1, <1>2, <1>3, <1>4
  DEF MetadataNext, metadataVars, Insert, StartInsert, ReadIndexedMarket, ReadExisting,
      ReadRow, ReadMarketBack, InsertStops, Operator, OperatorRemoves, vars, storeVars

\* A market that a step of the index removes was created on a block that the
\* search for the ancestor has passed.
LEMMA MarketsRemoved ==
  ASSUME QuietInv, TablesInv, TablesInv', NEW p \in Indexers, Step(p) \/ Fault(p),
         ~ StartupReindex(p), NEW m \in markets, m \notin markets'
  PROVE  HasCanonical(m.number) /\ Canonical(m.number) # AncestorAt(checkpoint, m.number)
<1>1. TypeOK /\ ArchiveSound /\ BranchInv
  BY DEF QuietInv, ArchiveInv
<1>2. PICK e \in events \ PositionsIn(events) : m = MarketRow(e)
  BY DEF TablesInv, Says, Tables, MarketsSaid
<1>3. e \notin events'
  <2>1. markets' = {MarketRow(f) : f \in events' \ PositionsIn(events')}
    BY DEF TablesInv, Says, Tables, MarketsSaid, PositionsIn
  <2>2. e \notin PositionsIn(events')
    BY <1>2 DEF PositionsIn
  <2> QED
    BY <1>2, <2>1, <2>2
<1>4. Rollback(p) /\ RollbackToAncestor(run[p].block)
  BY <1>2, <1>3, IndexSteps DEF CommitBlock
<1>5. /\ checkpoint \in Block /\ run[p].next \in DeploymentBlock .. Number(checkpoint)
      /\ Number(run[p].block) = run[p].next
  BY <1>1, <1>4, RollbackBlock DEF Rollback
<1>6. PICK n \in DeploymentBlock .. Number(checkpoint) : e.block = AncestorAt(checkpoint, n)
  BY <1>1, <1>2, <1>5, NoBlockAssumption DEF ArchiveSound, BranchInv, IndexIsBranch, Branch
<1>7. n \in 0 .. Number(checkpoint) /\ Number(e.block) = n /\ run[p].next \in Nat
  BY <1>5, <1>6, AncestryAssumption, DeploymentAssumption
<1>8. n \in run[p].next + 1 .. Number(checkpoint)
  <2>1. ~ (n <= run[p].next)
    BY <1>2, <1>3, <1>4, <1>5, <1>7 DEF RollbackToAncestor, RetainedEvents
  <2> QED
    BY <1>7, <2>1
<1>9. pc[p] = "rollback" /\ Tracks(pc[p], run[p], checkpoint) /\ m.number = n
  BY <1>2, <1>4, <1>7 DEF Rollback, QuietInv, MarketRow
<1> QED
  BY <1>8, <1>9 DEF Tracks, Search

\* Short of a full reindex, the texts that go are of markets whose creation is
\* not on the chain; nobody loses a text to a rollback that spares its market.
THEOREM Outlives ==
  ASSUME SparedReads
  PROVE  MetadataSpec => TextOutlivesReorgs
<1> DEFINE Inv == QuietInv /\ ReplayInv /\ TextsHaveMarkets
           Spared == IndexStep /\ (\A p \in Indexers : ~ StartupReindex(p)) =>
                       \A r \in metadata \ metadata' :
                         \E m \in markets :
                           /\ m.market = r.market
                           /\ ~ (/\ HasCanonical(m.number)
                                 /\ AncestorAt(checkpoint, m.number) = Canonical(m.number))
<1>1. Inv /\ Inv' /\ [MetadataNext]_metadataVars => [Spared]_metadataVars
  <2> SUFFICES ASSUME Inv, Inv', IndexStep, \A p \in Indexers : ~ StartupReindex(p),
                      NEW r \in metadata, r \notin metadata'
               PROVE  \E m \in markets :
                        /\ m.market = r.market
                        /\ ~ (/\ HasCanonical(m.number)
                              /\ AncestorAt(checkpoint, m.number) = Canonical(m.number))
    OBVIOUS
  <2>1. PICK m \in markets : m.market = r.market
    BY DEF TextsHaveMarkets
  <2>2. m \notin markets'
    BY <2>1 DEF IndexStep, Cascade
  <2>3. PICK p \in Indexers : Step(p) \/ Fault(p)
    BY <2>1, <2>2 DEF IndexStep, Next, Mine, Reorg, storeVars
  <2>4. HasCanonical(m.number) /\ Canonical(m.number) # AncestorAt(checkpoint, m.number)
    BY <2>1, <2>2, <2>3, MarketsRemoved DEF ReplayInv
  <2> QED
    BY <2>1, <2>4
<1>2. SingleWriter
  BY DEF SparedReads
<1>3. QuietInv => ArchiveInv /\ BranchInv
  BY DEF QuietInv
<1>4. MetadataSpec => [](QuietInv /\ ReplayInv)
  BY <1>2, <1>3, MetadataRefines, QuietInit, QuietStep, ReplayInit, ReplayStepInv, PTL
  DEF Spec
<1>5. MetadataInit => TextsHaveMarkets
  BY DEF MetadataInit, TextsHaveMarkets
<1>6. MetadataSpec => []TextsHaveMarkets
  BY <1>5, ForeignKeyStep, PTL DEF MetadataSpec
<1> QED
  BY <1>1, <1>4, <1>6, PTL DEF MetadataSpec, TextOutlivesReorgs
=============================================================================
