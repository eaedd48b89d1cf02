--------------------------- MODULE WatchLoopProofs ---------------------------
(***************************************************************************)
(* Theorems about the indexer command, for every chain, every set of       *)
(* command lines and environments and every value of the other constants.  *)
(***************************************************************************)
EXTENDS WatchLoopProperties, IndexerProofs

----------------------------------------------------------------------------
\* The command is an indexer

\* The command is the only writer.
LEMMA OneProcess == Proc \in Indexers /\ SingleWriter
  BY WatchAssumption DEF SingleWriter

\* The steps of the command that touch the chain or the store are those of its
\* process.
LEMMA CommandStep == RunOnce \/ EndpointFails => Step(Proc) \/ Fault(Proc)
<1>1. RunOnce => Startup(Proc) \/ CatchUp(Proc) \/ Recovery(Proc)
  BY DEF RunOnce, InRun, Reindex, KeepIndex, Startup
<1>2. EndpointFails => Fault(Proc)
  BY DEF EndpointFails, InRun, Fault
<1> QED
  BY <1>1, <1>2 DEF Step

\* A step of the command, or of the world, is a step of the indexer or leaves it alone.
LEMMA LoopStep == [WatchNext]_watchVars => [Next]_vars
<1> SUFFICES ASSUME [WatchNext]_watchVars PROVE [Next]_vars
  OBVIOUS
<1>1. CASE Start
  <2>1. CASE StartRefused
    BY <2>1 DEF StartRefused
  <2>2. Start => StartRefused \/ Launch(Proc)
    BY DEF Start, StartWith
  <2> QED
    BY <1>1, <2>1, <2>2, OneProcess DEF Next, Step, Startup
<1>2. CASE RunOnce \/ EndpointFails
  BY <1>2, CommandStep, OneProcess DEF Next
<1>3. CASE Wake
  BY <1>3, OneProcess DEF Wake, Awake, Next, Step
<1>4. CASE PressCtrlC \/ Dies \/ ReturnOnce \/ Shutdown
  <2>1. UNCHANGED vars \/ Crash(Proc)
    BY <1>4 DEF PressCtrlC, Dies, ReturnOnce, Shutdown, Exit
  <2> QED
    BY <2>1, OneProcess DEF Next, Fault
<1>5. CASE World
  BY <1>5 DEF World, Next
<1>6. CASE UNCHANGED watchVars
  BY <1>6 DEF watchVars
<1> QED
  BY <1>1, <1>2, <1>3, <1>4, <1>5, <1>6 DEF WatchNext, Command

\* The command only ever takes steps of the indexer: what is proved of the
\* indexer holds with the loop, its delays and its shutdown around it.
THEOREM WatchRefines == WatchSpec => Spec
<1>1. WatchInit => Init
  BY DEF WatchInit
<1> QED
  BY <1>1, LoopStep, PTL DEF WatchSpec, Spec

\* Hence the index of a command is the archive of one branch, whatever ends
\* the command and however often it is started again.
THEOREM WatchImplements == WatchSpec => IsSoundIndex
  BY WatchRefines, Implements, OneProcess

----------------------------------------------------------------------------
\* The loop's own invariant

\* The delay after n failures in a row.
DelayAfter(n) == RetryDelays[Least(n + 1, 6)]

\* next_delay follows the number of failures, and a sleep was taken from it or
\* from the options.
BackoffOK ==
  /\ failures \in 0 .. MaxFailures
  /\ next_delay = DelayAfter(failures)
  /\ BackoffIsExponential

\* A command that runs was accepted, one that ended left nothing behind, and
\* nothing is past the preflight call without it.
LaunchOK ==
  /\ exit = "running" => ~ UsageError(args) /\ IndexerErrors(env) = {}
  /\ exit # "running" => /\ pc[Proc] \in {"down", "failed"}
                         /\ failures = 0 /\ next_delay = INITIAL_RPC_RETRY_DELAY
                         /\ launch = NoLaunch
  /\ pc[Proc] \notin {"down", "failed", "preflight"} => launch.preflight
  /\ pc[Proc] \in {"preflight", "startup"} => ~ launch.emptied

LoopInv == TypeOK /\ BackoffOK /\ LaunchOK

\* The calls a step of a run leads from and to.
LEMMA RunPlaces ==
  ASSUME TypeOK, RunOnce \/ EndpointFails
  PROVE  /\ exit = "running"
         /\ pc[Proc] \notin {"down", "failed", "waiting"}
         /\ pc'[Proc] \notin {"down", "preflight"}
         /\ pc'[Proc] = "startup" => pc[Proc] = "preflight"
         /\ pc[Proc] = "preflight" =>
              pc'[Proc] \in {"startup", "failed"} /\ UNCHANGED storeVars
<1>1. pc \in [Indexers -> Call] /\ Proc \in Indexers
  BY OneProcess DEF TypeOK
<1>0. exit = "running"
  BY DEF RunOnce, EndpointFails, InRun
<1>2. ASSUME NEW how
      PROVE  /\ EndRun(Proc, how) => pc'[Proc] = "waiting"
             /\ Fail(Proc, how) => pc'[Proc] = "failed"
  BY <1>1 DEF EndRun, Fail
<1>3. ASSUME NEW call, NEW r, Goto(Proc, call, r)
      PROVE  pc'[Proc] = call
  BY <1>1, <1>3 DEF Goto
<1>4. ASSUME NEW r, NextBatch(Proc, r)
      PROVE  pc'[Proc] \in {"created_logs", "waiting"}
  BY <1>1, <1>4 DEF NextBatch, Goto, EndRun
<1>5. Reorganized(Proc) => pc'[Proc] \in {"recover", "failed"}
  BY <1>1 DEF Reorganized, Goto, Fail
<1>6. CASE Preflight(Proc)
  BY <1>0, <1>2, <1>3, <1>6 DEF Preflight, storeVars
<1>7. CASE Reindex \/ KeepIndex
  BY <1>0, <1>2, <1>3, <1>7 DEF Reindex, KeepIndex, StartupReindex, StartupCoverage
<1>8. CASE CatchUp(Proc)
  <2>1. pc'[Proc] \notin {"down", "preflight", "startup"}
    BY <1>2, <1>3, <1>4, <1>5, <1>8
    DEF CatchUp, CheckChainId, ReadLatest, ReadCheckpoint, VerifyCheckpoint,
        FetchCreatedLogs, FetchPositionLogs, FetchBlock, Commit, AfterCommit
  <2>2. pc[Proc] \notin {"down", "failed", "waiting", "preflight"}
    BY <1>8
    DEF CatchUp, CheckChainId, ReadLatest, ReadCheckpoint, VerifyCheckpoint,
        FetchCreatedLogs, FetchPositionLogs, FetchBlock, Commit
  <2> QED
    BY <1>0, <2>1, <2>2
<1>9. CASE Recovery(Proc)
  <2>1. pc'[Proc] \notin {"down", "preflight", "startup"}
    BY <1>2, <1>3, <1>9
    DEF Recovery, StartRecovery, ReadStoredHash, CompareCanonicalHash, Rollback
  <2>2. pc[Proc] \notin {"down", "failed", "waiting", "preflight"}
    BY <1>9 DEF Recovery, StartRecovery, ReadStoredHash, CompareCanonicalHash, Rollback
  <2> QED
    BY <1>0, <2>1, <2>2
<1>10. CASE RpcFails(Proc)
  BY <1>0, <1>2, <1>10 DEF RpcFails, RpcCalls, storeVars
<1> QED
  BY <1>6, <1>7, <1>8, <1>9, <1>10 DEF RunOnce, EndpointFails, InRun

\* The table of delays is what take_delay computes.
LEMMA DelayDoubles ==
  ASSUME NEW n \in Nat
  PROVE  Doubled(DelayAfter(n)) = DelayAfter(n + 1)
<1>1. CASE n = 0
  BY <1>1 DEF Doubled, DelayAfter, RetryDelays, Least, MAX_RPC_RETRY_DELAY
<1>2. CASE n = 1
  BY <1>2 DEF Doubled, DelayAfter, RetryDelays, Least, MAX_RPC_RETRY_DELAY
<1>3. CASE n = 2
  BY <1>3 DEF Doubled, DelayAfter, RetryDelays, Least, MAX_RPC_RETRY_DELAY
<1>4. CASE n = 3
  BY <1>4 DEF Doubled, DelayAfter, RetryDelays, Least, MAX_RPC_RETRY_DELAY
<1>5. CASE n = 4
  BY <1>5 DEF Doubled, DelayAfter, RetryDelays, Least, MAX_RPC_RETRY_DELAY
<1>6. CASE n >= 5
  <2>1. Least(n + 1, 6) = 6 /\ Least(n + 2, 6) = 6
    BY <1>6 DEF Least
  <2>2. RetryDelays[6] = 30000
    BY DEF RetryDelays
  <2>3. DelayAfter(n) = 30000 /\ DelayAfter(n + 1) = 30000
    BY <2>1, <2>2 DEF DelayAfter
  <2> QED
    BY <2>3 DEF Doubled, Least, MAX_RPC_RETRY_DELAY
<1> QED
  BY <1>1, <1>2, <1>3, <1>4, <1>5, <1>6

\* A counter that stops at six or later does not show in the delays.
LEMMA BoundHidden ==
  ASSUME MaxFailures >= 6, NEW n \in 0 .. MaxFailures
  PROVE  /\ Least(n + 1, MaxFailures) \in 0 .. MaxFailures
         /\ DelayAfter(Least(n + 1, MaxFailures)) = DelayAfter(n + 1)
         /\ RetryDelays[Least(Least(n + 1, MaxFailures), 6)] = DelayAfter(n)
<1>1. MaxFailures \in Nat
  BY WatchAssumption
<1>2. CASE n + 1 <= MaxFailures
  BY <1>1, <1>2 DEF Least, DelayAfter
<1>3. CASE n = MaxFailures
  <2>1. Least(n + 1, MaxFailures) = n
    BY <1>1, <1>3 DEF Least
  <2>2. Least(n, 6) = 6 /\ Least(n + 1, 6) = 6 /\ Least(n + 2, 6) = 6
    BY <1>1, <1>3 DEF Least
  <2> QED
    BY <1>1, <2>1, <2>2 DEF DelayAfter
<1> QED
  BY <1>1, <1>2, <1>3

\* The invariant holds before the first command.
LEMMA LoopInit == Init /\ WatchInit => BackoffOK /\ LaunchOK
<1> SUFFICES ASSUME Init, WatchInit PROVE BackoffOK /\ LaunchOK
  OBVIOUS
<1>1. pc[Proc] = "down" /\ MaxFailures \in Nat
  BY OneProcess, WatchAssumption DEF Init
<1>2. DelayAfter(0) = 1000
  BY DEF DelayAfter, RetryDelays, Least
<1> QED
  BY <1>1, <1>2 DEF WatchInit, BackoffOK, BackoffIsExponential, LaunchOK, NoLaunch,
                    INITIAL_RPC_RETRY_DELAY

\* What is left of a command that has ended satisfies the invariant.
LEMMA GoneOK ==
  ASSUME Gone, pc'[Proc] \in {"down", "failed"}, exit' # "running"
  PROVE  BackoffOK' /\ LaunchOK'
<1>1. DelayAfter(0) = 1000 /\ MaxFailures \in Nat
  BY WatchAssumption DEF DelayAfter, RetryDelays, Least
<1> QED
  BY <1>1 DEF Gone, BackoffOK, BackoffIsExponential, DelayAfter, LaunchOK, NoLaunch,
              INITIAL_RPC_RETRY_DELAY

\* A step of a run.
LEMMA RunStep ==
  ASSUME MaxFailures >= 6, LoopInv, TypeOK', RunOnce \/ EndpointFails
  PROVE  BackoffOK' /\ LaunchOK'
<1>1. /\ exit = "running"
      /\ pc[Proc] \notin {"down", "failed", "waiting"}
      /\ pc'[Proc] \notin {"down", "preflight"}
      /\ pc'[Proc] = "startup" => pc[Proc] = "preflight"
      /\ pc[Proc] = "preflight" => pc'[Proc] \in {"startup", "failed"} /\ UNCHANGED storeVars
  BY RunPlaces DEF LoopInv
<1>2. CASE RunAborts
  BY <1>2, GoneOK DEF RunAborts
<1>3. ASSUME RunGoesOn \/ RunFinishes \/ RunFails, launch' = LaunchAfter,
             UNCHANGED <<args, env, exit>>
      PROVE  BackoffOK' /\ LaunchOK'
  <2>1. /\ LaunchOK /\ BackoffOK /\ failures \in Nat
        /\ failures \in 0 .. MaxFailures /\ next_delay = DelayAfter(failures)
        /\ MaxFailures \in Nat
    BY WatchAssumption DEF LoopInv, BackoffOK
  <2>2. LaunchOK'
    BY <1>1, <1>3, <2>1 DEF LaunchOK, LaunchAfter, storeVars
  <2> SUFFICES BackoffOK'
    BY <2>2
  <2>3. CASE RunGoesOn
    BY <2>1, <2>3 DEF RunGoesOn, Unlooped, BackoffOK, BackoffIsExponential, DelayAfter
  <2>4. CASE RunFinishes
    <3>1. CASE ~ options.watch
      BY <1>3, <2>1, <2>4, <3>1
      DEF RunFinishes, Unlooped, BackoffOK, BackoffIsExponential, DelayAfter, options
    <3>2. CASE options.watch
      <4>1. /\ failures' = 0 /\ next_delay' = 1000 /\ sleep' = options.poll_interval
            /\ result'[Proc] # "Rpc" /\ args' = args
        BY <1>3, <2>4, <3>2 DEF RunFinishes, DelayAfterOk, INITIAL_RPC_RETRY_DELAY
      <4>2. DelayAfter(0) = 1000 /\ 0 \in 0 .. MaxFailures
        BY <2>1 DEF DelayAfter, RetryDelays, Least
      <4> QED
        BY <4>1, <4>2 DEF BackoffOK, BackoffIsExponential, DelayAfter, options
    <3> QED
      BY <3>1, <3>2
  <2>5. CASE RunFails
    <3>1. CASE ~ options.watch
      BY <1>3, <2>1, <2>5, <3>1
      DEF RunFails, Unlooped, BackoffOK, BackoffIsExponential, DelayAfter, options
    <3>2. CASE options.watch
      <4>1. /\ failures' = Least(failures + 1, MaxFailures) /\ result'[Proc] = "Rpc"
            /\ next_delay' = Doubled(next_delay) /\ sleep' = next_delay
        BY <2>5, <3>2 DEF RunFails
      <4>2. /\ failures' \in 0 .. MaxFailures
            /\ next_delay' = DelayAfter(failures')
            /\ sleep' = RetryDelays[Least(failures', 6)]
        BY <2>1, <4>1, DelayDoubles, BoundHidden
      <4> QED
        BY <4>1, <4>2 DEF BackoffOK, BackoffIsExponential, DelayAfter
    <3> QED
      BY <3>1, <3>2
  <2> QED
    BY <1>3, <2>3, <2>4, <2>5
<1> QED
  BY <1>2, <1>3 DEF RunOnce, EndpointFails, InRun

\* Every step of the command and of the world keeps the invariant.
LEMMA LoopNext ==
  ASSUME MaxFailures >= 6
  PROVE  LoopInv /\ TypeOK' /\ [WatchNext]_watchVars => LoopInv'
<1> SUFFICES ASSUME LoopInv, TypeOK', [WatchNext]_watchVars PROVE BackoffOK' /\ LaunchOK'
  BY DEF LoopInv
<1>0. /\ pc \in [Indexers -> Call] /\ Proc \in Indexers /\ BackoffOK /\ LaunchOK
  BY OneProcess DEF LoopInv, TypeOK
<1>1. CASE StartRefused
  BY <1>0, <1>1, GoneOK DEF StartRefused, LaunchOK, vars, processVars
<1>2. ASSUME NEW a \in CommandLines, NEW e \in Environments, StartWith(a, e)
      PROVE  BackoffOK' /\ LaunchOK'
  <2>1. pc'[Proc] = "preflight"
    BY <1>0, <1>2 DEF StartWith, Launch
  <2> QED
    BY <1>0, <1>2, <2>1
    DEF StartWith, Refused, BackoffOK, BackoffIsExponential, DelayAfter, LaunchOK, NoLaunch
<1>3. CASE RunOnce \/ EndpointFails
  BY <1>3, RunStep
<1>4. CASE Wake
  <2>1. pc[Proc] = "waiting" /\ pc'[Proc] = "chain_id"
    BY <1>0, <1>4 DEF Wake, Awake, Poll
  <2> QED
    BY <1>0, <1>4, <2>1
    DEF Wake, Awake, BackoffOK, BackoffIsExponential, DelayAfter, LaunchOK
<1>5. ASSUME NEW how \in {"ok", "error", "killed"}, Exit(how)
      PROVE  BackoffOK' /\ LaunchOK'
  <2>1. pc'[Proc] = "down"
    BY <1>0, <1>5 DEF Exit, Crash
  <2> QED
    BY <1>5, <2>1, GoneOK DEF Exit
<1>6. CASE ReturnOnce \/ Shutdown \/ Dies
  BY <1>5, <1>6 DEF ReturnOnce, Shutdown, Dies
<1>7. CASE UNCHANGED <<pc, result, args, env, exit, next_delay, sleep, failures, launch>>
  BY <1>0, <1>7 DEF BackoffOK, BackoffIsExponential, DelayAfter, LaunchOK, options
<1>8. CASE PressCtrlC
  BY <1>5, <1>7, <1>8 DEF PressCtrlC, vars, processVars
<1>9. CASE World
  BY <1>7, <1>9 DEF World, Mine, Reorg, loopVars, processVars
<1>10. CASE UNCHANGED watchVars
  BY <1>7, <1>10 DEF watchVars, vars, processVars, loopVars
<1> QED
  BY <1>1, <1>2, <1>3, <1>4, <1>6, <1>8, <1>9, <1>10 DEF WatchNext, Start, Command

\* LoopInv holds throughout the life of a command: its options, delay, failures
\* and launch stay consistent with the step of the run it is at.
THEOREM LoopInvariant ==
  ASSUME MaxFailures >= 6
  PROVE  WatchSpec => []LoopInv
<1>1. WatchInit => Init
  BY DEF WatchInit
<1>2. WatchSpec => []TypeOK
  BY WatchRefines, TypeCorrect, PTL
<1>3. Init => TypeOK
  BY ArchiveInit DEF ArchiveInv
<1>4. WatchInit => LoopInv
  BY <1>1, <1>3, LoopInit DEF LoopInv
<1> QED
  BY <1>2, <1>4, LoopNext, PTL DEF WatchSpec

\* The n-th RPC failure in a row is followed by the n-th delay, the sixth and
\* all later ones by the longest.
THEOREM Backoff ==
  ASSUME MaxFailures >= 6
  PROVE  WatchSpec => []BackoffIsExponential
<1>1. LoopInv => BackoffIsExponential
  BY DEF LoopInv, BackoffOK
<1> QED
  BY <1>1, LoopInvariant, PTL

----------------------------------------------------------------------------
\* Which steps write

\* A commit and a rollback leave a block.
LEMMA NeverEmptied ==
  ASSUME TypeOK, NEW b, NEW logs, CommitBlock(b, logs) \/ RollbackToAncestor(b)
  PROVE  blocks' # {}
<1>1. CASE CommitBlock(b, logs)
  BY <1>1 DEF CommitBlock
<1>2. CASE RollbackToAncestor(b)
  <2>1. RollbackErrors(b) = {}
    BY <1>2 DEF RollbackToAncestor
  <2>2. "RollbackAncestorMissing" \notin
          {x \in {"RollbackAncestorMissing"} : StoredAt(Number(b)) = {}}
    BY <2>1 DEF RollbackErrors
  <2>3. PICK c \in StoredAt(Number(b)) : TRUE
    BY <2>2
  <2>4. c \in blocks /\ Number(c) = Number(b)
    BY <2>3 DEF StoredAt
  <2>5. RollbackErrors(b) = {} => \A d \in StoredAt(Number(b)) : d = b
    BY DEF RollbackErrors
  <2>6. b \in blocks
    BY <2>1, <2>3, <2>4, <2>5
  <2>7. Number(b) \in Nat
    BY <2>6, AncestryAssumption DEF TypeOK
  <2> QED
    BY <1>2, <2>6, <2>7 DEF RollbackToAncestor
<1> QED
  BY <1>1, <1>2

\* The steps that write.
LEMMA Writers ==
  ASSUME LoopInv, [WatchNext]_watchVars, storeVars' # storeVars
  PROVE  /\ RunOnce
         /\ \/ Reindex
            \/ KeepIndex /\ blocks' = blocks
            \/ \E b, logs : CommitBlock(b, logs) \/ RollbackToAncestor(b)
<1>1. RunOnce
  <2>1. ~ Start
    BY DEF Start, StartWith, StartRefused, Launch, vars, storeVars
  <2>2. ~ Wake /\ ~ ReturnOnce /\ ~ Shutdown /\ ~ PressCtrlC /\ ~ Dies
    BY DEF Wake, Awake, Poll, ReturnOnce, Shutdown, PressCtrlC, Dies, Exit, Crash, vars,
           storeVars
  <2>3. ~ EndpointFails /\ ~ World /\ ~ UNCHANGED watchVars
    BY DEF EndpointFails, InRun, RpcFails, World, Mine, Reorg, watchVars, vars, storeVars
  <2> QED
    BY <2>1, <2>2, <2>3 DEF WatchNext, Command
<1>2. ~ Preflight(Proc)
  BY DEF Preflight, storeVars
<1>3. CASE KeepIndex
  BY <1>1, <1>3 DEF KeepIndex, StartupCoverage, EnsurePositionCoverage, storeVars
<1>4. CASE CatchUp(Proc)
  BY <1>1, <1>4
  DEF CatchUp, CheckChainId, ReadLatest, ReadCheckpoint, VerifyCheckpoint,
      FetchCreatedLogs, FetchPositionLogs, FetchBlock, Commit, storeVars
<1>5. CASE Recovery(Proc)
  BY <1>1, <1>5
  DEF Recovery, StartRecovery, ReadStoredHash, CompareCanonicalHash, Rollback, storeVars
<1> QED
  BY <1>1, <1>2, <1>3, <1>4, <1>5 DEF RunOnce, InRun

\* A command writes only after its arguments, its environment and the chain of
\* its endpoint were accepted, and empties the index only when it was asked to,
\* before its first run.
THEOREM Startups ==
  ASSUME MaxFailures >= 6
  PROVE  WatchSpec => SafeStartup
<1> DEFINE Safe ==
      storeVars' # storeVars =>
        /\ exit = "running" /\ launch.preflight
        /\ ~ UsageError(args) /\ IndexerErrors(env) = {}
        /\ blocks # {} /\ blocks' = {} => options.full_reindex /\ ~ launch.emptied
<1>1. LoopInv /\ [WatchNext]_watchVars => [Safe]_watchVars
  <2> SUFFICES ASSUME LoopInv, [WatchNext]_watchVars, storeVars' # storeVars
               PROVE  Safe
    OBVIOUS
  <2>1. RunOnce /\ LaunchOK /\ TypeOK
    BY Writers DEF LoopInv
  <2>2. exit = "running" /\ pc[Proc] \notin {"down", "failed", "preflight"}
    BY <2>1, RunPlaces
  <2>3. launch.preflight /\ ~ UsageError(args) /\ IndexerErrors(env) = {}
    BY <2>1, <2>2 DEF LaunchOK
  <2>4. blocks # {} /\ blocks' = {} => Reindex
    BY <2>1, Writers, NeverEmptied
  <2>5. Reindex => options.full_reindex /\ pc[Proc] = "startup"
    BY DEF Reindex, StartupReindex
  <2>6. pc[Proc] = "startup" => ~ launch.emptied
    BY <2>1 DEF LaunchOK
  <2> QED
    BY <2>2, <2>3, <2>4, <2>5, <2>6
<1> QED
  BY <1>1, LoopInvariant, PTL DEF WatchSpec, SafeStartup

----------------------------------------------------------------------------
\* The summary of a run

\* Two finite sets without a common element.
LEMMA UnionCount ==
  ASSUME NEW S, NEW T, IsFiniteSet(S), IsFiniteSet(T), S \cap T = {}
  PROVE  IsFiniteSet(S \cup T) /\ Cardinality(S \cup T) = Cardinality(S) + Cardinality(T)
<1>1. /\ IsFiniteSet(S \cup T)
      /\ Cardinality(S \cup T) = Cardinality(S) + Cardinality(T) - Cardinality(S \cap T)
  BY FS_Union
<1>2. Cardinality(S \cap T) = 0
  BY FS_EmptySet
<1>3. Cardinality(S) \in Nat /\ Cardinality(T) \in Nat
  BY FS_CardinalityType
<1> QED
  BY <1>1, <1>2, <1>3

\* A map that is one-to-one and onto keeps the count.
LEMMA SameCount ==
  ASSUME NEW S, NEW T, IsFiniteSet(S), NEW f \in [S -> T],
         \A x, y \in S : f[x] = f[y] => x = y, \A y \in T : \E x \in S : f[x] = y
  PROVE  IsFiniteSet(T) /\ Cardinality(T) = Cardinality(S)
<1>1. f \in Injection(S, T)
  BY DEF Injection, IsInjective
<1>2. f \in Surjection(S, T)
  BY DEF Surjection
<1>3. ExistsBijection(S, T)
  BY <1>1, <1>2 DEF Bijection, ExistsBijection
<1> QED
  BY <1>3, FS_Bijection

\* A branch has one block at each of its heights.
LEMMA HeightsCount ==
  ASSUME NEW b \in Block, NEW n \in DeploymentBlock .. Number(b)
  PROVE  /\ Cardinality(n .. Number(b)) = Number(b) - n + 1
         /\ Cardinality({c \in Branch(b) : Number(c) \in n .. Number(b)})
              = Number(b) - n + 1
<1> DEFINE H == n .. Number(b)
           T == {c \in Branch(b) : Number(c) \in H}
           f == [k \in H |-> AncestorAt(b, k)]
<1>1. Number(b) \in Nat /\ n \in Nat
  BY AncestryAssumption, DeploymentAssumption
<1>2. IsFiniteSet(H) /\ Cardinality(H) = Number(b) - n + 1
  BY <1>1, FS_Interval
<1>3. \A k \in DeploymentBlock .. Number(b) : Number(AncestorAt(b, k)) = k
  BY <1>1, AncestryAssumption, DeploymentAssumption
<1>4. \A k \in H : k \in DeploymentBlock .. Number(b) /\ Number(f[k]) = k
  BY <1>1, <1>3, DeploymentAssumption
<1>5. f \in [H -> T]
  BY <1>4 DEF Branch
<1>6. \A c \in T : Number(c) \in H /\ f[Number(c)] = c
  BY <1>3 DEF Branch
<1> HIDE DEF H, T, f
<1>7. \A x, y \in H : f[x] = f[y] => x = y
  BY <1>4
<1>8. Cardinality(T) = Cardinality(H)
  BY <1>2, <1>5, <1>6, <1>7, SameCount
<1> QED
  BY <1>2, <1>8 DEF H, T

\* A commit archives one event for each of its records.
LEMMA RowsCount ==
  ASSUME NEW b \in Block, NEW logs \in SUBSET LogsOf(b)
  PROVE  /\ IsFiniteSet(EventRows(b, logs))
         /\ Cardinality(EventRows(b, logs)) = Cardinality(logs)
<1> DEFINE R == EventRows(b, logs)
           f == [l \in logs |-> [block |-> b, log |-> l]]
<1>1. IsFiniteSet(logs)
  BY LogAssumption, FS_Subset
<1>2. f \in [logs -> R] /\ (\A e \in R : \E l \in logs : f[l] = e)
  BY DEF EventRows
<1>3. \A k, l \in logs : f[k] = f[l] => k = l
  OBVIOUS
<1> HIDE DEF f, R
<1>4. IsFiniteSet(R) /\ Cardinality(R) = Cardinality(logs)
  BY <1>1, <1>2, <1>3, SameCount
<1> QED
  BY <1>4 DEF R

\* What a commit adds to the events from height n on.
LEMMA CommitCounts ==
  ASSUME TypeOK, AllReady, ArchiveSound, BranchInv, TablesInv, NEW p \in Indexers,
         pc[p] = "commit", CommitBlock(run[p].block, Records(run[p])),
         NEW n \in DeploymentBlock .. run[p].next
  PROVE  Cardinality({e \in events' : Number(e.block) \in n .. run[p].next})
           = Cardinality({e \in events : Number(e.block) \in n .. run[p].next - 1})
               + Cardinality(Records(run[p]))
<1> DEFINE r == run[p]
           R == EventRows(r.block, Records(r))
           old == {e \in events : Number(e.block) \in n .. r.next - 1}
<1>1. /\ r.block \in Block /\ Number(r.block) = r.next /\ r.next \in Nat
      /\ Records(r) \in SUBSET LogsOf(r.block) /\ n \in Nat
  BY CommitRows, DeploymentAssumption
<1>2. \A e \in events : Number(e.block) \in Nat /\ Number(e.block) < r.next
  BY <1>1, ArchiveBelow
<1>3. \A e \in R : Number(e.block) = r.next
  BY <1>1 DEF EventRows
<1>4. IsFiniteSet(R) /\ Cardinality(R) = Cardinality(Records(r))
  BY <1>1, RowsCount
<1>5. events' = events \cup R
  BY DEF CommitBlock
<1> HIDE DEF R, r
<1>6. {e \in events' : Number(e.block) \in n .. r.next} = old \cup R
  <2>1. ASSUME NEW e \in events
        PROVE  Number(e.block) \in n .. r.next <=> Number(e.block) \in n .. r.next - 1
    BY <1>1, <1>2
  <2>2. \A e \in R : Number(e.block) \in n .. r.next
    BY <1>1, <1>3 DEF r
  <2> QED
    BY <1>5, <2>1, <2>2
<1>7. IsFiniteSet(old)
  BY FS_Subset DEF TablesInv
<1>8. old \cap R = {}
  BY <1>1, <1>2, <1>3
<1> HIDE DEF old
<1>9. Cardinality(old \cup R) = Cardinality(old) + Cardinality(R)
  BY <1>4, <1>7, <1>8, UnionCount
<1> QED
  BY <1>4, <1>6, <1>9 DEF old, r

\* The calls of process_batch.
Batching == {"created_logs", "position_logs", "block", "commit"}

IsSummary(s) ==
  s = [latest_block |-> s.latest_block, first_block |-> s.first_block,
       last_block |-> s.last_block, blocks_committed |-> s.blocks_committed,
       events_committed |-> s.events_committed]

\* The summary s counts what was committed from its first height to below n.
Counted(s, n) ==
  /\ s.first_block \in DeploymentBlock .. n
  /\ s.last_block = IF n = s.first_block THEN NoNumber ELSE n - 1
  /\ s.blocks_committed = n - s.first_block
  /\ s.events_committed =
       Cardinality({e \in events : Number(e.block) \in s.first_block .. n - 1})

\* How the summary relates to the local variables of its run, call by call.
SummaryFits(call, r) ==
  /\ call \in {"checkpoint", "verify"} =>
       summary = [NoSummary EXCEPT !.latest_block = r.latest]
  /\ call \in Batching =>
       /\ IsSummary(summary) /\ summary.latest_block = r.latest
       /\ Counted(summary, r.next)
       /\ r.next <= r.end /\ r.end <= SafeHead(r)

SummaryInv ==
  /\ SummaryFits(pc[Proc], run[Proc])
  /\ SummaryIsStored
  /\ exit # "running" => pc[Proc] \in {"down", "failed"}

\* The invariants of the indexer that the summary is read against.
RunsInv == ArchiveInv /\ ReplayInv /\ BranchInv /\ ResultInv

\* The head of the loop finds the next batch below the safe head, or ends the
\* run above it.
LEMMA NextBatchPlaces ==
  ASSUME RunsInv, NEW r \in RunState, NextBatch(Proc, r)
  PROVE  \/ /\ pc'[Proc] = "created_logs"
            /\ run'[Proc].next = r.next /\ run'[Proc].latest = r.latest
            /\ r.next <= run'[Proc].end /\ run'[Proc].end <= SafeHead(run'[Proc])
         \/ /\ pc'[Proc] = "waiting" /\ result'[Proc] = "ok"
            /\ SafeHead(r) < 0 \/ r.next > SafeHead(r)
<1>1. /\ pc \in [Indexers -> Call] /\ run \in [Indexers -> RunState] /\ Proc \in Indexers
      /\ result = [p \in Indexers |-> result[p]]
  BY OneProcess DEF RunsInv, ArchiveInv, TypeOK, ResultInv
<1>2. /\ r.next \in Nat /\ r.latest \in Nat /\ Confirmations \in Nat
      /\ BatchSize \in Nat /\ BatchSize > 0
  BY IndexerAssumption DEF RunState
<1>3. CASE EndRun(Proc, "ok") /\ (SafeHead(r) < 0 \/ r.next > SafeHead(r))
  BY <1>1, <1>3 DEF EndRun
<1>4. CASE /\ SafeHead(r) >= 0 /\ r.next <= SafeHead(r)
           /\ Goto(Proc, "created_logs",
                   [r EXCEPT !.end = Least(r.next + BatchSize - 1, SafeHead(r)),
                             !.logs = {}, !.block = NoBlock])
  <2> DEFINE s == [r EXCEPT !.end = Least(r.next + BatchSize - 1, SafeHead(r)),
                            !.logs = {}, !.block = NoBlock]
  <2>1. /\ s.next = r.next /\ s.latest = r.latest
        /\ s.end = Least(r.next + BatchSize - 1, SafeHead(r))
    BY DEF RunState
  <2>2. r.next <= s.end /\ s.end <= SafeHead(s)
    BY <1>2, <1>4, <2>1 DEF Least, SafeHead
  <2>3. pc'[Proc] = "created_logs" /\ run'[Proc] = s
    BY <1>1, <1>4 DEF Goto
  <2> QED
    BY <2>1, <2>2, <2>3
<1> QED
  BY <1>3, <1>4 DEF NextBatch

\* A call that is not of a batch, and no good end of a run, has no summary.
LEMMA NothingToCount ==
  ASSUME pc'[Proc] \notin Batching \cup {"checkpoint", "verify"},
         pc'[Proc] = "waiting" => result'[Proc] # "ok"
  PROVE  SummaryFits(pc[Proc], run[Proc])' /\ SummaryIsStored'
  BY DEF SummaryFits, SummaryIsStored

\* A run that has read its checkpoint begins to count, or has nothing to do.
LEMMA CountingStarts ==
  ASSUME RunsInv, RunsInv', SummaryFits(pc[Proc], run[Proc]),
         pc[Proc] \in {"checkpoint", "verify"}, summary' = SummaryAfter,
         UNCHANGED storeVars, NEW r \in RunState, r.latest = run[Proc].latest,
         NextBatch(Proc, r)
  PROVE  SummaryFits(pc[Proc], run[Proc])' /\ SummaryIsStored'
<1>1. summary = [NoSummary EXCEPT !.latest_block = run[Proc].latest]
  BY DEF SummaryFits
<1>2. CASE /\ pc'[Proc] = "created_logs"
           /\ run'[Proc].next = r.next /\ run'[Proc].latest = r.latest
           /\ r.next <= run'[Proc].end /\ run'[Proc].end <= SafeHead(run'[Proc])
  <2>1. summary' = [summary EXCEPT !.first_block = run'[Proc].next]
    BY <1>2 DEF SummaryAfter
  <2>2. /\ summary'.first_block = run'[Proc].next /\ summary'.last_block = NoNumber
        /\ summary'.blocks_committed = 0 /\ summary'.events_committed = 0
        /\ summary'.latest_block = run'[Proc].latest /\ IsSummary(summary)'
    BY <1>1, <1>2, <2>1 DEF NoSummary, IsSummary
  <2>3. run'[Proc].next \in Nat /\ run'[Proc].next >= DeploymentBlock
    BY <1>2, OneProcess DEF RunsInv, ArchiveInv, TypeOK, RunState, ReplayInv, Fetched
  <2>4. \A n \in Nat : n .. n - 1 = {}
    OBVIOUS
  <2> DEFINE counted ==
        {e \in events' : Number(e.block) \in summary'.first_block .. run'[Proc].next - 1}
  <2>5. counted = {}
    BY <2>2, <2>3, <2>4
  <2>6. Cardinality(counted) = 0
    BY <2>5, FS_EmptySet
  <2>7. Counted(summary, run[Proc].next)'
    BY <2>2, <2>3, <2>6, DeploymentAssumption DEF Counted
  <2> QED
    BY <1>2, <2>2, <2>7 DEF SummaryFits, SummaryIsStored, Batching
<1>3. CASE pc'[Proc] = "waiting" /\ result'[Proc] = "ok"
  <2>1. summary' = summary
    BY <1>3 DEF SummaryAfter
  <2>2. summary'.last_block = NoNumber /\ summary'.blocks_committed = 0
        /\ summary'.events_committed = 0
    BY <1>1, <2>1 DEF NoSummary
  <2> QED
    BY <1>3, <2>2 DEF SummaryFits, SummaryIsStored, Batching
<1> QED
  BY <1>2, <1>3, NextBatchPlaces

\* A call that commits nothing leaves the count as it is.
LEMMA CountingGoesOn ==
  ASSUME SummaryFits(pc[Proc], run[Proc]), UNCHANGED <<events, summary>>,
         pc[Proc] \in Batching, pc'[Proc] \in Batching,
         run'[Proc].next = run[Proc].next, run'[Proc].latest = run[Proc].latest,
         run'[Proc].end = run[Proc].end
  PROVE  SummaryFits(pc[Proc], run[Proc])' /\ SummaryIsStored'
<1>1. SafeHead(run'[Proc]) = SafeHead(run[Proc])
  BY DEF SafeHead
<1> QED
  BY <1>1 DEF SummaryFits, SummaryIsStored, Batching, Counted

\* A commit counts its block and its events; after the last one the count is
\* that of the store.
LEMMA CountingCommits ==
  ASSUME RunsInv, RunsInv', SummaryFits(pc[Proc], run[Proc]), pc[Proc] = "commit",
         summary' = SummaryAfter, CommitBlock(run[Proc].block, Records(run[Proc])),
         AfterCommit(Proc)
  PROVE  SummaryFits(pc[Proc], run[Proc])' /\ SummaryIsStored'
<1> DEFINE r == run[Proc]
           s == [r EXCEPT !.next = @ + 1, !.parent = r.block, !.block = NoBlock,
                          !.logs = @ \ BatchLogs(r, r.next)]
           n == summary.first_block
           counted == {e \in events' : Number(e.block) \in n .. r.next}
<1>1. /\ Proc \in Indexers /\ TypeOK /\ AllReady /\ ArchiveSound /\ TablesInv /\ BranchInv
      /\ pc \in [Indexers -> Call] /\ run \in [Indexers -> RunState]
  BY OneProcess DEF RunsInv, ArchiveInv, ReplayInv, TypeOK
<1>2. /\ IsSummary(summary) /\ summary.latest_block = r.latest /\ Counted(summary, r.next)
      /\ r.next <= r.end /\ r.end <= SafeHead(r)
  BY DEF SummaryFits, Batching
<1>3. /\ n \in DeploymentBlock .. r.next /\ n \in Nat /\ DeploymentBlock \in Nat
      /\ summary.blocks_committed = r.next - n
  BY <1>2, DeploymentAssumption DEF Counted
<1>4. /\ r \in RunState /\ r.next \in Nat /\ r.latest \in Nat /\ r.end \in Nat
      /\ Confirmations \in Nat /\ r.block \in Block /\ Number(r.block) = r.next
  BY <1>1, CommitRows, IndexerAssumption DEF RunState
<1>5. s \in RunState /\ s.next = r.next + 1 /\ s.latest = r.latest /\ s.end = r.end
  <2> DEFINE logs == r.logs \ BatchLogs(r, r.next)
  <2>1. logs \in SUBSET Row /\ r.next + 1 \in Nat /\ r.block \in Block \cup {NoBlock}
    BY <1>4 DEF RunState
  <2> HIDE DEF logs
  <2>2. [r EXCEPT !.next = r.next + 1, !.parent = r.block, !.block = NoBlock, !.logs = logs]
          \in RunState
    BY <1>4, <2>1, CursorType
  <2>3. s \in RunState
    BY <2>2 DEF logs
  <2> QED
    BY <1>4, <2>3 DEF RunState
<1>6. Cardinality(counted) = summary.events_committed + Cardinality(Records(r))
  BY <1>1, <1>2, <1>3, CommitCounts DEF Counted
<1>7. (Goto(Proc, "block", s) /\ s.next <= s.end) \/ NextBatch(Proc, s)
  BY DEF AfterCommit
<1>8. pc'[Proc] # "failed"
  <2>1. Goto(Proc, "block", s) => pc'[Proc] = "block"
    BY <1>1 DEF Goto
  <2> HIDE DEF s
  <2> QED
    BY <1>5, <1>7, <2>1, NextBatchPlaces
<1>9. summary' = [summary EXCEPT !.blocks_committed = @ + 1,
                                 !.events_committed = @ + Cardinality(Records(r)),
                                 !.last_block = r.next]
  BY <1>8 DEF SummaryAfter
<1>10. /\ summary'.first_block = n /\ summary'.latest_block = r.latest
       /\ summary'.last_block = r.next /\ summary'.blocks_committed = r.next + 1 - n
       /\ summary'.events_committed = Cardinality(counted) /\ IsSummary(summary)'
  <2> DEFINE added == Cardinality(Records(r))
  <2>1. added \in Nat
    BY <1>1, CommitRows, LogAssumption, FS_Subset, FS_CardinalityType
  <2> HIDE DEF added, r, n, counted
  <2>2. summary' = [latest_block |-> summary.latest_block,
                    first_block |-> summary.first_block, last_block |-> r.next,
                    blocks_committed |-> summary.blocks_committed + 1,
                    events_committed |-> summary.events_committed + added]
    BY <1>2, <1>9 DEF IsSummary, added
  <2> QED
    BY <1>2, <1>3, <1>4, <1>6, <2>2 DEF IsSummary, n, added
<1>11. ASSUME pc'[Proc] \in {"block", "created_logs"}, run'[Proc].next = s.next,
              run'[Proc].latest = s.latest, s.next <= run'[Proc].end,
              run'[Proc].end <= SafeHead(run'[Proc])
       PROVE  SummaryFits(pc[Proc], run[Proc])' /\ SummaryIsStored'
  <2>1. run'[Proc].next = r.next + 1 /\ run'[Proc].next - 1 = r.next
    BY <1>4, <1>5, <1>11
  <2> HIDE DEF counted
  <2>2. Cardinality({e \in events' : Number(e.block) \in
                       summary'.first_block .. run'[Proc].next - 1}) = Cardinality(counted)
    BY <1>10, <2>1 DEF counted
  <2>3. Counted(summary, run[Proc].next)'
    BY <1>3, <1>4, <1>10, <2>1, <2>2 DEF Counted
  <2> QED
    BY <1>5, <1>10, <1>11, <2>3 DEF SummaryFits, SummaryIsStored, Batching
<1>12. ASSUME pc'[Proc] = "waiting", SafeHead(s) < 0 \/ s.next > SafeHead(s)
       PROVE  SummaryFits(pc[Proc], run[Proc])' /\ SummaryIsStored'
  <2>1. r.next = r.latest - Confirmations
    BY <1>2, <1>4, <1>5, <1>12 DEF SafeHead
  <2>2. checkpoint' = r.block /\ blocks' = Branch(r.block)
    <3>1. checkpoint' = r.block /\ r.block # NoBlock
      BY <1>4, NoBlockAssumption DEF CommitBlock
    <3>2. IndexIsBranch'
      BY DEF RunsInv, BranchInv
    <3> QED
      BY <3>1, <3>2 DEF IndexIsBranch, Branch
  <2>3. /\ Cardinality(n .. r.next) = r.next - n + 1
        /\ Cardinality({b \in blocks' : Number(b) \in n .. r.next}) = r.next - n + 1
    BY <1>3, <1>4, <2>2, HeightsCount
  <2>4. r.next # NoNumber /\ r.next + 1 - n = r.next - n + 1
    BY <1>3, <1>4 DEF NoNumber
  <2>5. SummaryIsStored'
    BY <1>4, <1>10, <2>1, <2>2, <2>3, <2>4 DEF SummaryIsStored
  <2> QED
    BY <1>12, <2>5 DEF SummaryFits, Batching
<1>13. CASE Goto(Proc, "block", s) /\ s.next <= s.end
  <2>1. pc'[Proc] = "block" /\ run'[Proc] = s
    BY <1>1, <1>13 DEF Goto
  <2>2. SafeHead(s) = SafeHead(r)
    BY <1>5 DEF SafeHead
  <2> QED
    BY <1>2, <1>5, <1>11, <1>13, <2>1, <2>2
<1>14. CASE NextBatch(Proc, s)
  <2> HIDE DEF s
  <2> QED
    BY <1>5, <1>11, <1>12, <1>14, NextBatchPlaces
<1> QED
  BY <1>7, <1>13, <1>14

\* A step of a run that has not failed keeps the summary to what it has done.
LEMMA SummaryRun ==
  ASSUME RunsInv, RunsInv', SummaryFits(pc[Proc], run[Proc]), summary' = SummaryAfter,
         Startup(Proc) \/ CatchUp(Proc) \/ Recovery(Proc)
  PROVE  SummaryFits(pc[Proc], run[Proc])' /\ SummaryIsStored'
<1>1. /\ pc \in [Indexers -> Call] /\ run \in [Indexers -> RunState] /\ Proc \in Indexers
      /\ result = [p \in Indexers |-> result[p]] /\ run[Proc] \in RunState
  BY OneProcess DEF RunsInv, ArchiveInv, TypeOK, ResultInv
<1>2. ASSUME NEW how, EndRun(Proc, how) \/ Fail(Proc, how), how # "ok"
      PROVE  SummaryFits(pc[Proc], run[Proc])' /\ SummaryIsStored'
  BY <1>1, <1>2, NothingToCount DEF EndRun, Fail, Batching
<1>3. ASSUME NEW call, NEW r, Goto(Proc, call, r)
      PROVE  pc'[Proc] = call /\ run'[Proc] = r
  BY <1>1, <1>3 DEF Goto
<1>4. ASSUME pc'[Proc] \notin Batching \cup {"checkpoint", "verify", "waiting"}
      PROVE  SummaryFits(pc[Proc], run[Proc])' /\ SummaryIsStored'
  BY <1>4, NothingToCount
<1>5. CASE Startup(Proc) \/ CheckChainId(Proc)
  <2>1. Launch(Proc) => pc'[Proc] = "preflight"
    BY <1>1 DEF Launch
  <2> QED
    BY <1>2, <1>3, <1>4, <1>5, <2>1
    DEF Startup, Preflight, StartupReindex, StartupCoverage, CheckChainId, Batching
<1>6. CASE ReadLatest(Proc)
  <2>1. pc[Proc] = "latest" /\ pc'[Proc] = "checkpoint"
    BY <1>3, <1>6 DEF ReadLatest
  <2>2. summary' = [NoSummary EXCEPT !.latest_block = run'[Proc].latest]
    BY <2>1 DEF SummaryAfter, Attempt
  <2> QED
    BY <2>1, <2>2 DEF SummaryFits, SummaryIsStored, Batching
<1>7. CASE ReadCheckpoint(Proc)
  <2>1. pc[Proc] = "checkpoint" /\ UNCHANGED storeVars
    BY <1>7 DEF ReadCheckpoint
  <2>2. CASE NextBatch(Proc, [run[Proc] EXCEPT !.next = DeploymentBlock])
    <3> DEFINE r == [run[Proc] EXCEPT !.next = DeploymentBlock]
    <3>1. r \in RunState /\ r.latest = run[Proc].latest
      BY <1>1, DeploymentAssumption DEF RunState
    <3> HIDE DEF r
    <3>2. NextBatch(Proc, r)
      BY <2>2 DEF r
    <3> QED
      BY <2>1, <3>1, <3>2, CountingStarts
  <2>3. CASE Goto(Proc, "verify", [run[Proc] EXCEPT !.cp = checkpoint])
    <3>1. pc'[Proc] = "verify" /\ run'[Proc].latest = run[Proc].latest
      BY <1>1, <1>3, <2>3 DEF RunState
    <3>2. summary' = summary
      BY <2>1, <3>1 DEF SummaryAfter
    <3> QED
      BY <2>1, <3>1, <3>2 DEF SummaryFits, SummaryIsStored, Batching
  <2>4. ASSUME NEW e \in CheckpointErrors(run[Proc].latest), Fail(Proc, e)
        PROVE  SummaryFits(pc[Proc], run[Proc])' /\ SummaryIsStored'
    BY <1>1, <1>4, <2>4 DEF Fail, Batching
  <2> QED
    BY <1>7, <2>2, <2>3, <2>4 DEF ReadCheckpoint
<1>8. ASSUME Reorganized(Proc)
      PROVE  SummaryFits(pc[Proc], run[Proc])' /\ SummaryIsStored'
  BY <1>2, <1>3, <1>4, <1>8 DEF Reorganized, Batching
<1>9. CASE VerifyCheckpoint(Proc)
  <2> DEFINE n == Number(run[Proc].cp)
             r == [run[Proc] EXCEPT !.next = n + 1, !.parent = run[Proc].cp,
                                    !.cp = NoBlock]
  <2>1. pc[Proc] = "verify" /\ UNCHANGED storeVars
    BY <1>9 DEF VerifyCheckpoint
  <2>2. CASE NextBatch(Proc, r)
    <3>1. run[Proc].cp \in Block /\ n + 1 \in Nat
      BY <1>1, <2>1, AncestryAssumption DEF RunsInv, ArchiveInv, AllReady, Ready
    <3>2. r \in RunState
      BY <1>1, <3>1, CursorType
    <3>3. r.latest = run[Proc].latest
      BY <1>1 DEF RunState
    <3> HIDE DEF r
    <3> QED
      BY <2>1, <2>2, <3>2, <3>3, CountingStarts
  <2> QED
    BY <1>2, <1>8, <1>9, <2>2 DEF VerifyCheckpoint
<1>10. ASSUME NEW call \in Batching, NEW r, Goto(Proc, call, r), UNCHANGED storeVars,
              pc[Proc] \in Batching \ {"commit"}, r.next = run[Proc].next,
              r.latest = run[Proc].latest, r.end = run[Proc].end
       PROVE  SummaryFits(pc[Proc], run[Proc])' /\ SummaryIsStored'
  <2>1. pc'[Proc] = call /\ run'[Proc] = r
    BY <1>3, <1>10
  <2>2. summary' = summary
    BY <1>10, <2>1 DEF SummaryAfter, Batching
  <2> QED
    BY <1>10, <2>1, <2>2, CountingGoesOn DEF storeVars
<1>11. CASE FetchCreatedLogs(Proc) \/ FetchPositionLogs(Proc)
  BY <1>1, <1>10, <1>11 DEF FetchCreatedLogs, FetchPositionLogs, Batching, RunState
<1>12. CASE FetchBlock(Proc)
  BY <1>1, <1>2, <1>8, <1>10, <1>12 DEF FetchBlock, Batching, RunState
<1>13. CASE Commit(Proc)
  <2>1. pc[Proc] = "commit"
    BY <1>13 DEF Commit
  <2>2. ASSUME NEW e, Fail(Proc, e)
        PROVE  SummaryFits(pc[Proc], run[Proc])' /\ SummaryIsStored'
    BY <1>1, <1>4, <2>2 DEF Fail, Batching
  <2> QED
    BY <1>13, <2>1, <2>2, CountingCommits DEF Commit
<1>14. CASE Recovery(Proc)
  <2>1. pc'[Proc] \in {"stored_hash", "canonical_hash", "rollback", "latest", "failed"}
    BY <1>1, <1>3, <1>14
    DEF Recovery, StartRecovery, ReadStoredHash, CompareCanonicalHash, Rollback, Fail
  <2> QED
    BY <1>4, <2>1 DEF Batching
<1> QED
  BY <1>5, <1>6, <1>7, <1>9, <1>11, <1>12, <1>13, <1>14 DEF CatchUp, Startup

\* Every step of the command and of the world keeps the invariant.
LEMMA SummaryStep ==
  ASSUME RunsInv, RunsInv', SummaryInv, [WatchNext]_watchVars
  PROVE  SummaryInv'
<1>1. /\ pc \in [Indexers -> Call] /\ run \in [Indexers -> RunState] /\ Proc \in Indexers
      /\ result = [p \in Indexers |-> result[p]] /\ TypeOK
  BY OneProcess DEF RunsInv, ArchiveInv, TypeOK, ResultInv
<1>2. ASSUME pc'[Proc] \in {"down", "failed"} PROVE SummaryInv'
  BY <1>2, NothingToCount DEF SummaryInv, Batching
<1>3. CASE StartRefused
  BY <1>1, <1>2, <1>3 DEF StartRefused, SummaryInv, vars, processVars
<1>4. ASSUME NEW a, NEW e, StartWith(a, e) PROVE SummaryInv'
  <2>1. pc'[Proc] = "preflight" /\ exit' = "running"
    BY <1>1, <1>4 DEF StartWith, Launch
  <2> QED
    BY <2>1, NothingToCount DEF SummaryInv, Batching
<1>5. CASE RunOnce \/ EndpointFails
  <2>1. exit = "running"
    BY <1>5 DEF RunOnce, EndpointFails, InRun
  <2>2. CASE RunAborts
    BY <1>2, <2>2 DEF RunAborts
  <2>3. ASSUME RunGoesOn \/ RunFinishes \/ RunFails, exit' = exit PROVE SummaryInv'
    <3> SUFFICES SummaryFits(pc[Proc], run[Proc])' /\ SummaryIsStored'
      BY <2>1, <2>3 DEF SummaryInv
    <3>1. CASE RunFails
      BY <3>1, NothingToCount DEF RunFails, Batching
    <3>2. CASE RpcFails(Proc)
      BY <1>1, <3>2, NothingToCount DEF RpcFails, EndRun, Fail, Batching
    <3>3. ASSUME Startup(Proc) \/ CatchUp(Proc) \/ Recovery(Proc),
                 RunGoesOn \/ RunFinishes
          PROVE  SummaryFits(pc[Proc], run[Proc])' /\ SummaryIsStored'
      <4>1. summary' = SummaryAfter
        BY <3>3 DEF RunGoesOn, RunFinishes
      <4> QED
        BY <3>3, <4>1, SummaryRun DEF SummaryInv
    <3>4. RunOnce => Startup(Proc) \/ CatchUp(Proc) \/ Recovery(Proc)
      BY DEF RunOnce, InRun, Reindex, KeepIndex, Startup
    <3>5. EndpointFails => RpcFails(Proc)
      BY DEF EndpointFails, InRun
    <3> QED
      BY <1>5, <2>3, <3>1, <3>2, <3>3, <3>4, <3>5
  <2> QED
    BY <1>5, <2>2, <2>3 DEF RunOnce, EndpointFails, InRun
<1>6. CASE Wake
  <2>1. pc'[Proc] = "chain_id" /\ pc[Proc] = "waiting" /\ exit' = exit
    BY <1>1, <1>6 DEF Wake, Awake, Poll
  <2> QED
    BY <2>1, NothingToCount DEF SummaryInv, Batching
<1>7. ASSUME NEW how, Exit(how) PROVE SummaryInv'
  BY <1>1, <1>2, <1>7 DEF Exit, Crash
<1>8. CASE ReturnOnce \/ Shutdown \/ Dies
  BY <1>7, <1>8 DEF ReturnOnce, Shutdown, Dies
<1>9. CASE UNCHANGED <<storeVars, processVars, exit, summary>>
  BY <1>9
  DEF SummaryInv, SummaryFits, SummaryIsStored, Counted, storeVars, processVars
<1>10. CASE PressCtrlC
  BY <1>7, <1>9, <1>10 DEF PressCtrlC, vars
<1>11. CASE World
  BY <1>9, <1>11 DEF World, Mine, Reorg, loopVars
<1>12. CASE UNCHANGED watchVars
  BY <1>9, <1>12 DEF watchVars, vars, loopVars
<1> QED
  BY <1>3, <1>4, <1>5, <1>6, <1>8, <1>10, <1>11, <1>12 DEF WatchNext, Start, Command

\* What a good run reports is what the store holds when it ends: the heights it
\* names are the top of the index, a block each, with that many events.
THEOREM Summaries == WatchSpec => []SummaryIsStored
<1>1. WatchInit => Init /\ SummaryInv
  BY OneProcess DEF WatchInit, Init, SummaryInv, SummaryFits, SummaryIsStored, Batching
<1>2. Init => RunsInv
  BY ArchiveInit, ReplayInit, BranchInit, ResultInit, OneProcess DEF RunsInv
<1>3. RunsInv /\ [WatchNext]_watchVars => RunsInv'
  BY LoopStep, ArchiveStep, ReplayStepInv, BranchStep, ResultStep, OneProcess DEF RunsInv
<1>4. RunsInv /\ RunsInv' /\ SummaryInv /\ [WatchNext]_watchVars => SummaryInv'
  BY SummaryStep
<1>5. SummaryInv => SummaryIsStored
  BY DEF SummaryInv
<1> QED
  BY <1>1, <1>2, <1>3, <1>4, <1>5, PTL DEF WatchSpec
=============================================================================
