------------------------ MODULE WatchLoopProperties ------------------------
(***************************************************************************)
(* What the indexer command promises from its start to its exit.  The      *)
(* properties of IndexerProperties that hold for a single process between  *)
(* whose reads no reorganization falls are checked for it too.             *)
(***************************************************************************)
EXTENDS WatchLoop, IndexerProperties

----------------------------------------------------------------------------
\* Safety

RetryDelays == <<1000, 2000, 4000, 8000, 16000, 30000>>

\* The n-th RPC failure in a row is followed by the n-th delay of the README,
\* whatever runs, recoveries and other failures came before; a good run by the
\* poll interval.
BackoffIsExponential ==
  pc[Proc] = "waiting" /\ options.watch =>
    sleep = IF result[Proc] = "Rpc" THEN RetryDelays[Least(failures, 6)]
                                    ELSE options.poll_interval

\* The summary of a good run is what the store holds when it ends: the heights
\* it names are the top of the index, one block each, with that many events,
\* also when a recovery and a second attempt were part of the run.
SummaryIsStored ==
  pc[Proc] = "waiting" /\ result[Proc] = "ok" =>
    LET heights == summary.first_block .. summary.last_block
    IN  IF summary.last_block = NoNumber
        THEN summary.blocks_committed = 0 /\ summary.events_committed = 0
        ELSE /\ summary.last_block = summary.latest_block - Confirmations
             /\ summary.last_block = Number(checkpoint)
             /\ summary.blocks_committed = Cardinality({b \in blocks : Number(b) \in heights})
             /\ summary.blocks_committed = Cardinality(heights)
             /\ summary.events_committed =
                  Cardinality({e \in events : Number(e.block) \in heights})

\* The store changes only in a command whose arguments and environment were
\* accepted and whose endpoint has shown the configured chain since its start,
\* and it is emptied only by --full-reindex, once in the life of the command.
SafeStartup ==
  [][storeVars' # storeVars =>
       /\ exit = "running" /\ launch.preflight
       /\ ~ UsageError(args) /\ IndexerErrors(env) = {}
       /\ blocks # {} /\ blocks' = {} => options.full_reindex /\ ~ launch.emptied]_watchVars

----------------------------------------------------------------------------
\* Liveness

\* A command that is running goes on: calls answer, sleeps end.
GoesOnFairly == WF_watchVars(Command)

\* A command that ended is started again to watch, unless it ended with an
\* error that its endpoint does not explain.
Restart ==
  /\ exit = "error" => result[Proc] \in {"none", "Rpc", "ChainIdMismatch"}
  /\ \E a \in CommandLines, e \in Environments : RunOptions(a).watch /\ StartWith(a, e)

FairWatchSpec == WatchSpec /\ GoesOnFairly /\ WF_watchVars(Restart)

\* Ctrl+C, once it is listened to, ends the command: neither an endpoint that
\* fails every run nor a poll interval that is always over starves it.
ShutdownEnds == signal.pressed ~> exit # "running"

Calm ==
  /\ head' = head
  /\ ~ EndpointFails /\ ~ PressCtrlC /\ ~ Dies
  /\ result'[Proc] # "ChainIdMismatch"
  /\ ~ (exit = "running" /\ Reindex)

\* Once the chain, the endpoint and the process behave and nobody reindexes,
\* the index reaches the safe head of the canonical chain and stays there,
\* whether the command watches or is run again and again.
Converges == <>[][Calm]_watchVars => <>[]Synced
=============================================================================
