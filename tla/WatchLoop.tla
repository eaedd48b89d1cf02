------------------------------ MODULE WatchLoop ------------------------------
(***************************************************************************)
(* One indexer command from its start to its exit (bin/indexer.rs): the    *)
(* arguments and the environment, the loop around run_once with its sleeps *)
(* and retry delays, Ctrl+C, and the summary of a run.  Whatever touches   *)
(* the chain or the store is a step of Indexer, so that this module only   *)
(* decides which of those steps the command takes, and when.               *)
(*                                                                         *)
(* Durations are milliseconds.                                             *)
(***************************************************************************)
EXTENDS Indexer, Configuration

CONSTANTS
  Proc,            \* the process
  CommandLines,    \* the arguments it may be started with
  Environments,    \* the environments it may be started in
  MaxFailures      \* bound of the history variable `failures'

\* An environment that is accepted names the chain, the deployment block and
\* the settings of this indexer: another one would be another indexer.
ASSUME WatchAssumption ==
  /\ Indexers = {Proc} /\ Reindexers = {Proc}
  /\ MaxFailures \in Nat \ {0}
  /\ \A e \in Environments : IndexerErrors(e) = {} =>
       /\ e.chain_id = <<ChainId>>
       /\ e.deployment_block = <<DeploymentBlock>>
       /\ e.confirmations = <<Confirmations>>
       /\ e.batch_size = <<BatchSize>>

VARIABLES
  args,         \* the command line of the running command
  env,          \* its environment
  exit,         \* "running", "never", or how the command ended
  next_delay,   \* RpcBackoff.next_delay
  sleep,        \* the duration of the current sleep, 0 when awake
  signal,       \* Ctrl+C: is it listened to, and was it pressed
  summary,      \* RunSummary of the current or last run
  failures,     \* history: runs in a row that an RPC error has ended
  launch        \* history: what the command has done so far

loopVars == <<args, env, exit, next_delay, sleep, signal, summary, failures, launch>>
watchVars == <<vars, loopVars>>

INITIAL_RPC_RETRY_DELAY == 1000
MAX_RPC_RETRY_DELAY == 30000

\* Option::None of a block number.
NoNumber == -1
NoSummary == [latest_block |-> 0, first_block |-> NoNumber, last_block |-> NoNumber,
              blocks_committed |-> 0, events_committed |-> 0]
NoSignal == [listening |-> FALSE, pressed |-> FALSE]
NoLaunch == [preflight |-> FALSE, emptied |-> FALSE]

\* The arguments and the environment of no command.
NoArguments == [full_reindex |-> 0, watch |-> 0, intervals |-> <<>>, other |-> FALSE]
NoEnvironment == [database_url |-> <<>>]

options == RunOptions(args)

\* Nothing of a command that has ended is left in its process.
Gone ==
  /\ args' = NoArguments /\ env' = NoEnvironment
  /\ next_delay' = INITIAL_RPC_RETRY_DELAY
  /\ sleep' = 0
  /\ signal' = NoSignal
  /\ summary' = NoSummary
  /\ failures' = 0
  /\ launch' = NoLaunch

WatchInit ==
  /\ Init
  /\ args = NoArguments /\ env = NoEnvironment
  /\ exit = "never"
  /\ next_delay = INITIAL_RPC_RETRY_DELAY
  /\ sleep = 0
  /\ signal = NoSignal
  /\ summary = NoSummary
  /\ failures = 0
  /\ launch = NoLaunch

----------------------------------------------------------------------------
\* main: nothing is opened before the arguments and the environment are
\* accepted.

Refused(a, e) == UsageError(a) \/ IndexerErrors(e) # {}

StartWith(a, e) ==
  /\ exit # "running"
  /\ ~ Refused(a, e)
  /\ exit' = "running" /\ args' = a /\ env' = e
  /\ Launch(Proc)
  /\ UNCHANGED <<next_delay, sleep, signal, summary, failures, launch>>

StartRefused ==
  /\ exit # "running"
  /\ \E a \in CommandLines, e \in Environments : Refused(a, e)
  /\ exit' = "refused"
  /\ Gone
  /\ UNCHANGED vars

Start ==
  \/ \E a \in CommandLines, e \in Environments : StartWith(a, e)
  \/ StartRefused

----------------------------------------------------------------------------
\* run_once.

Attempt == [NoSummary EXCEPT !.latest_block = run'[Proc].latest]

\* Mutant: the summary of the attempt before a recovery is kept.
SummaryAfterKept ==
  CASE pc[Proc] \in {"checkpoint", "verify"} /\ pc'[Proc] = "created_logs" ->
         [summary EXCEPT !.first_block = run'[Proc].next]
    [] pc[Proc] = "commit" /\ pc'[Proc] # "failed" ->
         [summary EXCEPT !.blocks_committed = @ + 1,
                         !.events_committed = @ + Cardinality(Records(run[Proc])),
                         !.last_block = run[Proc].next]
    [] OTHER -> summary

\* RunSummary as run_catch_up_attempt and process_batch fill it in; every
\* attempt has a new one.
SummaryAfter ==
  CASE pc[Proc] = "latest" /\ pc'[Proc] = "checkpoint" -> Attempt
    [] pc[Proc] \in {"checkpoint", "verify"} /\ pc'[Proc] = "created_logs" ->
         [summary EXCEPT !.first_block = run'[Proc].next]
    [] pc[Proc] = "commit" /\ pc'[Proc] # "failed" ->
         [summary EXCEPT !.blocks_committed = @ + 1,
                         !.events_committed = @ + Cardinality(Records(run[Proc])),
                         !.last_block = run[Proc].next]
    [] OTHER -> summary

\* Mutant: a good run does not reset the delay.
DelayAfterOkKept == next_delay

\* RpcBackoff::take_delay (saturating_mul, min) and reset.
Doubled(delay) == Least(2 * delay, MAX_RPC_RETRY_DELAY)
DelayAfterOk == INITIAL_RPC_RETRY_DELAY

\* tokio::signal::ctrl_c installs its handler when it is first polled: at the
\* first sleep.  If it cannot, the loop stops as if Ctrl+C had been pressed.
FirstPoll ==
  \/ signal' = [signal EXCEPT !.listening = TRUE]
  \/ ~ signal.listening /\ signal' = [listening |-> TRUE, pressed |-> TRUE]

Unlooped == UNCHANGED <<next_delay, sleep, signal, failures>>

\* A step inside a run.
RunGoesOn ==
  /\ pc'[Proc] \notin {"waiting", "failed"}
  /\ summary' = SummaryAfter
  /\ Unlooped

\* A run ends well: a watching command sleeps for the poll interval.
RunFinishes ==
  /\ pc'[Proc] = "waiting" /\ result'[Proc] = "ok"
  /\ summary' = SummaryAfter
  /\ \/ /\ options.watch
        /\ next_delay' = DelayAfterOk
        /\ failures' = 0
        /\ sleep' = options.poll_interval
        /\ FirstPoll
     \/ ~ options.watch /\ Unlooped

\* An RPC error ends a run: a watching command sleeps for the retry delay.
RunFails ==
  /\ pc'[Proc] = "waiting" /\ result'[Proc] = "Rpc"
  /\ summary' = NoSummary
  /\ \/ /\ options.watch
        /\ sleep' = next_delay
        /\ next_delay' = Doubled(next_delay)
        /\ failures' = Least(failures + 1, MaxFailures)
        /\ FirstPoll
     \/ ~ options.watch /\ Unlooped

\* Any other error ends the command.
RunAborts == pc'[Proc] = "failed" /\ exit' = "error" /\ Gone

LaunchAfter ==
  [preflight |-> launch.preflight \/ (pc[Proc] = "preflight" /\ pc'[Proc] = "startup"),
   emptied |-> launch.emptied \/ (blocks # {} /\ blocks' = {})]

InRun(step) ==
  /\ exit = "running"
  /\ step
  /\ \/ RunAborts
     \/ /\ RunGoesOn \/ RunFinishes \/ RunFails
        /\ launch' = LaunchAfter
        /\ UNCHANGED <<args, env, exit>>

\* --full-reindex or not.
Reindex == options.full_reindex /\ StartupReindex(Proc)
KeepIndex == ~ options.full_reindex /\ StartupCoverage(Proc)

RunOnce ==
  InRun(Preflight(Proc) \/ Reindex \/ KeepIndex \/ CatchUp(Proc) \/ Recovery(Proc))

EndpointFails == InRun(RpcFails(Proc))

----------------------------------------------------------------------------
\* The loop

Awake ==
  /\ pc[Proc] = "waiting" /\ options.watch
  /\ Poll(Proc)
  /\ sleep' = 0
  /\ summary' = NoSummary
  /\ UNCHANGED <<args, env, exit, next_delay, signal, failures, launch>>

\* Mutant: the sleep is polled before the signal.
WakeUnbiased == Awake

\* The sleep is over; the select is biased: a pressed Ctrl+C wins.
Wake == ~ signal.pressed /\ Awake

\* The command returns: the process is gone, its transactions stay.
Exit(how) ==
  /\ exit = "running"
  /\ Crash(Proc)
  /\ exit' = how
  /\ Gone

ReturnOnce ==
  /\ pc[Proc] = "waiting" /\ ~ options.watch
  /\ Exit(IF result[Proc] = "ok" THEN "ok" ELSE "error")

Shutdown == pc[Proc] = "waiting" /\ signal.pressed /\ Exit("ok")

\* Ctrl+C is remembered once it is listened to; before that it kills.
PressCtrlC ==
  \/ /\ exit = "running" /\ signal.listening
     /\ signal' = [signal EXCEPT !.pressed = TRUE]
     /\ UNCHANGED <<vars, args, env, exit, next_delay, sleep, summary, failures, launch>>
  \/ ~ signal.listening /\ Exit("killed")

\* The process dies, or a call to its database fails.
Dies == \E how \in {"killed", "error"} : Exit(how)

----------------------------------------------------------------------------
Command == RunOnce \/ Wake \/ ReturnOnce \/ Shutdown

World == (Mine \/ Reorg) /\ UNCHANGED loopVars

WatchNext == Start \/ Command \/ EndpointFails \/ PressCtrlC \/ Dies \/ World

WatchSpec == WatchInit /\ [][WatchNext]_watchVars
=============================================================================
