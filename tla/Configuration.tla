---------------------------- MODULE Configuration ----------------------------
(***************************************************************************)
(* The environment variables of the two processes and the indexer's        *)
(* command line (config.rs, bin/indexer.rs): which are accepted.  Both are *)
(* read once, before a process opens its database.                         *)
(*                                                                         *)
(* An environment gives each variable a value: <<>> when it is unset, or   *)
(* blank where blank counts as unset, else <<v>>.  A URL is its scheme ("" *)
(* if it is no URL), an address or a socket address is a name ("" if it    *)
(* does not parse), an integer is itself (negative if it is not an         *)
(* unsigned integer).                                                      *)
(***************************************************************************)
EXTENDS Integers, Sequences

CONSTANTS
  MaxBigint,       \* the largest BIGINT of PostgreSQL, i64::MAX
  MaxBatchSize     \* MAX_BATCH_SIZE

----------------------------------------------------------------------------
\* Environment.  Each operator gives what is wrong with one value, or "none".

\* required, parse_u64 and ensure_db_bigint.
Unsigned(v, low, high) ==
  CASE v = <<>>                       -> "Missing"
    [] v # <<>> /\ Head(v) < 0        -> "InvalidInteger"
    [] v # <<>> /\ Head(v) >= 0 /\ Head(v) \notin low .. high -> "OutOfRange"
    [] OTHER                          -> "none"

\* ensure_positive
Positive(v) == IF v = <<0>> THEN "MustBePositive" ELSE "none"

UrlOf(v, schemes) ==
  CASE v = <<>>                       -> "Missing"
    [] v = <<"">>                     -> "InvalidUrl"
    [] v # <<>> /\ Head(v) \notin schemes \cup {""} -> "UnsupportedScheme"
    [] OTHER                          -> "none"

AddressOf(v) ==
  CASE v = <<>>                       -> "Missing"
    [] v = <<"">>                     -> "InvalidAddress"
    [] v = <<"zero">>                 -> "ZeroAddress"
    [] OTHER                          -> "none"

\* The variables that IndexerConfig and ApiConfig share.
SharedErrors(values) ==
  {UrlOf(values.database_url, {"postgres", "postgresql"}),
   Unsigned(values.chain_id, 0, MaxBigint), Positive(values.chain_id),
   AddressOf(values.contract_address)} \ {"none"}

\* ConfigError: what makes IndexerConfig::from_env fail; it reports the first.
IndexerErrors(values) ==
  SharedErrors(values) \cup
  ({UrlOf(values.rpc_url, {"http", "https"}),
    Unsigned(values.deployment_block, 0, MaxBigint),
    Unsigned(values.confirmations, 0, MaxBigint),
    Unsigned(values.batch_size, 1, MaxBatchSize)} \ {"none"})

\* ApiConfig::from_env; its own two variables have defaults.
ApiErrors(values) ==
  SharedErrors(values) \cup
  {e \in {"InvalidSocketAddress"} : values.bind_address = <<"">>} \cup
  ({UrlOf(values.cors_origin, {"http", "https"})} \ {"none", "Missing"})

----------------------------------------------------------------------------
\* Command line of the indexer: how often each flag is given, the values given
\* for the poll interval (0 for a value that is missing, 0 or no u64), and
\* whether there is any other argument.

DefaultPollInterval == 2000

\* cli_usage_error
UsageError(args) ==
  \/ args.full_reindex > 1 \/ args.watch > 1 \/ Len(args.intervals) > 1
  \/ args.other
  \/ args.intervals # <<>> /\ (Head(args.intervals) = 0 \/ args.watch = 0)

RunOptions(args) ==
  [full_reindex |-> args.full_reindex = 1,
   watch |-> args.watch = 1,
   poll_interval |-> IF args.intervals = <<>> THEN DefaultPollInterval
                                              ELSE Head(args.intervals)]
=============================================================================
