----------------------------- MODULE IndexStore -----------------------------
(***************************************************************************)
(* The PostgreSQL index of one contract on one chain (db.rs, migrations).  *)
(* A table is a set of rows; the primary keys of the schema are the        *)
(* uniqueness the operators below keep.  Every public operation of         *)
(* Database is one transaction under the chain's advisory lock, hence one  *)
(* action.                                                                 *)
(*                                                                         *)
(* A log is a record with the fields                                       *)
(*   kind      "created" (MarketCreated) or "position" (PositionTaken)     *)
(*   tx, ix    transaction hash and log index: the event's identity        *)
(*   market                                                                *)
(*   terms     of a created log: resolver, creator, deadline, digest       *)
(*   user, outcome, yesPool, noPool, stake   of a position log: the        *)
(*             participant and the contract's state after the event        *)
(***************************************************************************)
EXTENDS Chain, Folds

CONSTANTS
  DeploymentBlock,    \* FORESYN_DEPLOYMENT_BLOCK
  LegacyHeads         \* where an indexer without PositionTaken may have stopped

ASSUME DeploymentAssumption ==
  /\ DeploymentBlock \in Nat
  /\ LegacyHeads \subseteq {b \in Block : Number(b) >= DeploymentBlock}

\* The contract is deployed at DeploymentBlock or later, and takePosition
\* refuses a market that it has not created before (_requireMarket).
ASSUME CreationAssumption ==
  \A b \in Block : \A l \in LogsOf(b) : l.kind = "position" =>
    \E n \in DeploymentBlock .. Number(b) : \E k \in LogsOf(AncestorAt(b, n)) :
      /\ k.kind = "created" /\ k.market = l.market
      /\ n < Number(b) \/ k.ix < l.ix

VARIABLES
  blocks,       \* indexed_blocks
  events,       \* blockchain_events: [block, log]
  markets,      \* markets: [market, terms, number, tx]
  states,       \* market_states: [market, yes, no, at]
  positions,    \* market_positions: [market, user, yes, no, at]
  checkpoint,   \* indexer_checkpoints: a block or NoBlock
  coverage      \* indexer_contract_coverage: a block number or NoCoverage

storeVars == <<blocks, events, markets, states, positions, checkpoint, coverage>>

NoCoverage == -1

\* indexed_block_hash: the stored blocks with a number (one at most).
StoredAt(n) == {b \in blocks : Number(b) = n}

EmptyStore ==
  /\ blocks = {} /\ events = {} /\ markets = {} /\ states = {} /\ positions = {}
  /\ checkpoint = NoBlock
  /\ coverage = NoCoverage

\* The blocks from deployment to b on b's branch.
Branch(b) == {AncestorAt(b, n) : n \in DeploymentBlock .. Number(b)}

----------------------------------------------------------------------------
\* Projections.  t is the mutable content a transaction builds up:
\* [markets, states, positions, error].

Tables == [markets |-> markets, states |-> states, positions |-> positions,
           error |-> "none"]

\* EVM order: block number, then the log's index in the block.
Precedes(e, f) ==
  \/ Number(e.block) < Number(f.block)
  \/ Number(e.block) = Number(f.block) /\ e.log.ix < f.log.ix

LatestOf(S) == CHOOSE e \in S : \A f \in S \ {e} : Precedes(f, e)

MarketRow(e) == [market |-> e.log.market, terms |-> e.log.terms,
                 number |-> Number(e.block), tx |-> e.log.tx]

\* insert_market_projection: an existing row must be the same row.
InsertMarket(t, e) ==
  LET known == {m \in t.markets : m.market = e.log.market}
  IN  IF known \subseteq {MarketRow(e)}
      THEN [t EXCEPT !.markets = @ \cup {MarketRow(e)}]
      ELSE [t EXCEPT !.error = "MarketIdentityConflict"]

\* The stake row after an event: the event's side is set to the emitted
\* stake, the other side kept (0 in a new row).
PositionRow(t, e) ==
  LET l == e.log
      old == {r \in t.positions : r.market = l.market /\ r.user = l.user}
      Kept(side) == IF old = {} THEN 0 ELSE (CHOOSE r \in old : TRUE)[side]
  IN  [market |-> l.market, user |-> l.user,
       yes |-> IF l.outcome = "yes" THEN l.stake ELSE Kept("yes"),
       no  |-> IF l.outcome = "no"  THEN l.stake ELSE Kept("no"),
       at  |-> Number(e.block)]

\* apply_position_projection: two upserts, both of which the schema refuses
\* when the market has no row.
ApplyPosition(t, e) ==
  LET l == e.log
  IN  IF \E m \in t.markets : m.market = l.market
      THEN [t EXCEPT
              !.states = {r \in @ : r.market # l.market} \cup
                         {[market |-> l.market, yes |-> l.yesPool,
                           no |-> l.noPool, at |-> Number(e.block)]},
              !.positions = {r \in @ : r.market # l.market \/ r.user # l.user}
                            \cup {PositionRow(t, e)}]
      ELSE [t EXCEPT !.error = "ForeignKeyViolation"]

ApplyEvent(e, t) ==
  CASE t.error # "none" -> t
    [] t.error = "none" /\ e.log.kind = "created" -> InsertMarket(t, e)
    [] t.error = "none" /\ e.log.kind = "position" -> ApplyPosition(t, e)

\* The rows applied one after the other in EVM order.
ApplyInOrder(t, rows) ==
  MapThenFoldSet(ApplyEvent, t, LAMBDA e : e, LatestOf, rows)

\* A database the previous milestone left at b: it asked for MarketCreated
\* only, and knew no coverage marker (ADR 0005).
LegacyStore(b) ==
  /\ blocks = Branch(b)
  /\ events = UNION {{[block |-> c, log |-> l] :
                        l \in {k \in LogsOf(c) : k.kind = "created"}} :
                     c \in Branch(b)}
  /\ markets = {MarketRow(e) : e \in events}
  /\ states = {} /\ positions = {}
  /\ checkpoint = b
  /\ coverage = NoCoverage

----------------------------------------------------------------------------
\* commit_block

EventRows(b, logs) == {[block |-> b, log |-> l] : l \in logs}

SameIdentity(e, f) == e.log.tx = f.log.tx /\ e.log.ix = f.log.ix

\* Only rows that were not there yet are projected.
Projected(b, logs) == ApplyInOrder(Tables, EventRows(b, logs) \ events)

\* Mutant: the checkpoint upsert has no WHERE.
CommitErrorsUnguarded(b, logs) ==
  {x \in {"CanonicalBlockConflict"} : \E c \in StoredAt(Number(b)) : c # b}
  \cup ({Projected(b, logs).error} \ {"none"})

\* The statements of persist_block_transaction that abort it.
CommitErrors(b, logs) ==
  {x \in {"CanonicalBlockConflict"} : \E c \in StoredAt(Number(b)) : c # b}
  \cup
  {x \in {"EventIdentityConflict"} :
     \E e \in EventRows(b, logs), f \in events : SameIdentity(e, f) /\ e # f}
  \cup
  ({Projected(b, logs).error} \ {"none"})
  \cup
  {x \in {"CheckpointRegression"} :
     checkpoint # NoBlock /\ Number(checkpoint) > Number(b)}

CommitBlock(b, logs) ==
  /\ CommitErrors(b, logs) = {}
  /\ blocks' = blocks \cup {b}
  /\ events' = events \cup EventRows(b, logs)
  /\ markets' = Projected(b, logs).markets
  /\ states' = Projected(b, logs).states
  /\ positions' = Projected(b, logs).positions
  /\ checkpoint' = b
  /\ UNCHANGED coverage

----------------------------------------------------------------------------
\* rollback_to_ancestor

\* Mutants: the events above the ancestor outlive their blocks; the events of
\* the ancestor itself go too.
RetainedAll(a) == events
RetainedBelow(a) == {e \in events : Number(e.block) < Number(a)}

RetainedEvents(a) == {e \in events : Number(e.block) <= Number(a)}

\* Mutants: the retained events are replayed over the old tables; the orphaned
\* markets are kept.
ReplayedOverOld(a) ==
  ApplyInOrder(
    [Tables EXCEPT !.markets = {m \in @ : m.number <= Number(a)}],
    {e \in RetainedEvents(a) : e.log.kind = "position"})
ReplayedKeepingMarkets(a) ==
  ApplyInOrder(
    [Tables EXCEPT !.states = {}, !.positions = {}],
    {e \in RetainedEvents(a) : e.log.kind = "position"})

\* The mutable tables are emptied and rebuilt from the retained PositionTaken
\* events; the foreign key has removed the markets created above a.
Replayed(a) ==
  ApplyInOrder(
    [markets |-> {m \in markets : m.number <= Number(a)},
     states |-> {}, positions |-> {}, error |-> "none"],
    {e \in RetainedEvents(a) :
       e.log.kind = "position" /\ Number(e.block) >= DeploymentBlock})

RollbackErrors(a) ==
  {x \in {"RollbackAncestorMissing"} : StoredAt(Number(a)) = {}}
  \cup
  {x \in {"RollbackAncestorHashMismatch"} : \E c \in StoredAt(Number(a)) : c # a}
  \cup
  ({Replayed(a).error} \ {"none"})

RollbackToAncestor(a) ==
  /\ RollbackErrors(a) = {}
  /\ blocks' = {b \in blocks : Number(b) <= Number(a)}
  /\ events' = RetainedEvents(a)
  /\ markets' = Replayed(a).markets
  /\ states' = Replayed(a).states
  /\ positions' = Replayed(a).positions
  /\ checkpoint' = a
  /\ UNCHANGED coverage

----------------------------------------------------------------------------
\* full_reindex: the chain's index is emptied and declared covered.
FullReindex ==
  /\ blocks' = {} /\ events' = {} /\ markets' = {} /\ states' = {}
  /\ positions' = {}
  /\ checkpoint' = NoBlock
  /\ coverage' = DeploymentBlock

\* Mutant: only a marker for another deployment block is refused.
CoverageRefusedByMarker == coverage \notin {NoCoverage, DeploymentBlock}

\* ensure_position_coverage refuses an index of unproven origin.
CoverageRefused ==
  /\ coverage # DeploymentBlock
  /\ \/ coverage # NoCoverage
     \/ blocks # {} \/ events # {} \/ markets # {} \/ checkpoint # NoBlock

EnsurePositionCoverage ==
  /\ ~ CoverageRefused
  /\ coverage' = DeploymentBlock
  /\ UNCHANGED <<blocks, events, markets, states, positions, checkpoint>>
=============================================================================
