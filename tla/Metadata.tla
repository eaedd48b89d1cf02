------------------------------ MODULE Metadata ------------------------------
(***************************************************************************)
(* The texts of markets (metadata.rs, metadata_repository.rs, migration    *)
(* 0004) beside the index: a row of market_metadata refers to its market   *)
(* by a foreign key that cascades, so the indexer's rollbacks and          *)
(* reindexes delete texts, while the command insert-market-2-metadata and  *)
(* an operator write them, one SQL statement at a time.                    *)
(***************************************************************************)
EXTENDS Indexer

CONSTANTS
  Text,         \* the texts somebody may record: [question, description, ...]
  Digest(_),    \* MarketMetadata::compute_digest
  MarketId,     \* MARKET_ID of the command
  NewText       \* market_2_metadata

\* The canonical JSON is one for one, and keccak256 has no known collision.
ASSUME DigestAssumption ==
  /\ NewText \in Text
  /\ \A s, t \in Text : Digest(s) = Digest(t) => s = t

VARIABLES
  metadata,     \* market_metadata: [market, text, digest]
  insert        \* the command: its next statement and the market it has read

metadataVars == <<vars, metadata, insert>>

Ended == {"never", "ok", "error", "stopped"}
End(how) == insert' = [at |-> how, market |-> {}]
Then(statement) == insert' = [insert EXCEPT !.at = statement]

MetadataInit ==
  /\ Init
  /\ metadata = {}
  /\ insert = [at |-> "never", market |-> {}]

----------------------------------------------------------------------------
\* What the API reads: one query joins a market and its text.

\* to_canonical_json, compute_digest: the text, every field of it in a fixed
\* order, hashes to the digest.
Commits(digest, text) == Digest(text) = digest

IndexedMarket == {m \in markets : m.market = MarketId}

Shown(m) == {r \in metadata : r.market = m.market}

\* Mutant: the digest stored with the text is trusted.
VerifiedByColumn(m) == \E r \in Shown(m) : r.digest = m.terms.digest

\* metadata_verified: the digest is computed again from the text.
Verified(m) == \E r \in Shown(m) : Commits(m.terms.digest, r.text)

----------------------------------------------------------------------------
\* insert-market-2-metadata

StartInsert ==
  /\ insert.at \in Ended
  /\ insert' = [at |-> "market", market |-> {}]
  /\ UNCHANGED <<vars, metadata>>

\* Mutants: any market will do; the two digests are compared in two formats.
MarketMatchesAny(m) == TRUE
MarketMatchesNever(m) == FALSE

MarketMatches(m) == Commits(m.terms.digest, NewText)

\* The market must be indexed, with the digest of the text.
ReadIndexedMarket ==
  /\ insert.at = "market"
  /\ \/ /\ \E m \in IndexedMarket : MarketMatches(m)
        /\ insert' = [at |-> "existing", market |-> IndexedMarket]
     \/ /\ ~ \E m \in IndexedMarket : MarketMatches(m)
        /\ End("error")
  /\ UNCHANGED <<vars, metadata>>

Existing == {r \in metadata : r.market = MarketId}

NewRow == [market |-> MarketId, text |-> NewText, digest |-> Digest(NewText)]

\* The same row is there already, another is, or none.
ReadExisting ==
  /\ insert.at = "existing"
  /\ \/ Existing = {NewRow} /\ Then("read_row")
     \/ Existing \notin {{}, {NewRow}} /\ End("error")
     \/ Existing = {} /\ Then("upsert")
  /\ UNCHANGED <<vars, metadata>>

\* insert_metadata: ON CONFLICT DO UPDATE; refused by the foreign key.
Upsert ==
  /\ insert.at = "upsert"
  /\ \/ /\ IndexedMarket # {}
        /\ metadata' = (metadata \ Existing) \cup {NewRow}
        /\ Then("read_row")
     \/ IndexedMarket = {} /\ End("error") /\ UNCHANGED metadata
  /\ UNCHANGED vars

\* report
ReadRow ==
  /\ insert.at = "read_row"
  /\ \/ Existing # {} /\ Then("read_market")
     \/ Existing = {} /\ End("error")
  /\ UNCHANGED <<vars, metadata>>

ReadMarketBack ==
  /\ insert.at = "read_market"
  /\ \/ (\E m \in IndexedMarket : Verified(m)) /\ End("ok")
     \/ (~ \E m \in IndexedMarket : Verified(m)) /\ End("error")
  /\ UNCHANGED <<vars, metadata>>

\* It loses the database or is stopped; an upsert it has done stays.
InsertStops ==
  /\ insert.at \notin Ended
  /\ End("stopped")
  /\ UNCHANGED <<vars, metadata>>

----------------------------------------------------------------------------
\* An operator: the INSERT that generate-market-2 prints, with a text and a
\* digest that need not belong together; the deliberate removal of a row.

OperatorRecords(text, of) ==
  /\ \E m \in markets :
       /\ Shown(m) = {}
       /\ metadata' = metadata \cup
                        {[market |-> m.market, text |-> text, digest |-> Digest(of)]}
  /\ UNCHANGED <<vars, insert>>

OperatorRemoves ==
  /\ \E r \in metadata : metadata' = metadata \ {r}
  /\ UNCHANGED <<vars, insert>>

----------------------------------------------------------------------------
\* ON DELETE CASCADE: a text goes with its market.
Cascade == {r \in metadata : \E m \in markets' : m.market = r.market}

IndexStep == Next /\ metadata' = Cascade /\ UNCHANGED insert

Insert ==
  \/ StartInsert \/ ReadIndexedMarket \/ ReadExisting \/ Upsert \/ ReadRow
  \/ ReadMarketBack

Operator ==
  \/ \E s, t \in Text : OperatorRecords(s, t)
  \/ OperatorRemoves

MetadataNext == IndexStep \/ Insert \/ InsertStops \/ Operator

MetadataSpec == MetadataInit /\ [][MetadataNext]_metadataVars
=============================================================================
