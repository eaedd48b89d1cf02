------------------------- MODULE MetadataProperties -------------------------
(***************************************************************************)
(* The texts that the index carries.                                       *)
(***************************************************************************)
EXTENDS Metadata

\* A text that the API calls verified is one the chain commits to: on the
\* branch the index follows, the market was created with its digest.  A market
\* that another branch creates again never appears with the old text as
\* verified, whoever writes rows.
VerifiedIsCommitted ==
  \A m \in markets : Verified(m) =>
    \A r \in Shown(m) :
      \E n \in DeploymentBlock .. Number(checkpoint) :
        \E l \in LogsOf(AncestorAt(checkpoint, n)) :
          /\ l.kind = "created" /\ l.market = m.market
          /\ l.terms.digest = Digest(r.text)

\* A verified text of a market that stays is lost only if an operator removes
\* it, or to a command that read its digest from another market row: the
\* upsert overwrites a row recorded after its check, but with the same text.
VerifiedStays ==
  [][\A m \in markets \cap markets' :
       Verified(m) /\ ~ Verified(m)' =>
         OperatorRemoves \/ (Upsert /\ m \notin insert.market)]_metadataVars

\* A text outlives every rollback that its market's creation survives: short
\* of a full reindex, the index deletes only texts of markets whose creation
\* is not on the canonical chain (reorganizations spare the reads of a run).
TextOutlivesReorgs ==
  [][IndexStep /\ (\A p \in Indexers : ~ StartupReindex(p)) =>
       \A r \in metadata \ metadata' :
         \E m \in markets :
           /\ m.market = r.market
           /\ ~ (/\ HasCanonical(m.number)
                 /\ AncestorAt(checkpoint, m.number) = Canonical(m.number))]_metadataVars

----------------------------------------------------------------------------
\* The command's statements answer, and it is run again when it has ended.
InsertSpec == MetadataSpec /\ WF_metadataVars(Insert)

Undisturbed == ~ InsertStops /\ ~ Operator

\* The market is indexed with the digest of the text, and no other text is in
\* the way.
Recordable ==
  \E m \in IndexedMarket : m.terms.digest = Digest(NewText) /\ Shown(m) \subseteq {NewRow}

\* Running the command again repairs what a rollback or a reindex took.
RerunRestores ==
  <>[][Undisturbed]_metadataVars /\ <>[]Recordable
    => <>[](\E m \in IndexedMarket : Verified(m))
=============================================================================
