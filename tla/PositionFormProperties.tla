----------------------- MODULE PositionFormProperties -----------------------
(***************************************************************************)
(* What the position form promises (architecture.md, "Frontend transaction *)
(* completion").                                                           *)
(***************************************************************************)
EXTENDS PositionForm

\* The stakes on the chain, waiting, or in the answers read that are of the
\* account and outcome of the transaction, but for the transaction itself.
OtherOwnStakes ==
  {s \in ToSet(chain) \cup mempool \cup UNION {ToSet(p) : p \in read.positions} :
     s.by = tx.account /\ s.outcome = tx.outcome /\ s.id # tx.id}

\* "Indexed" is never said of a position that is not in the positions read,
\* when the page the transaction was sent from showed all the other stakes of
\* the account: whoever else stakes, whichever account signs, whatever is
\* reorganized, and although pools and positions are read apart.
IndexedIsShown ==
  [][stage' = "indexed" /\ stage # "indexed" /\ OtherOwnStakes \subseteq ToSet(page.positions)
       => tx.id \in Ids(page'.positions)]_vars

\* A position that both reads show, signed by the account of the baseline, is
\* not missed, when nothing the page showed was reorganized meanwhile.
ShownIsIndexed ==
  [][PollMisses =>
       \A m \in read.market, p \in read.positions :
         ~ /\ IsPrefix(page.market, m) /\ IsPrefix(page.positions, p)
           /\ tx.id \in Ids(m)
           /\ \E s \in ToSet(p) : s.id = tx.id /\ s.by = tx.account]_vars

\* The page says "indexed" only when what it shows has the transaction.  The
\* README promises it; the form checks amounts, which an older transaction of
\* the account can provide.
IndexedIsObserved ==
  stage = "indexed" => tx.id \in Ids(page.market) /\ tx.id \in Ids(page.positions)

----------------------------------------------------------------------------
\* A read answers or fails, a timer fires.
Fairness ==
  /\ WF_vars(ReadMarket) /\ WF_vars(ReadPositions)
  /\ WF_vars(PollSees \/ PollMisses \/ PollGivesUp)

FairSpec == Spec /\ Fairness

\* Waiting for the index ends, whatever the index and the API do.
PollEnds == stage = "waiting_indexer" ~> stage # "waiting_indexer"
=============================================================================
