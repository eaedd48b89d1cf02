----------------------------- MODULE MCIndexer -----------------------------
(***************************************************************************)
(* Block trees and parameters for TLC.  Deployment is at height 1.         *)
(***************************************************************************)
EXTENDS IndexerProperties, MCChain

CONSTANTS p1, p2

\* Forks at every height, also below the deployment block; the transactions
\* move to other heights and log indexes.
AnyTips ==
  { << <<"create">>, <<"yes">>, <<"no">>, <<>> >>,
    << <<"create">>, <<>>, <<"yes", "more">>, <<>> >>,
    << <<"create">>, <<"yes">>, <<>>, <<"no", "other">> >>,
    << <<>>, <<"create", "other">>, <<"yes">>, <<>> >>,
    << <<>>, <<>>, <<"create", "yes">> >> }

\* The branches share the deployment block.
SharedTips ==
  LET first == << <<>> >>
  IN  { first \o << <<"create", "yes">>, <<"no">>, <<"more">>, <<>>, <<"other">> >>,
        first \o << <<"create", "yes">>, <<"no">>, <<>>, <<"other">>, <<"more">> >>,
        first \o << <<"create", "yes">>, <<>>, <<"other", "no">>, <<>> >>,
        first \o << <<>>, <<"create">>, <<"yes", "no">>, <<"more">>, <<>> >>,
        first \o << <<"create", "other">>, <<"more">>, <<>>, <<"yes">>, <<>> >> }

\* A longer trunk with forks two blocks deep along it.
Trunk == << <<>>, <<"create", "yes">>, <<"no">>, <<"more">>, <<>>, <<"other">> >>
FinalTips ==
  { Trunk,
    SubSeq(Trunk, 1, 1) \o << <<"create">>, <<"yes", "no">>, <<>>, <<"more">> >>,
    SubSeq(Trunk, 1, 2) \o << <<>>, <<"more", "no">>, <<>> >>,
    SubSeq(Trunk, 1, 3) \o << <<"other">>, <<"more">>, <<>> >>,
    SubSeq(Trunk, 1, 4) \o << <<"other">>, <<>> >> }

NoLegacy == {}
LegacyFinal == {SubSeq(Trunk, 1, 2)}
LegacyAt2 == {<< <<"create">>, <<"yes">> >>}
=============================================================================
