----------------------------- MODULE MCMetadata -----------------------------
(***************************************************************************)
(* A block tree whose branches create the market at different heights, with *)
(* the digest of one text or of another, or not at all.                    *)
(***************************************************************************)
EXTENDS MetadataProperties, MCChain

CONSTANTS p1

TextTips ==
  LET first == << <<>> >>
  IN  { first \o << <<"create">>, <<>>, <<>> >>,
        first \o << <<>>, <<"create">>, <<>> >>,
        first \o << <<"recreate">>, <<>>, <<>> >>,
        first \o << <<"create">>, <<"yes">>, <<>> >> }

NoLegacy == {}
=============================================================================
