------------------------- MODULE MCPredictionMarket -------------------------
(***************************************************************************)
(* Accounts for TLC.                                                       *)
(***************************************************************************)
EXTENDS PredictionMarketProperties, TLC

CONSTANTS alice, bob, carol
=============================================================================
