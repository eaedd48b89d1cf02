--------------------------- MODULE MCPositionForm ---------------------------
(***************************************************************************)
(* Accounts for TLC.                                                       *)
(***************************************************************************)
EXTENDS PositionFormProperties, TLC

CONSTANTS alice, bob
=============================================================================
