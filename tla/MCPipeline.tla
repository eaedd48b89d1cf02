----------------------------- MODULE MCPipeline -----------------------------
(***************************************************************************)
(* Accounts and environments for TLC.                                      *)
(***************************************************************************)
EXTENDS PipelineProperties, TLC

CONSTANTS alice, bob

Complete ==
  [database_url |-> <<"postgres">>, chain_id |-> <<1>>, contract_address |-> <<"contract">>,
   bind_address |-> <<>>, cors_origin |-> <<>>]

Settings ==
  {Complete, [Complete EXCEPT !.bind_address = <<"">>],
   [Complete EXCEPT !.cors_origin = <<"ftp">>]}

AskedLimits == {<<0>>, <<3>>}
=============================================================================
