---------------------------- MODULE MCWatchLoop ----------------------------
(***************************************************************************)
(* A command started in every mode, with refused arguments and             *)
(* environments, on a chain that reorganizes between its runs.             *)
(***************************************************************************)
EXTENDS WatchLoopProperties, MCChain

CONSTANT p1

LoopTips ==
  LET first == << <<>> >>
  IN  { first \o << <<"create", "yes">>, <<"no">>, <<"more">>, <<>> >>,
        first \o << <<"create", "yes">>, <<>>, <<"other">> >>,
        first \o << <<>>, <<"create">>, <<"yes", "no">>, <<"more">> >> }

NoLegacy == {}
OnlyP1 == {p1}

Flags(reindex, watch, intervals, other) ==
  [full_reindex |-> reindex, watch |-> watch, intervals |-> intervals, other |-> other]

\* Accepted: one-shot, watching, watching after a reindex with an interval of
\* its own.  Refused: a flag given twice, an interval that is no positive
\* number, one without --watch, an unknown argument.
Lines ==
  {Flags(0, 0, <<>>, FALSE), Flags(0, 1, <<>>, FALSE), Flags(1, 1, <<500>>, FALSE),
   Flags(2, 1, <<>>, FALSE), Flags(1, 1, <<0>>, FALSE), Flags(1, 0, <<500>>, FALSE),
   Flags(1, 0, <<>>, TRUE)}

Complete ==
  [database_url |-> <<"postgres">>, rpc_url |-> <<"http">>, chain_id |-> <<1>>,
   contract_address |-> <<"contract">>, deployment_block |-> <<1>>,
   confirmations |-> <<1>>, batch_size |-> <<2>>]

\* One environment for each way to be refused.
Settings ==
  {Complete,
   [Complete EXCEPT !.database_url = <<"mysql">>],
   [Complete EXCEPT !.rpc_url = <<"">>],
   [Complete EXCEPT !.chain_id = <<0>>],
   [Complete EXCEPT !.contract_address = <<"zero">>],
   [Complete EXCEPT !.contract_address = <<"">>],
   [Complete EXCEPT !.deployment_block = <<8>>],
   [Complete EXCEPT !.confirmations = <<-1>>],
   [Complete EXCEPT !.batch_size = <<>>]}
=============================================================================
