------------------------------ MODULE MCChain ------------------------------
(***************************************************************************)
(* A small block tree for TLC.  A block is the sequence of the bodies of   *)
(* its history, genesis being the empty one, so that a block fixes its     *)
(* ancestry as a hash does; a body is a sequence of transactions.  The     *)
(* same transaction may be in several branches, at another height and with *)
(* another log index; what its log reports is computed from the history of *)
(* the block it is in.                                                     *)
(***************************************************************************)
EXTENDS Sequences, SequencesExt, Integers, FiniteSets, FiniteSetsExt

CONSTANT Tips     \* the branches: a set of sequences of bodies

Blocks == UNION {{SubSeq(t, 1, n) : n \in 0 .. Len(t)} : t \in Tips}
NumberOf(b) == Len(b)
Ancestor(b, n) == SubSeq(b, 1, n)

\* keccak256 of a text.
Keccak(text) == <<"keccak256", text>>

\* The transactions: a market is created, for a text or for another; two users
\* take positions.
Transaction ==
  [create |-> [kind |-> "created", digest |-> Keccak("text")],
   recreate |-> [kind |-> "created", digest |-> Keccak("other text")],
   yes    |-> [kind |-> "position", user |-> "alice", outcome |-> "yes", amount |-> 2],
   no     |-> [kind |-> "position", user |-> "alice", outcome |-> "no", amount |-> 1],
   more   |-> [kind |-> "position", user |-> "alice", outcome |-> "yes", amount |-> 3],
   other  |-> [kind |-> "position", user |-> "bob", outcome |-> "no", amount |-> 4]]

\* The sum staked on an outcome by the users of a set along a history.
Staked(history, users, outcome) ==
  LET at == {i \in DOMAIN history :
               LET t == Transaction[history[i]]
               IN  t.kind = "position" /\ t.user \in users /\ t.outcome = outcome}
  IN  MapThenSumSet(LAMBDA i : Transaction[history[i]].amount, at)

\* The log that transaction i of the block's body emits.
LogAt(b, i) ==
  LET tx == Last(b)[i]
      t == Transaction[tx]
      history == FlattenSeq(SubSeq(b, 1, Len(b) - 1)) \o SubSeq(Last(b), 1, i)
  IN  IF t.kind = "created"
      THEN [kind |-> "created", tx |-> tx, ix |-> i, market |-> "m1",
            terms |-> [digest |-> t.digest]]
      ELSE [kind |-> "position", tx |-> tx, ix |-> i, market |-> "m1",
            user |-> t.user, outcome |-> t.outcome,
            yesPool |-> Staked(history, {"alice", "bob"}, "yes"),
            noPool |-> Staked(history, {"alice", "bob"}, "no"),
            stake |-> Staked(history, {t.user}, t.outcome)]

Logs ==
  [b \in Blocks |-> IF b = <<>> THEN {} ELSE {LogAt(b, i) : i \in DOMAIN Last(b)}]

LogsIn(b) == Logs[b]
=============================================================================
