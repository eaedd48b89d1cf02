--------------------------- MODULE CanonicalIndex ---------------------------
(***************************************************************************)
(* What the index of a contract is for a reader, whatever the indexer does *)
(* to keep it: the log archive of one branch of the chain, from the        *)
(* deployment block to a tip, that grows by a child block, is cut back to  *)
(* an ancestor, or is emptied to be built again.                           *)
(***************************************************************************)
EXTENDS Integers

CONSTANTS Block, NoBlock, Number(_), AncestorAt(_, _), LogsOf(_), DeploymentBlock

VARIABLES
  tip,       \* the last block indexed, or NoBlock
  archive    \* the logs archived so far: [block, log]

Rows(b, S) == {[block |-> b, log |-> l] : l \in S}

Follows(b) ==
  IF tip = NoBlock THEN Number(b) = DeploymentBlock
                   ELSE Number(b) = Number(tip) + 1 /\ AncestorAt(b, Number(tip)) = tip

\* One more block, with the given logs of it.
Append(b, S) ==
  /\ Follows(b)
  /\ tip' = b
  /\ archive' = archive \cup Rows(b, S)

\* Back to an ancestor of the tip.
Rewind(a) ==
  /\ tip # NoBlock
  /\ Number(a) \in DeploymentBlock .. Number(tip) /\ AncestorAt(tip, Number(a)) = a
  /\ tip' = a
  /\ archive' = {e \in archive : Number(e.block) <= Number(a)}

Clear == tip' = NoBlock /\ archive' = {}

\* The archive holds logs of the branch, perhaps not all of them.
SoundInit ==
  \/ tip = NoBlock /\ archive = {}
  \/ /\ tip \in Block /\ Number(tip) >= DeploymentBlock
     /\ archive \subseteq UNION {Rows(b, LogsOf(b)) :
          b \in {AncestorAt(tip, n) : n \in DeploymentBlock .. Number(tip)}}
SoundNext == Clear \/ \E b \in Block : Rewind(b) \/ \E S \in SUBSET LogsOf(b) : Append(b, S)
SoundSpec == SoundInit /\ [][SoundNext]_<<tip, archive>>

\* The archive holds all the logs of the branch.
ExactNext == Clear \/ \E b \in Block : Rewind(b) \/ Append(b, LogsOf(b))
ExactSpec == archive = {} /\ tip = NoBlock /\ [][ExactNext]_<<tip, archive>>
=============================================================================
