------------------------------- MODULE Chain -------------------------------
(***************************************************************************)
(* The EVM chain and its JSON-RPC endpoint, as the indexer sees them       *)
(* through the ChainSource trait (chain.rs).  The chain is not part of the *)
(* repository: it is modelled from what the indexer reads.                 *)
(*                                                                         *)
(* A block is its hash.  The hash commits to the parent, so a block fixes  *)
(* its whole ancestry: AncestorAt(b, n) is the ancestor of b with number   *)
(* n.  `head' is the tip the endpoint currently reports; the canonical     *)
(* block with number n is AncestorAt(head, n).                             *)
(***************************************************************************)
EXTENDS Integers, FiniteSets

CONSTANTS
  Block,              \* every block any branch can hold (identified by hash)
  NoBlock,            \* Option::None where a block is expected
  Number(_),          \* ChainBlock.number
  AncestorAt(_, _),   \* the block numbered n in the history of b
  LogsOf(_),          \* the Foresyn logs of a block that the filters select
  MaxReorgDepth,      \* how many blocks one reorganization can replace
  MaxShrink,          \* by how much a reorganization can lower the head
  MaxLag              \* by how much the endpoint can fall behind its own answers

\* Every block has an ancestor at each lower height, itself at its own, and an
\* ancestor's history is its descendant's: what hash links guarantee.
ASSUME AncestryAssumption ==
  /\ \A b \in Block : Number(b) \in Nat
  /\ \A b \in Block : AncestorAt(b, Number(b)) = b
  /\ \A b \in Block : \A n \in 0 .. Number(b) :
       AncestorAt(b, n) \in Block /\ Number(AncestorAt(b, n)) = n
  /\ \A b \in Block : \A m \in 0 .. Number(b) : \A n \in 0 .. m :
       AncestorAt(AncestorAt(b, m), n) = AncestorAt(b, n)

\* A block has finitely many logs, told apart by their index in the block.  On
\* one branch a transaction is in one block, and a market is created once: the
\* nonces of the chain and the market counter of the contract.
ASSUME LogAssumption ==
  /\ \A b \in Block : IsFiniteSet(LogsOf(b))
  /\ \A b \in Block : \A l \in LogsOf(b) :
       l.ix \in Nat /\ l.kind \in {"created", "position"}
  /\ \A b \in Block : \A k, l \in LogsOf(b) : k.ix = l.ix => k = l
  /\ \A b \in Block : \A n \in 0 .. Number(b) :
       \A k \in LogsOf(AncestorAt(b, n)), l \in LogsOf(b) :
         /\ k.tx = l.tx => n = Number(b)
         /\ k.kind = "created" /\ l.kind = "created" /\ k.market = l.market =>
              n = Number(b) /\ k = l

ASSUME NoBlockAssumption == NoBlock \notin Block

ASSUME DepthAssumption ==
  MaxReorgDepth \in Nat /\ MaxShrink \in Nat /\ MaxLag \in Nat

VARIABLE head

\* ChainBlock.parent_hash, for a block above height 0.
IsParent(a, b) == Number(b) > 0 /\ a = AncestorAt(b, Number(b) - 1)

IsAncestor(a, b) == Number(a) <= Number(b) /\ a = AncestorAt(b, Number(a))

\* eth_getBlockByNumber: RpcError::BlockNotFound above the head.
HasCanonical(n) == n <= Number(head)
Canonical(n) == AncestorAt(head, n)

\* eth_getLogs over a block range, one event signature at a time.  Each log
\* names the block the node took it from (ChainLog.block_hash).
CanonicalLogs(from, to, kind) ==
  UNION {{[block |-> Canonical(n), log |-> l] :
            l \in {k \in LogsOf(Canonical(n)) : k.kind = kind}} :
         n \in {m \in from .. to : HasCanonical(m)}}

----------------------------------------------------------------------------
\* A block is mined on the head.
Extend ==
  \E b \in Block :
    /\ IsParent(head, b)
    /\ head' = b

\* What a reorganization leaves: the blocks buried MaxReorgDepth deep.
KeepsBuried(b) ==
  LET n == Number(head) - MaxReorgDepth
  IN  n >= 0 => n <= Number(b) /\ AncestorAt(b, n) = AncestorAt(head, n)

\* The endpoint switches to another branch.
Reorganize ==
  \E b \in Block :
    /\ ~ IsAncestor(head, b) /\ ~ IsAncestor(b, head)
    /\ Number(b) >= Number(head) - MaxShrink
    /\ KeepsBuried(b)
    /\ head' = b

\* A node behind the same endpoint answers that has not seen the last blocks.
FallBehind ==
  \E n \in 0 .. Number(head) - 1 :
    /\ n >= Number(head) - MaxLag
    /\ head' = Canonical(n)
=============================================================================
