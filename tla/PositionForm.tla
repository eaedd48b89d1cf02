---------------------------- MODULE PositionForm ----------------------------
(***************************************************************************)
(* The position form of the browser application for one market (App.tsx,   *)
(* web3/transaction.ts, web3/contract.ts), with the read API it polls      *)
(* (api.rs, read_repository.rs).  Every awaited call of takePosition is a  *)
(* step, and between two of them the wallet, the chain, the index and      *)
(* other users move.                                                       *)
(*                                                                         *)
(* A stake is one successful or pending takePosition transaction.  The     *)
(* chain and the index are sequences of stakes: the contract's storage     *)
(* and the projections are sums over them.                                 *)
(***************************************************************************)
EXTENDS Integers, FiniteSets, Sequences, SequencesExt

CONSTANTS
  Account,        \* the wallet's accounts and other people's
  OwnAccounts,    \* those of the wallet
  Others,         \* accounts that also stake by other means than the form
  Amounts,        \* the wei of a stake
  MaxStakes,      \* bound on the transactions sent
  Attempts        \* INDEXER_POLL_ATTEMPTS

ASSUME FormAssumption ==
  /\ OwnAccounts \subseteq Account /\ Others \subseteq Account
  /\ Amounts \subseteq Nat \ {0} /\ MaxStakes \in Nat /\ Attempts \in Nat \ {0}

Outcome == {"Yes", "No"}
Stake == [id : 1 .. MaxStakes, by : Account, outcome : Outcome, amount : Amounts]

VARIABLES
  chain,      \* the stakes of the canonical chain, in order
  mempool,    \* the stakes that are sent and not mined
  nextId,     \* the number of the next transaction
  index,      \* the stakes that the projections show
  detail,     \* detailState
  page,       \* the market and the positions loaded: a version of each
  read,       \* the answers so far of a Promise.all of both
  stage,      \* transaction.stage
  tx          \* the local variables of takePosition

worldVars == <<chain, mempool, nextId, index>>
pageVars == <<detail, page, read, stage, tx>>
vars == <<worldVars, pageVars>>

Active == {"awaiting_wallet", "submitted", "confirming", "confirmed",
           "waiting_indexer"}

NoRead == [market |-> {}, positions |-> {}]
NoTx == [id |-> 0]
EmptyPage == [market |-> <<>>, positions |-> <<>>]

\* A final stage: of the invocation only the hash stays.
Finish(last) == stage' = last /\ tx' = [id |-> tx.id]

Init ==
  /\ chain = <<>> /\ mempool = {} /\ nextId = 1 /\ index = <<>>
  /\ detail = "loading" /\ page = EmptyPage /\ read = NoRead
  /\ stage = "idle" /\ tx = NoTx

----------------------------------------------------------------------------
\* What the API answers from a version of the projections.

AmountOf(stakes) == SumFunction([s \in stakes |-> s.amount])

\* market: yes_pool or no_pool.
PoolIn(log, outcome) ==
  AmountOf({s \in ToSet(log) : s.outcome = outcome})

\* positions: yes_stake or no_stake of an account; 0 without a row, as the
\* form reads it.
StakeIn(log, account, outcome) ==
  AmountOf({s \in ToSet(log) : s.by = account /\ s.outcome = outcome})

\* projectionBaseline
Baseline(account, outcome) ==
  [pool |-> PoolIn(page.market, outcome),
   stake |-> StakeIn(page.positions, account, outcome)]

\* Mutants: a grown pool is enough; it must have grown by more.
IncludesPoolOnly(market, positions) ==
  PoolIn(market, tx.outcome) >= tx.base.pool + tx.amount
IncludesMore(market, positions) ==
  /\ PoolIn(market, tx.outcome) > tx.base.pool + tx.amount
  /\ StakeIn(positions, tx.account, tx.outcome) >= tx.base.stake + tx.amount

\* projectionIncludesPosition
IncludesPosition(market, positions) ==
  /\ PoolIn(market, tx.outcome) >= tx.base.pool + tx.amount
  /\ StakeIn(positions, tx.account, tx.outcome) >= tx.base.stake + tx.amount

----------------------------------------------------------------------------
\* takePosition

\* The baseline is what the page shows, for wallet.account of this moment.
Submit(account, outcome, amount) ==
  /\ detail = "ready"
  /\ stage \notin Active
  /\ stage' = "awaiting_wallet"
  /\ tx' = [id |-> 0, account |-> account, outcome |-> outcome, amount |-> amount,
            base |-> Baseline(account, outcome), attempt |-> 0]
  /\ UNCHANGED <<worldVars, detail, page, read>>

\* An amount that does not parse, or a wallet that is not ready.
SubmitRefused ==
  /\ detail = "ready"
  /\ stage \notin Active
  /\ stage' = "failed" /\ tx' = NoTx
  /\ UNCHANGED <<worldVars, detail, page, read>>

\* submitPosition: the signer is the account the wallet has selected by then.
Broadcast(signer) ==
  /\ stage = "awaiting_wallet" /\ tx.id = 0
  /\ nextId <= MaxStakes
  /\ mempool' = mempool \cup {[id |-> nextId, by |-> signer,
                               outcome |-> tx.outcome, amount |-> tx.amount]}
  /\ tx' = [tx EXCEPT !.id = nextId]
  /\ nextId' = nextId + 1
  /\ UNCHANGED <<chain, index, detail, page, read, stage>>

HashReturned ==
  /\ stage = "awaiting_wallet" /\ tx.id # 0
  /\ stage' = "submitted"
  /\ UNCHANGED <<worldVars, detail, page, read, tx>>

\* delay(0)
Rendered ==
  /\ \/ stage = "submitted" /\ stage' = "confirming"
     \/ stage = "confirmed" /\ stage' = "waiting_indexer"
  /\ UNCHANGED <<worldVars, detail, page, read, tx>>

Ids(log) == {s.id : s \in ToSet(log)}

\* response.wait() with status 1.
Receipt ==
  /\ stage = "confirming" /\ tx.id \in Ids(chain)
  /\ stage' = "confirmed"
  /\ UNCHANGED <<worldVars, detail, page, read, tx>>

\* The catch of takePosition: the user refuses, the network is the wrong one,
\* the transaction reverts or is replaced, or the wallet's RPC fails, also
\* after the transaction was sent.
TransactionFails ==
  /\ stage \in {"awaiting_wallet", "confirming"}
  /\ Finish("failed")
  /\ UNCHANGED <<worldVars, detail, page, read>>

----------------------------------------------------------------------------
\* The two reads of Promise.all([getMarket, getPositions])

Reading ==
  \/ detail = "loading"
  \/ stage = "waiting_indexer" /\ tx.attempt < Attempts

ReadMarket ==
  /\ Reading /\ read.market = {}
  /\ read' = [read EXCEPT !.market = {index}]
  /\ UNCHANGED <<worldVars, detail, page, stage, tx>>

ReadPositions ==
  /\ Reading /\ read.positions = {}
  /\ read' = [read EXCEPT !.positions = {index}]
  /\ UNCHANGED <<worldVars, detail, page, stage, tx>>

\* The detail effect of App: both answers, or an error.
DetailLoaded ==
  /\ detail = "loading"
  /\ \E m \in read.market, p \in read.positions :
       page' = [market |-> m, positions |-> p]
  /\ detail' = "ready" /\ read' = NoRead
  /\ UNCHANGED <<worldVars, stage, tx>>

DetailFailed ==
  /\ detail = "loading"
  /\ detail' = "error" /\ read' = NoRead
  /\ UNCHANGED <<worldVars, page, stage, tx>>

\* waitForIndexedProjection: an iteration that sees the position.
PollSees ==
  /\ stage = "waiting_indexer"
  /\ \E m \in read.market, p \in read.positions :
       /\ IncludesPosition(m, p)
       /\ page' = [market |-> m, positions |-> p]
  /\ Finish("indexed") /\ read' = NoRead
  /\ UNCHANGED <<worldVars, detail>>

\* Mutant: an iteration that does not see it is not counted.
NextAttemptUncounted == tx' = tx

NextAttempt == tx' = [tx EXCEPT !.attempt = @ + 1]

PollMisses ==
  /\ stage = "waiting_indexer"
  /\ \E m \in read.market, p \in read.positions : ~ IncludesPosition(m, p)
  /\ NextAttempt /\ read' = NoRead
  /\ UNCHANGED <<worldVars, detail, page, stage>>

\* A read failure is an iteration like another.
PollFails ==
  /\ stage = "waiting_indexer" /\ tx.attempt < Attempts
  /\ NextAttempt /\ read' = NoRead
  /\ UNCHANGED <<worldVars, detail, page, stage>>

PollGivesUp ==
  /\ stage = "waiting_indexer" /\ tx.attempt = Attempts
  /\ Finish("indexing_delayed")
  /\ UNCHANGED <<worldVars, detail, page, read>>

----------------------------------------------------------------------------
\* The user

\* A click in the list of markets: on this market, which only clears the
\* transaction; on another and back, or on Retry, which loads it again.  The
\* list is disabled while a transaction is active.
Select ==
  /\ stage \notin Active
  /\ stage' = "idle" /\ tx' = NoTx
  /\ \/ UNCHANGED <<detail, page, read>>
     \/ detail' = "loading" /\ page' = EmptyPage /\ read' = NoRead
  /\ UNCHANGED worldVars

\* The tab is loaded again: what ran in it is forgotten, what it sent is not.
ReloadTab ==
  /\ stage' = "idle" /\ tx' = NoTx
  /\ detail' = "loading" /\ page' = EmptyPage /\ read' = NoRead
  /\ UNCHANGED worldVars

----------------------------------------------------------------------------
\* The chain and the index

OtherStake(a, outcome, amount) ==
  /\ nextId <= MaxStakes
  /\ mempool' = mempool \cup {[id |-> nextId, by |-> a, outcome |-> outcome,
                               amount |-> amount]}
  /\ nextId' = nextId + 1
  /\ UNCHANGED <<chain, index, pageVars>>

\* A transaction is mined, or reverts.
MineStake ==
  /\ \E s \in mempool :
       /\ mempool' = mempool \ {s}
       /\ chain' \in {chain, Append(chain, s)}
  /\ UNCHANGED <<nextId, index, pageVars>>

\* The last blocks are replaced; their transactions wait again.
ReorgChain ==
  /\ \E n \in 0 .. Len(chain) - 1 :
       /\ chain' = SubSeq(chain, 1, n)
       /\ mempool' = mempool \cup ToSet(SubSeq(chain, n + 1, Len(chain)))
  /\ UNCHANGED <<nextId, index, pageVars>>

\* The indexer commits a block of the chain, or rolls back.
IndexBlock ==
  /\ IF IsPrefix(index, chain)
     THEN \E n \in Len(index) + 1 .. Len(chain) : index' = SubSeq(chain, 1, n)
     ELSE index' = LongestCommonPrefix({index, chain})
  /\ UNCHANGED <<chain, mempool, nextId, pageVars>>

----------------------------------------------------------------------------
Transaction ==
  \/ \E a \in OwnAccounts, o \in Outcome, v \in Amounts : Submit(a, o, v)
  \/ SubmitRefused
  \/ \E a \in OwnAccounts : Broadcast(a)
  \/ HashReturned \/ Rendered \/ Receipt \/ TransactionFails
  \/ ReadMarket \/ ReadPositions \/ DetailLoaded \/ DetailFailed
  \/ PollSees \/ PollMisses \/ PollFails \/ PollGivesUp

User == Select \/ ReloadTab

World ==
  \/ \E a \in Others, o \in Outcome, v \in Amounts : OtherStake(a, o, v)
  \/ MineStake \/ ReorgChain \/ IndexBlock

Next == Transaction \/ User \/ World

Spec == Init /\ [][Next]_vars
=============================================================================
