------------------------------- MODULE ReadApi -------------------------------
(***************************************************************************)
(* The REST API over the index (main.rs, api.rs, read_repository.rs).  It  *)
(* keeps no state between requests: an answer is a function of the tables  *)
(* at the moment of its query.  Numbers are answered as decimal strings    *)
(* and bytes as hex, one for one, which is left out; the texts of markets  *)
(* are in Metadata.                                                        *)
(***************************************************************************)
EXTENDS Configuration, SequencesExt

CONSTANTS
  DefaultLimit, MaxLimit,   \* DEFAULT_LIMIT, MAX_LIMIT
  ApiEnvironments,          \* the environments the API may be started in
  Limits                    \* the ?limit= that a client may ask for

ASSUME LimitAssumption ==
  /\ MaxLimit \in Nat /\ DefaultLimit \in 1 .. MaxLimit
  /\ \A l \in Limits : l = <<>> \/ (Len(l) = 1 /\ Head(l) \in Nat)

VARIABLES
  markets, states, positions,   \* the tables of IndexStore
  serving,                      \* did the API start
  walk                          \* a client that pages through the list

tables == <<markets, states, positions>>
apiVars == <<serving, walk>>

----------------------------------------------------------------------------
\* Answers

\* COALESCE over the left join of market_states.
PoolOf(m, side) ==
  LET row == {s \in states : s.market = m}
  IN  IF row = {} THEN 0 ELSE (CHOOSE s \in row : TRUE)[side]

MarketResponse(row) ==
  [market_id |-> row.market, terms |-> row.terms,
   creation_block_number |-> row.number,
   yes_pool |-> PoolOf(row.market, "yes"), no_pool |-> PoolOf(row.market, "no"),
   total_pool |-> PoolOf(row.market, "yes") + PoolOf(row.market, "no")]

PositionResponse(row) ==
  [user_address |-> row.user, yes_stake |-> row.yes, no_stake |-> row.no,
   total_stake |-> row.yes + row.no, updated_block_number |-> row.at]

\* Pagination: an absent value is <<>>.
GivenOr(v, default) == IF v = <<>> THEN default ELSE Head(v)
Lower(m, n) == IF m <= n THEN m ELSE n
Higher(m, n) == IF m >= n THEN m ELSE n

\* Mutant: a limit of 0 stays 0.
NormalizedFromZero(limit, offset) ==
  [limit |-> Lower(GivenOr(limit, DefaultLimit), MaxLimit),
   offset |-> Lower(GivenOr(offset, 0), MaxBigint)]

Normalized(limit, offset) ==
  [limit |-> Lower(Higher(GivenOr(limit, DefaultLimit), 1), MaxLimit),
   offset |-> Lower(GivenOr(offset, 0), MaxBigint)]

NewestFirst ==
  CHOOSE s \in SetToSeqs(markets) : \A i, j \in DOMAIN s : i < j => s[i].market >= s[j].market

\* GET /api/markets
ListMarkets(limit, offset) ==
  LET page == Normalized(limit, offset)
      rows == SubSeq(NewestFirst, page.offset + 1,
                     Lower(page.offset + page.limit, Len(NewestFirst)))
  IN  [i \in DOMAIN rows |-> MarketResponse(rows[i])]

\* GET /api/markets/{market_id}, where <<>> is 404.
GetMarket(m) ==
  LET row == {r \in markets : r.market = m}
  IN  IF row = {} THEN <<>> ELSE <<MarketResponse(CHOOSE r \in row : TRUE)>>

\* GET /api/markets/{market_id}/positions of a market that is there.
GetPositions(m) == {PositionResponse(r) : r \in {q \in positions : q.market = m}}

----------------------------------------------------------------------------
\* A client that asks for page after page until one is empty, advancing by
\* what it was given.  `missing' is what it has yet to meet of the markets that
\* were listed when it began, as long as none is removed meanwhile.

Listed == {r.market : r \in markets}

NoWalk == [at |-> "end", offset |-> 0, missing |-> {}]

StartWalk ==
  /\ serving /\ walk.at = "end" /\ Listed # {}
  /\ walk' = [at |-> "page", offset |-> 0, missing |-> Listed]
  /\ UNCHANGED <<tables, serving>>

FetchPage ==
  /\ walk.at = "page"
  /\ \E l \in Limits :
       LET page == ListMarkets(l, <<walk.offset>>)
           met == {r.market_id : r \in ToSet(page)}
       IN  walk' = IF page = <<>> THEN [walk EXCEPT !.at = "end", !.offset = 0]
                   ELSE [walk EXCEPT !.offset = @ + Len(page), !.missing = @ \ met]
  /\ UNCHANGED <<tables, serving>>

\* What the index does to a walk.
WalkAfter ==
  [walk EXCEPT !.missing = IF Listed \subseteq Listed' THEN @ ELSE {}]

\* The process serves when it was started with an environment that is accepted;
\* otherwise it is gone before it binds its address.
ApiInit ==
  /\ \E e \in ApiEnvironments : serving = (ApiErrors(e) = {})
  /\ walk = NoWalk

ApiNext == StartWalk \/ FetchPage
=============================================================================
