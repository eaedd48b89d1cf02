--------------------------- MODULE StoreTheorems ----------------------------
(***************************************************************************)
(* Lemmas about the projections of the store, whatever the chain.          *)
(*                                                                         *)
(* ApplyInOrder folds the events of a set in EVM order.  Says(t, E) is     *)
(* what the tables t say of the archive E, and With, Ordered, Applicable   *)
(* name the sets and orders that the induction over the fold goes through. *)
(***************************************************************************)
EXTENDS IndexStore, SumTheorems

----------------------------------------------------------------------------
\* What a set of archived logs says of the tables

PositionsIn(E) == {e \in E : e.log.kind = "position"}
OfMarket(E, m) == {e \in PositionsIn(E) : e.log.market = m}
OfUser(E, k) == {e \in PositionsIn(E) : <<e.log.market, e.log.user>> = k}
OfSide(E, k, o) == {e \in OfUser(E, k) : e.log.outcome = o}

\* The rows of a market and of a user in it.
StakeIn(E, k, o) ==
  IF OfSide(E, k, o) = {} THEN 0 ELSE LatestOf(OfSide(E, k, o)).log.stake
StateIn(E, m) ==
  [market |-> m, yes |-> LatestOf(OfMarket(E, m)).log.yesPool,
   no |-> LatestOf(OfMarket(E, m)).log.noPool,
   at |-> Number(LatestOf(OfMarket(E, m)).block)]
UserIn(E, k) == [market |-> k[1], user |-> k[2],
                 yes |-> StakeIn(E, k, "yes"), no |-> StakeIn(E, k, "no"),
                 at |-> Number(LatestOf(OfUser(E, k)).block)]

MarketsSaid(E) == {MarketRow(e) : e \in E \ PositionsIn(E)}
StatesSaid(E) == {StateIn(E, m) : m \in {e.log.market : e \in PositionsIn(E)}}
UsersSaid(E) ==
  {UserIn(E, k) : k \in {<<e.log.market, e.log.user>> : e \in PositionsIn(E)}}

\* The tables t say what the logs of E say.
Says(t, E) ==
  /\ t.markets = MarketsSaid(E)
  /\ t.states = StatesSaid(E)
  /\ t.positions = UsersSaid(E)

----------------------------------------------------------------------------
\* One log more

\* f comes before e in EVM order.
Earlier(f, e) == Precedes(f, e) /\ ~ Precedes(e, f)

\* A log after all others is the latest.
LEMMA NewLatest ==
  ASSUME NEW S, NEW e, \A f \in S : Earlier(f, e)
  PROVE  LatestOf(S \cup {e}) = e
<1>1. \A f \in (S \cup {e}) \ {e} : Precedes(f, e)
  BY DEF Earlier
<1>2. ASSUME NEW x \in S \cup {e}, \A f \in (S \cup {e}) \ {x} : Precedes(f, x)
      PROVE  x = e
  BY <1>2 DEF Earlier
<1> QED
  BY <1>1, <1>2 DEF LatestOf

With(E, e) == E \cup {e}

\* What one position more changes in the sets of positions.
LEMMA PositionsGrow ==
  ASSUME NEW E, NEW e, e.log.kind = "position"
  PROVE  /\ PositionsIn(With(E, e)) = PositionsIn(E) \cup {e}
         /\ With(E, e) \ PositionsIn(With(E, e)) = E \ PositionsIn(E)
  BY DEF PositionsIn, With

\* The positions of a market grow by a position in it only.
LEMMA MarketGrows ==
  ASSUME NEW E, NEW e, e.log.kind = "position", NEW m
  PROVE  /\ e.log.market = m => OfMarket(With(E, e), m) = OfMarket(E, m) \cup {e}
         /\ e.log.market # m => OfMarket(With(E, e), m) = OfMarket(E, m)
<1>1. PositionsIn(With(E, e)) = PositionsIn(E) \cup {e}
  BY PositionsGrow
<1> QED
  BY <1>1 DEF OfMarket

\* Those of a user in a market, by a position of that user in it only.
LEMMA UserGrows ==
  ASSUME NEW E, NEW e, e.log.kind = "position", NEW k
  PROVE  /\ <<e.log.market, e.log.user>> = k =>
              OfUser(With(E, e), k) = OfUser(E, k) \cup {e}
         /\ <<e.log.market, e.log.user>> # k => OfUser(With(E, e), k) = OfUser(E, k)
<1>1. PositionsIn(With(E, e)) = PositionsIn(E) \cup {e}
  BY PositionsGrow
<1> QED
  BY <1>1 DEF OfUser

\* It is a position of its side.
OnSide(e, k, o) == <<e.log.market, e.log.user>> = k /\ e.log.outcome = o

\* Those on a side, by a position of that user on that side only.
LEMMA SideGrows ==
  ASSUME NEW E, NEW e, e.log.kind = "position", NEW k, NEW o
  PROVE  /\ OnSide(e, k, o) => OfSide(With(E, e), k, o) = OfSide(E, k, o) \cup {e}
         /\ ~ OnSide(e, k, o) => OfSide(With(E, e), k, o) = OfSide(E, k, o)
<1>1. CASE <<e.log.market, e.log.user>> = k
  <2>1. OfUser(With(E, e), k) = OfUser(E, k) \cup {e}
    BY <1>1, UserGrows
  <2> QED
    BY <1>1, <2>1 DEF OfSide, OnSide
<1>2. CASE <<e.log.market, e.log.user>> # k
  <2>1. OfUser(With(E, e), k) = OfUser(E, k)
    BY <1>2, UserGrows
  <2> QED
    BY <1>2, <2>1 DEF OfSide, OnSide
<1> QED
  BY <1>1, <1>2

\* The stake after one position more.
LEMMA StakeGrows ==
  ASSUME NEW E, NEW e, e.log.kind = "position", NEW k, NEW o,
         \A f \in PositionsIn(E) : Earlier(f, e)
  PROVE  /\ OnSide(e, k, o) => StakeIn(With(E, e), k, o) = e.log.stake
         /\ ~ OnSide(e, k, o) => StakeIn(With(E, e), k, o) = StakeIn(E, k, o)
<1>1. CASE OnSide(e, k, o)
  <2>1. OfSide(With(E, e), k, o) = OfSide(E, k, o) \cup {e}
    BY <1>1, SideGrows
  <2>2. \A f \in OfSide(E, k, o) : Earlier(f, e)
    BY DEF OfSide, OfUser
  <2>3. LatestOf(OfSide(E, k, o) \cup {e}) = e
    BY <2>2, NewLatest
  <2> QED
    BY <1>1, <2>1, <2>3 DEF StakeIn
<1>2. CASE ~ OnSide(e, k, o)
  <2>1. OfSide(With(E, e), k, o) = OfSide(E, k, o)
    BY <1>2, SideGrows
  <2> QED
    BY <1>2, <2>1 DEF StakeIn
<1> QED
  BY <1>1, <1>2

\* The states of the markets after one position more.
LEMMA StatesGrow ==
  ASSUME NEW E, NEW e, e.log.kind = "position",
         \A f \in PositionsIn(E) : Earlier(f, e)
  PROVE  StatesSaid(With(E, e)) =
           {r \in StatesSaid(E) : r.market # e.log.market} \cup
           {[market |-> e.log.market, yes |-> e.log.yesPool,
             no |-> e.log.noPool, at |-> Number(e.block)]}
<1> DEFINE F == With(E, e)
           m == e.log.market
           Known == {f.log.market : f \in PositionsIn(E)}
<1>1. {f.log.market : f \in PositionsIn(F)} = Known \cup {m}
  <2>1. PositionsIn(F) = PositionsIn(E) \cup {e}
    BY PositionsGrow
  <2> QED
    BY <2>1
<1>2. ASSUME NEW n, n # m
      PROVE  StateIn(F, n) = StateIn(E, n)
  <2>1. OfMarket(F, n) = OfMarket(E, n)
    BY <1>2, MarketGrows
  <2> QED
    BY <2>1 DEF StateIn
<1>3. LatestOf(OfMarket(F, m)) = e
  <2>1. OfMarket(F, m) = OfMarket(E, m) \cup {e}
    BY MarketGrows
  <2>2. \A f \in OfMarket(E, m) : Earlier(f, e)
    BY DEF OfMarket
  <2> QED
    BY <2>1, <2>2, NewLatest
<1>4. StateIn(F, m) = [market |-> m, yes |-> e.log.yesPool, no |-> e.log.noPool,
                       at |-> Number(e.block)]
  BY <1>3 DEF StateIn
<1>5. StatesSaid(F) = {StateIn(F, n) : n \in Known \cup {m}}
  BY <1>1 DEF StatesSaid
<1>6. {r \in StatesSaid(E) : r.market # m} = {StateIn(E, n) : n \in Known \ {m}}
  BY DEF StatesSaid, StateIn
<1>7. {StateIn(E, n) : n \in Known \ {m}} = {StateIn(F, n) : n \in Known \ {m}}
  BY <1>2
<1> HIDE DEF F, m, Known
<1>8. {StateIn(F, n) : n \in Known \cup {m}} =
        {StateIn(F, n) : n \in Known \ {m}} \cup {StateIn(F, m)}
  OBVIOUS
<1> QED
  BY <1>4, <1>5, <1>6, <1>7, <1>8 DEF F, m

\* The stakes of the users after one position more.
LEMMA UsersGrow ==
  ASSUME NEW E, NEW e, e.log.kind = "position",
         \A f \in PositionsIn(E) : Earlier(f, e),
         NEW t, t.positions = UsersSaid(E)
  PROVE  UsersSaid(With(E, e)) =
           {r \in UsersSaid(E) : r.market # e.log.market \/ r.user # e.log.user}
           \cup {PositionRow(t, e)}
<1> DEFINE F == With(E, e)
           k == <<e.log.market, e.log.user>>
           Known == {<<f.log.market, f.log.user>> : f \in PositionsIn(E)}
           Other == {r \in UsersSaid(E) : r.market # e.log.market \/ r.user # e.log.user}
           old == {r \in t.positions : r.market = e.log.market /\ r.user = e.log.user}
<1>1. {<<f.log.market, f.log.user>> : f \in PositionsIn(F)} = Known \cup {k}
  <2>1. PositionsIn(F) = PositionsIn(E) \cup {e}
    BY PositionsGrow
  <2> QED
    BY <2>1
<1>2. ASSUME NEW j, j # k
      PROVE  UserIn(F, j) = UserIn(E, j)
  <2>1. OfUser(F, j) = OfUser(E, j)
    BY <1>2, UserGrows
  <2>2. StakeIn(F, j, "yes") = StakeIn(E, j, "yes") /\ StakeIn(F, j, "no") = StakeIn(E, j, "no")
    BY <1>2, StakeGrows DEF OnSide
  <2> QED
    BY <2>1, <2>2 DEF UserIn
<1>3. LatestOf(OfUser(F, k)) = e
  <2>1. OfUser(F, k) = OfUser(E, k) \cup {e}
    BY UserGrows
  <2>2. \A f \in OfUser(E, k) : Earlier(f, e)
    BY DEF OfUser
  <2> QED
    BY <2>1, <2>2, NewLatest
<1>4. \A j \in Known : UserIn(E, j).market = j[1] /\ UserIn(E, j).user = j[2]
  BY DEF UserIn
<1>5. \A j \in Known : j = k <=> j[1] = e.log.market /\ j[2] = e.log.user
  OBVIOUS
<1>6. Other = {UserIn(E, j) : j \in Known \ {k}}
  <2> HIDE DEF k
  <2> QED
    BY <1>4, <1>5 DEF UsersSaid
<1>7. old = {UserIn(E, j) : j \in Known \cap {k}}
  <2> HIDE DEF k
  <2> QED
    BY <1>4, <1>5 DEF UsersSaid
<1>8. UserIn(F, k) = PositionRow(t, e)
  <2> DEFINE Kept(side) == IF old = {} THEN 0 ELSE (CHOOSE r \in old : TRUE)[side]
  <2>1. Kept("yes") = StakeIn(E, k, "yes") /\ Kept("no") = StakeIn(E, k, "no")
    <3>1. CASE k \in Known
      <4>1. old = {UserIn(E, k)}
        BY <1>7, <3>1
      <4>2. (CHOOSE r \in old : TRUE) = UserIn(E, k) /\ old # {}
        BY <4>1
      <4>3. /\ UserIn(E, k)["yes"] = StakeIn(E, k, "yes")
            /\ UserIn(E, k)["no"] = StakeIn(E, k, "no")
        BY DEF UserIn
      <4> QED
        BY <4>2, <4>3
    <3>2. CASE k \notin Known
      <4>1. old = {}
        BY <1>7, <3>2
      <4>2. OfUser(E, k) = {}
        BY <3>2 DEF OfUser
      <4>3. StakeIn(E, k, "yes") = 0 /\ StakeIn(E, k, "no") = 0
        BY <4>2 DEF StakeIn, OfSide
      <4> QED
        BY <4>1, <4>3
    <3> QED
      BY <3>1, <3>2
  <2>2. /\ StakeIn(F, k, "yes") =
             IF e.log.outcome = "yes" THEN e.log.stake ELSE StakeIn(E, k, "yes")
        /\ StakeIn(F, k, "no") =
             IF e.log.outcome = "no" THEN e.log.stake ELSE StakeIn(E, k, "no")
    <3>1. ASSUME NEW o
          PROVE  /\ e.log.outcome = o => StakeIn(F, k, o) = e.log.stake
                 /\ e.log.outcome # o => StakeIn(F, k, o) = StakeIn(E, k, o)
      BY StakeGrows DEF OnSide
    <3> HIDE DEF F, k
    <3> QED
      BY <3>1
  <2>3. PositionRow(t, e) =
          [market |-> e.log.market, user |-> e.log.user,
           yes |-> IF e.log.outcome = "yes" THEN e.log.stake ELSE Kept("yes"),
           no |-> IF e.log.outcome = "no" THEN e.log.stake ELSE Kept("no"),
           at |-> Number(e.block)]
    BY DEF PositionRow
  <2>4. UserIn(F, k) =
          [market |-> e.log.market, user |-> e.log.user,
           yes |-> StakeIn(F, k, "yes"), no |-> StakeIn(F, k, "no"),
           at |-> Number(e.block)]
    BY <1>3 DEF UserIn
  <2> HIDE DEF F, k, old, Kept
  <2> QED
    BY <2>1, <2>2, <2>3, <2>4
<1>9. {UserIn(E, j) : j \in Known \ {k}} = {UserIn(F, j) : j \in Known \ {k}}
  BY <1>2
<1>10. UsersSaid(F) = {UserIn(F, j) : j \in Known \cup {k}}
  BY <1>1 DEF UsersSaid
<1> HIDE DEF F, k, Known
<1>11. {UserIn(F, j) : j \in Known \cup {k}} =
         {UserIn(F, j) : j \in Known \ {k}} \cup {UserIn(F, k)}
  OBVIOUS
<1> QED
  BY <1>6, <1>8, <1>9, <1>10, <1>11 DEF F

----------------------------------------------------------------------------
\* One upsert

\* t has the fields of Tables.
IsTables(t) == t = [markets |-> t.markets, states |-> t.states,
                    positions |-> t.positions, error |-> t.error]

\* insert_market_projection adds the row of the log.
LEMMA CreationSaid ==
  ASSUME NEW t, IsTables(t), NEW E, Says(t, E), NEW e, e.log.kind = "created",
         InsertMarket(t, e).error = "none", t.error = "none"
  PROVE  Says(InsertMarket(t, e), With(E, e)) /\ IsTables(InsertMarket(t, e))
<1>1. PositionsIn(With(E, e)) = PositionsIn(E)
  BY DEF PositionsIn, With
<1>2. MarketsSaid(With(E, e)) = MarketsSaid(E) \cup {MarketRow(e)}
  BY <1>1 DEF MarketsSaid, PositionsIn, With
<1>3. StatesSaid(With(E, e)) = StatesSaid(E) /\ UsersSaid(With(E, e)) = UsersSaid(E)
  BY <1>1 DEF StatesSaid, UsersSaid, StateIn, UserIn, StakeIn, OfSide, OfMarket, OfUser
<1>4. InsertMarket(t, e) = [markets |-> t.markets \cup {MarketRow(e)}, states |-> t.states,
                            positions |-> t.positions, error |-> "none"]
  BY DEF InsertMarket, IsTables
<1> QED
  BY <1>2, <1>3, <1>4 DEF Says, IsTables

\* apply_position_projection replaces the rows that the log is about.
LEMMA PositionSaid ==
  ASSUME NEW t, IsTables(t), NEW E, Says(t, E), NEW e, e.log.kind = "position",
         \A f \in PositionsIn(E) : Earlier(f, e),
         ApplyPosition(t, e).error = "none", t.error = "none"
  PROVE  Says(ApplyPosition(t, e), With(E, e)) /\ IsTables(ApplyPosition(t, e))
<1> DEFINE stateRow == [market |-> e.log.market, yes |-> e.log.yesPool,
                        no |-> e.log.noPool, at |-> Number(e.block)]
           newStates == {r \in t.states : r.market # e.log.market} \cup {stateRow}
           newUsers == {r \in t.positions : r.market # e.log.market \/ r.user # e.log.user}
                       \cup {PositionRow(t, e)}
<1>1. ApplyPosition(t, e) = [markets |-> t.markets, states |-> newStates,
                             positions |-> newUsers, error |-> "none"]
  BY DEF ApplyPosition, IsTables
<1>2. newStates = StatesSaid(With(E, e))
  BY StatesGrow DEF Says
<1>3. newUsers = UsersSaid(With(E, e))
  BY UsersGrow DEF Says
<1>4. MarketsSaid(With(E, e)) = MarketsSaid(E)
  BY PositionsGrow DEF MarketsSaid
<1> HIDE DEF newStates, newUsers
<1> QED
  BY <1>1, <1>2, <1>3, <1>4 DEF Says, IsTables

\* One of the two upserts, whichever the log asks for.
LEMMA EventSaid ==
  ASSUME NEW t, IsTables(t), NEW E, Says(t, E), NEW e,
         e.log.kind \in {"created", "position"},
         e.log.kind = "position" => \A f \in PositionsIn(E) : Earlier(f, e),
         t.error = "none", ApplyEvent(e, t).error = "none"
  PROVE  Says(ApplyEvent(e, t), With(E, e)) /\ IsTables(ApplyEvent(e, t))
<1>1. CASE e.log.kind = "created"
  <2>1. ApplyEvent(e, t) = InsertMarket(t, e)
    BY <1>1 DEF ApplyEvent
  <2> QED
    BY <1>1, <2>1, CreationSaid
<1>2. CASE e.log.kind = "position"
  <2>1. ApplyEvent(e, t) = ApplyPosition(t, e)
    BY <1>2 DEF ApplyEvent
  <2> QED
    BY <1>2, <2>1, PositionSaid
<1> QED
  BY <1>1, <1>2

----------------------------------------------------------------------------
\* EVM order

\* Logs that EVM order tells apart.
Chronicle(S) ==
  /\ \A e \in S : Number(e.block) \in Nat /\ e.log.ix \in Nat
  /\ \A e, f \in S : e # f => Precedes(e, f) \/ Precedes(f, e)

\* In a chronicle EVM order is antisymmetric.
LEMMA EarlierInChronicle ==
  ASSUME NEW S, Chronicle(S), NEW e \in S, NEW f \in S, Precedes(e, f)
  PROVE  Earlier(e, f)
  BY DEF Chronicle, Earlier, Precedes

\* Finitely many of them have a last one.
LEMMA LatestExists ==
  ASSUME NEW S, IsFiniteSet(S), Chronicle(S), S # {}
  PROVE  LatestOf(S) \in S /\ \A f \in S \ {LatestOf(S)} : Earlier(f, LatestOf(S))
<1> DEFINE IsLast(T, e) == \A f \in T \ {e} : Precedes(f, e)
           P == {T \in SUBSET S : T = {} \/ \E e \in T : IsLast(T, e)}
<1>1. {} \in P
  OBVIOUS
<1>2. ASSUME NEW T \in SUBSET S, NEW x \in S \ T, T \in P
      PROVE  T \cup {x} \in P
  <2>1. CASE T = {}
    BY <2>1
  <2>2. CASE T # {}
    <3>1. PICK e \in T : IsLast(T, e)
      BY <1>2, <2>2
    <3>2. Precedes(e, x) \/ Precedes(x, e)
      BY DEF Chronicle
    <3>3. CASE Precedes(x, e)
      <4>1. IsLast(T \cup {x}, e)
        BY <3>1, <3>3
      <4> QED
        BY <4>1
    <3>4. CASE Precedes(e, x)
      <4>1. ASSUME NEW f \in T PROVE Precedes(f, x)
        BY <3>1, <3>4 DEF Precedes, Chronicle
      <4>2. IsLast(T \cup {x}, x)
        BY <4>1
      <4> QED
        BY <4>2
    <3> QED
      BY <3>2, <3>3, <3>4
  <2> QED
    BY <2>1, <2>2
<1>3. S \in P
  <2> HIDE DEF P
  <2> QED
    BY <1>1, <1>2, SubsetInduction
<1>4. \E e \in S : IsLast(S, e)
  BY <1>3
<1>5. LatestOf(S) \in S /\ IsLast(S, LatestOf(S))
  BY <1>4 DEF LatestOf
<1> QED
  BY <1>5, EarlierInChronicle

\* A part of a chronicle is one.
LEMMA ChroniclePart ==
  ASSUME NEW S, Chronicle(S), NEW T \in SUBSET S
  PROVE  Chronicle(T)
  BY DEF Chronicle

----------------------------------------------------------------------------
\* The fold of ApplyInOrder

\* What applying the logs of s leaves, from what applying fewer leaves.
ReplayStep(t, h, s) ==
  IF s = {} THEN t ELSE ApplyEvent(LatestOf(s), h[s \ {LatestOf(s)}])

Replays(t, h, S) == h = [s \in SUBSET S |-> ReplayStep(t, h, s)]

\* The definition of the community modules, unfolded.
LEMMA ReplayDefinition ==
  ASSUME NEW t, NEW S
  PROVE  ApplyInOrder(t, S) = (CHOOSE h : Replays(t, h, S))[S]
  BY DEF ApplyInOrder, MapThenFoldSet, LatestOf, ReplayStep, Replays

\* The function that ApplyInOrder chooses exists.
LEMMA ReplaysExist ==
  ASSUME NEW t, NEW S, IsFiniteSet(S), Chronicle(S)
  PROVE  \E h : Replays(t, h, S)
<1> DEFINE Upto(h, n) ==
             \A s \in SUBSET S : Cardinality(s) <= n => h[s] = ReplayStep(t, h, s)
           Q == {n \in Nat : \E h : Upto(h, n)}
<1>0. \A s \in SUBSET S : IsFiniteSet(s) /\ Cardinality(s) \in Nat
  BY FS_Subset, FS_CardinalityType
<1>1. 0 \in Q
  <2>1. Upto([s \in SUBSET S |-> t], 0)
    BY <1>0, FS_EmptySet DEF ReplayStep
  <2> QED
    BY <2>1
<1>2. ASSUME NEW n \in Nat, n \in Q
      PROVE  n + 1 \in Q
  <2>1. PICK h : Upto(h, n)
    BY <1>2
  <2> DEFINE g == [s \in SUBSET S |-> ReplayStep(t, h, s)]
  <2>2. ASSUME NEW s \in SUBSET S, Cardinality(s) <= n + 1
        PROVE  g[s] = ReplayStep(t, g, s)
    <3>1. CASE s = {}
      BY <3>1 DEF ReplayStep
    <3>2. CASE s # {}
      <4> DEFINE r == s \ {LatestOf(s)}
      <4>1. LatestOf(s) \in s
        BY <1>0, <3>2, ChroniclePart, LatestExists
      <4>2. r \in SUBSET S /\ Cardinality(r) <= n
        BY <1>0, <2>2, <4>1, FS_RemoveElement
      <4>3. g[r] = h[r]
        BY <2>1, <4>2
      <4> QED
        BY <3>2, <4>3 DEF ReplayStep
    <3> QED
      BY <3>1, <3>2
  <2>3. Upto(g, n + 1)
    BY <2>2
  <2> HIDE DEF g, Upto
  <2>4. \E k : Upto(k, n + 1)
    BY <2>3
  <2> QED
    BY <2>4
<1>3. Cardinality(S) \in Q
  <2>1. \A n \in Nat : n \in Q
    <3> HIDE DEF Q
    <3> QED
      BY <1>1, <1>2, NumberInduction
  <2> QED
    BY <1>0, <2>1
<1>4. PICK h : Upto(h, Cardinality(S))
  BY <1>3
<1> DEFINE g == [s \in SUBSET S |-> h[s]]
<1>5. ASSUME NEW s \in SUBSET S
      PROVE  g[s] = ReplayStep(t, g, s)
  <2>1. Cardinality(s) <= Cardinality(S)
    BY FS_Subset
  <2>2. g[s] = ReplayStep(t, h, s)
    BY <1>4, <2>1
  <2>3. s \ {LatestOf(s)} \in SUBSET S
    OBVIOUS
  <2> QED
    BY <2>2, <2>3 DEF ReplayStep
<1>6. Replays(t, g, S)
  BY <1>5 DEF Replays
<1> QED
  BY <1>6

\* The errors of the projections.
ProjectionErrors == {"MarketIdentityConflict", "ForeignKeyViolation"}

\* An event leaves tables and, if it fails, one of those errors; only a
\* creation fails for the identity of a market.
LEMMA EventErrors ==
  ASSUME NEW t, IsTables(t), t.error \in ProjectionErrors \cup {"none"}, NEW e,
         e.log.kind \in {"created", "position"}
  PROVE  /\ IsTables(ApplyEvent(e, t))
         /\ ApplyEvent(e, t).error \in ProjectionErrors \cup {"none"}
         /\ t.error # "MarketIdentityConflict"
              /\ (e.log.kind = "created" => InsertMarket(t, e).error = "none")
            => ApplyEvent(e, t).error # "MarketIdentityConflict"
<1>1. CASE t.error # "none"
  BY <1>1 DEF ApplyEvent
<1>2. CASE t.error = "none" /\ e.log.kind = "created"
  <2>1. ApplyEvent(e, t) = InsertMarket(t, e)
    BY <1>2 DEF ApplyEvent
  <2>2. IsTables(InsertMarket(t, e))
        /\ InsertMarket(t, e).error \in {"none", "MarketIdentityConflict"}
    BY <1>2 DEF IsTables, InsertMarket
  <2> QED
    BY <1>2, <2>1, <2>2 DEF ProjectionErrors
<1>3. CASE t.error = "none" /\ e.log.kind = "position"
  <2>1. ApplyEvent(e, t) = ApplyPosition(t, e)
    BY <1>3 DEF ApplyEvent
  <2>2. IsTables(ApplyPosition(t, e))
        /\ ApplyPosition(t, e).error \in {"none", "ForeignKeyViolation"}
    BY <1>3 DEF IsTables, ApplyPosition
  <2> QED
    BY <2>1, <2>2 DEF ProjectionErrors
<1> QED
  BY <1>1, <1>2, <1>3

\* The rows S can be applied to the tables t one by one.
Ordered(t, S) ==
  /\ IsFiniteSet(S) /\ Chronicle(S)
  /\ IsTables(t) /\ t.error = "none"
  /\ \A e \in S : e.log.kind \in {"created", "position"}

\* ... and t says what E says: each of them comes after every position of E.
Applicable(t, E, S) ==
  /\ Ordered(t, S) /\ Says(t, E)
  /\ \A e \in PositionsIn(S) : \A f \in PositionsIn(E) : Earlier(f, e)

\* The last row of s, after the others.
LEMMA LastApplied ==
  ASSUME NEW S, NEW t, Ordered(t, S), NEW h, Replays(t, h, S),
         NEW s \in SUBSET S, s # {}
  PROVE  /\ LatestOf(s) \in s
         /\ h[s] = ApplyEvent(LatestOf(s), h[s \ {LatestOf(s)}])
         /\ \A f \in s \ {LatestOf(s)} : Earlier(f, LatestOf(s))
         /\ Cardinality(s) \in Nat
         /\ Cardinality(s \ {LatestOf(s)}) = Cardinality(s) - 1
<1>1. IsFiniteSet(s) /\ Chronicle(s)
  BY FS_Subset, ChroniclePart DEF Ordered
<1>2. LatestOf(s) \in s /\ \A f \in s \ {LatestOf(s)} : Earlier(f, LatestOf(s))
  BY <1>1, LatestExists
<1>3. Cardinality(s) \in Nat /\ Cardinality(s \ {LatestOf(s)}) = Cardinality(s) - 1
  BY <1>1, <1>2, FS_CardinalityType, FS_RemoveElement
<1>4. h[s] = ReplayStep(t, h, s)
  BY DEF Replays
<1> QED
  BY <1>2, <1>3, <1>4 DEF ReplayStep

\* Induction on what has been applied: G is the sets of rows after which
\* something holds.
LEMMA ReplayInduction ==
  ASSUME NEW S, NEW t, Ordered(t, S), NEW h, Replays(t, h, S), NEW G, {} \in G,
         \A s \in SUBSET S : s # {} /\ s \ {LatestOf(s)} \in G => s \in G
  PROVE  \A s \in SUBSET S : s \in G
<1> DEFINE Q == {n \in Nat : \A s \in SUBSET S : Cardinality(s) = n => s \in G}
<1>1. \A s \in SUBSET S : IsFiniteSet(s) /\ Cardinality(s) \in Nat
  BY FS_Subset, FS_CardinalityType DEF Ordered
<1>2. 0 \in Q
  BY <1>1, FS_EmptySet
<1>3. ASSUME NEW n \in Nat, n \in Q
      PROVE  n + 1 \in Q
  <2> SUFFICES ASSUME NEW s \in SUBSET S, Cardinality(s) = n + 1
               PROVE  s \in G
    OBVIOUS
  <2>1. s # {}
    <3>1. Cardinality({}) = 0
      BY FS_EmptySet
    <3> QED
      BY <3>1
  <2>2. Cardinality(s \ {LatestOf(s)}) = n /\ s \ {LatestOf(s)} \in SUBSET S
    <3>1. Cardinality(s \ {LatestOf(s)}) = Cardinality(s) - 1
      BY <2>1, LastApplied
    <3> QED
      BY <3>1
  <2> QED
    BY <1>3, <2>1, <2>2
<1>4. \A n \in Nat : n \in Q
  <2> HIDE DEF Q
  <2> QED
    BY <1>2, <1>3, NumberInduction
<1> QED
  BY <1>1, <1>4

\* The statements that have been executed leave tables, or one of the errors.
LEMMA ErrorParts ==
  ASSUME NEW S, NEW t, Ordered(t, S), NEW h, Replays(t, h, S)
  PROVE  \A s \in SUBSET S :
           IsTables(h[s]) /\ h[s].error \in ProjectionErrors \cup {"none"}
<1> DEFINE G == {s \in SUBSET S : /\ IsTables(h[s])
                                 /\ h[s].error \in ProjectionErrors \cup {"none"}}
<1>1. {} \in G
  BY DEF Replays, ReplayStep, Ordered
<1>2. ASSUME NEW s \in SUBSET S, s # {}, s \ {LatestOf(s)} \in G
      PROVE  s \in G
  <2> DEFINE e == LatestOf(s)
             u == h[s \ {e}]
  <2>1. e \in s /\ h[s] = ApplyEvent(e, u)
    <3> HIDE DEF G
    <3> QED
      BY <1>2, LastApplied
  <2>2. e.log.kind \in {"created", "position"}
    BY <2>1 DEF Ordered
  <2>3. IsTables(u) /\ u.error \in ProjectionErrors \cup {"none"}
    BY <1>2
  <2> HIDE DEF e, u
  <2>4. IsTables(ApplyEvent(e, u)) /\ ApplyEvent(e, u).error \in ProjectionErrors \cup {"none"}
    BY <2>2, <2>3, EventErrors
  <2> QED
    BY <2>1, <2>4
<1> HIDE DEF G
<1>3. \A s \in SUBSET S : s \in G
  BY <1>1, <1>2, ReplayInduction
<1> QED
  BY <1>3 DEF G

\* What has been applied, h[s], says what E and s say, if no statement failed.
LEMMA AppliedParts ==
  ASSUME NEW S, NEW E, NEW t, Applicable(t, E, S), NEW h, Replays(t, h, S)
  PROVE  \A s \in SUBSET S : h[s].error = "none" => Says(h[s], E \cup s)
<1> DEFINE G == {s \in SUBSET S : h[s].error = "none" => Says(h[s], E \cup s)}
<1>0. Ordered(t, S)
  BY DEF Applicable
<1>1. {} \in G
  <2>1. h[{}] = t /\ E \cup {} = E
    BY DEF Replays, ReplayStep
  <2> QED
    BY <2>1 DEF Applicable
<1>2. ASSUME NEW s \in SUBSET S, s # {}, s \ {LatestOf(s)} \in G
      PROVE  s \in G
  <2> SUFFICES ASSUME h[s].error = "none" PROVE Says(h[s], E \cup s)
    OBVIOUS
  <2> DEFINE e == LatestOf(s)
             r == s \ {e}
             u == h[r]
             F == E \cup r
  <2>1. e \in s /\ h[s] = ApplyEvent(e, u) /\ \A f \in r : Earlier(f, e)
    BY <1>0, <1>2, LastApplied
  <2>2. u.error = "none" /\ ApplyEvent(e, u).error = "none"
    BY <2>1 DEF ApplyEvent
  <2>3. Says(u, F) /\ IsTables(u)
    BY <1>0, <1>2, <2>2, ErrorParts
  <2>4. e.log.kind \in {"created", "position"}
    BY <1>0, <2>1 DEF Ordered
  <2>5. e.log.kind = "position" => \A f \in PositionsIn(F) : Earlier(f, e)
    BY <2>1 DEF PositionsIn, Applicable
  <2>6. With(F, e) = E \cup s
    BY <2>1 DEF With
  <2> HIDE DEF e, r, u, F
  <2>7. Says(ApplyEvent(e, u), With(F, e))
    BY <2>2, <2>3, <2>4, <2>5, EventSaid
  <2> QED
    BY <2>1, <2>6, <2>7
<1> HIDE DEF G
<1>3. \A s \in SUBSET S : s \in G
  BY <1>0, <1>1, <1>2, ReplayInduction
<1> QED
  BY <1>3 DEF G

\* All of them applied.
LEMMA AppliedErrors ==
  ASSUME NEW S, NEW t, Ordered(t, S)
  PROVE  ApplyInOrder(t, S).error \in ProjectionErrors \cup {"none"}
<1>1. PICK h : Replays(t, h, S) /\ ApplyInOrder(t, S) = h[S]
  BY ReplaysExist, ReplayDefinition DEF Ordered
<1> QED
  BY <1>1, ErrorParts

\* If no statement failed, the tables say what E and S say.
LEMMA AppliedInOrder ==
  ASSUME NEW S, NEW E, NEW t, Applicable(t, E, S), ApplyInOrder(t, S).error = "none"
  PROVE  Says(ApplyInOrder(t, S), E \cup S)
<1>1. PICK h : Replays(t, h, S) /\ ApplyInOrder(t, S) = h[S]
  BY ReplaysExist, ReplayDefinition DEF Applicable, Ordered
<1> QED
  BY <1>1, AppliedParts

\* No two logs of E and S create the same market differently.
SameCreations(E, S) ==
  \A e \in S, f \in E \cup S :
    /\ e.log.kind = "created" /\ f.log.kind # "position" /\ e.log.market = f.log.market
      => MarketRow(e) = MarketRow(f)

\* Then no creation is refused.
LEMMA NoIdentityConflict ==
  ASSUME NEW S, NEW E, NEW t, Applicable(t, E, S), SameCreations(E, S)
  PROVE  ApplyInOrder(t, S).error # "MarketIdentityConflict"
<1>0. Ordered(t, S)
  BY DEF Applicable
<1>1. PICK h : Replays(t, h, S) /\ ApplyInOrder(t, S) = h[S]
  BY <1>0, ReplaysExist, ReplayDefinition DEF Ordered
<1> DEFINE G == {s \in SUBSET S : h[s].error # "MarketIdentityConflict"}
<1>2. {} \in G
  BY <1>0, <1>1 DEF Replays, ReplayStep, Ordered
<1>3. ASSUME NEW s \in SUBSET S, s # {}, s \ {LatestOf(s)} \in G
      PROVE  s \in G
  <2> DEFINE e == LatestOf(s)
             r == s \ {e}
             u == h[r]
  <2>1. e \in s /\ h[s] = ApplyEvent(e, u)
    BY <1>0, <1>1, <1>3, LastApplied
  <2>2. /\ u.error # "MarketIdentityConflict"
        /\ IsTables(u) /\ u.error \in ProjectionErrors \cup {"none"}
        /\ u.error = "none" => Says(u, E \cup r)
    BY <1>0, <1>1, <1>3, ErrorParts, AppliedParts
  <2>3. e.log.kind \in {"created", "position"} /\ e \in S /\ r \in SUBSET S
    BY <1>0, <2>1 DEF Ordered
  <2>4. ASSUME u.error = "none", e.log.kind = "created"
        PROVE  InsertMarket(u, e).error = "none"
    <3>1. ASSUME NEW m \in u.markets, m.market = e.log.market
          PROVE  m = MarketRow(e)
      <4>1. PICK f \in E \cup r : f.log.kind # "position" /\ m = MarketRow(f)
        BY <2>2, <2>4 DEF Says, MarketsSaid, PositionsIn
      <4>2. f.log.market = e.log.market
        BY <3>1, <4>1 DEF MarketRow
      <4> QED
        BY <2>3, <2>4, <4>1, <4>2 DEF SameCreations
    <3>2. {m \in u.markets : m.market = e.log.market} \subseteq {MarketRow(e)}
      BY <3>1
    <3> HIDE DEF u, e, r
    <3> QED
      BY <2>2, <2>4, <3>2 DEF InsertMarket, IsTables
  <2> HIDE DEF u, e, r
  <2>5. ApplyEvent(e, u).error # "MarketIdentityConflict"
    <3>1. CASE u.error = "none"
      BY <2>2, <2>3, <2>4, <3>1, EventErrors
    <3>2. CASE u.error # "none"
      BY <2>2, <3>2 DEF ApplyEvent
    <3> QED
      BY <3>1, <3>2
  <2> QED
    BY <2>1, <2>5
<1> HIDE DEF G
<1>4. \A s \in SUBSET S : s \in G
  BY <1>0, <1>1, <1>2, <1>3, ReplayInduction
<1> QED
  BY <1>1, <1>4 DEF G

\* Each position is of a market that E or an earlier log of S creates.
CreatedBefore(E, S) ==
  \A e \in PositionsIn(S) :
    \E f \in E \cup S :
      /\ f.log.kind # "position" /\ f.log.market = e.log.market
      /\ f \in E \/ Precedes(f, e)

\* The row of a creation is among those that an archive says.
LEMMA CreationNamed ==
  ASSUME NEW E, NEW f \in E, f.log.kind # "position"
  PROVE  MarketRow(f) \in MarketsSaid(E) /\ MarketRow(f).market = f.log.market
  BY DEF MarketsSaid, PositionsIn, MarketRow

\* Then no position is refused.
LEMMA NoForeignKeyViolation ==
  ASSUME NEW S, NEW E, NEW t, Applicable(t, E, S), CreatedBefore(E, S)
  PROVE  ApplyInOrder(t, S).error # "ForeignKeyViolation"
<1>0. Ordered(t, S)
  BY DEF Applicable
<1>1. PICK h : Replays(t, h, S) /\ ApplyInOrder(t, S) = h[S]
  BY <1>0, ReplaysExist, ReplayDefinition DEF Ordered
<1> DEFINE Closed(s) == \A e \in s, f \in S : Precedes(f, e) => f \in s
           G == {s \in SUBSET S : Closed(s) => h[s].error # "ForeignKeyViolation"}
<1> HIDE DEF Closed
<1>2. {} \in G
  BY <1>0, <1>1 DEF Replays, ReplayStep, Ordered
<1>3. ASSUME NEW s \in SUBSET S, s # {}, s \ {LatestOf(s)} \in G
      PROVE  s \in G
  <2> SUFFICES ASSUME Closed(s) PROVE h[s].error # "ForeignKeyViolation"
    OBVIOUS
  <2> DEFINE e == LatestOf(s)
             r == s \ {e}
             u == h[r]
  <2>1. e \in s /\ h[s] = ApplyEvent(e, u) /\ \A f \in r : Earlier(f, e)
    BY <1>0, <1>1, <1>3, LastApplied
  <2>2. Closed(r)
    BY <2>1 DEF Earlier, Closed
  <2>3. /\ u.error # "ForeignKeyViolation"
        /\ IsTables(u) /\ u.error \in ProjectionErrors \cup {"none"}
        /\ u.error = "none" => Says(u, E \cup r)
    BY <1>0, <1>1, <1>3, <2>2, ErrorParts, AppliedParts
  <2>4. e.log.kind \in {"created", "position"} /\ e \in S
    BY <1>0, <2>1 DEF Ordered
  <2> HIDE DEF u, e, r
  <2>5. ASSUME u.error = "none", e.log.kind = "position"
        PROVE  \E m \in u.markets : m.market = e.log.market
    <3>1. PICK f \in E \cup S : /\ f.log.kind # "position" /\ f.log.market = e.log.market
                                /\ f \in E \/ Precedes(f, e)
      BY <2>4, <2>5 DEF CreatedBefore, PositionsIn
    <3>2. f \in E \cup r
      <4>1. r = s \ {e}
        BY DEF r
      <4>2. f # e
        BY <2>5, <3>1
      <4>3. Precedes(f, e) => f \in s \/ f \in E
        BY <2>1, <3>1 DEF Closed
      <4> QED
        BY <3>1, <4>1, <4>2, <4>3
    <3>3. MarketRow(f) \in u.markets /\ MarketRow(f).market = e.log.market
      <4>1. /\ MarketRow(f) \in MarketsSaid(E \cup r)
            /\ MarketRow(f).market = f.log.market
        BY <3>1, <3>2, CreationNamed
      <4>2. u.markets = MarketsSaid(E \cup r)
        BY <2>3, <2>5 DEF Says
      <4> QED
        BY <3>1, <4>1, <4>2
    <3> QED
      BY <3>3
  <2>6. ApplyEvent(e, u).error # "ForeignKeyViolation"
    <3>1. CASE u.error = "none" /\ e.log.kind = "position"
      <4>1. ApplyEvent(e, u) = ApplyPosition(u, e)
        BY <3>1 DEF ApplyEvent
      <4> QED
        BY <2>3, <2>5, <3>1, <4>1 DEF ApplyPosition, IsTables
    <3>2. CASE u.error = "none" /\ e.log.kind = "created"
      <4>1. ApplyEvent(e, u) = InsertMarket(u, e)
        BY <3>2 DEF ApplyEvent
      <4> QED
        BY <2>3, <3>2, <4>1 DEF InsertMarket, IsTables
    <3>3. CASE u.error # "none"
      BY <2>3, <3>3 DEF ApplyEvent
    <3> QED
      BY <2>4, <3>1, <3>2, <3>3
  <2> QED
    BY <2>1, <2>6
<1> HIDE DEF G
<1>4. \A s \in SUBSET S : s \in G
  BY <1>0, <1>1, <1>2, <1>3, ReplayInduction
<1>5. Closed(S)
  BY DEF Closed
<1> QED
  BY <1>1, <1>4, <1>5 DEF G

----------------------------------------------------------------------------
\* A rollback

\* What a rollback to a replays, over which tables, and what those say.
ReplayRows(a) ==
  {e \in RetainedEvents(a) : e.log.kind = "position" /\ Number(e.block) >= DeploymentBlock}
ReplayBase(a) ==
  [markets |-> {m \in markets : m.number <= Number(a)},
   states |-> {}, positions |-> {}, error |-> "none"]
Creations(a) == {e \in events : e.log.kind = "created" /\ Number(e.block) <= Number(a)}

\* The markets the foreign key has spared are those of the retained creations,
\* and the two upserts replay every retained position over them.
LEMMA RollbackReplays ==
  ASSUME Says(Tables, events), IsFiniteSet(events), Chronicle(events),
         \A e \in events : /\ e.log.kind \in {"created", "position"}
                           /\ Number(e.block) >= DeploymentBlock,
         NEW a
  PROVE  /\ Replayed(a) = ApplyInOrder(ReplayBase(a), ReplayRows(a))
         /\ Applicable(ReplayBase(a), Creations(a), ReplayRows(a))
         /\ Creations(a) \cup ReplayRows(a) = RetainedEvents(a)
<1>1. Replayed(a) = ApplyInOrder(ReplayBase(a), ReplayRows(a))
  BY DEF Replayed, ReplayBase, ReplayRows
<1>2. \A e \in events : /\ e.log.kind \in {"created", "position"}
                        /\ Number(e.block) >= DeploymentBlock
  OBVIOUS
<1>3. /\ \A e \in ReplayRows(a) : e.log.kind \in {"created", "position"}
      /\ IsFiniteSet(ReplayRows(a)) /\ Chronicle(ReplayRows(a))
  <2>1. ReplayRows(a) \in SUBSET events /\ IsFiniteSet(events)
    BY DEF ReplayRows, RetainedEvents
  <2> QED
    BY <1>2, <2>1, FS_Subset, ChroniclePart
<1>4. Creations(a) \cup ReplayRows(a) = RetainedEvents(a)
  BY <1>2 DEF Creations, ReplayRows, RetainedEvents
<1>5. PositionsIn(Creations(a)) = {}
  BY DEF PositionsIn, Creations
<1>6. Says(ReplayBase(a), Creations(a))
  <2>1. markets = {MarketRow(e) : e \in events \ PositionsIn(events)}
    BY DEF Says, Tables, MarketsSaid
  <2>2. \A e : MarketRow(e).number = Number(e.block)
    BY DEF MarketRow
  <2>3. events \ PositionsIn(events) = {e \in events : e.log.kind = "created"}
    BY <1>2 DEF PositionsIn
  <2>4. {m \in markets : m.number <= Number(a)} = {MarketRow(e) : e \in Creations(a)}
    BY <2>1, <2>2, <2>3 DEF Creations
  <2>5. ReplayBase(a).markets = MarketsSaid(Creations(a))
    BY <1>5, <2>4 DEF MarketsSaid, ReplayBase
  <2>6. ReplayBase(a).states = {} /\ ReplayBase(a).positions = {}
    BY DEF ReplayBase
  <2> QED
    BY <1>5, <2>5, <2>6 DEF Says, StatesSaid, UsersSaid
<1>7. IsTables(ReplayBase(a)) /\ ReplayBase(a).error = "none"
  BY DEF IsTables, ReplayBase
<1>8. \A e \in PositionsIn(ReplayRows(a)) :
        \A f \in PositionsIn(Creations(a)) : Earlier(f, e)
  BY <1>5
<1> QED
  BY <1>1, <1>3, <1>4, <1>6, <1>7, <1>8 DEF Applicable, Ordered

----------------------------------------------------------------------------
\* Finite sets

\* The image of a finite set is finite.
LEMMA ImageFinite ==
  ASSUME NEW S, IsFiniteSet(S), NEW T, NEW f \in [S -> T], \A y \in T : \E x \in S : f[x] = y
  PROVE  IsFiniteSet(T)
<1>1. f \in Surjection(S, T)
  BY DEF Surjection
<1> QED
  BY <1>1, FS_Surjection
=============================================================================
