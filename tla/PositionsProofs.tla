-------------------------- MODULE PositionsProofs --------------------------
(***************************************************************************)
(* Proofs about Positions, for any accounts, instruments, quantities,      *)
(* ratios, prices and days and histories of any length.                    *)
(*                                                                         *)
(* Replay is a recursion over a set; FiniteLemmas makes it one that can be *)
(* reasoned about.  What a history that replays has gone through follows   *)
(* (EventHolds), and that every request leaves one (HistoriesReplay).      *)
(*                                                                         *)
(* PositionsInv is inductive.  Archived accounts stay frozen because the   *)
(* write of a price, which does not lock the accounts it rebuilds, sees    *)
(* none that was archived in its snapshot (SnapshotKept).  The cached value*)
(* stays the replay of the rows because a request rebuilds every account it*)
(* writes to, a group among them (Groups), and because the price of an     *)
(* instrument an account never had does not count in its value.            *)
(*                                                                         *)
(* What a replay computes, for histories of any length, is in the last     *)
(* part: the quantity of an instrument is the sum of what every event      *)
(* recorded of it has grown to through the splits after it (Held), which   *)
(* says nothing of an order.  What replay checked at each event and what it*)
(* cached become statements about these sums.  That a sum of fractions can *)
(* be taken in any order, and that a split can multiply the whole of a     *)
(* holding as well as each part of it, rests on fractions being kept in    *)
(* lowest terms: equal ones are the same pair.                             *)
(***************************************************************************)
EXTENDS Positions, FiniteLemmas

Rational == Int \X (Nat \ {0})
Replay == [ok : BOOLEAN, holding : [Instruments -> Rational]]

-----------------------------------------------------------------------------
(* Arithmetic of replay *)

\* Reducing a fraction leaves a fraction.
LEMMA ReducedType ==
    ASSUME NEW n \in Int, NEW d \in Nat \ {0}
    PROVE  Reduced(n, d) \in Rational
  <1> DEFINE S == {k \in 1 .. d : n % k = 0 /\ d % k = 0}
             g == Max(S)
  <1>1. S \in SUBSET Int /\ IsFiniteSet(S)
    <2>1. IsFiniteSet(1 .. d) /\ S \in SUBSET (1 .. d)
      BY FS_Interval
    <2>2. IsFiniteSet(S)
      BY <2>1, FS_Subset
    <2> QED BY <2>1, <2>2
  <1>2. 1 \in S
    OBVIOUS
  <1>3. g \in 1 .. d
    <2>1. g \in S
      BY <1>1, <1>2, MaxOfFinite
    <2> QED BY <2>1
  <1>4. Reduced(n, d) = <<n \div g, d \div g>>
    BY DEF Reduced
  <1> HIDE DEF g
  <1>5. n \div g \in Int /\ d \div g \in Nat \ {0}
    BY <1>3
  <1> QED BY <1>4, <1>5 DEF Rational

LEMMA PlusType ==
    ASSUME NEW p \in Rational, NEW n \in Int
    PROVE  Plus(p, Whole(n)) \in Rational
  <1>1. p[1] * 1 + n * p[2] \in Int /\ p[2] * 1 \in Nat \ {0}
    BY DEF Rational
  <1>2. Plus(p, Whole(n)) = Reduced(p[1] * 1 + n * p[2], p[2] * 1)
    BY DEF Plus, Whole
  <1> QED BY <1>1, <1>2, ReducedType

LEMMA TimesType ==
    ASSUME NEW p \in Rational, NEW q \in (Nat \ {0}) \X (Nat \ {0})
    PROVE  Times(p, q) \in Rational
  <1>1. p[1] * q[1] \in Int /\ p[2] * q[2] \in Nat \ {0}
    BY DEF Rational
  <1>2. Times(p, q) = Reduced(p[1] * q[1], p[2] * q[2])
    BY DEF Times
  <1> QED BY <1>1, <1>2, ReducedType

LEMMA CanonicalType ==
    ASSUME NEW q \in Rational
    PROVE  canonicalRat(q) \in Int
  <1>1. 2 * q[1] + q[2] \in Int /\ 2 * q[2] \in Nat \ {0}
    BY DEF Rational
  <1> DEFINE n == 2 * q[1] + q[2]
             d == 2 * q[2]
  <1>2. canonicalRat(q) = n \div d
    BY DEF canonicalRat
  <1> HIDE DEF n, d
  <1> QED BY <1>1, <1>2 DEF n, d

LEMMA CanonicalZero == canonicalRat(Whole(0)) = 0
  BY DEF canonicalRat, Whole

\* One event applied to a replay gives a replay.
LEMMA ReplayEventType ==
    ASSUME NEW e \in EventType, NEW s \in Replay
    PROVE  replayEvent(e, s) \in Replay
  <1> DEFINE next == Apply(e, s.holding[e.instrument])
  <1>1. s.holding[e.instrument] \in Rational /\ e.quantity \in Int /\ -e.quantity \in Int
    BY DEF EventType, Replay
  <1>2. e.ratio \in (Nat \ {0}) \X (Nat \ {0})
    BY PositionsAssumption DEF EventType
  <1>3. next \in Rational
    BY <1>1, <1>2, PlusType, TimesType DEF Apply
  <1> HIDE DEF next
  <1>4. [s.holding EXCEPT ![e.instrument] = next] \in [Instruments -> Rational]
    BY <1>3 DEF Replay, EventType
  <1>5. (next[1] >= 0 /\ Entitled(e, s.holding)) \in BOOLEAN
    OBVIOUS
  <1> QED BY <1>4, <1>5 DEF replayEvent, Replay, next

-----------------------------------------------------------------------------
(* Replay as a recursion *)

\* The last event of a nonempty finite set of events is one of them.
LEMMA LastIsLast ==
    ASSUME NEW S \in SUBSET EventType, IsFiniteSet(S), S # {}
    PROVE  Last(S) \in S /\ \A f \in S : ~Before(Last(S), f)
  <1> DEFINE R == {p \in S \X S : Before(p[1], p[2])}
  <1>0. \A e \in S : e.date \in Int /\ e.sequence \in Int
    BY DEF EventType, Days
  <1>1. /\ \A x \in S : <<x, x>> \notin R
        /\ \A x, y, z \in S : <<x, y>> \in R /\ <<y, z>> \in R => <<x, z>> \in R
    BY <1>0 DEF Before
  <1>2. \A x, y \in S : <<x, y>> \notin R => ~Before(x, y)
    OBVIOUS
  <1> HIDE DEF R
  <1>3. \E m \in S : \A x \in S : <<m, x>> \notin R
    BY <1>1, FiniteHasLast
  <1>4. \E m \in S : \A x \in S : ~Before(m, x)
    BY <1>2, <1>3
  <1> QED BY <1>4, Zenon DEF Last

Replays(rows, f) ==
  f = [S \in SUBSET rows |-> IF S = {} THEN Nothing ELSE replayEvent(Last(S), f[S \ {Last(S)}])]

\* f replays every subset of the rows, within V, and is all there is to replay.
ReplayFunction(f, rows, V) ==
  /\ f \in [SUBSET rows -> V]
  /\ Replays(rows, f)
  /\ replayPositionEvents(rows) = f[rows]
  /\ \A g : Replays(rows, g) => g = f

\* Replay stays in a set that holds the empty account and is closed under events.
LEMMA ReplayRecursion ==
    ASSUME NEW rows \in SUBSET EventType, IsFiniteSet(rows),
           NEW V, Nothing \in V,
           \A e \in rows, s \in V : replayEvent(e, s) \in V
    PROVE  \E f : ReplayFunction(f, rows, V)
  <1> DEFINE pick == [S \in (SUBSET rows) \ {{}} |-> Last(S)]
             step == [x \in rows \X V |-> replayEvent(x[1], x[2])]
             G(f) == [S \in SUBSET rows |-> IF S = {} THEN Nothing ELSE replayEvent(Last(S), f[S \ {Last(S)}])]
  <1>1. \A S \in SUBSET rows : S # {} => Last(S) \in S
    BY LastIsLast, FS_Subset
  <1>2. Picks(pick, rows)
    BY <1>1 DEF Picks
  <1>3. step \in [rows \X V -> V]
    OBVIOUS
  <1>4. \A S \in SUBSET rows : S # {} => pick[S] = Last(S)
    OBVIOUS
  <1>5. \A e \in rows, s \in V : step[<<e, s>>] = replayEvent(e, s)
    OBVIOUS
  <1> HIDE DEF pick, step
  <1>6. PICK f : Recurses(f, rows, V, Nothing, pick, step)
    BY <1>2, <1>3, FiniteRecursion
  <1>7. \A S \in SUBSET rows : S # {} => f[S] = replayEvent(Last(S), f[S \ {Last(S)}])
    <2> SUFFICES ASSUME NEW S \in SUBSET rows, S # {}
                 PROVE  f[S] = replayEvent(Last(S), f[S \ {Last(S)}])
      OBVIOUS
    <2>1. Last(S) \in rows /\ f[S \ {Last(S)}] \in V
      BY <1>1, <1>6 DEF Recurses
    <2> QED BY <1>4, <1>5, <1>6, <2>1 DEF Recurses
  <1>8. f = G(f)
    BY <1>6, <1>7 DEF Recurses
  <1>9. ASSUME NEW g, g = G(g) PROVE g = f
    <2>1. f = [S \in SUBSET rows |-> f[S]] /\ g = [S \in SUBSET rows |-> g[S]]
      BY <1>8, <1>9, Zenon
    <2>2. f[{}] = g[{}]
      BY <1>8, <1>9, Zenon
    <2>3. \A S \in SUBSET rows : S # {} => g[S] = replayEvent(Last(S), g[S \ {Last(S)}])
      BY <1>9, Zenon
    <2>4. AgreeByRest(f, g, rows, pick)
      BY <1>4, <1>7, <2>2, <2>3, Zenon DEF AgreeByRest
    <2> HIDE DEF G
    <2>5. \A S \in SUBSET rows : f[S] = g[S]
      BY <1>2, <2>4, FiniteRecursionUnique
    <2> QED BY <2>1, <2>5, Zenon
  <1>10. replayPositionEvents(rows) = f[rows]
    <2>1. replayPositionEvents(rows) = (CHOOSE g : g = G(g))[rows]
      BY Zenon DEF replayPositionEvents
    <2>2. (CHOOSE g : g = G(g)) = f
      BY <1>8, <1>9, Zenon
    <2> QED BY <2>1, <2>2, Zenon
  <1> QED BY <1>6, <1>8, <1>9, <1>10, Zenon DEF ReplayFunction, Replays, Recurses

\* What replay gives is in every such set.
LEMMA ReplayIn ==
    ASSUME NEW rows \in SUBSET EventType, IsFiniteSet(rows),
           NEW V, Nothing \in V,
           \A e \in rows, s \in V : replayEvent(e, s) \in V
    PROVE  replayPositionEvents(rows) \in V
  <1>1. PICK f : ReplayFunction(f, rows, V)
    BY ReplayRecursion
  <1> QED BY <1>1 DEF ReplayFunction

LEMMA NothingType == Nothing \in Replay
  BY DEF Nothing, Replay, Rational, Whole

LEMMA ReplayType ==
    ASSUME NEW rows \in SUBSET EventType, IsFiniteSet(rows)
    PROVE  replayPositionEvents(rows) \in Replay
  <1>1. \A e \in rows, s \in Replay : replayEvent(e, s) \in Replay
    BY ReplayEventType
  <1> QED BY <1>1, NothingType, ReplayIn

LEMMA ReplayEmpty == replayPositionEvents({}) = Nothing
  <1>1. replayPositionEvents({}) \in {Nothing}
    BY ReplayIn, FS_EmptySet
  <1> QED BY <1>1

\* Replay ends with the last event.
LEMMA ReplayStep ==
    ASSUME NEW rows \in SUBSET EventType, IsFiniteSet(rows), rows # {}
    PROVE  replayPositionEvents(rows)
             = replayEvent(Last(rows), replayPositionEvents(rows \ {Last(rows)}))
  <1> DEFINE rest == rows \ {Last(rows)}
  <1>1. /\ \A e \in rows, s \in Replay : replayEvent(e, s) \in Replay
        /\ rest \in SUBSET EventType /\ IsFiniteSet(rest)
    BY ReplayEventType, FS_RemoveElement
  <1>0. \A e \in rest, s \in Replay : replayEvent(e, s) \in Replay
    BY <1>1
  <1> HIDE DEF rest
  <1>2. PICK f : ReplayFunction(f, rows, Replay)
    BY <1>1, NothingType, ReplayRecursion
  <1>3. PICK g : ReplayFunction(g, rest, Replay)
    BY <1>1, <1>0, NothingType, ReplayRecursion
  <1> DEFINE h == [S \in SUBSET rest |-> f[S]]
  <1>4. Replays(rest, h)
    BY <1>2 DEF ReplayFunction, Replays, rest
  <1>5. h[rest] = f[rest]
    OBVIOUS
  <1> HIDE DEF h, rest
  <1>6. replayPositionEvents(rest) = f[rest]
    <2>1. h = g
      BY <1>3, <1>4, Zenon DEF ReplayFunction
    <2> QED BY <1>3, <1>5, <2>1, Zenon DEF ReplayFunction
  <1>7. f[rows] = replayEvent(Last(rows), f[rest])
    BY <1>2 DEF ReplayFunction, Replays, rest
  <1>8. replayPositionEvents(rows) = f[rows]
    BY <1>2 DEF ReplayFunction
  <1> QED BY <1>6, <1>7, <1>8, Zenon DEF rest

\* An instrument that no event names is not held.
LEMMA ReplayUntouched ==
    ASSUME NEW rows \in SUBSET EventType, IsFiniteSet(rows),
           NEW i \in Instruments, \A e \in rows : e.instrument # i
    PROVE  replayPositionEvents(rows).holding[i] = Whole(0)
  <1> DEFINE V == {s \in Replay : s.holding[i] = Whole(0)}
  <1>1. Nothing \in V
    BY NothingType DEF Nothing
  <1>2. ASSUME NEW e \in rows, NEW s \in V PROVE replayEvent(e, s) \in V
    <2>1. replayEvent(e, s) \in Replay
      BY ReplayEventType
    <2>2. replayEvent(e, s).holding[i] = s.holding[i]
      BY DEF replayEvent, Replay
    <2> QED BY <2>1, <2>2
  <1> HIDE DEF V
  <1>3. replayPositionEvents(rows) \in V
    BY <1>1, <1>2, ReplayIn
  <1> QED BY <1>3 DEF V

\* What replay checked of an event: the history before it replays, it was
\* entitled to what it took or gave, and it leaves no negative holding.
EventHolds(rows, e) ==
  LET before == {f \in rows : Before(f, e)}
  IN  /\ replayPositionEvents(before).ok
      /\ Entitled(e, replayPositionEvents(before).holding)
      /\ replayPositionEvents(before \cup {e}).ok
      /\ replayPositionEvents(before \cup {e}).holding[e.instrument][1] >= 0

HistoryHolds(rows) == \A e \in rows : EventHolds(rows, e)

\* The events of one account, each with a place of its own.
Ordered(rows) ==
  /\ rows \in SUBSET EventType /\ IsFiniteSet(rows)
  /\ \A e, f \in rows : e.date = f.date /\ e.sequence = f.sequence => e = f

\* A replay that ends well held all the way.
LEMMA LastHolds ==
    ASSUME NEW rows, Ordered(rows), rows # {}, replayPositionEvents(rows).ok
    PROVE  /\ replayPositionEvents(rows \ {Last(rows)}).ok
           /\ EventHolds(rows, Last(rows))
  <1> DEFINE e == Last(rows)
             rest == rows \ {e}
             s == replayPositionEvents(rest)
             next == Apply(e, s.holding[e.instrument])
  <1>1. e \in rows /\ \A f \in rows : ~Before(e, f)
    BY LastIsLast DEF Ordered
  <1>2. rest \in SUBSET EventType /\ IsFiniteSet(rest) /\ e \in EventType
    BY <1>1, FS_RemoveElement DEF Ordered
  <1>3. s \in Replay
    BY <1>2, ReplayType
  <1>4. replayPositionEvents(rows) = replayEvent(e, s)
    BY ReplayStep DEF Ordered
  <1>5. {f \in rows : Before(f, e)} = rest /\ rest \cup {e} = rows
    <2>1. \A f \in rest : Before(f, e)
      BY <1>1 DEF Ordered, Before, EventType, Days
    <2>2. ~Before(e, e)
      BY <1>1
    <2> QED BY <1>1, <2>1, <2>2
  <1> HIDE DEF e, rest, s
  <1>6. /\ s.ok /\ next[1] >= 0 /\ Entitled(e, s.holding)
        /\ replayEvent(e, s) = [ok |-> next[1] >= 0 /\ Entitled(e, s.holding),
                                holding |-> [s.holding EXCEPT ![e.instrument] = next]]
    <2>1. s.ok
      BY <1>4, Zenon DEF replayEvent
    <2>2. replayEvent(e, s) = [ok |-> next[1] >= 0 /\ Entitled(e, s.holding),
                               holding |-> [s.holding EXCEPT ![e.instrument] = next]]
      BY <2>1, Zenon DEF replayEvent
    <2> HIDE DEF next
    <2>3. replayEvent(e, s).ok = (next[1] >= 0 /\ Entitled(e, s.holding))
      BY <2>2
    <2> QED BY <1>4, <2>1, <2>2, <2>3
  <1> HIDE DEF next
  <1>7. replayPositionEvents(rows).holding[e.instrument] = next
    BY <1>2, <1>3, <1>4, <1>6 DEF Replay, EventType
  <1>8. EventHolds(rows, e)
    BY <1>5, <1>6, <1>7, Zenon DEF EventHolds, s
  <1> QED BY <1>6, <1>8 DEF e, rest, s

LEMMA ReplayHolds ==
    ASSUME NEW rows, Ordered(rows), replayPositionEvents(rows).ok
    PROVE  HistoryHolds(rows)
  <1> DEFINE N == {n \in Nat : \A S \in SUBSET rows :
                     Cardinality(S) = n /\ replayPositionEvents(S).ok => HistoryHolds(S)}
  <1>0. \A S \in SUBSET rows : /\ Ordered(S) /\ IsFiniteSet(S) /\ Cardinality(S) \in Nat
                               /\ (Cardinality(S) = 0 <=> S = {})
    BY FS_Subset, FS_EmptySet, FS_CardinalityType DEF Ordered
  <1>1. 0 \in N
    BY <1>0 DEF HistoryHolds
  <1>2. ASSUME NEW n \in Nat, n \in N PROVE n + 1 \in N
    <2>1. ASSUME NEW S \in SUBSET rows, Cardinality(S) = n + 1, replayPositionEvents(S).ok
          PROVE  HistoryHolds(S)
      <3> DEFINE e == Last(S)
                 T == S \ {e}
      <3>1. Ordered(S) /\ S # {}
        BY <1>0, <2>1
      <3>2. e \in S /\ \A f \in S : ~Before(e, f)
        BY <3>1, LastIsLast DEF Ordered
      <3>3. replayPositionEvents(T).ok /\ EventHolds(S, e)
        BY <2>1, <3>1, LastHolds
      <3>4. Cardinality(T) = n
        <4>1. Cardinality(T) = Cardinality(S) - 1
          BY <1>0, <3>2, FS_RemoveElement
        <4> QED BY <2>1, <4>1
      <3>5. HistoryHolds(T)
        BY <1>2, <3>3, <3>4
      <3> HIDE DEF e
      <3>6. ASSUME NEW f \in T PROVE EventHolds(S, f)
        <4>1. {g \in S : Before(g, f)} = {g \in T : Before(g, f)}
          BY <3>2
        <4>2. EventHolds(T, f)
          BY <3>5 DEF HistoryHolds
        <4> QED BY <4>1, <4>2, Zenon DEF EventHolds
      <3> QED BY <3>3, <3>6 DEF HistoryHolds
    <2>2. n + 1 \in Nat
      OBVIOUS
    <2> QED BY <2>1, <2>2, Zenon
  <1> HIDE DEF N
  <1>3. Cardinality(rows) \in N
    BY <1>0, <1>1, <1>2, NaturalsByInduction
  <1> QED BY <1>3 DEF N

-----------------------------------------------------------------------------
(* Rows put at the end of their day *)

\* An event before it is inserted: its sequence may still be 0.
Draft ==
  [account: Accounts, instrument: Instruments, related: Instruments \cup {NoInstrument},
   type: Ordinary \cup Corporate, quantity: Int, ratio: Ratios \cup {<<1, 1>>}, cash: Minor,
   date: Days, sequence: Nat, group: Keys \cup {NoKey}, key: Keys \cup {NoKey}]

\* Everything that gives a row its meaning but the place in its day.
Same(e, f) ==
  /\ e.account = f.account /\ e.instrument = f.instrument /\ e.related = f.related
  /\ e.type = f.type /\ e.quantity = f.quantity /\ e.date = f.date
  /\ e.group = f.group /\ e.key = f.key

Distinct(rows) ==
  \A e, f \in rows : e.account = f.account /\ e.date = f.date /\ e.sequence = f.sequence => e = f

\* A finite table of events in which every event has its own place.
Table(rows) == rows \in SUBSET EventType /\ IsFiniteSet(rows) /\ Distinct(rows)

LEMMA NextSequence ==
    ASSUME NEW rows \in SUBSET EventType, IsFiniteSet(rows), NEW a, NEW d
    PROVE  /\ nextSequence(rows, a, d) \in Nat \ {0}
           /\ \A f \in rows : f.account = a /\ f.date = d => f.sequence < nextSequence(rows, a, d)
  <1> DEFINE of == {f \in rows : f.account = a /\ f.date = d}
             S == {e.sequence : e \in of}
  <1>1. IsFiniteSet(of)
    BY FS_Subset
  <1>2. IsFiniteSet(S)
    <2> DEFINE f == [e \in of |-> e.sequence]
    <2>1. S = {f[e] : e \in of}
      OBVIOUS
    <2> HIDE DEF S, f, of
    <2> QED BY <1>1, <2>1, FiniteImage
  <1>3. S \in SUBSET Nat
    BY DEF EventType
  <1> HIDE DEF S
  <1>4. ({0} \cup S) \in SUBSET Int /\ IsFiniteSet({0} \cup S)
    <2>1. {0} \cup S = S \cup {0}
      OBVIOUS
    <2> QED BY <1>2, <1>3, <2>1, FS_AddElement
  <1>5. Max({0} \cup S) \in {0} \cup S /\ \A x \in {0} \cup S : Max({0} \cup S) >= x
    BY <1>4, MaxOfFinite
  <1>6. nextSequence(rows, a, d) = 1 + Max({0} \cup S)
    BY DEF nextSequence, S
  <1>7. \A f \in rows : f.account = a /\ f.date = d => f.sequence \in S
    BY DEF S
  <1>8. 0 \in {0} \cup S
    OBVIOUS
  <1> DEFINE m == Max({0} \cup S)
  <1>9. m \in Nat /\ \A f \in rows : f.account = a /\ f.date = d => m >= f.sequence
    <2>1. m \in {0} \cup S /\ \A x \in S : m >= x
      BY <1>5
    <2> HIDE DEF m
    <2>2. m \in Nat
      BY <1>3, <2>1
    <2> QED BY <1>7, <2>1, <2>2
  <1>10. \A f \in rows : f.sequence \in Nat
    BY DEF EventType
  <1> HIDE DEF m
  <1>11. nextSequence(rows, a, d) = 1 + m
    BY <1>6 DEF m
  <1> QED BY <1>9, <1>10, <1>11

\* Inserting adds one row, with a place of its own.
LEMMA InsertRow ==
    ASSUME NEW rows, Table(rows), NEW e \in Draft
    PROVE  \E row \in EventType :
             Insert(rows, e) = rows \cup {row} /\ Same(row, e) /\ Table(rows \cup {row})
  <1> DEFINE n == nextSequence(rows, e.account, e.date)
             row == [e EXCEPT !.sequence = n]
  <1>1. /\ n \in Nat \ {0}
        /\ \A f \in rows : f.account = e.account /\ f.date = e.date => f.sequence < n
    BY NextSequence DEF Table
  <1> HIDE DEF n
  <1>2. row \in EventType /\ Same(row, e) /\ row.sequence = n
    BY <1>1 DEF Draft, EventType, Same
  <1>3. Insert(rows, e) = rows \cup {row}
    BY DEF Insert, n
  <1> HIDE DEF row
  <1>4. Distinct(rows \cup {row})
    <2>1. \A f \in rows : ~(f.account = row.account /\ f.date = row.date /\ f.sequence = row.sequence)
      <3> SUFFICES ASSUME NEW f \in rows, f.account = row.account, f.date = row.date
                   PROVE  f.sequence # row.sequence
        OBVIOUS
      <3>1. f.sequence < n /\ f.sequence \in Nat
        BY <1>1, <1>2 DEF Same, Table, EventType
      <3> QED BY <1>1, <1>2, <3>1
    <2> QED BY <2>1 DEF Distinct, Table
  <1>5. IsFiniteSet(rows \cup {row})
    BY FS_AddElement DEF Table
  <1> QED BY <1>2, <1>3, <1>4, <1>5 DEF Table

-----------------------------------------------------------------------------
(* Event groups *)

\* One group with its events R and its transactions T.
GroupWhole(R, T, k) ==
  /\ R # {} => \E f \in R : f.key = k
  /\ \A e \in R :
       /\ e.type \in {"transfer_in", "transfer_out"} =>
            \E f \in R : f.account # e.account /\ f.quantity = e.quantity
       /\ e.type \in {"merger_in", "merger_out"} =>
            \E f \in R : f.instrument = e.related /\ f.type # e.type
       /\ e.type = "buy" => \E t \in T : t.amount > 0
       /\ e.type = "spinoff" => e.related \in Instruments
  /\ \A t \in T : \E e \in R : e.account = t.account

Groups(rows, g) ==
  /\ \A k \in Keys : GroupWhole(OfGroup(rows, k), OfGroup(g, k), k)
  /\ \A e \in rows : e.type \in Corporate => e.group # NoKey

TransactionType == [account: Accounts, amount: Minor, group: Keys]

LEMMA GroupsAreWhole ==
    ASSUME events \in SUBSET EventType, grouped \in SUBSET TransactionType, Groups(events, grouped)
    PROVE  GroupsWhole
  <1>1. ASSUME NEW e \in events
        PROVE  /\ e.type \in {"transfer_in", "transfer_out"} =>
                    \E f \in OfGroup(events, e.group) : f.account # e.account /\ f.quantity = e.quantity
               /\ e.type \in {"merger_in", "merger_out"} =>
                    \E f \in OfGroup(events, e.group) : f.instrument = e.related /\ f.type # e.type
               /\ e.type = "buy" /\ e.group # NoKey => \E t \in OfGroup(grouped, e.group) : t.amount > 0
    <2>1. CASE e.group = NoKey
      <3>1. e.type \notin Corporate
        BY <2>1 DEF Groups
      <3> QED BY <2>1, <3>1 DEF Corporate
    <2>2. CASE e.group # NoKey
      <3>1. e.group \in Keys /\ e \in OfGroup(events, e.group)
        BY <2>2 DEF EventType, OfGroup
      <3>2. GroupWhole(OfGroup(events, e.group), OfGroup(grouped, e.group), e.group)
        BY <3>1 DEF Groups
      <3> QED BY <3>1, <3>2 DEF GroupWhole
    <2> QED BY <2>1, <2>2
  <1>2. ASSUME NEW t \in grouped
        PROVE  \E e \in OfGroup(events, t.group) : e.account = t.account
    <2>1. t.group \in Keys /\ t \in OfGroup(grouped, t.group)
      BY DEF TransactionType, OfGroup
    <2>2. GroupWhole(OfGroup(events, t.group), OfGroup(grouped, t.group), t.group)
      BY <2>1 DEF Groups
    <2> QED BY <2>1, <2>2 DEF GroupWhole
  <1> QED BY <1>1, <1>2 DEF GroupsWhole

\* Groups stay whole if each one stays as it was, or is whole.
LEMMA GroupsByKey ==
    ASSUME NEW rows, NEW g, Groups(rows, g), NEW rows2, NEW g2,
           \A e \in rows2 : e.type \in Corporate => e.group # NoKey,
           \A k \in Keys : \/ OfGroup(rows2, k) = OfGroup(rows, k) /\ OfGroup(g2, k) = OfGroup(g, k)
                           \/ GroupWhole(OfGroup(rows2, k), OfGroup(g2, k), k)
    PROVE  Groups(rows2, g2)
  <1>1. ASSUME NEW k \in Keys PROVE GroupWhole(OfGroup(rows2, k), OfGroup(g2, k), k)
    BY DEF Groups
  <1> QED BY <1>1 DEF Groups

\* A key that no event has names no group.
LEMMA FreshGroup ==
    ASSUME Groups(events, grouped), NEW k \in Keys, FreshKey(k)
    PROVE  OfGroup(events, k) = {} /\ OfGroup(grouped, k) = {}
  <1>1. GroupWhole(OfGroup(events, k), OfGroup(grouped, k), k)
    BY DEF Groups
  <1>2. OfGroup(events, k) = {}
    BY <1>1 DEF GroupWhole, FreshKey, OfGroup
  <1> QED BY <1>1, <1>2 DEF GroupWhole

\* What is not in a group may come and go.
LEMMA GroupsUngrouped ==
    ASSUME Groups(events, grouped), NEW rows2,
           \A e \in rows2 \ events : e.group = NoKey /\ e.type \in Ordinary,
           \A e \in events \ rows2 : e.group = NoKey
    PROVE  Groups(rows2, grouped)
  <1>1. \A e \in rows2 : e.type \in Corporate => e.group # NoKey
    BY DEF Groups, Corporate, Ordinary
  <1>2. \A k \in Keys : OfGroup(rows2, k) = OfGroup(events, k)
    BY PositionsAssumption DEF OfGroup
  <1> QED BY <1>1, <1>2, GroupsByKey

\* A new group is recorded.
LEMMA GroupsRecorded ==
    ASSUME Groups(events, grouped), NEW k \in Keys, FreshKey(k), NEW R, NEW T,
           \A e \in R : e.group = k, \A t \in T : t.group = k, GroupWhole(R, T, k)
    PROVE  Groups(events \cup R, grouped \cup T)
  <1>1. OfGroup(events, k) = {} /\ OfGroup(grouped, k) = {}
    BY FreshGroup
  <1>2. OfGroup(events \cup R, k) = R /\ OfGroup(grouped \cup T, k) = T
    BY <1>1 DEF OfGroup
  <1>3. \A j \in Keys : j # k => /\ OfGroup(events \cup R, j) = OfGroup(events, j)
                                 /\ OfGroup(grouped \cup T, j) = OfGroup(grouped, j)
    BY DEF OfGroup
  <1>4. \A e \in events \cup R : e.type \in Corporate => e.group # NoKey
    BY PositionsAssumption DEF Groups
  <1> DEFINE rows2 == events \cup R
             g2 == grouped \cup T
  <1>5. \A j \in Keys : \/ OfGroup(rows2, j) = OfGroup(events, j) /\ OfGroup(g2, j) = OfGroup(grouped, j)
                        \/ GroupWhole(OfGroup(rows2, j), OfGroup(g2, j), j)
    BY <1>2, <1>3, Zenon
  <1>6. \A e \in rows2 : e.type \in Corporate => e.group # NoKey
    BY <1>4
  <1> HIDE DEF rows2, g2
  <1>7. Groups(rows2, g2)
    BY <1>5, <1>6, GroupsByKey
  <1> QED BY <1>7 DEF rows2, g2

LEMMA GroupWholeEmpty == ASSUME NEW k PROVE GroupWhole({}, {}, k)
  BY DEF GroupWhole

-----------------------------------------------------------------------------
(* The value of an account, from its events R and transactions T *)

PriceOn(R, p, i, day) ==
  LET splits == {e \in R : e.instrument = i /\ e.type = "split"}
      effective == {d \in Days : p[<<i, d>>] > 0 /\ d <= day /\ \A e \in splits : e.date <= d}
  IN  IF effective = {} THEN 0 ELSE p[<<i, Max(effective)>>]

ReplayedWorth(R, T, c, p, day) ==
  c + SumFunction([t \in T |-> t.amount])
    + SumFunction([e \in R |-> e.cash])
    + SumFunction([i \in Instruments |->
                     canonicalRat(replayPositionEvents(R).holding[i]) * PriceOn(R, p, i, day)])

LEMMA ValueIsWorth ==
    ASSUME NEW rows, NEW c, NEW g, NEW p, NEW a
    PROVE  positionValue(replayPositionEvents(EventsOf(rows, a)).holding, rows, c, g, p, a)
             = ReplayedWorth(EventsOf(rows, a), EventsOf(g, a), c[a], p, today)
  <1>1. \A i \in Instruments : positionPrice(rows, p, a, i) = PriceOn(EventsOf(rows, a), p, i, today)
    BY DEF positionPrice, PriceOn
  <1>2. [i \in Instruments |-> canonicalRat(replayPositionEvents(EventsOf(rows, a)).holding[i])
                                 * positionPrice(rows, p, a, i)]
        = [i \in Instruments |-> canonicalRat(replayPositionEvents(EventsOf(rows, a)).holding[i])
                                 * PriceOn(EventsOf(rows, a), p, i, today)]
    BY <1>1
  <1> QED BY <1>2, Zenon DEF positionValue, ReplayedWorth

\* What rebuilding the values of some accounts does.
LEMMA Recalculated ==
    ASSUME NEW rebuilt \in SUBSET Accounts, NEW rows, NEW c, NEW g, NEW p,
           recalculate(rebuilt, rows, c, g, p)
    PROVE  /\ \A a \in rebuilt :
                /\ validatePositionReplay(rows, a)
                /\ value'[a] = ReplayedWorth(EventsOf(rows, a), EventsOf(g, a), c[a], p, today)
                /\ builtOn'[a] = today
           /\ \A a \in Accounts \ rebuilt : value'[a] = value[a] /\ builtOn'[a] = builtOn[a]
           /\ value \in [Accounts -> Minor] => value' \in [Accounts -> Minor]
           /\ builtOn \in [Accounts -> Days] /\ today \in Days => builtOn' \in [Accounts -> Days]
  <1> DEFINE replayed == [a \in rebuilt |-> replayPositionEvents(EventsOf(rows, a))]
             total == [a \in rebuilt |-> positionValue(replayed[a].holding, rows, c, g, p, a)]
  <1>1. /\ \A a \in rebuilt : replayed[a].ok /\ total[a] \in Minor
        /\ value' = [a \in Accounts |-> IF a \in rebuilt THEN total[a] ELSE value[a]]
        /\ builtOn' = [a \in Accounts |-> IF a \in rebuilt THEN today ELSE builtOn[a]]
    BY Zenon DEF recalculate
  <1>2. \A a \in rebuilt : /\ replayed[a] = replayPositionEvents(EventsOf(rows, a))
                           /\ total[a] = positionValue(replayed[a].holding, rows, c, g, p, a)
    BY Zenon
  <1> HIDE DEF replayed, total
  <1>3. \A a \in rebuilt :
          total[a] = ReplayedWorth(EventsOf(rows, a), EventsOf(g, a), c[a], p, today)
    <2> TAKE a \in rebuilt
    <2>1. total[a] = positionValue(replayPositionEvents(EventsOf(rows, a)).holding, rows, c, g, p, a)
      BY <1>2, Zenon
    <2>2. positionValue(replayPositionEvents(EventsOf(rows, a)).holding, rows, c, g, p, a)
            = ReplayedWorth(EventsOf(rows, a), EventsOf(g, a), c[a], p, today)
      BY ValueIsWorth
    <2> QED BY <2>1, <2>2, Zenon
  <1>4. \A a \in rebuilt : validatePositionReplay(rows, a)
    BY <1>1, <1>2, Zenon DEF validatePositionReplay
  <1> QED BY <1>1, <1>3, <1>4

\* A finite sum of zeros is zero.
LEMMA SumOfZeros ==
    ASSUME NEW S, IsFiniteSet(S), NEW f \in [S -> {0}]
    PROVE  SumFunction(f) = 0
  <1> DEFINE pick == [T \in (SUBSET S) \ {{}} |-> CHOOSE x \in T : TRUE]
             step == [p \in S \X {0} |-> f[p[1]] + p[2]]
             G(h) == [T \in SUBSET S |-> IF T = {} THEN 0
                                         ELSE f[CHOOSE x \in T : TRUE] + h[T \ {CHOOSE x \in T : TRUE}]]
  <1>1. \A T \in SUBSET S : T # {} => (CHOOSE x \in T : TRUE) \in T
    BY Zenon
  <1>2. Picks(pick, S)
    BY <1>1 DEF Picks
  <1>3. step \in [S \X {0} -> {0}]
    OBVIOUS
  <1>4. \A T \in SUBSET S : T # {} => pick[T] = CHOOSE x \in T : TRUE
    OBVIOUS
  <1>5. \A x \in S, y \in {0} : step[<<x, y>>] = f[x] + y
    OBVIOUS
  <1> HIDE DEF pick, step
  <1>6. PICK h : Recurses(h, S, {0}, 0, pick, step)
    BY <1>2, <1>3, FiniteRecursion
  <1>7. \A T \in SUBSET S : T # {} => h[T] = f[CHOOSE x \in T : TRUE] + h[T \ {CHOOSE x \in T : TRUE}]
    <2> SUFFICES ASSUME NEW T \in SUBSET S, T # {}
                 PROVE  h[T] = f[pick[T]] + h[T \ {pick[T]}]
      BY <1>4, Zenon
    <2>1. pick[T] \in S /\ h[T \ {pick[T]}] \in {0}
      BY <1>2, <1>6 DEF Picks, Recurses
    <2>2. h[T] = step[<<pick[T], h[T \ {pick[T]}]>>]
      BY <1>6, Zenon DEF Recurses
    <2> QED BY <1>5, <2>1, <2>2, Zenon
  <1>8. h = G(h)
    BY <1>6, <1>7, Zenon DEF Recurses
  <1>9. ASSUME NEW g, g = G(g) PROVE g = h
    <2>1. h = [T \in SUBSET S |-> h[T]] /\ g = [T \in SUBSET S |-> g[T]]
      BY <1>8, <1>9, Zenon
    <2>2. h[{}] = g[{}]
      BY <1>8, <1>9, Zenon
    <2>3. \A T \in SUBSET S : T # {} => g[T] = f[CHOOSE x \in T : TRUE] + g[T \ {CHOOSE x \in T : TRUE}]
      BY <1>9, Zenon
    <2>4. AgreeByRest(h, g, S, pick)
      <3>1. ASSUME NEW T \in SUBSET S, T # {}, h[T \ {pick[T]}] = g[T \ {pick[T]}]
            PROVE  h[T] = g[T]
        <4>1. /\ h[T] = f[pick[T]] + h[T \ {pick[T]}]
              /\ g[T] = f[pick[T]] + g[T \ {pick[T]}]
          BY <1>4, <1>7, <2>3, <3>1, ZenonT(60)
        <4> QED BY <3>1, <4>1, Zenon
      <3> QED BY <2>2, <3>1, Zenon DEF AgreeByRest
    <2> HIDE DEF G
    <2>5. \A T \in SUBSET S : h[T] = g[T]
      BY <1>2, <2>4, FiniteRecursionUnique
    <2> QED BY <2>1, <2>5, Zenon
  <1>10. SumFunction(f) = h[S]
    <2>1. DOMAIN f = S
      OBVIOUS
    <2>2. SumFunction(f) = (CHOOSE g : g = G(g))[S]
      BY <2>1, Zenon DEF SumFunction, SumFunctionOnSet, FoldFunctionOnSet, MapThenFoldSet
    <2>3. (CHOOSE g : g = G(g)) = h
      BY <1>8, <1>9, Zenon
    <2> QED BY <2>2, <2>3, Zenon
  <1>11. h[S] = 0
    BY <1>6 DEF Recurses
  <1> QED BY <1>10, <1>11

\* p and p2 are tables of prices that differ at most for instrument i.
SameButFor(p2, p, i) ==
  /\ p \in [Instruments \X Days -> Int] /\ p2 \in [Instruments \X Days -> Int]
  /\ \A j \in Instruments \ {i}, d \in Days : p2[<<j, d>>] = p[<<j, d>>]

\* A price of an instrument the account has no events of does not count.
LEMMA PriceOfOthers ==
    ASSUME NEW R \in SUBSET EventType, IsFiniteSet(R), NEW T, NEW c, NEW day \in Days,
           NEW i \in Instruments, \A e \in R : e.instrument # i,
           NEW p, NEW p2, SameButFor(p2, p, i)
    PROVE  ReplayedWorth(R, T, c, p2, day) = ReplayedWorth(R, T, c, p, day)
  <1> USE DEF SameButFor
  <1> DEFINE effective(q, j) ==
               {d \in Days : q[<<j, d>>] > 0 /\ d <= day
                             /\ \A e \in {e \in R : e.instrument = j /\ e.type = "split"} : e.date <= d}
  <1>1. ASSUME NEW q \in [Instruments \X Days -> Int], NEW j \in Instruments, effective(q, j) # {}
        PROVE  Max(effective(q, j)) \in Days
    <2> DEFINE S == effective(q, j)
    <2>1. S \in SUBSET Days /\ Days \in SUBSET Int
      BY DEF Days
    <2>2. IsFiniteSet(Days)
      <3>1. LastDay \in Int
        BY PositionsAssumption
      <3> QED BY <3>1, FS_Interval DEF Days
    <2>3. S # {}
      BY <1>1
    <2> HIDE DEF S
    <2>4. IsFiniteSet(S)
      BY <2>1, <2>2, FS_Subset
    <2>5. Max(S) \in S
      BY <2>1, <2>3, <2>4, MaxOfFinite
    <2>6. Max(S) \in Days
      BY <2>1, <2>5
    <2> QED BY <2>6 DEF S
  <1>2. \A q, j : PriceOn(R, q, j, day)
                    = IF effective(q, j) = {} THEN 0 ELSE q[<<j, Max(effective(q, j))>>]
    BY Zenon DEF PriceOn
  <1>3. \A q \in [Instruments \X Days -> Int], j \in Instruments : PriceOn(R, q, j, day) \in Int
    <2> HIDE DEF effective
    <2> TAKE q \in [Instruments \X Days -> Int], j \in Instruments
    <2>1. CASE effective(q, j) = {}
      <3>1. PriceOn(R, q, j, day) = 0
        BY <1>2, <2>1, Zenon
      <3> QED BY <3>1
    <2>2. CASE effective(q, j) # {}
      <3> DEFINE d == Max(effective(q, j))
      <3>1. d \in Days
        BY <1>1, <2>2
      <3>2. PriceOn(R, q, j, day) = q[<<j, d>>]
        BY <1>2, <2>2
      <3> HIDE DEF d
      <3> QED BY <3>1, <3>2
    <2> QED BY <2>1, <2>2
  <1>4. \A j \in Instruments \ {i} : effective(p2, j) = effective(p, j)
    OBVIOUS
  <1> HIDE DEF effective
  <1>5. \A j \in Instruments \ {i} : PriceOn(R, p2, j, day) = PriceOn(R, p, j, day)
    BY <1>1, <1>2, <1>4, ZenonT(60)
  <1>6. canonicalRat(replayPositionEvents(R).holding[i]) = 0
    BY ReplayUntouched, CanonicalZero
  <1> DEFINE holding == replayPositionEvents(R).holding
             worth(q) == [j \in Instruments |-> canonicalRat(holding[j]) * PriceOn(R, q, j, day)]
  <1>7. canonicalRat(holding[i]) * PriceOn(R, p2, i, day) = canonicalRat(holding[i]) * PriceOn(R, p, i, day)
    <2>1. PriceOn(R, p2, i, day) \in Int /\ PriceOn(R, p, i, day) \in Int
      BY <1>3
    <2> QED BY <1>6, <2>1
  <1>8. worth(p2) = worth(p)
    BY <1>5, <1>7
  <1> QED BY <1>8, Zenon DEF ReplayedWorth

-----------------------------------------------------------------------------
(* The invariant *)

\* The history of every account replays, of archived accounts too.
HistoriesReplay == \A a \in Accounts : validatePositionReplay(events, a)

\* An account that a price or a deletion takes for active still is, or has been
\* written since; and it has seen every account it has to rebuild.
SnapshotKept ==
  /\ open.active \ open.written \subseteq Active
  /\ open.row # NoRow => holders(open.row[1]) \subseteq open.active \cup open.archived
  /\ \A e \in open.doomed : /\ e.type \in Ordinary /\ e.group = NoKey
                            /\ e.account \in open.active \cup open.archived

\* The cached value of an account is what its history replays to.
WorthOf(a) == ReplayedWorth(EventsOf(events, a), EventsOf(grouped, a), cash[a], prices, builtOn[a])
CachedReplay == \A a \in Active \ missed : value[a] = WorthOf(a)

PositionsInv ==
  /\ TypeOK
  /\ Table(events)
  /\ Groups(events, grouped)
  /\ HistoriesReplay
  /\ SnapshotKept
  /\ CachedReplay

\* With no such transaction under way there is nothing to keep.
LEMMA ClosedTyped ==
    ASSUME NEW rows
    PROVE  Closed \in OpenType(rows)
  BY DEF Closed, OpenType

LEMMA NothingOpen ==
    ASSUME open' = Closed
    PROVE  SnapshotKept'
  BY DEF SnapshotKept, Closed

LEMMA PositionsInit ==
    ASSUME Init
    PROVE  PositionsInv
  <1>1. TypeOK
    <2>1. /\ 0 \in Minor /\ 1 \in Days /\ 0 \in Balances /\ 0 \in 0 .. MaxRequests
      BY PositionsAssumption DEF Minor, Days
    <2>2. open \in OpenType(events)
      BY ClosedTyped DEF Init
    <2> QED BY <2>1, <2>2 DEF Init, TypeOK
  <1>2. \A a \in Accounts : EventsOf(events, a) = {} /\ EventsOf(grouped, a) = {}
    BY DEF Init, EventsOf
  <1>3. Table(events)
    BY FS_EmptySet DEF Init, Table, Distinct
  <1>4. Groups(events, grouped)
    BY GroupWholeEmpty DEF Init, Groups, OfGroup
  <1>5. HistoriesReplay
    <2>1. replayPositionEvents({}).ok
      BY ReplayEmpty DEF Nothing
    <2> QED BY <1>2, <2>1, Zenon DEF HistoriesReplay, validatePositionReplay
  <1>6. SnapshotKept
    BY DEF Init, SnapshotKept, Closed
  <1>7. CachedReplay
    <2>1. \A i \in Instruments : canonicalRat(replayPositionEvents({}).holding[i]) = 0
      BY ReplayEmpty, CanonicalZero DEF Nothing
    <2>2. \A i \in Instruments : PriceOn({}, prices, i, 1) = 0
      BY DEF Init, PriceOn
    <2> DEFINE none == [x \in {} |-> 0]
               zeros == [i \in Instruments |-> canonicalRat(replayPositionEvents({}).holding[i])
                                                 * PriceOn({}, prices, i, 1)]
    <2>3. none \in [{} -> {0}] /\ zeros \in [Instruments -> {0}]
      BY <2>1, <2>2
    <2>4. [t \in {} |-> t.amount] = none /\ [e \in {} |-> e.cash] = none
      OBVIOUS
    <2>5. ReplayedWorth({}, {}, 0, prices, 1) = 0 + SumFunction(none) + SumFunction(none) + SumFunction(zeros)
      BY <2>4, Zenon DEF ReplayedWorth
    <2> HIDE DEF none, zeros
    <2>6. SumFunction(none) = 0 /\ SumFunction(zeros) = 0
      BY <2>3, SumOfZeros, FS_EmptySet, PositionsAssumption
    <2>7. ReplayedWorth({}, {}, 0, prices, 1) = 0
      BY <2>5, <2>6
    <2>8. \A a \in Accounts : WorthOf(a) = 0 /\ value[a] = 0
      <3> TAKE a \in Accounts
      <3>1. value[a] = 0 /\ cash[a] = 0 /\ builtOn[a] = 1
        BY DEF Init
      <3> QED BY <1>2, <2>7, <3>1, Zenon DEF WorthOf
    <2> QED BY <2>8 DEF CachedReplay, Active
  <1> QED BY <1>1, <1>3, <1>4, <1>5, <1>6, <1>7 DEF PositionsInv

\* A request that leaves a good table, and nothing of an untouched account
\* changed, keeps the invariant: the rest is what it ends with.
LEMMA Rewritten ==
    ASSUME PositionsInv, Serial, Request,
           NEW touched \in SUBSET Accounts, validateAndRecalculate(touched),
           Table(events'), grouped' \in SUBSET TransactionType, Groups(events', grouped'),
           \A a \in Accounts \ touched : /\ EventsOf(events', a) = EventsOf(events, a)
                                         /\ EventsOf(grouped', a) = EventsOf(grouped, a)
    PROVE  /\ PositionsInv'
           /\ \A a \in Accounts : status[a] # "active" => value'[a] = value[a]
  <1> DEFINE rebuilt == touched \cap Active
  <1>1. /\ recalculate(rebuilt, events', cash, grouped', prices)
        /\ \A a \in touched \ Active : validatePositionReplay(events', a)
        /\ missed' = missed \ touched
        /\ UNCHANGED <<status, cash, instruments, prices, open, today>>
    BY DEF validateAndRecalculate
  <1>2. /\ \A a \in rebuilt :
             /\ validatePositionReplay(events', a)
             /\ value'[a] = ReplayedWorth(EventsOf(events', a), EventsOf(grouped', a), cash[a], prices, today)
             /\ builtOn'[a] = today
        /\ \A a \in Accounts \ rebuilt : value'[a] = value[a] /\ builtOn'[a] = builtOn[a]
        /\ value \in [Accounts -> Minor] => value' \in [Accounts -> Minor]
        /\ builtOn \in [Accounts -> Days] /\ today \in Days => builtOn' \in [Accounts -> Days]
    <2>1. rebuilt \in SUBSET Accounts
      OBVIOUS
    <2> HIDE DEF rebuilt
    <2> QED BY <1>1, <2>1, Recalculated
  <1>3. TypeOK'
    <2>1. requests' \in 0 .. MaxRequests
      BY PositionsAssumption DEF PositionsInv, TypeOK, Request
    <2>2. events' \subseteq EventType
      BY DEF Table
    <2>3. grouped' \subseteq [account: Accounts, amount: Minor, group: Keys]
      BY DEF TransactionType
    <2>4. open' \in OpenType(events')
      BY <1>1, ClosedTyped DEF Serial
    <2> QED BY <1>1, <1>2, <2>1, <2>2, <2>3, <2>4, Zenon DEF PositionsInv, TypeOK
  <1>4. HistoriesReplay'
    <2>1. ASSUME NEW a \in Accounts PROVE validatePositionReplay(events', a)
      <3>1. CASE a \in touched
        BY <1>1, <1>2, <3>1
      <3>2. CASE a \notin touched
        BY <3>2, Zenon DEF PositionsInv, HistoriesReplay, validatePositionReplay
      <3> QED BY <3>1, <3>2
    <2> QED BY <2>1 DEF HistoriesReplay
  <1>5. SnapshotKept'
    BY <1>1, NothingOpen DEF Serial
  <1>6. CachedReplay'
    <2> SUFFICES ASSUME NEW a \in (Active \ missed)' PROVE value'[a] = WorthOf(a)'
      BY DEF CachedReplay
    <2>1. a \in Accounts /\ a \in Active /\ a \notin missed'
      BY <1>1 DEF Active
    <2>2. WorthOf(a)' = ReplayedWorth(EventsOf(events', a), EventsOf(grouped', a), cash[a], prices, builtOn'[a])
      BY <1>1 DEF WorthOf
    <2>3. CASE a \in touched
      BY <1>2, <2>1, <2>2, <2>3
    <2>4. CASE a \notin touched
      <3>1. value'[a] = value[a] /\ builtOn'[a] = builtOn[a] /\ a \notin missed
        BY <1>1, <1>2, <2>1, <2>4
      <3>2. value[a] = ReplayedWorth(EventsOf(events, a), EventsOf(grouped, a), cash[a], prices, builtOn[a])
        BY <2>1, <3>1 DEF PositionsInv, CachedReplay, WorthOf
      <3> QED BY <2>1, <2>2, <2>4, <3>1, <3>2
    <2> QED BY <2>3, <2>4
  <1>7. \A a \in Accounts : status[a] # "active" => value'[a] = value[a]
    BY <1>2 DEF Active
  <1> QED BY <1>3, <1>4, <1>5, <1>6, <1>7 DEF PositionsInv

\* What an archived account has is frozen, if its value and its rows stay.
LEMMA Frozen ==
    ASSUME \A a \in Accounts : status[a] = "archived" /\ status'[a] = "archived" =>
             value'[a] = value[a] /\ EventsOf(events', a) = EventsOf(events, a)
    PROVE  ArchivedStep
  BY DEF ArchivedStep

-----------------------------------------------------------------------------
(* Requests that change events *)

\* A row that stands alone, or with transactions T as a new group.
Single(e, T) ==
  /\ T \in SUBSET TransactionType /\ \A t \in T : t.account = e.account /\ t.group = e.group
  /\ \/ e.group = NoKey /\ e.type \in Ordinary /\ T = {}
     \/ /\ e.group \in Keys /\ FreshKey(e.group) /\ e.key = e.group
        /\ \/ e.type = "split"
           \/ e.type = "spinoff" /\ e.related \in Instruments
           \/ e.type = "buy" /\ \E t \in T : t.amount > 0

\* A request that adds one row.
LEMMA RowRecorded ==
    ASSUME PositionsInv, Serial, Request, NEW e \in Draft, events' = Insert(events, e),
           NEW T, Single(e, T), grouped' = grouped \cup T,
           validateAndRecalculate({e.account}), status[e.account] = "active"
    PROVE  PositionsInv' /\ ArchivedStep
  <1> USE DEF Single
  <1>1. PICK row \in EventType :
            events' = events \cup {row} /\ Same(row, e) /\ Table(events \cup {row})
    BY InsertRow DEF PositionsInv
  <1>2. Table(events') /\ grouped' \in SUBSET TransactionType
    BY <1>1 DEF PositionsInv, TypeOK, TransactionType
  <1>3. \A a \in Accounts \ {e.account} : /\ EventsOf(events', a) = EventsOf(events, a)
                                          /\ EventsOf(grouped', a) = EventsOf(grouped, a)
    BY <1>1 DEF EventsOf, Same
  <1>4. Groups(events', grouped')
    <2>1. CASE e.group = NoKey /\ e.type \in Ordinary /\ T = {}
      <3>1. Groups(events \cup {row}, grouped)
        BY <1>1, <2>1, GroupsUngrouped DEF PositionsInv, Same
      <3>2. grouped' = grouped
        BY <2>1
      <3> QED BY <1>1, <3>1, <3>2
    <2>2. CASE /\ e.group \in Keys /\ FreshKey(e.group) /\ e.key = e.group
               /\ \/ e.type = "split"
                  \/ e.type = "spinoff" /\ e.related \in Instruments
                  \/ e.type = "buy" /\ \E t \in T : t.amount > 0
      <3>1. GroupWhole({row}, T, e.group)
        BY <1>1, <2>2 DEF GroupWhole, Same
      <3>2. Groups(events \cup {row}, grouped \cup T)
        BY <1>1, <2>2, <3>1, GroupsRecorded DEF PositionsInv, Same
      <3> QED BY <1>1, <3>2
    <2> QED BY <2>1, <2>2
  <1>5. {e.account} \in SUBSET Accounts
    BY DEF Draft
  <1>6. /\ PositionsInv'
        /\ \A a \in Accounts : status[a] # "active" => value'[a] = value[a]
    BY <1>2, <1>3, <1>4, <1>5, Rewritten
  <1>7. ArchivedStep
    BY <1>3, <1>6, Frozen
  <1> QED BY <1>6, <1>7

\* The two rows of a transfer or a merger, a new group with transactions T.
Pair(e, f, T, k) ==
  /\ T \in SUBSET TransactionType /\ \A t \in T : t.account = e.account /\ t.group = k
  /\ e.group = k /\ e.key = k /\ f.group = k /\ FreshKey(k)
  /\ \/ /\ e.type = "transfer_out" /\ f.type = "transfer_in"
        /\ e.account # f.account /\ e.quantity = f.quantity
     \/ /\ e.type = "merger_out" /\ f.type = "merger_in"
        /\ e.related = f.instrument /\ f.related = e.instrument

\* A request that adds two rows.
LEMMA PairRecorded ==
    ASSUME PositionsInv, Serial, Request, NEW k \in Keys,
           NEW e \in Draft, NEW f \in Draft, events' = Insert(Insert(events, e), f),
           NEW T, Pair(e, f, T, k), grouped' = grouped \cup T,
           validateAndRecalculate({e.account, f.account}),
           status[e.account] = "active", status[f.account] = "active"
    PROVE  PositionsInv' /\ ArchivedStep
  <1> USE DEF Pair
  <1>1. PICK row \in EventType :
            Insert(events, e) = events \cup {row} /\ Same(row, e) /\ Table(events \cup {row})
    BY InsertRow DEF PositionsInv
  <1>2. PICK row2 \in EventType :
            /\ Insert(events \cup {row}, f) = (events \cup {row}) \cup {row2}
            /\ Same(row2, f) /\ Table((events \cup {row}) \cup {row2})
    BY <1>1, InsertRow
  <1>3. events' = (events \cup {row}) \cup {row2} /\ events' = events \cup {row, row2}
    BY <1>1, <1>2
  <1>4. Table(events') /\ grouped' \in SUBSET TransactionType
    BY <1>2, <1>3 DEF PositionsInv, TypeOK, TransactionType
  <1>5. \A a \in Accounts \ {e.account, f.account} :
          EventsOf(events', a) = EventsOf(events, a) /\ EventsOf(grouped', a) = EventsOf(grouped, a)
    BY <1>1, <1>2, <1>3 DEF EventsOf, Same
  <1>6. GroupWhole({row, row2}, T, k)
    BY <1>1, <1>2 DEF GroupWhole, Same
  <1>7. Groups(events \cup {row, row2}, grouped \cup T)
    BY <1>1, <1>2, <1>6, GroupsRecorded DEF PositionsInv, Same
  <1>8. {e.account, f.account} \in SUBSET Accounts
    BY DEF Draft
  <1>9. /\ PositionsInv'
        /\ \A a \in Accounts : status[a] # "active" => value'[a] = value[a]
    BY <1>3, <1>4, <1>5, <1>7, <1>8, Rewritten
  <1>10. ArchivedStep
    BY <1>5, <1>9, Frozen
  <1> QED BY <1>9, <1>10

LEMMA EventDraft ==
    ASSUME NEW a \in Accounts, NEW i \in Instruments, NEW type \in Ordinary \cup Corporate,
           NEW q \in Int, NEW d \in Days
    PROVE  /\ Event(a, i, type, q, d) \in Draft
           /\ Event(a, i, type, q, d).account = a /\ Event(a, i, type, q, d).instrument = i
           /\ Event(a, i, type, q, d).type = type /\ Event(a, i, type, q, d).quantity = q
           /\ Event(a, i, type, q, d).group = NoKey
  <1>1. 0 \in Minor
    BY PositionsAssumption DEF Minor
  <1> QED BY <1>1 DEF Event, Draft

LEMMA CashEffectType ==
    ASSUME NEW type, NEW s \in Settlements
    PROVE  positionCashEffect(type, s) \in Minor
  BY PositionsAssumption DEF positionCashEffect, Minor

LEMMA SignedIsInt == Signed \subseteq Int /\ Quantities \subseteq Int
  BY PositionsAssumption DEF Signed

LEMMA CreatePositionEventKeeps ==
    ASSUME PositionsInv, NEW a \in Accounts, NEW i \in Instruments, NEW k \in Keys, NEW d \in Days,
           NEW type \in Trades, NEW q \in Signed, NEW s \in Settlements,
           CreatePositionEvent(a, i, k, type, q, s, d)
    PROVE  PositionsInv' /\ ArchivedStep
  <1> DEFINE b == Event(a, i, type, q, d)
             e == [b EXCEPT !.cash = positionCashEffect(type, s), !.key = k]
  <1>1. type \in Ordinary /\ q \in Int
    BY PositionsAssumption, SignedIsInt
  <1>2. b \in Draft /\ b.account = a /\ b.type = type /\ b.group = NoKey
    BY <1>1, EventDraft
  <1>3. positionCashEffect(type, s) \in Minor
    BY CashEffectType
  <1> HIDE DEF b
  <1>4. e \in Draft /\ e.account = a /\ e.type = type /\ e.group = NoKey
    BY <1>2, <1>3 DEF Draft
  <1>5. /\ Serial /\ Request /\ events' = Insert(events, e) /\ validateAndRecalculate({a})
        /\ grouped' = grouped /\ status[a] = "active"
    BY DEF CreatePositionEvent, b
  <1> HIDE DEF e
  <1>6. Single(e, {}) /\ grouped' = grouped \cup {}
    BY <1>1, <1>4, <1>5 DEF Single
  <1>7. validateAndRecalculate({e.account}) /\ status[e.account] = "active"
    BY <1>4, <1>5
  <1> QED BY <1>4, <1>5, <1>6, <1>7, RowRecorded

LEMMA RecordStockSplitKeeps ==
    ASSUME PositionsInv, NEW a \in Accounts, NEW i \in Instruments, NEW k \in Keys, NEW d \in Days,
           NEW ratio \in Ratios, RecordStockSplit(a, i, k, ratio, d)
    PROVE  PositionsInv' /\ ArchivedStep
  <1> DEFINE b == Event(a, i, "split", 0, d)
             e == [b EXCEPT !.ratio = ratio, !.group = k, !.key = k]
  <1>1. b \in Draft /\ b.account = a /\ b.type = "split"
    BY EventDraft DEF Corporate
  <1> HIDE DEF b
  <1>2. e \in Draft /\ e.account = a /\ e.type = "split" /\ e.group = k /\ e.key = k
    BY <1>1 DEF Draft
  <1>3. /\ Serial /\ Request /\ FreshKey(k) /\ status[a] = "active"
        /\ events' = Insert(events, e) /\ validateAndRecalculate({a}) /\ grouped' = grouped
    BY DEF RecordStockSplit, Record, b
  <1> HIDE DEF e
  <1>4. Single(e, {}) /\ grouped' = grouped \cup {}
    BY <1>2, <1>3 DEF Single
  <1>5. validateAndRecalculate({e.account}) /\ status[e.account] = "active"
    BY <1>2, <1>3
  <1> QED BY <1>2, <1>3, <1>4, <1>5, RowRecorded

\* What corporateQuantityAt computes is a fraction.
LEMMA QuantityAtType ==
    ASSUME PositionsInv, NEW a, NEW i \in Instruments, NEW d
    PROVE  quantityAt(a, i, d) \in Rational
  <1> DEFINE rows == {e \in EventsOf(events, a) : e.date <= d}
  <1>1. rows \in SUBSET EventType /\ IsFiniteSet(rows)
    <2>1. rows \in SUBSET events
      BY DEF EventsOf
    <2> QED BY <2>1, FS_Subset DEF PositionsInv, Table
  <1> HIDE DEF rows
  <1>2. replayPositionEvents(rows) \in Replay
    BY <1>1, ReplayType
  <1>3. replayPositionEvents(rows).holding[i] \in Rational
    BY <1>2 DEF Replay
  <1> QED BY <1>3 DEF quantityAt, rows

LEMMA RatiosPositive == Ratios \subseteq (Nat \ {0}) \X (Nat \ {0})
  BY PositionsAssumption

LEMMA RecordSpinoffKeeps ==
    ASSUME PositionsInv, NEW a \in Accounts, NEW source \in Instruments, NEW new \in Instruments,
           NEW k \in Keys, NEW d \in Days, NEW ratio \in Ratios,
           RecordSpinoff(a, source, new, k, ratio, d)
    PROVE  PositionsInv' /\ ArchivedStep
  <1> DEFINE q == canonicalRat(Times(quantityAt(a, source, d), ratio))
             b == Event(a, new, "spinoff", q, d)
             e == [b EXCEPT !.related = source, !.ratio = ratio, !.group = k, !.key = k]
  <1>1. q \in Int
    BY QuantityAtType, TimesType, CanonicalType, RatiosPositive
  <1> HIDE DEF q
  <1>2. b \in Draft /\ b.account = a /\ b.type = "spinoff"
    BY <1>1, EventDraft DEF Corporate
  <1> HIDE DEF b
  <1>3. /\ e \in Draft /\ e.account = a /\ e.type = "spinoff" /\ e.group = k /\ e.key = k
        /\ e.related = source
    BY <1>2 DEF Draft
  <1>4. /\ Serial /\ Request /\ FreshKey(k) /\ status[a] = "active"
        /\ events' = Insert(events, e) /\ validateAndRecalculate({a}) /\ grouped' = grouped
    BY DEF RecordSpinoff, Record, b, q
  <1> HIDE DEF e
  <1>5. Single(e, {}) /\ grouped' = grouped \cup {}
    BY <1>3, <1>4 DEF Single
  <1>6. validateAndRecalculate({e.account}) /\ status[e.account] = "active"
    BY <1>3, <1>4
  <1> QED BY <1>3, <1>4, <1>5, <1>6, RowRecorded

LEMMA RecordMergerKeeps ==
    ASSUME PositionsInv, NEW a \in Accounts, NEW source \in Instruments, NEW new \in Instruments,
           NEW k \in Keys, NEW d \in Days, NEW ratio \in Ratios,
           RecordMerger(a, source, new, k, ratio, d)
    PROVE  PositionsInv' /\ ArchivedStep
  <1> DEFINE q == canonicalRat(quantityAt(a, source, d))
             r == canonicalRat(Times(quantityAt(a, source, d), ratio))
             b == Event(a, source, "merger_out", q, d)
             c == Event(a, new, "merger_in", r, d)
             e == [b EXCEPT !.related = new, !.ratio = ratio, !.group = k, !.key = k]
             f == [c EXCEPT !.related = source, !.ratio = ratio, !.group = k]
  <1>1. q \in Int /\ r \in Int
    BY QuantityAtType, TimesType, CanonicalType, RatiosPositive
  <1> HIDE DEF q, r
  <1>2. /\ b \in Draft /\ b.account = a /\ b.type = "merger_out" /\ b.instrument = source
        /\ c \in Draft /\ c.account = a /\ c.type = "merger_in" /\ c.instrument = new
    <2>1. {"merger_out", "merger_in"} \subseteq Corporate
      BY DEF Corporate
    <2> QED BY <1>1, <2>1, EventDraft
  <1> HIDE DEF b, c
  <1>3. /\ e \in Draft /\ e.account = a /\ e.type = "merger_out" /\ e.group = k /\ e.key = k
        /\ e.instrument = source /\ e.related = new
        /\ f \in Draft /\ f.account = a /\ f.type = "merger_in" /\ f.group = k
        /\ f.instrument = new /\ f.related = source
    BY <1>2 DEF Draft
  <1>4. /\ Serial /\ Request /\ FreshKey(k) /\ status[a] = "active"
        /\ events' = Insert(Insert(events, e), f) /\ validateAndRecalculate({a})
        /\ grouped' = grouped
    BY DEF RecordMerger, Record, b, c, q, r
  <1> HIDE DEF e, f
  <1>5. grouped' = grouped \cup {} /\ Pair(e, f, {}, k)
    BY <1>3, <1>4 DEF Pair
  <1>6. /\ validateAndRecalculate({e.account, f.account})
        /\ status[e.account] = "active" /\ status[f.account] = "active"
    <2>1. {a} = {e.account, f.account}
      BY <1>3
    <2> QED BY <1>3, <1>4, <2>1
  <1> QED BY <1>3, <1>4, <1>5, <1>6, PairRecorded

LEMMA RecordDividendReinvestmentKeeps ==
    ASSUME PositionsInv, NEW a \in Accounts, NEW i \in Instruments, NEW k \in Keys, NEW d \in Days,
           NEW q \in Quantities, NEW dividend \in Settlements, NEW s \in Settlements,
           RecordDividendReinvestment(a, i, k, q, dividend, s, d)
    PROVE  PositionsInv' /\ ArchivedStep
  <1> DEFINE b == Event(a, i, "buy", q, d)
             e == [b EXCEPT !.cash = positionCashEffect("buy", s), !.group = k, !.key = k]
             t == Transaction(a, dividend, k)
  <1>1. b \in Draft /\ b.account = a /\ b.type = "buy"
    BY EventDraft, SignedIsInt DEF Ordinary
  <1>2. positionCashEffect("buy", s) \in Minor
    BY CashEffectType
  <1> HIDE DEF b
  <1>3. e \in Draft /\ e.account = a /\ e.type = "buy" /\ e.group = k /\ e.key = k
    BY <1>1, <1>2 DEF Draft
  <1>4. {t} \in SUBSET TransactionType /\ t.account = a /\ t.group = k /\ t.amount > 0
    BY PositionsAssumption DEF Transaction, TransactionType, Minor
  <1>5. /\ Serial /\ Request /\ FreshKey(k) /\ status[a] = "active"
        /\ events' = Insert(events, e) /\ validateAndRecalculate({a}) /\ grouped' = grouped \cup {t}
    BY DEF RecordDividendReinvestment, Record, b
  <1> HIDE DEF e, t
  <1>6. Single(e, {t})
    BY <1>3, <1>4, <1>5 DEF Single
  <1>7. validateAndRecalculate({e.account}) /\ status[e.account] = "active"
    BY <1>3, <1>5
  <1> QED BY <1>3, <1>5, <1>6, <1>7, RowRecorded

LEMMA RecordInKindTransferKeeps ==
    ASSUME PositionsInv, NEW from \in Accounts, NEW to \in Accounts, NEW i \in Instruments,
           NEW k \in Keys, NEW d \in Days, NEW q \in Quantities, NEW fee \in Settlements \cup {0},
           RecordInKindTransfer(from, to, i, k, q, fee, d)
    PROVE  PositionsInv' /\ ArchivedStep
  <1> DEFINE b == Event(from, i, "transfer_out", q, d)
             c == Event(to, i, "transfer_in", q, d)
             e == [b EXCEPT !.group = k, !.key = k]
             f == [c EXCEPT !.group = k]
             T == IF fee = 0 THEN {} ELSE {Transaction(from, -fee, k)}
  <1>1. /\ b \in Draft /\ b.account = from /\ b.type = "transfer_out" /\ b.quantity = q
        /\ c \in Draft /\ c.account = to /\ c.type = "transfer_in" /\ c.quantity = q
    <2>1. {"transfer_out", "transfer_in"} \subseteq Corporate /\ q \in Int
      BY SignedIsInt DEF Corporate
    <2> QED BY <2>1, EventDraft
  <1> HIDE DEF b, c
  <1>2. /\ e \in Draft /\ e.account = from /\ e.type = "transfer_out" /\ e.group = k /\ e.key = k
        /\ f \in Draft /\ f.account = to /\ f.type = "transfer_in" /\ f.group = k
        /\ e.quantity = f.quantity
    BY <1>1, ZenonT(60) DEF Draft
  <1>3. T \in SUBSET TransactionType /\ \A t \in T : t.account = from /\ t.group = k
    BY PositionsAssumption DEF Transaction, TransactionType, Minor
  <1>4. /\ Serial /\ Request /\ FreshKey(k) /\ from # to
        /\ status[from] = "active" /\ status[to] = "active"
        /\ events' = Insert(Insert(events, e), f) /\ validateAndRecalculate({from, to})
        /\ grouped' = grouped \cup T
    BY DEF RecordInKindTransfer, Record, b, c
  <1> HIDE DEF e, f, T
  <1>5. Pair(e, f, T, k)
    BY <1>2, <1>3, <1>4 DEF Pair
  <1>6. /\ validateAndRecalculate({e.account, f.account})
        /\ status[e.account] = "active" /\ status[f.account] = "active"
    BY <1>2, <1>4
  <1> QED BY <1>2, <1>4, <1>5, <1>6, PairRecorded

LEMMA UpdatePositionEventKeeps ==
    ASSUME PositionsInv, NEW e \in events, NEW i \in Instruments, NEW d \in Days,
           NEW type \in Trades, NEW q \in Signed, NEW s \in Settlements,
           UpdatePositionEvent(e, i, type, q, s, d)
    PROVE  PositionsInv' /\ ArchivedStep
  <1> DEFINE moved == [e EXCEPT !.instrument = i, !.type = type, !.quantity = q, !.date = d,
                                !.cash = positionCashEffect(type, s)]
             rest == events \ {e}
  <1>1. /\ Serial /\ Request /\ validateAndRecalculate({e.account}) /\ grouped' = grouped
        /\ e.group = NoKey /\ status[e.account] = "active"
        /\ events' = IF d = e.date THEN rest \cup {moved} ELSE Insert(rest, moved)
    BY Zenon DEF UpdatePositionEvent
  <1>2. /\ type \in Ordinary /\ q \in Int /\ positionCashEffect(type, s) \in Minor /\ e \in EventType
    BY PositionsAssumption, SignedIsInt, CashEffectType DEF PositionsInv, Table
  <1>3. /\ moved \in EventType /\ moved \in Draft
        /\ moved.account = e.account /\ moved.group = NoKey /\ moved.type = type
        /\ moved.date = d /\ moved.sequence = e.sequence
    BY <1>1, <1>2 DEF EventType, Draft
  <1>4. Table(rest)
    BY FS_RemoveElement DEF PositionsInv, Table, Distinct
  <1> HIDE DEF moved, rest
  <1>5. PICK row \in EventType :
            events' = rest \cup {row} /\ Table(rest \cup {row})
            /\ row.account = e.account /\ row.group = NoKey /\ row.type = type
    <2>1. CASE d = e.date
      <3>1. events' = rest \cup {moved}
        BY <1>1, <2>1
      <3>2. \A f \in rest : ~(f.account = moved.account /\ f.date = moved.date /\ f.sequence = moved.sequence)
        BY <1>3, <2>1 DEF PositionsInv, Table, Distinct, rest
      <3>3. Distinct(rest \cup {moved})
        BY <1>4, <3>2 DEF Distinct, Table
      <3>4. IsFiniteSet(rest \cup {moved})
        BY <1>4, FS_AddElement DEF Table
      <3>5. Table(rest \cup {moved})
        BY <1>3, <1>4, <3>3, <3>4 DEF Table
      <3> QED BY <1>3, <3>1, <3>5
    <2>2. CASE d # e.date
      <3>1. events' = Insert(rest, moved)
        BY <1>1, <2>2
      <3>2. PICK row \in EventType :
                Insert(rest, moved) = rest \cup {row} /\ Same(row, moved) /\ Table(rest \cup {row})
        BY <1>3, <1>4, InsertRow
      <3> QED BY <1>3, <3>1, <3>2 DEF Same
    <2> QED BY <2>1, <2>2
  <1>6. Groups(events', grouped')
    <2>1. \A f \in events' \ events : f.group = NoKey /\ f.type \in Ordinary
      BY <1>2, <1>5 DEF rest
    <2>2. \A f \in events \ events' : f.group = NoKey
      BY <1>1, <1>5 DEF rest
    <2> QED BY <1>1, <2>1, <2>2, GroupsUngrouped DEF PositionsInv
  <1>7. \A a \in Accounts \ {e.account} : /\ EventsOf(events', a) = EventsOf(events, a)
                                          /\ EventsOf(grouped', a) = EventsOf(grouped, a)
    BY <1>1, <1>5 DEF EventsOf, rest
  <1>8. {e.account} \in SUBSET Accounts
    BY <1>2 DEF EventType
  <1>9. Table(events') /\ grouped' \in SUBSET TransactionType
    BY <1>1, <1>5 DEF PositionsInv, TypeOK, TransactionType
  <1>10. /\ PositionsInv'
         /\ \A a \in Accounts : status[a] # "active" => value'[a] = value[a]
    BY <1>1, <1>6, <1>7, <1>8, <1>9, Rewritten
  <1>11. ArchivedStep
    BY <1>1, <1>7, <1>10, Frozen
  <1> QED BY <1>10, <1>11

\* A subset of a table is a table.
LEMMA SubTable ==
    ASSUME NEW rows, Table(rows), NEW S \in SUBSET rows
    PROVE  Table(S)
  BY FS_Subset DEF Table, Distinct

LEMMA DeleteGroupKeeps ==
    ASSUME PositionsInv, NEW k \in Keys, DeleteGroup(k)
    PROVE  PositionsInv' /\ ArchivedStep
  <1> DEFINE touched == {e.account : e \in OfGroup(events, k)}
  <1>1. /\ Serial /\ Request /\ validateAndRecalculate(touched)
        /\ events' = events \ OfGroup(events, k) /\ grouped' = grouped \ OfGroup(grouped, k)
        /\ \A a \in touched : status[a] = "active"
    BY DEF DeleteGroup
  <1>2. Table(events') /\ grouped' \in SUBSET TransactionType
    <2>1. Table(events \ OfGroup(events, k))
      BY SubTable DEF PositionsInv
    <2> QED BY <1>1, <2>1 DEF PositionsInv, TypeOK, TransactionType
  <1>3. Groups(events', grouped')
    <2>1. OfGroup(events', k) = {} /\ OfGroup(grouped', k) = {}
      BY <1>1 DEF OfGroup
    <2>2. \A j \in Keys : j # k => /\ OfGroup(events', j) = OfGroup(events, j)
                                   /\ OfGroup(grouped', j) = OfGroup(grouped, j)
      BY <1>1 DEF OfGroup
    <2>3. \A j \in Keys : \/ OfGroup(events', j) = OfGroup(events, j) /\ OfGroup(grouped', j) = OfGroup(grouped, j)
                          \/ GroupWhole(OfGroup(events', j), OfGroup(grouped', j), j)
      BY <2>1, <2>2, GroupWholeEmpty
    <2>4. \A e \in events' : e.type \in Corporate => e.group # NoKey
      BY <1>1 DEF PositionsInv, Groups
    <2> QED BY <2>3, <2>4, GroupsByKey DEF PositionsInv
  <1>4. \A t \in OfGroup(grouped, k) : t.account \in touched
    BY DEF PositionsInv, Groups, GroupWhole
  <1>5. \A a \in Accounts \ touched : /\ EventsOf(events', a) = EventsOf(events, a)
                                      /\ EventsOf(grouped', a) = EventsOf(grouped, a)
    BY <1>1, <1>4 DEF EventsOf
  <1>6. touched \in SUBSET Accounts
    BY DEF PositionsInv, Table, EventType, OfGroup
  <1> HIDE DEF touched
  <1>7. /\ PositionsInv'
        /\ \A a \in Accounts : status[a] # "active" => value'[a] = value[a]
    BY <1>1, <1>2, <1>3, <1>5, <1>6, Rewritten
  <1>8. ArchivedStep
    BY <1>1, <1>5, <1>7, Frozen
  <1> QED BY <1>7, <1>8

-----------------------------------------------------------------------------
(* Requests that leave events alone, and the ledger's *)

\* Where the records of the accounts do not change, neither does what is true of them.
LEMMA RecordsKept ==
    ASSUME PositionsInv, UNCHANGED <<status, cash, grouped, events, prices, accountVars>>
    PROVE  /\ Table(events') /\ Groups(events', grouped') /\ HistoriesReplay' /\ CachedReplay'
           /\ ArchivedStep
  <1>1. /\ status' = status /\ cash' = cash /\ grouped' = grouped /\ events' = events
        /\ prices' = prices /\ value' = value /\ builtOn' = builtOn /\ missed' = missed
    BY DEF accountVars
  <1>2. HistoriesReplay'
    BY <1>1 DEF PositionsInv, HistoriesReplay
  <1>3. CachedReplay'
    BY <1>1 DEF PositionsInv, CachedReplay, WorthOf, Active
  <1>4. ArchivedStep
    BY <1>1, Frozen
  <1> QED BY <1>1, <1>2, <1>3, <1>4 DEF PositionsInv

LEMMA RequestCounts ==
    ASSUME TypeOK, Request
    PROVE  requests' \in 0 .. MaxRequests
  BY PositionsAssumption DEF TypeOK, Request

LEMMA SetInstrumentArchivedKeeps ==
    ASSUME PositionsInv, NEW i \in Instruments, NEW archived \in BOOLEAN,
           SetInstrumentArchived(i, archived)
    PROVE  PositionsInv' /\ ArchivedStep
  <1>1. /\ UNCHANGED <<status, cash, grouped, events, prices, open, today, accountVars>>
        /\ Request /\ instruments' = [instruments EXCEPT ![i] = IF archived THEN "archived" ELSE "active"]
    BY DEF SetInstrumentArchived
  <1>2. TypeOK'
    <2>1. instruments' \in [Instruments -> {"active", "archived", "deleted"}]
      BY <1>1 DEF PositionsInv, TypeOK
    <2> QED BY <1>1, <2>1, RequestCounts, Zenon DEF PositionsInv, TypeOK, accountVars
  <1>3. SnapshotKept'
    BY <1>1 DEF PositionsInv, SnapshotKept, Serial, Active, holders
  <1> QED BY <1>1, <1>2, <1>3, RecordsKept DEF PositionsInv

LEMMA NextDayKeeps ==
    ASSUME PositionsInv, NextDay
    PROVE  PositionsInv' /\ ArchivedStep
  <1>1. /\ UNCHANGED <<status, cash, grouped, events, instruments, prices, open, accountVars, requests>>
        /\ today < LastDay /\ today' = today + 1
    BY DEF NextDay
  <1>2. TypeOK'
    <2>1. today' \in Days
      BY <1>1, PositionsAssumption DEF PositionsInv, TypeOK, Days
    <2> QED BY <1>1, <2>1, Zenon DEF PositionsInv, TypeOK, accountVars
  <1>3. SnapshotKept'
    BY <1>1 DEF PositionsInv, SnapshotKept, Serial, Active, holders
  <1> QED BY <1>1, <1>2, <1>3, RecordsKept DEF PositionsInv

LEMMA StutterKeeps ==
    ASSUME PositionsInv, UNCHANGED vars
    PROVE  PositionsInv' /\ ArchivedStep
  <1>1. TypeOK'
    BY Zenon DEF PositionsInv, TypeOK, vars, accountVars
  <1>2. SnapshotKept'
    BY DEF PositionsInv, SnapshotKept, Serial, Active, holders, vars
  <1> QED BY <1>1, <1>2, RecordsKept DEF PositionsInv, vars

\* Where only prices of an instrument that an account does not hold change,
\* its cached value stays what its history replays to.
LEMMA WorthWithoutInstrument ==
    ASSUME PositionsInv, NEW a \in Accounts, NEW i \in Instruments, a \notin holders(i),
           NEW p \in [Instruments \X Days -> Prices \cup {0}],
           \A j \in Instruments \ {i}, d \in Days : p[<<j, d>>] = prices[<<j, d>>]
    PROVE  ReplayedWorth(EventsOf(events, a), EventsOf(grouped, a), cash[a], p, builtOn[a]) = WorthOf(a)
  <1> DEFINE R == EventsOf(events, a)
  <1>1. R \in SUBSET EventType /\ IsFiniteSet(R) /\ \A e \in R : e.instrument # i
    <2>1. R \in SUBSET events
      BY DEF EventsOf
    <2>2. \A e \in R : e.instrument # i
      BY DEF EventsOf, holders
    <2> QED BY <2>1, <2>2, FS_Subset DEF PositionsInv, Table
  <1>2. SameButFor(p, prices, i) /\ builtOn[a] \in Days
    <2>1. Prices \cup {0} \subseteq Int
      BY PositionsAssumption
    <2> QED BY <2>1 DEF PositionsInv, TypeOK, SameButFor
  <1> HIDE DEF R
  <1>3. ReplayedWorth(R, EventsOf(grouped, a), cash[a], p, builtOn[a])
          = ReplayedWorth(R, EventsOf(grouped, a), cash[a], prices, builtOn[a])
    BY <1>1, <1>2, PriceOfOthers
  <1> QED BY <1>3 DEF WorthOf, R

LEMMA DeleteInstrumentKeeps ==
    ASSUME PositionsInv, NEW i \in Instruments, DeleteInstrument(i)
    PROVE  PositionsInv' /\ ArchivedStep
  <1>1. /\ UNCHANGED <<status, cash, grouped, events, open, today, accountVars>>
        /\ Request /\ instruments' = [instruments EXCEPT ![i] = "deleted"]
        /\ \A e \in events : i \notin {e.instrument, e.related}
        /\ prices' = [r \in Instruments \X Days |-> IF r[1] = i THEN 0 ELSE prices[r]]
    BY DEF DeleteInstrument
  <1>2. prices' \in [Instruments \X Days -> Prices \cup {0}]
    BY <1>1 DEF PositionsInv, TypeOK
  <1>3. TypeOK'
    <2>1. instruments' \in [Instruments -> {"active", "archived", "deleted"}]
      BY <1>1 DEF PositionsInv, TypeOK
    <2> QED BY <1>1, <1>2, <2>1, RequestCounts, Zenon DEF PositionsInv, TypeOK, accountVars
  <1>4. SnapshotKept'
    BY <1>1 DEF PositionsInv, SnapshotKept, Serial, Active, holders
  <1>5. CachedReplay'
    <2> SUFFICES ASSUME NEW a \in (Active \ missed)' PROVE value'[a] = WorthOf(a)'
      BY DEF CachedReplay
    <2>1. a \in Accounts /\ a \in Active \ missed /\ a \notin holders(i)
      BY <1>1 DEF Active, holders, accountVars
    <2>2. \A j \in Instruments \ {i}, d \in Days : prices'[<<j, d>>] = prices[<<j, d>>]
      BY <1>1
    <2>3. ReplayedWorth(EventsOf(events, a), EventsOf(grouped, a), cash[a], prices', builtOn[a]) = WorthOf(a)
      BY <1>2, <2>1, <2>2, WorthWithoutInstrument
    <2>4. WorthOf(a)' = ReplayedWorth(EventsOf(events, a), EventsOf(grouped, a), cash[a], prices', builtOn[a])
      BY <1>1 DEF WorthOf, accountVars
    <2>5. value'[a] = value[a] /\ value[a] = WorthOf(a)
      BY <1>1, <2>1 DEF PositionsInv, CachedReplay, accountVars
    <2> QED BY <2>3, <2>4, <2>5
  <1>6. Table(events') /\ Groups(events', grouped') /\ HistoriesReplay'
    BY <1>1 DEF PositionsInv, HistoriesReplay
  <1>7. ArchivedStep
    BY <1>1, Frozen DEF accountVars
  <1> QED BY <1>3, <1>4, <1>5, <1>6, <1>7 DEF PositionsInv

\* A transaction that takes its snapshot leaves the tables alone.
LEMMA BeginKeeps ==
    ASSUME PositionsInv, Request, NEW row \in (Instruments \X Days) \cup {NoRow},
           NEW p \in Prices \cup {0}, NEW doomed \in SUBSET events, NEW touched \in SUBSET Accounts,
           begin(row, p, doomed, touched), row # NoRow => holders(row[1]) \subseteq touched,
           \A e \in doomed : e.type \in Ordinary /\ e.group = NoKey /\ e.account \in touched
    PROVE  PositionsInv' /\ ArchivedStep
  <1>1. /\ UNCHANGED <<status, cash, grouped, events, instruments, prices, today, accountVars>>
        /\ open' = [row |-> row, price |-> p, doomed |-> doomed, active |-> touched \cap Active,
                    archived |-> touched \ Active, written |-> {}]
    BY DEF begin
  <1>2. open' \in OpenType(events')
    BY <1>1 DEF OpenType
  <1>3. TypeOK'
    BY <1>1, <1>2, RequestCounts, Zenon DEF PositionsInv, TypeOK, accountVars
  <1>4. SnapshotKept'
    BY <1>1 DEF SnapshotKept, Active, holders
  <1> QED BY <1>1, <1>3, <1>4, RecordsKept DEF PositionsInv

LEMMA beginPriceKeeps ==
    ASSUME PositionsInv, NEW i \in Instruments, NEW d \in Days, NEW p \in Prices \cup {0},
           beginPrice(i, d, p)
    PROVE  PositionsInv' /\ ArchivedStep
  <1> DEFINE row == <<i, d>>
  <1>1. Request /\ begin(row, p, {}, holders(i))
    BY DEF beginPrice
  <1>2. holders(i) \in SUBSET Accounts
    BY DEF holders, PositionsInv, Table, EventType
  <1>3. row \in (Instruments \X Days) \cup {NoRow} /\ row[1] = i
    OBVIOUS
  <1> HIDE DEF row
  <1> QED BY <1>1, <1>2, <1>3, BeginKeeps

LEMMA beginDeleteKeeps ==
    ASSUME PositionsInv, NEW e \in events, beginDelete(e)
    PROVE  PositionsInv' /\ ArchivedStep
  <1>1. Request /\ begin(NoRow, 0, {e}, {e.account}) /\ e.type \in Ordinary /\ e.group = NoKey
    BY DEF beginDelete
  <1>2. {e.account} \in SUBSET Accounts
    BY DEF PositionsInv, Table, EventType
  <1> QED BY <1>1, <1>2, BeginKeeps

LEMMA abortKeeps ==
    ASSUME PositionsInv, abort
    PROVE  PositionsInv' /\ ArchivedStep
  <1>1. /\ UNCHANGED <<status, cash, grouped, events, instruments, prices, today, accountVars, requests>>
        /\ open' = Closed
    BY DEF abort
  <1>2. open' \in OpenType(events')
    BY <1>1, ClosedTyped
  <1>3. TypeOK'
    BY <1>1, <1>2, Zenon DEF PositionsInv, TypeOK, accountVars
  <1>4. SnapshotKept'
    BY <1>1, NothingOpen
  <1> QED BY <1>1, <1>3, <1>4, RecordsKept DEF PositionsInv

\* A commit rebuilds the accounts that were active in its snapshot: they still
\* are.  It keeps the invariant if it leaves a good table of histories that
\* replay, and the worth of every other account that is right before and after.
LEMMA CommitKeeps ==
    ASSUME PositionsInv, commit(events', prices'),
           prices' \in [Instruments \X Days -> Prices \cup {0}], events' \in SUBSET events,
           Groups(events', grouped), HistoriesReplay',
           \A e \in events \ events' : e.group = NoKey,
           \A a \in Active \ (missed \cup open.active \cup open.archived) :
             ReplayedWorth(EventsOf(events', a), EventsOf(grouped, a), cash[a], prices', builtOn[a]) = WorthOf(a)
    PROVE  PositionsInv' /\ ArchivedStep
  <1>1. /\ open.active \cap open.written = {}
        /\ recalculate(open.active, events', cash, grouped, prices')
        /\ missed' = (missed \ open.active) \cup (open.archived \cap Active)
        /\ open' = Closed
        /\ UNCHANGED <<status, cash, grouped, instruments, today, requests>>
    BY DEF commit
  <1>2. open.active \in SUBSET Accounts /\ open.archived \in SUBSET Accounts
    BY DEF PositionsInv, TypeOK, OpenType
  <1>3. /\ \A a \in open.active :
             /\ value'[a] = ReplayedWorth(EventsOf(events', a), EventsOf(grouped, a), cash[a], prices', today)
             /\ builtOn'[a] = today
        /\ \A a \in Accounts \ open.active : value'[a] = value[a] /\ builtOn'[a] = builtOn[a]
        /\ value \in [Accounts -> Minor] => value' \in [Accounts -> Minor]
        /\ builtOn \in [Accounts -> Days] /\ today \in Days => builtOn' \in [Accounts -> Days]
    <2> DEFINE rebuilt == open.active
    <2>1. rebuilt \in SUBSET Accounts /\ recalculate(rebuilt, events', cash, grouped, prices')
      BY <1>1, <1>2
    <2> HIDE DEF rebuilt
    <2>2. /\ \A a \in rebuilt :
               /\ validatePositionReplay(events', a)
               /\ value'[a] = ReplayedWorth(EventsOf(events', a), EventsOf(grouped, a), cash[a], prices', today)
               /\ builtOn'[a] = today
          /\ \A a \in Accounts \ rebuilt : value'[a] = value[a] /\ builtOn'[a] = builtOn[a]
          /\ value \in [Accounts -> Minor] => value' \in [Accounts -> Minor]
          /\ builtOn \in [Accounts -> Days] /\ today \in Days => builtOn' \in [Accounts -> Days]
      BY <2>1, Recalculated
    <2> QED BY <2>2 DEF rebuilt
  <1>4. Table(events')
    BY SubTable DEF PositionsInv
  <1>5. TypeOK'
    <2>1. missed' \subseteq Accounts
      BY <1>1, <1>2 DEF PositionsInv, TypeOK
    <2>2. open' \in OpenType(events')
      BY <1>1, ClosedTyped
    <2>3. events' \subseteq EventType
      BY <1>4 DEF Table
    <2> QED BY <1>1, <1>3, <2>1, <2>2, <2>3, Zenon DEF PositionsInv, TypeOK
  <1>6. SnapshotKept'
    BY <1>1, NothingOpen
  <1>7. CachedReplay'
    <2> SUFFICES ASSUME NEW a \in (Active \ missed)' PROVE value'[a] = WorthOf(a)'
      BY DEF CachedReplay
    <2>1. a \in Accounts /\ a \in Active /\ a \notin missed'
      BY <1>1 DEF Active
    <2>2. WorthOf(a)' = ReplayedWorth(EventsOf(events', a), EventsOf(grouped, a), cash[a], prices', builtOn'[a])
      BY <1>1 DEF WorthOf
    <2>3. CASE a \in open.active
      BY <1>3, <2>2, <2>3
    <2>4. CASE a \notin open.active
      <3>1. a \notin missed /\ a \notin open.archived
        BY <1>1, <2>1, <2>4
      <3>2. value'[a] = value[a] /\ builtOn'[a] = builtOn[a] /\ value[a] = WorthOf(a)
        BY <1>3, <2>1, <2>4, <3>1 DEF PositionsInv, CachedReplay
      <3> QED BY <2>1, <2>2, <2>4, <3>1, <3>2
    <2> QED BY <2>3, <2>4
  <1>8. ArchivedStep
    <2>1. \A a \in open.active : a \in Active
      BY <1>1 DEF PositionsInv, SnapshotKept
    <2>2. \A a \in Accounts : status[a] = "archived" => value'[a] = value[a]
      BY <1>3, <2>1 DEF Active
    <2> QED BY <2>2 DEF ArchivedStep, EventsOf
  <1>9. Groups(events', grouped')
    BY <1>1
  <1> QED BY <1>4, <1>5, <1>6, <1>7, <1>8, <1>9 DEF PositionsInv

LEMMA commitPriceKeeps ==
    ASSUME PositionsInv, commitPrice
    PROVE  PositionsInv' /\ ArchivedStep
  <1>1. /\ open.row # NoRow /\ prices' = [prices EXCEPT ![open.row] = open.price]
        /\ commit(events, prices') /\ events' = events
    BY DEF commitPrice
  <1>2. open.row \in Instruments \X Days /\ open.price \in Prices \cup {0}
    BY <1>1 DEF PositionsInv, TypeOK, OpenType
  <1>3. prices' \in [Instruments \X Days -> Prices \cup {0}]
    BY <1>1, <1>2 DEF PositionsInv, TypeOK
  <1>4. ASSUME NEW a \in Active \ (missed \cup open.active \cup open.archived)
        PROVE  ReplayedWorth(EventsOf(events', a), EventsOf(grouped, a), cash[a], prices', builtOn[a]) = WorthOf(a)
    <2>1. a \in Accounts /\ a \notin holders(open.row[1]) /\ open.row[1] \in Instruments
      BY <1>1, <1>2 DEF PositionsInv, SnapshotKept, Active
    <2>2. \A j \in Instruments \ {open.row[1]}, d \in Days : prices'[<<j, d>>] = prices[<<j, d>>]
      BY <1>1, <1>2 DEF PositionsInv, TypeOK
    <2>3. ReplayedWorth(EventsOf(events, a), EventsOf(grouped, a), cash[a], prices', builtOn[a]) = WorthOf(a)
      BY <1>3, <2>1, <2>2, WorthWithoutInstrument
    <2> QED BY <1>1, <2>3
  <1>5. /\ commit(events', prices') /\ events' \in SUBSET events /\ Groups(events', grouped)
        /\ HistoriesReplay' /\ \A e \in events \ events' : e.group = NoKey
    BY <1>1 DEF PositionsInv, HistoriesReplay
  <1> QED BY <1>3, <1>4, <1>5, CommitKeeps

LEMMA commitDeleteKeeps ==
    ASSUME PositionsInv, commitDelete
    PROVE  PositionsInv' /\ ArchivedStep
  <1>1. /\ events' = events \ open.doomed /\ prices' = prices
        /\ \A e \in open.doomed : validatePositionReplay(events', e.account)
        /\ commit(events', prices)
    BY DEF commitDelete
  <1>2. \A e \in open.doomed : /\ e \in events /\ e.group = NoKey
                               /\ e.account \in open.active \cup open.archived
    BY DEF PositionsInv, TypeOK, OpenType, SnapshotKept
  <1>3. \A e \in events' \ events : FALSE
    BY <1>1
  <1>4. Groups(events', grouped)
    BY <1>1, <1>2, <1>3, GroupsUngrouped DEF PositionsInv
  <1>5. ASSUME NEW a \in Accounts PROVE validatePositionReplay(events', a)
    <2>1. CASE \E e \in open.doomed : e.account = a
      BY <1>1, <2>1
    <2>2. CASE ~\E e \in open.doomed : e.account = a
      <3>1. EventsOf(events', a) = EventsOf(events, a)
        BY <1>1, <2>2 DEF EventsOf
      <3> QED BY <3>1, Zenon DEF PositionsInv, HistoriesReplay, validatePositionReplay
    <2> QED BY <2>1, <2>2
  <1>6. ASSUME NEW a \in Active \ (missed \cup open.active \cup open.archived)
        PROVE  ReplayedWorth(EventsOf(events', a), EventsOf(grouped, a), cash[a], prices', builtOn[a]) = WorthOf(a)
    <2>1. EventsOf(events', a) = EventsOf(events, a)
      BY <1>1, <1>2 DEF EventsOf
    <2> QED BY <1>1, <2>1 DEF WorthOf
  <1>7. /\ commit(events', prices') /\ events' \in SUBSET events /\ HistoriesReplay'
        /\ \A e \in events \ events' : e.group = NoKey
        /\ prices' \in [Instruments \X Days -> Prices \cup {0}]
    BY <1>1, <1>2, <1>5 DEF HistoriesReplay, PositionsInv, TypeOK
  <1> QED BY <1>4, <1>6, <1>7, CommitKeeps

\* What a request of the ledger does to a price being written or an event being
\* deleted.
LEMMA WrittenKeeps ==
    ASSUME TypeOK, NEW a \in Accounts, Written(a)
    PROVE  /\ \A rows : open.doomed \in SUBSET rows => open' \in OpenType(rows)
           /\ open'.active = open.active /\ open'.archived = open.archived
           /\ open'.row = open.row /\ open'.doomed = open.doomed
           /\ Serial => open' = Closed
           /\ open.written \subseteq open'.written
           /\ ~Serial => a \in open'.written
  <1>1. CASE Serial
    BY <1>1 DEF Written, Serial, TypeOK, OpenType
  <1>2. CASE ~Serial
    <2>1. open \in OpenType(events)
      BY <1>2 DEF TypeOK
    <2>2. open' = [open EXCEPT !.written = @ \cup {a}]
      BY <1>2 DEF Written
    <2> QED BY <1>2, <2>1, <2>2 DEF OpenType
  <1> QED BY <1>1, <1>2

\* It keeps the snapshot, if only accounts it writes stop being active, and
\* no account gets events.
LEMMA SnapshotWritten ==
    ASSUME PositionsInv, NEW a \in Accounts, Written(a), Active \ {a} \subseteq Active',
           \A i : holders(i)' \subseteq holders(i)
    PROVE  SnapshotKept'
  <1>1. CASE Serial
    BY <1>1, WrittenKeeps, NothingOpen DEF PositionsInv
  <1>2. CASE ~Serial
    <2>1. /\ open'.active = open.active /\ open'.archived = open.archived /\ open'.row = open.row
          /\ open'.doomed = open.doomed /\ open.written \cup {a} \subseteq open'.written
      BY <1>2, WrittenKeeps DEF PositionsInv
    <2>2. open'.active \ open'.written \subseteq Active'
      BY <2>1 DEF PositionsInv, SnapshotKept
    <2>3. (open.row # NoRow => holders(open.row[1]) \subseteq open.active \cup open.archived)'
      BY <2>1 DEF PositionsInv, SnapshotKept
    <2> QED BY <2>1, <2>2, <2>3 DEF PositionsInv, SnapshotKept
  <1> QED BY <1>1, <1>2

\* A request of the ledger that rebuilds the account, whose cash it may change.
LEMMA LedgerRebuilds ==
    ASSUME PositionsInv, NEW a \in Accounts, Request, Written(a),
           recalculate({a}, events, cash', grouped, prices),
           status' \in [Accounts -> {"active", "archived", "deleted"}], status'[a] = "active",
           \A b \in Accounts \ {a} : status'[b] = status[b],
           cash' \in [Accounts -> Balances], \A b \in Accounts \ {a} : cash'[b] = cash[b],
           missed' = missed \ {a}, UNCHANGED <<grouped, events, instruments, prices, today>>
    PROVE  PositionsInv' /\ ArchivedStep
  <1>1. /\ /\ \A b \in {a} :
                /\ validatePositionReplay(events, b)
                /\ value'[b] = ReplayedWorth(EventsOf(events, b), EventsOf(grouped, b), cash'[b], prices, today)
                /\ builtOn'[b] = today
           /\ \A b \in Accounts \ {a} : value'[b] = value[b] /\ builtOn'[b] = builtOn[b]
           /\ value \in [Accounts -> Minor] => value' \in [Accounts -> Minor]
           /\ builtOn \in [Accounts -> Days] /\ today \in Days => builtOn' \in [Accounts -> Days]
    <2> DEFINE rebuilt == {a}
    <2>1. rebuilt \in SUBSET Accounts /\ recalculate(rebuilt, events, cash', grouped, prices)
      OBVIOUS
    <2> HIDE DEF rebuilt
    <2>2. /\ \A b \in rebuilt :
                /\ validatePositionReplay(events, b)
                /\ value'[b] = ReplayedWorth(EventsOf(events, b), EventsOf(grouped, b), cash'[b], prices, today)
                /\ builtOn'[b] = today
          /\ \A b \in Accounts \ rebuilt : value'[b] = value[b] /\ builtOn'[b] = builtOn[b]
          /\ value \in [Accounts -> Minor] => value' \in [Accounts -> Minor]
          /\ builtOn \in [Accounts -> Days] /\ today \in Days => builtOn' \in [Accounts -> Days]
      BY <2>1, Recalculated
    <2> QED BY <2>2 DEF rebuilt
  <1>2. TypeOK'
    <2>1. missed' \subseteq Accounts
      BY DEF PositionsInv, TypeOK
    <2>2. open' \in OpenType(events')
      BY WrittenKeeps DEF PositionsInv, TypeOK, OpenType
    <2> QED BY <1>1, <2>1, <2>2, RequestCounts, Zenon DEF PositionsInv, TypeOK
  <1>3. SnapshotKept'
    BY SnapshotWritten DEF Active, holders
  <1>4. CachedReplay'
    <2> SUFFICES ASSUME NEW b \in (Active \ missed)' PROVE value'[b] = WorthOf(b)'
      BY DEF CachedReplay
    <2>1. b \in Accounts /\ status'[b] = "active" /\ b \notin missed'
      BY DEF Active
    <2>2. WorthOf(b)' = ReplayedWorth(EventsOf(events, b), EventsOf(grouped, b), cash'[b], prices, builtOn'[b])
      BY DEF WorthOf
    <2>3. CASE b = a
      BY <1>1, <2>2, <2>3
    <2>4. CASE b # a
      <3>1. b \in Active \ missed
        BY <2>1, <2>4 DEF Active
      <3>2. value'[b] = value[b] /\ builtOn'[b] = builtOn[b] /\ cash'[b] = cash[b]
        BY <1>1, <2>1, <2>4
      <3>3. value[b] = WorthOf(b)
        BY <3>1 DEF PositionsInv, CachedReplay
      <3> QED BY <2>2, <3>2, <3>3 DEF WorthOf
    <2> QED BY <2>3, <2>4
  <1>5. Table(events') /\ Groups(events', grouped') /\ HistoriesReplay'
    BY DEF PositionsInv, HistoriesReplay
  <1>6. ArchivedStep
    BY <1>1, Frozen
  <1> QED BY <1>2, <1>3, <1>4, <1>5, <1>6 DEF PositionsInv

LEMMA ChangeCashKeeps ==
    ASSUME PositionsInv, NEW a \in Accounts, NEW sum \in Balances, ChangeCash(a, sum)
    PROVE  PositionsInv' /\ ArchivedStep
  <1>1. /\ Request /\ status[a] = "active" /\ cash' = [cash EXCEPT ![a] = sum]
        /\ recalculate({a}, events, cash', grouped, prices) /\ missed' = missed \ {a}
        /\ Written(a) /\ UNCHANGED <<status, grouped, events, instruments, prices, today>>
    BY DEF ChangeCash
  <1>2. /\ cash' \in [Accounts -> Balances] /\ \A b \in Accounts \ {a} : cash'[b] = cash[b]
        /\ status' \in [Accounts -> {"active", "archived", "deleted"}] /\ status'[a] = "active"
        /\ \A b \in Accounts \ {a} : status'[b] = status[b]
    BY <1>1 DEF PositionsInv, TypeOK
  <1> QED BY <1>1, <1>2, LedgerRebuilds

LEMMA RestoreAccountKeeps ==
    ASSUME PositionsInv, NEW a \in Accounts, RestoreAccount(a)
    PROVE  PositionsInv' /\ ArchivedStep
  <1>1. /\ Request /\ status' = [status EXCEPT ![a] = "active"]
        /\ recalculate({a}, events, cash, grouped, prices) /\ missed' = missed \ {a}
        /\ Written(a) /\ UNCHANGED <<cash, grouped, events, instruments, prices, today>>
    BY DEF RestoreAccount
  <1>2. recalculate({a}, events, cash', grouped, prices)
    BY <1>1
  <1>3. /\ cash' \in [Accounts -> Balances] /\ \A b \in Accounts \ {a} : cash'[b] = cash[b]
        /\ status' \in [Accounts -> {"active", "archived", "deleted"}] /\ status'[a] = "active"
        /\ \A b \in Accounts \ {a} : status'[b] = status[b]
    BY <1>1 DEF PositionsInv, TypeOK
  <1> QED BY <1>1, <1>2, <1>3, LedgerRebuilds

LEMMA ArchiveAccountKeeps ==
    ASSUME PositionsInv, NEW a \in Accounts, ArchiveAccount(a)
    PROVE  PositionsInv' /\ ArchivedStep
  <1>1. /\ Request /\ status' = [status EXCEPT ![a] = "archived"] /\ Written(a)
        /\ UNCHANGED <<cash, grouped, events, instruments, prices, today, accountVars>>
    BY DEF ArchiveAccount
  <1>2. TypeOK'
    <2>1. status' \in [Accounts -> {"active", "archived", "deleted"}]
      BY <1>1 DEF PositionsInv, TypeOK
    <2>2. open' \in OpenType(events')
      BY <1>1, WrittenKeeps DEF PositionsInv, TypeOK, OpenType
    <2> QED BY <1>1, <2>1, <2>2, RequestCounts, Zenon DEF PositionsInv, TypeOK, accountVars
  <1>3. SnapshotKept'
    <2>1. Active \ {a} \subseteq Active' /\ \A i : holders(i)' \subseteq holders(i)
      BY <1>1 DEF PositionsInv, TypeOK, Active, holders
    <2> QED BY <1>1, <2>1, SnapshotWritten
  <1>4. CachedReplay'
    <2> SUFFICES ASSUME NEW b \in (Active \ missed)' PROVE value'[b] = WorthOf(b)'
      BY DEF CachedReplay
    <2>1. b \in Active \ missed
      BY <1>1 DEF Active, accountVars, PositionsInv, TypeOK
    <2> QED BY <1>1, <2>1 DEF PositionsInv, CachedReplay, WorthOf, accountVars
  <1>5. Table(events') /\ Groups(events', grouped') /\ HistoriesReplay'
    BY <1>1 DEF PositionsInv, HistoriesReplay
  <1>6. ArchivedStep
    BY <1>1, Frozen DEF accountVars
  <1> QED BY <1>2, <1>3, <1>4, <1>5, <1>6 DEF PositionsInv

\* Without its rows, and with every group of an account it belonged to alone,
\* the groups that remain are whole.
LEMMA GroupsWithout ==
    ASSUME PositionsInv, NEW a \in Accounts, ~linked(a)
    PROVE  Groups(events \ EventsOf(events, a), grouped \ EventsOf(grouped, a))
  <1> DEFINE rows2 == events \ EventsOf(events, a)
             g2 == grouped \ EventsOf(grouped, a)
  <1>1. ASSUME NEW k \in Keys
        PROVE  \/ OfGroup(rows2, k) = OfGroup(events, k) /\ OfGroup(g2, k) = OfGroup(grouped, k)
               \/ GroupWhole(OfGroup(rows2, k), OfGroup(g2, k), k)
    <2>1. CASE \E e \in events \cup grouped : e.account = a /\ e.group = k
      <3>1. \A f \in events \cup grouped : f.group = k => f.account = a
        BY <2>1, PositionsAssumption DEF linked, EventsOf
      <3>2. OfGroup(rows2, k) = {} /\ OfGroup(g2, k) = {}
        BY <3>1 DEF OfGroup, EventsOf
      <3> QED BY <3>2, GroupWholeEmpty
    <2>2. CASE ~\E e \in events \cup grouped : e.account = a /\ e.group = k
      BY <2>2 DEF OfGroup, EventsOf
    <2> QED BY <2>1, <2>2
  <1>2. \A e \in rows2 : e.type \in Corporate => e.group # NoKey
    BY DEF PositionsInv, Groups
  <1> HIDE DEF rows2, g2
  <1>3. Groups(rows2, g2)
    BY <1>1, <1>2, GroupsByKey DEF PositionsInv
  <1> QED BY <1>3 DEF rows2, g2

LEMMA DeleteAccountKeeps ==
    ASSUME PositionsInv, NEW a \in Accounts, DeleteAccount(a)
    PROVE  PositionsInv' /\ ArchivedStep
  <1>1. /\ Request /\ status[a] = "archived" /\ ~linked(a)
        /\ status' = [status EXCEPT ![a] = "deleted"]
        /\ events' = events \ EventsOf(events, a)
        /\ grouped' = grouped \ EventsOf(grouped, a)
        /\ cash' = [cash EXCEPT ![a] = 0] /\ value' = [value EXCEPT ![a] = 0]
        /\ Written(a) /\ UNCHANGED <<instruments, prices, today, builtOn, missed>>
        /\ \A e \in open.doomed : e.account # a
    BY DEF DeleteAccount
  <1>2. Table(events') /\ Groups(events', grouped')
    <2>1. Table(events \ EventsOf(events, a))
      BY SubTable DEF PositionsInv
    <2> QED BY <1>1, <2>1, GroupsWithout
  <1>3. /\ \A b \in Accounts \ {a} : /\ EventsOf(events', b) = EventsOf(events, b)
                                     /\ EventsOf(grouped', b) = EventsOf(grouped, b)
        /\ EventsOf(events', a) = {}
    BY <1>1 DEF EventsOf
  <1>4. TypeOK'
    <2>1. /\ status' \in [Accounts -> {"active", "archived", "deleted"}]
          /\ value' \in [Accounts -> Minor] /\ cash' \in [Accounts -> Balances]
      BY <1>1, PositionsAssumption DEF PositionsInv, TypeOK, Minor
    <2>2. open' \in OpenType(events')
      <3>1. open.doomed \in SUBSET events'
        BY <1>1 DEF PositionsInv, TypeOK, OpenType, EventsOf
      <3> QED BY <1>1, <3>1, WrittenKeeps DEF PositionsInv
    <2>3. events' \subseteq EventType /\ grouped' \subseteq [account: Accounts, amount: Minor, group: Keys]
      BY <1>1 DEF PositionsInv, TypeOK
    <2> QED BY <1>1, <2>1, <2>2, <2>3, RequestCounts, Zenon DEF PositionsInv, TypeOK
  <1>5. SnapshotKept'
    <2>1. Active \ {a} \subseteq Active' /\ \A i : holders(i)' \subseteq holders(i)
      BY <1>1 DEF PositionsInv, TypeOK, Active, holders
    <2> QED BY <1>1, <2>1, SnapshotWritten
  <1>6. HistoriesReplay'
    <2>1. ASSUME NEW b \in Accounts PROVE validatePositionReplay(events', b)
      <3>1. CASE b = a
        BY <1>3, <3>1, ReplayEmpty DEF validatePositionReplay, Nothing
      <3>2. CASE b # a
        BY <1>3, <3>2, Zenon DEF PositionsInv, HistoriesReplay, validatePositionReplay
      <3> QED BY <3>1, <3>2
    <2> QED BY <2>1 DEF HistoriesReplay
  <1>7. CachedReplay'
    <2> SUFFICES ASSUME NEW b \in (Active \ missed)' PROVE value'[b] = WorthOf(b)'
      BY DEF CachedReplay
    <2>1. b \in Accounts /\ b # a /\ b \in Active \ missed
      BY <1>1 DEF Active, PositionsInv, TypeOK
    <2>2. cash'[b] = cash[b] /\ value'[b] = value[b]
      BY <1>1, <2>1 DEF PositionsInv, TypeOK
    <2>3. value[b] = WorthOf(b)
      BY <2>1 DEF PositionsInv, CachedReplay
    <2> QED BY <1>1, <1>3, <2>1, <2>2, <2>3 DEF WorthOf
  <1>8. ArchivedStep
    BY <1>1, <1>3, Frozen DEF PositionsInv, TypeOK
  <1> QED BY <1>2, <1>4, <1>5, <1>6, <1>7, <1>8 DEF PositionsInv

-----------------------------------------------------------------------------
LEMMA PositionsStep ==
    ASSUME PositionsInv, [Next]_vars
    PROVE  PositionsInv' /\ ArchivedStep
  <1>1. ASSUME NEW a \in Accounts, NEW i \in Instruments, NEW k \in Keys, NEW d \in Days,
               NEW type \in Trades, NEW q \in Signed, NEW s \in Settlements,
               CreatePositionEvent(a, i, k, type, q, s, d)
        PROVE  PositionsInv' /\ ArchivedStep
    BY <1>1, CreatePositionEventKeeps
  <1>2. ASSUME NEW a \in Accounts, NEW i \in Instruments, NEW k \in Keys, NEW d \in Days,
               NEW ratio \in Ratios, RecordStockSplit(a, i, k, ratio, d)
        PROVE  PositionsInv' /\ ArchivedStep
    BY <1>2, RecordStockSplitKeeps
  <1>3. ASSUME NEW a \in Accounts, NEW i \in Instruments, NEW k \in Keys, NEW d \in Days,
               NEW new \in Instruments, NEW ratio \in Ratios,
               RecordSpinoff(a, i, new, k, ratio, d) \/ RecordMerger(a, i, new, k, ratio, d)
        PROVE  PositionsInv' /\ ArchivedStep
    BY <1>3, RecordSpinoffKeeps, RecordMergerKeeps
  <1>4. ASSUME NEW a \in Accounts, NEW i \in Instruments, NEW k \in Keys, NEW d \in Days,
               NEW q \in Quantities, NEW dividend \in Settlements, NEW s \in Settlements,
               RecordDividendReinvestment(a, i, k, q, dividend, s, d)
        PROVE  PositionsInv' /\ ArchivedStep
    BY <1>4, RecordDividendReinvestmentKeeps
  <1>5. ASSUME NEW a \in Accounts, NEW i \in Instruments, NEW k \in Keys, NEW d \in Days,
               NEW to \in Accounts, NEW q \in Quantities, NEW fee \in Settlements \cup {0},
               RecordInKindTransfer(a, to, i, k, q, fee, d)
        PROVE  PositionsInv' /\ ArchivedStep
    BY <1>5, RecordInKindTransferKeeps
  <1>6. ASSUME NEW a \in Accounts,
               \/ \E sum \in Balances : ChangeCash(a, sum)
               \/ ArchiveAccount(a) \/ RestoreAccount(a) \/ DeleteAccount(a)
        PROVE  PositionsInv' /\ ArchivedStep
    BY <1>6, ChangeCashKeeps, ArchiveAccountKeeps, RestoreAccountKeeps, DeleteAccountKeeps
  <1>7. ASSUME NEW e \in events, NEW i \in Instruments, NEW type \in Trades, NEW q \in Signed,
               NEW s \in Settlements, NEW d \in Days, UpdatePositionEvent(e, i, type, q, s, d)
        PROVE  PositionsInv' /\ ArchivedStep
    BY <1>7, UpdatePositionEventKeeps
  <1>8. ASSUME NEW e \in events, beginDelete(e) PROVE PositionsInv' /\ ArchivedStep
    BY <1>8, beginDeleteKeeps
  <1>9. ASSUME NEW k \in Keys, DeleteGroup(k) PROVE PositionsInv' /\ ArchivedStep
    BY <1>9, DeleteGroupKeeps
  <1>10. ASSUME NEW i \in Instruments, NEW archived \in BOOLEAN, SetInstrumentArchived(i, archived)
         PROVE  PositionsInv' /\ ArchivedStep
    BY <1>10, SetInstrumentArchivedKeeps
  <1>11. ASSUME NEW i \in Instruments, DeleteInstrument(i) PROVE PositionsInv' /\ ArchivedStep
    BY <1>11, DeleteInstrumentKeeps
  <1>12. ASSUME NEW i \in Instruments, NEW d \in Days, NEW p \in Prices \cup {0}, beginPrice(i, d, p)
         PROVE  PositionsInv' /\ ArchivedStep
    BY <1>12, beginPriceKeeps
  <1>13. CASE commitDelete \/ commitPrice \/ abort \/ NextDay
    BY <1>13, commitDeleteKeeps, commitPriceKeeps, abortKeeps, NextDayKeeps
  <1>14. CASE UNCHANGED vars
    BY <1>14, StutterKeeps
  <1>15. ASSUME NEW a \in Accounts, NEW i \in Instruments, NEW k \in Keys, NEW d \in Days,
                \/ \E type \in Trades, q \in Signed, s \in Settlements :
                     CreatePositionEvent(a, i, k, type, q, s, d)
                \/ \E ratio \in Ratios : RecordStockSplit(a, i, k, ratio, d)
                \/ \E new \in Instruments, ratio \in Ratios :
                     RecordSpinoff(a, i, new, k, ratio, d) \/ RecordMerger(a, i, new, k, ratio, d)
                \/ \E q \in Quantities, dividend, s \in Settlements :
                     RecordDividendReinvestment(a, i, k, q, dividend, s, d)
                \/ \E to \in Accounts, q \in Quantities, fee \in Settlements \cup {0} :
                     RecordInKindTransfer(a, to, i, k, q, fee, d)
         PROVE  PositionsInv' /\ ArchivedStep
    BY <1>1, <1>2, <1>3, <1>4, <1>5, <1>15, Zenon
  <1>16. ASSUME NEW e \in events,
                \/ \E i \in Instruments, type \in Trades, q \in Signed, s \in Settlements, d \in Days :
                     UpdatePositionEvent(e, i, type, q, s, d)
                \/ beginDelete(e)
         PROVE  PositionsInv' /\ ArchivedStep
    BY <1>7, <1>8, <1>16, Zenon
  <1>17. ASSUME NEW i \in Instruments,
                \/ \E archived \in BOOLEAN : SetInstrumentArchived(i, archived)
                \/ DeleteInstrument(i)
                \/ \E d \in Days, p \in Prices \cup {0} : beginPrice(i, d, p)
         PROVE  PositionsInv' /\ ArchivedStep
    BY <1>10, <1>11, <1>12, <1>17, Zenon
  <1> QED BY <1>6, <1>9, <1>13, <1>14, <1>15, <1>16, <1>17, ZenonT(60) DEF Next

\* Every history, every group, every price being written or event being deleted,
\* and every cached value
\* is as PositionsInv says, in every reachable state.
THEOREM PositionsInvariant == Spec => []PositionsInv
  <1> QED BY PositionsInit, PositionsStep, PTL DEF Spec

\* What the columns of the tables can hold.
THEOREM PositionsTypeCorrect == Spec => []TypeOK
  <1>1. PositionsInv => TypeOK
    BY DEF PositionsInv
  <1> QED BY <1>1, PositionsInvariant, PTL

\* Events of one account and day have places of their own, whatever was moved
\* or deleted between them: nextSequence.
THEOREM PlacesDistinct == Spec => []SequencesDistinct
  <1>1. PositionsInv => SequencesDistinct
    BY DEF PositionsInv, Table, Distinct, SequencesDistinct
  <1> QED BY <1>1, PositionsInvariant, PTL

\* A compound activity is whole or gone.
THEOREM CompoundWhole == Spec => []GroupsWhole
  <1>1. PositionsInv => GroupsWhole
    BY GroupsAreWhole DEF PositionsInv, Table, TypeOK, TransactionType
  <1> QED BY <1>1, PositionsInvariant, PTL

\* The cached value of an active account is what its own rows replay to, unless
\* it was restored beside a price or a deletion that took it for archived.
THEOREM CacheReplays == Spec => []CachedReplay
  <1>1. PositionsInv => CachedReplay
    BY DEF PositionsInv
  <1> QED BY <1>1, PositionsInvariant, PTL

\* While an account stays archived its value is frozen, nothing is added to its
\* history, and its part in a group stays.
THEOREM ArchivedStaysFrozen == Spec => ArchivedFrozen
  <1>1. PositionsInv /\ [Next]_vars => [ArchivedStep]_vars
    BY PositionsStep
  <1> QED BY <1>1, PositionsInvariant, PTL DEF Spec, ArchivedFrozen

\* In the history of every account, archived or not: no holding was negative
\* after any event, a merger surrendered the whole holding of its day, and a
\* spin-off gave what its source was entitled to; so no edit, deletion or
\* backdated event can have left a history that a replay would reject.
THEOREM HistoriesHold == Spec => [](\A a \in Accounts : HistoryHolds(EventsOf(events, a)))
  <1>1. PositionsInv => \A a \in Accounts : HistoryHolds(EventsOf(events, a))
    <2> SUFFICES ASSUME PositionsInv, NEW a \in Accounts PROVE HistoryHolds(EventsOf(events, a))
      OBVIOUS
    <2>1. EventsOf(events, a) \in SUBSET events /\ \A e \in EventsOf(events, a) : e.account = a
      BY DEF EventsOf
    <2>2. Ordered(EventsOf(events, a))
      BY <2>1, FS_Subset DEF Ordered, PositionsInv, Table, Distinct
    <2>3. replayPositionEvents(EventsOf(events, a)).ok
      BY DEF PositionsInv, HistoriesReplay, validatePositionReplay
    <2> QED BY <2>2, <2>3, ReplayHolds
  <1> QED BY <1>1, PositionsInvariant, PTL

-----------------------------------------------------------------------------
(* Fractions in lowest terms *)

\* Two fractions are equal.
SameFraction(n, d, m, e) == n * e = m * d

\* A common factor cancels.
LEMMA Cancel ==
    ASSUME NEW a \in Int, NEW b \in Int, NEW c \in Int \ {0}, a * c = b * c
    PROVE  a = b
  OBVIOUS

\* Division with a remainder.
LEMMA DivideBy ==
    ASSUME NEW n \in Int, NEW k \in Nat \ {0}
    PROVE  /\ n \div k \in Int /\ n % k \in 0 .. k - 1
           /\ n = (k * (n \div k)) + (n % k)
  OBVIOUS

\* Division without a remainder.
LEMMA DivideExactly ==
    ASSUME NEW q \in Int, NEW k \in Nat \ {0}
    PROVE  (k * q) % k = 0 /\ (k * q) \div k = q
  OBVIOUS

\* a/b is n/d with the least denominator.
Lowest(n, d, a, b) ==
  /\ n \in Int /\ d \in Nat \ {0} /\ a \in Int /\ b \in Nat \ {0} /\ n * b = a * d
  /\ \A m \in Int, e \in Nat \ {0} : m * d = n * e => e >= b

\* Every fraction has one.
LEMMA LowestExists ==
    ASSUME NEW n \in Int, NEW d \in Nat \ {0}
    PROVE  \E a \in Int, b \in Nat \ {0} : Lowest(n, d, a, b)
  <1> DEFINE E == {e \in Nat \ {0} : \E m \in Int : m * d = n * e}
  <1>1. d \in E /\ E \in SUBSET Nat
    OBVIOUS
  <1>2. PICK b \in E : \A e \in E : ~(<<e, b>> \in OpToRel(<, Nat))
    BY <1>1, WFMin, NatLessThanWellFounded
  <1>3. PICK a \in Int : a * d = n * b
    BY <1>2
  <1>4. ASSUME NEW e \in Nat \ {0}, NEW m \in Int, m * d = n * e PROVE e >= b
    <2>1. e \in E
      BY <1>4
    <2> HIDE DEF E
    <2>2. e \in Nat /\ b \in Nat /\ <<e, b>> \notin OpToRel(<, Nat)
      BY <1>1, <1>2, <2>1
    <2> QED BY <2>2 DEF OpToRel
  <1>5. Lowest(n, d, a, b)
    BY <1>2, <1>3, <1>4 DEF Lowest
  <1> QED BY <1>2, <1>5

\* Every equal fraction is an expansion of it.
LEMMA LowestDivides ==
    ASSUME NEW n, NEW d, NEW a, NEW b, Lowest(n, d, a, b)
    PROVE  \E q \in Nat \ {0} : d = q * b /\ n = q * a
  <1>0. n \in Int /\ d \in Nat \ {0} /\ a \in Int /\ b \in Nat \ {0}
    BY DEF Lowest
  <1> DEFINE q == d \div b
             r == d % b
             m == n - q * a
  <1>1. q \in Int /\ r \in 0 .. b - 1 /\ d = b * q + r
    BY <1>0, DivideBy
  <1> HIDE DEF q, r
  <1>2. m \in Int /\ n * b = a * d
    BY <1>0, <1>1 DEF Lowest
  <1>3. m * b = a * r
    <2>1. m * b = n * b - a * (b * q)
      BY <1>0, <1>1
    <2>2. a * d = a * (b * q) + a * r
      BY <1>0, <1>1
    <2>3. a * (b * q) \in Int /\ a * r \in Int /\ n * b \in Int
      BY <1>0, <1>1
    <2> QED BY <1>0, <1>2, <2>1, <2>2, <2>3
  <1> HIDE DEF m
  <1>4. r = 0
    <2> SUFFICES ASSUME r # 0 PROVE FALSE
      OBVIOUS
    <2>1. r \in Nat \ {0} /\ r < b
      BY <1>0, <1>1
    <2>2. (m * d) * b = (n * r) * b
      <3>1. (m * d) * b = (m * b) * d
        BY <1>0, <1>2
      <3>2. (a * r) * d = (a * d) * r
        BY <1>0, <2>1
      <3>3. (n * b) * r = (n * r) * b
        BY <1>0, <2>1
      <3> QED BY <1>0, <1>2, <1>3, <3>1, <3>2, <3>3
    <2>3. m * d = n * r
      <3> DEFINE u == m * d
                 v == n * r
      <3>1. u \in Int /\ v \in Int /\ u * b = v * b
        BY <1>0, <1>2, <2>1, <2>2
      <3> HIDE DEF u, v
      <3>2. u = v
        BY <1>0, <3>1, Cancel
      <3> QED BY <1>0, <3>2 DEF u, v
    <2> QED BY <1>0, <1>2, <2>1, <2>3 DEF Lowest
  <1>5. m * b = 0 * b
    BY <1>0, <1>3, <1>4
  <1>6. m = 0
    BY <1>0, <1>2, <1>5, Cancel
  <1>7. d = q * b /\ n = q * a
    BY <1>0, <1>1, <1>4, <1>6 DEF m
  <1>8. q \in Nat \ {0}
    BY <1>0, <1>1, <1>7
  <1> QED BY <1>0, <1>7, <1>8

\* Reduced is the fraction in lowest terms.
LEMMA ReducedIsLowest ==
    ASSUME NEW n, NEW d, NEW a, NEW b, Lowest(n, d, a, b)
    PROVE  Reduced(n, d) = <<a, b>>
  <1>0. n \in Int /\ d \in Nat \ {0} /\ a \in Int /\ b \in Nat \ {0}
    BY DEF Lowest
  <1> DEFINE S == {k \in 1 .. d : n % k = 0 /\ d % k = 0}
             g == Max(S)
  <1>1. PICK q \in Nat \ {0} : d = q * b /\ n = q * a
    BY LowestDivides
  <1>2. S \in SUBSET Int /\ IsFiniteSet(S)
    <2>1. IsFiniteSet(1 .. d) /\ S \in SUBSET (1 .. d)
      BY <1>0, FS_Interval
    <2>2. IsFiniteSet(S)
      BY <1>0, <2>1, FS_Subset
    <2> QED BY <1>0, <2>1, <2>2
  <1>3. q \in S
    <2>1. (q * a) % q = 0 /\ (q * b) % q = 0
      BY <1>0, DivideExactly
    <2>2. q <= d
      BY <1>0, <1>1
    <2> QED BY <1>0, <1>1, <2>1, <2>2
  <1>4. g \in S /\ g >= q
    <2> HIDE DEF S
    <2> QED BY <1>0, <1>2, <1>3, MaxOfFinite
  <1>5. g \in Nat \ {0} /\ n % g = 0 /\ d % g = 0
    BY <1>0, <1>4
  <1>6. Reduced(n, d) = <<n \div g, d \div g>>
    BY DEF Reduced
  <1> HIDE DEF g, S
  <1> DEFINE x == n \div g
             y == d \div g
  <1>7. x \in Int /\ y \in Int /\ n = g * x /\ d = g * y
    <2>1. n = (g * (n \div g)) + (n % g) /\ d = (g * (d \div g)) + (d % g)
      <3>1. g \in Nat \ {0} /\ d \in Int
        BY <1>0, <1>5
      <3> QED BY <1>0, <3>1, DivideBy, Zenon
    <2>2. n \div g \in Int /\ d \div g \in Int
      BY <1>0, <1>5, DivideBy
    <2> QED BY <1>0, <1>5, <2>1, <2>2
  <1> HIDE DEF x, y
  <1>8. y \in Nat \ {0}
    BY <1>0, <1>5, <1>7
  <1>9. x * d = n * y
    <2>1. x * (g * y) = (g * x) * y
      BY <1>0, <1>5, <1>7
    <2> QED BY <1>0, <1>7, <2>1
  <1>10. y >= b
    BY <1>0, <1>7, <1>8, <1>9 DEF Lowest
  <1>11. g = q /\ y = b
    <2>1. g * y = q * b
      BY <1>0, <1>1, <1>7
    <2>2. g * y >= g * b
      BY <1>0, <1>5, <1>8, <1>10
    <2>3. g * b >= q * b
      BY <1>0, <1>4, <1>5
    <2>4. g * b = q * b
      <3>1. g * y \in Int /\ g * b \in Int /\ q * b \in Int
        BY <1>0, <1>5, <1>8
      <3> QED BY <1>0, <2>1, <2>2, <2>3, <3>1
    <2>5. g = q
      BY <1>0, <1>5, <2>4, Cancel
    <2>6. y * q = b * q
      BY <1>0, <1>8, <2>1, <2>5
    <2>7. y = b
      BY <1>0, <1>8, <2>6, Cancel
    <2> QED BY <1>0, <2>5, <2>7
  <1>12. x = a
    <2>1. x * q = a * q
      BY <1>0, <1>1, <1>7, <1>11
    <2> QED BY <1>0, <1>7, <2>1, Cancel
  <1> QED BY <1>0, <1>6, <1>11, <1>12 DEF x, y

\* Reducing leaves an equal fraction.
LEMMA ReducedEqual ==
    ASSUME NEW n \in Int, NEW d \in Nat \ {0}
    PROVE  /\ Reduced(n, d) \in Rational
           /\ SameFraction(Reduced(n, d)[1], Reduced(n, d)[2], n, d)
  <1>1. PICK a \in Int, b \in Nat \ {0} : Lowest(n, d, a, b)
    BY LowestExists
  <1>2. Reduced(n, d) = <<a, b>>
    BY <1>1, ReducedIsLowest
  <1>3. SameFraction(a, b, n, d)
    BY <1>1 DEF Lowest, SameFraction
  <1> QED BY <1>1, <1>2, <1>3 DEF Rational

\* Equal fractions reduce to the same one.
LEMMA ReducedUnique ==
    ASSUME NEW n \in Int, NEW d \in Nat \ {0}, NEW m \in Int, NEW e \in Nat \ {0}, SameFraction(n, d, m, e)
    PROVE  Reduced(n, d) = Reduced(m, e)
  <1>1. PICK a \in Int, b \in Nat \ {0} : Lowest(n, d, a, b)
    BY LowestExists
  <1>2. m * b = a * e
    <2>1. (m * b) * d = (a * e) * d
      <3>1. (m * b) * d = (m * d) * b
        OBVIOUS
      <3>2. (n * e) * b = (n * b) * e
        OBVIOUS
      <3>3. (a * d) * e = (a * e) * d
        OBVIOUS
      <3> QED BY <1>1, <3>1, <3>2, <3>3 DEF Lowest, SameFraction
    <2>2. m * b \in Int /\ a * e \in Int
      OBVIOUS
    <2> QED BY <2>1, <2>2, Cancel
  <1>3. ASSUME NEW x \in Int, NEW f \in Nat \ {0}, x * e = m * f
        PROVE  f >= b
    <2>1. (x * d) * e = (n * f) * e
      <3>1. (x * d) * e = (x * e) * d
        OBVIOUS
      <3>2. (m * f) * d = (m * d) * f
        OBVIOUS
      <3>3. (n * e) * f = (n * f) * e
        OBVIOUS
      <3> QED BY <1>3, <3>1, <3>2, <3>3 DEF SameFraction
    <2>2. x * d \in Int /\ n * f \in Int
      OBVIOUS
    <2>3. x * d = n * f
      BY <2>1, <2>2, Cancel
    <2> QED BY <1>1, <2>3 DEF Lowest
  <1>4. Lowest(m, e, a, b)
    BY <1>1, <1>2, <1>3 DEF Lowest
  <1>5. Reduced(n, d) = <<a, b>>
    BY <1>1, ReducedIsLowest
  <1>6. Reduced(m, e) = <<a, b>>
    BY <1>4, ReducedIsLowest
  <1> QED BY <1>5, <1>6

-----------------------------------------------------------------------------
(* Sums and products of fractions *)

\* Factors may be taken in either order.
LEMMA SwapFactors ==
    ASSUME NEW q1 \in Int, NEW q2 \in Nat \ {0}, NEW r1 \in Int, NEW r2 \in Nat \ {0},
           NEW s1 \in Int, NEW s2 \in Nat \ {0}, NEW u1 \in Int, NEW u2 \in Nat \ {0},
           NEW v1 \in Int, NEW v2 \in Nat \ {0},
           SameFraction(u1, u2, q1 * r1, q2 * r2), SameFraction(v1, v2, q1 * s1, q2 * s2)
    PROVE  SameFraction(u1 * s1, u2 * s2, v1 * r1, v2 * r2)
  <1> DEFINE x == (u1 * s1) * (v2 * r2)
             y == (v1 * r1) * (u2 * s2)
  <1>1. x * q2 = (u1 * (q2 * r2)) * (s1 * v2)
    OBVIOUS
  <1>2. y * q2 = (v1 * (q2 * s2)) * (r1 * u2)
    OBVIOUS
  <1>3. u1 * (q2 * r2) = (q1 * r1) * u2 /\ v1 * (q2 * s2) = (q1 * s1) * v2
    BY DEF SameFraction
  <1>4. ((q1 * r1) * u2) * (s1 * v2) = ((q1 * s1) * v2) * (r1 * u2)
    OBVIOUS
  <1>5. x \in Int /\ y \in Int /\ x * q2 = y * q2
    BY <1>1, <1>2, <1>3, <1>4
  <1> HIDE DEF x, y
  <1>6. x = y
    BY <1>5, Cancel
  <1> QED BY <1>6 DEF x, y, SameFraction

\* Terms may be added in either order.
LEMMA SwapTerms ==
    ASSUME NEW q1 \in Int, NEW q2 \in Nat \ {0}, NEW r1 \in Int, NEW r2 \in Nat \ {0},
           NEW s1 \in Int, NEW s2 \in Nat \ {0}, NEW u1 \in Int, NEW u2 \in Nat \ {0},
           NEW v1 \in Int, NEW v2 \in Nat \ {0},
           SameFraction(u1, u2, q1 * r2 + r1 * q2, q2 * r2),
           SameFraction(v1, v2, q1 * s2 + s1 * q2, q2 * s2)
    PROVE  SameFraction(u1 * s2 + s1 * u2, u2 * s2, v1 * r2 + r1 * v2, v2 * r2)
  <1> DEFINE x == (u1 * s2 + s1 * u2) * (v2 * r2)
             y == (v1 * r2 + r1 * v2) * (u2 * s2)
  <1>1. x * q2 = (u1 * (q2 * r2)) * (s2 * v2) + (s1 * q2 * r2) * (u2 * v2)
    OBVIOUS
  <1>2. y * q2 = (v1 * (q2 * s2)) * (r2 * u2) + (r1 * q2 * s2) * (u2 * v2)
    OBVIOUS
  <1>3. /\ u1 * (q2 * r2) = (q1 * r2 + r1 * q2) * u2
        /\ v1 * (q2 * s2) = (q1 * s2 + s1 * q2) * v2
    BY DEF SameFraction
  <1>4. ((q1 * r2 + r1 * q2) * u2) * (s2 * v2) + (s1 * q2 * r2) * (u2 * v2)
          = ((q1 * s2 + s1 * q2) * v2) * (r2 * u2) + (r1 * q2 * s2) * (u2 * v2)
    OBVIOUS
  <1>5. x \in Int /\ y \in Int /\ x * q2 = y * q2
    BY <1>1, <1>2, <1>3, <1>4
  <1> HIDE DEF x, y
  <1>6. x = y
    BY <1>5, Cancel
  <1> QED BY <1>6 DEF x, y, SameFraction

\* Factors may be grouped in either way.
LEMMA RegroupFactors ==
    ASSUME NEW w1 \in Int, NEW w2 \in Nat \ {0}, NEW g1 \in Int, NEW g2 \in Nat \ {0},
           NEW r1 \in Int, NEW r2 \in Nat \ {0}, NEW x1 \in Int, NEW x2 \in Nat \ {0},
           NEW y1 \in Int, NEW y2 \in Nat \ {0},
           SameFraction(x1, x2, g1 * r1, g2 * r2), SameFraction(y1, y2, w1 * g1, w2 * g2)
    PROVE  SameFraction(w1 * x1, w2 * x2, y1 * r1, y2 * r2)
  <1> DEFINE x == (w1 * x1) * (y2 * r2)
             y == (y1 * r1) * (w2 * x2)
  <1>1. x * g2 = (x1 * (g2 * r2)) * (w1 * y2)
    OBVIOUS
  <1>2. y * g2 = (y1 * (w2 * g2)) * (r1 * x2)
    OBVIOUS
  <1>3. x1 * (g2 * r2) = (g1 * r1) * x2 /\ y1 * (w2 * g2) = (w1 * g1) * y2
    BY DEF SameFraction
  <1>4. ((g1 * r1) * x2) * (w1 * y2) = ((w1 * g1) * y2) * (r1 * x2)
    OBVIOUS
  <1>5. x \in Int /\ y \in Int /\ x * g2 = y * g2
    BY <1>1, <1>2, <1>3, <1>4
  <1> HIDE DEF x, y
  <1>6. x = y
    BY <1>5, Cancel
  <1> QED BY <1>6 DEF x, y, SameFraction

\* s is a sum, x a product, in lowest terms or not.
IsSum(s, p, t) == SameFraction(s[1], s[2], p[1] * t[2] + t[1] * p[2], p[2] * t[2])
IsProduct(x, p, r) == SameFraction(x[1], x[2], p[1] * r[1], p[2] * r[2])

\* A factor of a sum is a factor of its terms.
LEMMA DistributeFactor ==
    ASSUME NEW p \in Rational, NEW t \in Rational, NEW r \in Rational,
           NEW s \in Rational, NEW x \in Rational, NEW y \in Rational,
           IsSum(s, p, t), IsProduct(x, p, r), IsProduct(y, t, r)
    PROVE  SameFraction(s[1] * r[1], s[2] * r[2], x[1] * y[2] + y[1] * x[2], x[2] * y[2])
  <1> DEFINE p1 == p[1] p2 == p[2] t1 == t[1] t2 == t[2] r1 == r[1] r2 == r[2]
             s1 == s[1] s2 == s[2] x1 == x[1] x2 == x[2] y1 == y[1] y2 == y[2]
  <1>1. /\ p1 \in Int /\ p2 \in Nat \ {0} /\ t1 \in Int /\ t2 \in Nat \ {0}
        /\ r1 \in Int /\ r2 \in Nat \ {0} /\ s1 \in Int /\ s2 \in Nat \ {0}
        /\ x1 \in Int /\ x2 \in Nat \ {0} /\ y1 \in Int /\ y2 \in Nat \ {0}
    BY DEF Rational
  <1>2. /\ SameFraction(s1, s2, p1 * t2 + t1 * p2, p2 * t2)
        /\ SameFraction(x1, x2, p1 * r1, p2 * r2) /\ SameFraction(y1, y2, t1 * r1, t2 * r2)
    BY Zenon DEF IsSum, IsProduct
  <1> HIDE DEF p1, p2, t1, t2, r1, r2, s1, s2, x1, x2, y1, y2
  <1> DEFINE left == (s1 * r1) * (x2 * y2)
             right == (x1 * y2 + y1 * x2) * (s2 * r2)
             c == p2 * t2
  <1>3. left * c = (s1 * (p2 * t2)) * (r1 * x2 * y2)
    BY <1>1
  <1>4. right * c = (x1 * (p2 * r2)) * (y2 * s2 * t2) + (y1 * (t2 * r2)) * (x2 * s2 * p2)
    BY <1>1
  <1>5. /\ s1 * (p2 * t2) = (p1 * t2 + t1 * p2) * s2
        /\ x1 * (p2 * r2) = (p1 * r1) * x2
        /\ y1 * (t2 * r2) = (t1 * r1) * y2
    BY <1>2 DEF SameFraction
  <1>6. ((p1 * t2 + t1 * p2) * s2) * (r1 * x2 * y2)
          = ((p1 * r1) * x2) * (y2 * s2 * t2) + ((t1 * r1) * y2) * (x2 * s2 * p2)
    BY <1>1
  <1>7. left \in Int /\ right \in Int /\ left * c = right * c /\ c \in Int \ {0}
    BY <1>1, <1>3, <1>4, <1>5, <1>6
  <1> HIDE DEF left, right, c
  <1>8. left = right
    BY <1>7, Cancel
  <1> QED BY <1>8 DEF left, right, SameFraction, p1, p2, t1, t2, r1, r2, s1, s2, x1, x2, y1, y2

\* What sums and products are.
LEMMA PlusIs ==
    ASSUME NEW p \in Rational, NEW q \in Rational
    PROVE  /\ Plus(p, q) \in Rational
           /\ SameFraction(Plus(p, q)[1], Plus(p, q)[2], p[1] * q[2] + q[1] * p[2], p[2] * q[2])
  <1>1. p[1] * q[2] + q[1] * p[2] \in Int /\ p[2] * q[2] \in Nat \ {0}
    BY DEF Rational
  <1> QED BY <1>1, ReducedEqual DEF Plus

LEMMA TimesIs ==
    ASSUME NEW p \in Rational, NEW q \in Rational
    PROVE  /\ Times(p, q) \in Rational
           /\ SameFraction(Times(p, q)[1], Times(p, q)[2], p[1] * q[1], p[2] * q[2])
  <1>1. p[1] * q[1] \in Int /\ p[2] * q[2] \in Nat \ {0}
    BY DEF Rational
  <1> QED BY <1>1, ReducedEqual DEF Times

\* Additions swap, and so do multiplications.
LEMMA PlusSwaps ==
    ASSUME NEW q \in Rational, NEW r \in Rational, NEW s \in Rational
    PROVE  Plus(Plus(q, r), s) = Plus(Plus(q, s), r)
  <1> DEFINE u == Plus(q, r)
             v == Plus(q, s)
  <1>1. /\ u \in Rational /\ SameFraction(u[1], u[2], q[1] * r[2] + r[1] * q[2], q[2] * r[2])
        /\ v \in Rational /\ SameFraction(v[1], v[2], q[1] * s[2] + s[1] * q[2], q[2] * s[2])
    BY PlusIs
  <1> HIDE DEF u, v
  <1>2. SameFraction(u[1] * s[2] + s[1] * u[2], u[2] * s[2], v[1] * r[2] + r[1] * v[2], v[2] * r[2])
    BY <1>1, SwapTerms DEF Rational
  <1>3. /\ u[1] * s[2] + s[1] * u[2] \in Int /\ v[1] * r[2] + r[1] * v[2] \in Int
        /\ u[2] * s[2] \in Nat \ {0} /\ v[2] * r[2] \in Nat \ {0}
    BY <1>1 DEF Rational
  <1>4. Plus(u, s) = Plus(v, r)
    BY <1>2, <1>3, ReducedUnique DEF Plus
  <1> QED BY <1>4 DEF u, v

LEMMA TimesSwaps ==
    ASSUME NEW q \in Rational, NEW r \in Rational, NEW s \in Rational
    PROVE  Times(Times(q, r), s) = Times(Times(q, s), r)
  <1> DEFINE u == Times(q, r)
             v == Times(q, s)
  <1>1. /\ u \in Rational /\ SameFraction(u[1], u[2], q[1] * r[1], q[2] * r[2])
        /\ v \in Rational /\ SameFraction(v[1], v[2], q[1] * s[1], q[2] * s[2])
    BY TimesIs
  <1> HIDE DEF u, v
  <1>2. SameFraction(u[1] * s[1], u[2] * s[2], v[1] * r[1], v[2] * r[2])
    BY <1>1, SwapFactors DEF Rational
  <1>3. /\ u[1] * s[1] \in Int /\ v[1] * r[1] \in Int
        /\ u[2] * s[2] \in Nat \ {0} /\ v[2] * r[2] \in Nat \ {0}
    BY <1>1 DEF Rational
  <1>4. Times(u, s) = Times(v, r)
    BY <1>2, <1>3, ReducedUnique DEF Times
  <1> QED BY <1>4 DEF u, v

\* A factor may be applied first.
LEMMA TimesRegroups ==
    ASSUME NEW w \in Rational, NEW g \in Rational, NEW r \in Rational
    PROVE  Times(w, Times(g, r)) = Times(Times(w, g), r)
  <1> DEFINE x == Times(g, r)
             y == Times(w, g)
  <1>1. /\ x \in Rational /\ SameFraction(x[1], x[2], g[1] * r[1], g[2] * r[2])
        /\ y \in Rational /\ SameFraction(y[1], y[2], w[1] * g[1], w[2] * g[2])
    BY TimesIs
  <1> HIDE DEF x, y
  <1>2. SameFraction(w[1] * x[1], w[2] * x[2], y[1] * r[1], y[2] * r[2])
    BY <1>1, RegroupFactors DEF Rational
  <1>3. /\ w[1] * x[1] \in Int /\ y[1] * r[1] \in Int
        /\ w[2] * x[2] \in Nat \ {0} /\ y[2] * r[2] \in Nat \ {0}
    BY <1>1 DEF Rational
  <1>4. Times(w, x) = Times(y, r)
    BY <1>2, <1>3, ReducedUnique DEF Times
  <1> QED BY <1>4 DEF x, y

\* To multiply a sum is to multiply its terms.
LEMMA TimesDistributes ==
    ASSUME NEW p \in Rational, NEW t \in Rational, NEW r \in Rational
    PROVE  Times(Plus(p, t), r) = Plus(Times(p, r), Times(t, r))
  <1> DEFINE s == Plus(p, t)
             x == Times(p, r)
             y == Times(t, r)
  <1>1. /\ s \in Rational /\ SameFraction(s[1], s[2], p[1] * t[2] + t[1] * p[2], p[2] * t[2])
        /\ x \in Rational /\ SameFraction(x[1], x[2], p[1] * r[1], p[2] * r[2])
        /\ y \in Rational /\ SameFraction(y[1], y[2], t[1] * r[1], t[2] * r[2])
    BY PlusIs, TimesIs
  <1> HIDE DEF s, x, y
  <1>2. SameFraction(s[1] * r[1], s[2] * r[2], x[1] * y[2] + y[1] * x[2], x[2] * y[2])
    <2>1. IsSum(s, p, t) /\ IsProduct(x, p, r) /\ IsProduct(y, t, r)
      BY <1>1, Zenon DEF IsSum, IsProduct
    <2> QED BY <1>1, <2>1, DistributeFactor
  <1>3. /\ s[1] * r[1] \in Int /\ x[1] * y[2] + y[1] * x[2] \in Int
        /\ s[2] * r[2] \in Nat \ {0} /\ x[2] * y[2] \in Nat \ {0}
    BY <1>1 DEF Rational
  <1>4. Times(s, r) = Plus(x, y)
    BY <1>2, <1>3, ReducedUnique DEF Times, Plus
  <1> QED BY <1>4 DEF s, x, y

\* Whole numbers are in lowest terms.
LEMMA ReducedWhole ==
    ASSUME NEW n \in Int
    PROVE  Reduced(n, 1) = Whole(n) /\ Whole(n) \in Rational
  <1>1. Lowest(n, 1, n, 1)
    BY DEF Lowest
  <1> QED BY <1>1, ReducedIsLowest DEF Whole, Rational

LEMMA ZeroTimes ==
    ASSUME NEW r \in Rational
    PROVE  Times(Whole(0), r) = Whole(0)
  <1>1. r[1] \in Int /\ r[2] \in Nat \ {0}
    BY DEF Rational
  <1>2. Times(Whole(0), r) = Reduced(0 * r[1], 1 * r[2])
    BY DEF Times, Whole
  <1>3. 0 * r[1] = 0 /\ 1 * r[2] = r[2]
    BY <1>1
  <1>4. SameFraction(0, r[2], 0, 1)
    BY <1>1 DEF SameFraction
  <1>5. Reduced(0, r[2]) = Reduced(0, 1)
    BY <1>1, <1>4, ReducedUnique
  <1> QED BY <1>2, <1>3, <1>5, ReducedWhole

LEMMA TimesOne ==
    ASSUME NEW n \in Int
    PROVE  Times(Whole(n), Whole(1)) = Whole(n)
  <1>1. Times(Whole(n), Whole(1)) = Reduced(n * 1, 1 * 1)
    BY DEF Times, Whole
  <1>2. n * 1 = n /\ 1 * 1 = 1
    OBVIOUS
  <1> QED BY <1>1, <1>2, ReducedWhole

-----------------------------------------------------------------------------
(* A holding, as the sum of what its events have grown to *)

scaled == [x \in Rational \X Rational |-> Times(x[2], x[1])]
added == [x \in Rational \X Rational |-> Plus(x[2], x[1])]

\* Ratios may be applied, and quantities added, in any order.
LEMMA AnyOrder == Combines(scaled, Rational, Rational) /\ Combines(added, Rational, Rational)
  <1>1. /\ scaled \in [Rational \X Rational -> Rational]
        /\ added \in [Rational \X Rational -> Rational]
    BY PlusIs, TimesIs DEF scaled, added
  <1>2. ASSUME NEW x \in Rational, NEW y \in Rational, NEW v \in Rational
        PROVE  /\ scaled[<<x, scaled[<<y, v>>]>>] = scaled[<<y, scaled[<<x, v>>]>>]
               /\ added[<<x, added[<<y, v>>]>>] = added[<<y, added[<<x, v>>]>>]
    <2>1. \A a, b \in Rational : /\ scaled[<<a, b>>] = Times(b, a) /\ Times(b, a) \in Rational
                                 /\ added[<<a, b>>] = Plus(b, a) /\ Plus(b, a) \in Rational
      BY PlusIs, TimesIs DEF scaled, added
    <2>2. /\ Times(Times(v, y), x) = Times(Times(v, x), y)
          /\ Plus(Plus(v, y), x) = Plus(Plus(v, x), y)
      BY PlusSwaps, TimesSwaps
    <2> QED BY <2>1, <2>2
  <1> QED BY <1>1, <1>2, Zenon DEF Combines

\* The splits that e has gone through by the end of S.
SplitsAfter(S, e) == {s \in S : s.type = "split" /\ s.instrument = e.instrument /\ Before(e, s)}

\* g takes the splits of a subset of U one at a time.
Grows(g, U) == Totals(g, [s \in U |-> s.ratio], U, Rational, Whole(1), scaled)

\* The ratio of an event is a fraction.
LEMMA RatioType ==
    ASSUME NEW e \in EventType
    PROVE  e.ratio \in Rational /\ e.ratio \in (Nat \ {0}) \X (Nat \ {0})
  BY PositionsAssumption DEF EventType, Rational

\* That is how Growth takes them.
LEMMA GrowthFold ==
    ASSUME NEW S \in SUBSET EventType, IsFiniteSet(S), NEW e
    PROVE  \E g : Grows(g, SplitsAfter(S, e)) /\ Growth(S, e) = g[SplitsAfter(S, e)]
  <1> DEFINE U == SplitsAfter(S, e)
             f == [s \in U |-> s.ratio]
             G(h) == [T \in SUBSET U |-> IF T = {} THEN Whole(1)
                        ELSE Times(h[T \ {CHOOSE x \in T : TRUE}], (CHOOSE x \in T : TRUE).ratio)]
  <1>1. U \in SUBSET EventType /\ IsFiniteSet(U)
    BY FS_Subset DEF SplitsAfter
  <1>2. Growth(S, e) = (CHOOSE h : h = G(h))[U]
    BY Zenon DEF Growth, FoldSet, MapThenFoldSet, SplitsAfter
  <1> HIDE DEF U
  <1>3. f \in [U -> Rational]
    BY <1>1, RatioType
  <1>4. \A T \in SUBSET U : T # {} => (CHOOSE x \in T : TRUE) \in T
    BY Zenon
  <1>5. \A T \in SUBSET U : T # {} => f[CHOOSE x \in T : TRUE] = (CHOOSE x \in T : TRUE).ratio
    BY <1>4
  <1>6. Whole(1) \in Rational
    BY ReducedWhole
  <1> HIDE DEF f
  <1>7. PICK g : /\ Totals(g, f, U, Rational, Whole(1), scaled)
                 /\ \A h : Taken(h, f, U, Whole(1), scaled) <=> h = g
    BY <1>1, <1>3, <1>6, AnyOrder, FiniteFold
  <1>8. \A a, b \in Rational : scaled[<<a, b>>] = Times(b, a)
    BY DEF scaled
  <1>9. g = G(g)
    <2>1. Taken(g, f, U, Whole(1), scaled)
      BY <1>7
    <2>2. g = [T \in SUBSET U |-> g[T]] /\ g[{}] = Whole(1)
      BY <1>7, <2>1, Zenon DEF Taken, Totals
    <2>3. ASSUME NEW T \in SUBSET U, T # {}
          PROVE  g[T] = Times(g[T \ {CHOOSE x \in T : TRUE}], (CHOOSE x \in T : TRUE).ratio)
      <3> DEFINE c == CHOOSE x \in T : TRUE
      <3>1. c \in T /\ f[c] = c.ratio
        BY <1>4, <1>5, <2>3, Zenon
      <3> HIDE DEF c
      <3>2. g[T \ {c}] \in Rational /\ f[c] \in Rational
        BY <1>3, <1>7, <3>1 DEF Totals
      <3>3. g[T] = scaled[<<f[c], g[T \ {c}]>>]
        BY <1>7, <3>1, Zenon DEF Totals
      <3>4. g[T] = Times(g[T \ {c}], c.ratio)
        BY <1>8, <3>1, <3>2, <3>3, Zenon
      <3> QED BY <3>4 DEF c
    <2> QED BY <2>2, <2>3, Zenon
  <1>10. ASSUME NEW h, h = G(h) PROVE h = g
    <2>1. h = [T \in SUBSET U |-> h[T]] /\ g = [T \in SUBSET U |-> g[T]]
      BY <1>9, <1>10, Zenon
    <2> DEFINE pick == [T \in (SUBSET U) \ {{}} |-> CHOOSE x \in T : TRUE]
    <2>2. \A T \in SUBSET U : T # {} => pick[T] = CHOOSE x \in T : TRUE
      OBVIOUS
    <2>3. Picks(pick, U)
      BY <1>4, <2>2 DEF Picks
    <2> HIDE DEF pick
    <2>4. h[{}] = Whole(1) /\ g[{}] = Whole(1)
      BY <1>9, <1>10, Zenon
    <2>5. ASSUME NEW T \in SUBSET U, T # {}
          PROVE  /\ h[T] = Times(h[T \ {pick[T]}], pick[T].ratio)
                 /\ g[T] = Times(g[T \ {pick[T]}], pick[T].ratio)
      <3>1. h[T] = Times(h[T \ {CHOOSE x \in T : TRUE}], (CHOOSE x \in T : TRUE).ratio)
        BY <1>10, <2>5, Zenon
      <3>2. g[T] = Times(g[T \ {CHOOSE x \in T : TRUE}], (CHOOSE x \in T : TRUE).ratio)
        BY <1>9, <2>5, Zenon
      <3>3. pick[T] = CHOOSE x \in T : TRUE
        BY <2>2, <2>5
      <3> HIDE DEF G
      <3> QED BY <3>1, <3>2, <3>3, Zenon
    <2> HIDE DEF G
    <2>6. AgreeByRest(g, h, U, pick)
      BY <2>4, <2>5, Zenon DEF AgreeByRest
    <2>7. \A T \in SUBSET U : g[T] = h[T]
      BY <1>1, <2>3, <2>6, FiniteRecursionUnique
    <2> QED BY <2>1, <2>7, Zenon
  <1> HIDE DEF G
  <1>11. (CHOOSE h : h = G(h)) = g
    BY <1>9, <1>10, Zenon
  <1> QED BY <1>2, <1>7, <1>11, Zenon DEF Grows, f, U

\* What one unit recorded by e has become is a fraction.
LEMMA GrowthType ==
    ASSUME NEW S \in SUBSET EventType, IsFiniteSet(S), NEW e
    PROVE  Growth(S, e) \in Rational
  <1>1. PICK g : Grows(g, SplitsAfter(S, e)) /\ Growth(S, e) = g[SplitsAfter(S, e)]
    BY GrowthFold
  <1> QED BY <1>1 DEF Grows, Totals

\* It depends on nothing else.
LEMMA GrowthSame ==
    ASSUME NEW S \in SUBSET EventType, IsFiniteSet(S), NEW R \in SUBSET EventType, IsFiniteSet(R),
           NEW e, SplitsAfter(R, e) = SplitsAfter(S, e)
    PROVE  Growth(R, e) = Growth(S, e)
  BY DEF Growth, SplitsAfter

\* Without splits it stays one unit.
LEMMA GrowthNone ==
    ASSUME NEW S \in SUBSET EventType, IsFiniteSet(S), NEW e, SplitsAfter(S, e) = {}
    PROVE  Growth(S, e) = Whole(1)
  <1>1. PICK g : Grows(g, SplitsAfter(S, e)) /\ Growth(S, e) = g[SplitsAfter(S, e)]
    BY GrowthFold
  <1> QED BY <1>1 DEF Grows, Totals

\* One more split multiplies it by its ratio.
LEMMA GrowthSplit ==
    ASSUME NEW S \in SUBSET EventType, IsFiniteSet(S), NEW R \in SUBSET EventType, IsFiniteSet(R),
           NEW e, NEW s \in EventType, s \notin SplitsAfter(S, e),
           SplitsAfter(R, e) = SplitsAfter(S, e) \cup {s}
    PROVE  Growth(R, e) = Times(Growth(S, e), s.ratio)
  <1> DEFINE U == SplitsAfter(R, e)
             W == SplitsAfter(S, e)
             f == [x \in U |-> x.ratio]
             d == [x \in W |-> x.ratio]
  <1>1. PICK g : Totals(g, f, U, Rational, Whole(1), scaled) /\ Growth(R, e) = g[U]
    BY GrowthFold DEF Grows
  <1>2. PICK h : Totals(h, d, W, Rational, Whole(1), scaled) /\ Growth(S, e) = h[W]
    BY GrowthFold DEF Grows
  <1>3. W \in SUBSET U /\ s \in U /\ U \ {s} = W /\ U \in SUBSET U
    OBVIOUS
  <1>4. IsFiniteSet(U)
    BY FS_Subset DEF SplitsAfter
  <1>5. AgreeOn(d, f, W) /\ f[s] = s.ratio
    BY <1>3 DEF AgreeOn
  <1> HIDE DEF U, W, f, d
  <1>6. h[W] = g[W]
    BY <1>1, <1>2, <1>3, <1>4, <1>5, TotalsAgree
  <1>7. g[U] = scaled[<<f[s], g[U \ {s}]>>]
    BY <1>1, <1>3, Zenon DEF Totals
  <1>8. h[W] \in Rational /\ s.ratio \in Rational
    BY <1>2, RatioType DEF Totals
  <1>9. g[U] = scaled[<<s.ratio, h[W]>>]
    BY <1>3, <1>5, <1>6, <1>7, Zenon
  <1>10. scaled[<<s.ratio, h[W]>>] = Times(h[W], s.ratio)
    BY <1>8 DEF scaled
  <1> QED BY <1>1, <1>2, <1>9, <1>10, Zenon

\* What an event has done to the holding by the end of S, and which events have.
Change(e) == IF e.type \in Outgoing THEN -e.quantity ELSE e.quantity
Term(S, e) == Times(Whole(Change(e)), Growth(S, e))
Recorded(S, i) == {e \in S : e.instrument = i /\ e.type # "split"}

Adds(g, S, U) == Totals(g, [e \in U |-> Term(S, e)], U, Rational, Whole(0), added)

LEMMA TermType ==
    ASSUME NEW S \in SUBSET EventType, IsFiniteSet(S), NEW e \in EventType
    PROVE  Term(S, e) \in Rational /\ Whole(Change(e)) \in Rational /\ Change(e) \in Int
  <1>1. Change(e) \in Int
    <2>1. e.quantity \in Int
      BY DEF EventType
    <2> QED BY <2>1 DEF Change
  <1>2. Whole(Change(e)) \in Rational /\ Growth(S, e) \in Rational
    BY <1>1, ReducedWhole, GrowthType
  <1> QED BY <1>1, <1>2, TimesIs DEF Term

\* A holding adds them up, one at a time.
LEMMA HeldFold ==
    ASSUME NEW S \in SUBSET EventType, IsFiniteSet(S), NEW i
    PROVE  \E g : Adds(g, S, Recorded(S, i)) /\ Held(S, i) = g[Recorded(S, i)]
  <1> DEFINE U == Recorded(S, i)
             f == [e \in U |-> Term(S, e)]
             G(h) == [T \in SUBSET U |-> IF T = {} THEN Whole(0)
                        ELSE Plus(h[T \ {CHOOSE x \in T : TRUE}], Term(S, CHOOSE x \in T : TRUE))]
  <1>1. U \in SUBSET EventType /\ IsFiniteSet(U)
    BY FS_Subset DEF Recorded
  <1>2. Held(S, i) = (CHOOSE h : h = G(h))[U]
    BY Zenon DEF Held, FoldSet, MapThenFoldSet, Recorded, Term, Change
  <1> HIDE DEF U
  <1>3. f \in [U -> Rational]
    BY <1>1, TermType
  <1>4. \A T \in SUBSET U : T # {} => (CHOOSE x \in T : TRUE) \in T
    BY Zenon
  <1>5. \A x \in U : f[x] = Term(S, x)
    OBVIOUS
  <1>6. Whole(0) \in Rational
    BY ReducedWhole
  <1> HIDE DEF f
  <1>7. PICK g : /\ Totals(g, f, U, Rational, Whole(0), added)
                 /\ \A h : Taken(h, f, U, Whole(0), added) <=> h = g
    BY <1>1, <1>3, <1>6, AnyOrder, FiniteFold
  <1>8. \A a, b \in Rational : added[<<a, b>>] = Plus(b, a)
    BY DEF added
  <1>9. g = G(g)
    <2>1. Taken(g, f, U, Whole(0), added)
      BY <1>7
    <2>2. g = [T \in SUBSET U |-> g[T]] /\ g[{}] = Whole(0)
      BY <1>7, <2>1, Zenon DEF Taken, Totals
    <2>3. ASSUME NEW T \in SUBSET U, T # {}
          PROVE  g[T] = Plus(g[T \ {CHOOSE x \in T : TRUE}], Term(S, CHOOSE x \in T : TRUE))
      <3> DEFINE c == CHOOSE x \in T : TRUE
      <3>1. c \in T /\ c \in U
        BY <1>4, <2>3, Zenon
      <3> HIDE DEF c
      <3>2. g[T \ {c}] \in Rational /\ f[c] \in Rational /\ f[c] = Term(S, c)
        BY <1>3, <1>5, <1>7, <3>1 DEF Totals
      <3>3. g[T] = added[<<f[c], g[T \ {c}]>>]
        BY <1>7, <3>1, Zenon DEF Totals
      <3>4. g[T] = Plus(g[T \ {c}], Term(S, c))
        BY <1>8, <3>2, <3>3, Zenon
      <3> QED BY <3>4 DEF c
    <2> QED BY <2>2, <2>3, Zenon
  <1>10. ASSUME NEW h, h = G(h) PROVE h = g
    <2>1. h = [T \in SUBSET U |-> h[T]] /\ g = [T \in SUBSET U |-> g[T]]
      BY <1>9, <1>10, Zenon
    <2> DEFINE pick == [T \in (SUBSET U) \ {{}} |-> CHOOSE x \in T : TRUE]
    <2>2. \A T \in SUBSET U : T # {} => pick[T] = CHOOSE x \in T : TRUE
      OBVIOUS
    <2>3. Picks(pick, U)
      BY <1>4, <2>2 DEF Picks
    <2> HIDE DEF pick
    <2>4. h[{}] = Whole(0) /\ g[{}] = Whole(0)
      BY <1>9, <1>10, Zenon
    <2>5. ASSUME NEW T \in SUBSET U, T # {}
          PROVE  /\ h[T] = Plus(h[T \ {pick[T]}], Term(S, pick[T]))
                 /\ g[T] = Plus(g[T \ {pick[T]}], Term(S, pick[T]))
      <3>1. h[T] = Plus(h[T \ {CHOOSE x \in T : TRUE}], Term(S, CHOOSE x \in T : TRUE))
        BY <1>10, <2>5, Zenon
      <3>2. g[T] = Plus(g[T \ {CHOOSE x \in T : TRUE}], Term(S, CHOOSE x \in T : TRUE))
        BY <1>9, <2>5, Zenon
      <3>3. pick[T] = CHOOSE x \in T : TRUE
        BY <2>2, <2>5
      <3> HIDE DEF G
      <3> QED BY <3>1, <3>2, <3>3, Zenon
    <2> HIDE DEF G
    <2>6. AgreeByRest(g, h, U, pick)
      BY <2>4, <2>5, Zenon DEF AgreeByRest
    <2>7. \A T \in SUBSET U : g[T] = h[T]
      BY <1>1, <2>3, <2>6, FiniteRecursionUnique
    <2> QED BY <2>1, <2>7, Zenon
  <1> HIDE DEF G
  <1>11. (CHOOSE h : h = G(h)) = g
    BY <1>9, <1>10, Zenon
  <1> QED BY <1>2, <1>7, <1>11, Zenon DEF Adds, f, U

\* A holding is a fraction.
LEMMA HeldType ==
    ASSUME NEW S \in SUBSET EventType, IsFiniteSet(S), NEW i
    PROVE  Held(S, i) \in Rational
  <1>1. PICK g : Adds(g, S, Recorded(S, i)) /\ Held(S, i) = g[Recorded(S, i)]
    BY HeldFold
  <1> QED BY <1>1 DEF Adds, Totals

\* Nothing recorded, nothing held.
LEMMA HeldNone ==
    ASSUME NEW i
    PROVE  Held({}, i) = Whole(0)
  <1>1. {} \in SUBSET EventType /\ IsFiniteSet({}) /\ Recorded({}, i) = {}
    BY FS_EmptySet DEF Recorded
  <1>2. PICK g : Adds(g, {}, Recorded({}, i)) /\ Held({}, i) = g[Recorded({}, i)]
    BY <1>1, HeldFold
  <1> QED BY <1>1, <1>2 DEF Adds, Totals

-----------------------------------------------------------------------------
(* One more event *)

\* R is S and the event e after it.
Follows(e, S, R) ==
  /\ S \in SUBSET EventType /\ IsFiniteSet(S) /\ e \in EventType
  /\ R = S \cup {e} /\ e \notin S /\ \A f \in S : Before(f, e)

\* Then nothing in R is after it.
LEMMA FollowsIs ==
    ASSUME NEW e, NEW S, NEW R, Follows(e, S, R)
    PROVE  /\ R \in SUBSET EventType /\ IsFiniteSet(R)
           /\ \A f \in R : ~Before(e, f)
  <1>1. R \in SUBSET EventType /\ IsFiniteSet(R)
    BY FS_AddElement DEF Follows
  <1>2. \A f \in R : f.date \in Int /\ f.sequence \in Int
    BY <1>1 DEF EventType, Days
  <1> QED BY <1>1, <1>2 DEF Follows, Before

\* An event that is no split, or of another instrument, leaves the growth of others.
LEMMA FollowGrowth ==
    ASSUME NEW e, NEW S, NEW R, Follows(e, S, R), NEW f \in S
    PROVE  Growth(R, f) = IF e.type = "split" /\ e.instrument = f.instrument
                          THEN Times(Growth(S, f), e.ratio) ELSE Growth(S, f)
  <1>1. S \in SUBSET EventType /\ IsFiniteSet(S) /\ R \in SUBSET EventType /\ IsFiniteSet(R) /\ e \in EventType
    BY FollowsIs DEF Follows
  <1>2. CASE e.type = "split" /\ e.instrument = f.instrument
    <2>1. e \notin SplitsAfter(S, f) /\ SplitsAfter(R, f) = SplitsAfter(S, f) \cup {e}
      BY <1>2 DEF Follows, SplitsAfter
    <2> QED BY <1>1, <1>2, <2>1, GrowthSplit
  <1>3. CASE ~(e.type = "split" /\ e.instrument = f.instrument)
    <2>1. SplitsAfter(R, f) = SplitsAfter(S, f)
      BY <1>3 DEF Follows, SplitsAfter
    <2>2. Growth(R, f) = Growth(S, f)
      BY <1>1, <2>1, GrowthSame
    <2> QED BY <1>3, <2>2
  <1> QED BY <1>2, <1>3

\* Events of other instruments do not count.
LEMMA FollowOther ==
    ASSUME NEW e, NEW S, NEW R, Follows(e, S, R), NEW i, e.instrument # i
    PROVE  Held(R, i) = Held(S, i)
  <1> DEFINE U == Recorded(S, i)
             f == [x \in U |-> Term(S, x)]
             d == [x \in U |-> Term(R, x)]
  <1>1. S \in SUBSET EventType /\ IsFiniteSet(S) /\ R \in SUBSET EventType /\ IsFiniteSet(R)
    BY FollowsIs DEF Follows
  <1>2. Recorded(R, i) = U
    BY DEF Recorded, Follows
  <1>3. PICK g : Totals(g, f, U, Rational, Whole(0), added) /\ Held(S, i) = g[U]
    BY <1>1, HeldFold DEF Adds
  <1>4. PICK h : Totals(h, d, U, Rational, Whole(0), added) /\ Held(R, i) = h[U]
    BY <1>1, <1>2, HeldFold DEF Adds
  <1>5. AgreeOn(d, f, U)
    <2>1. ASSUME NEW x \in U PROVE Term(R, x) = Term(S, x)
      <3>1. x \in S /\ e.instrument # x.instrument
        BY DEF Recorded
      <3>2. Growth(R, x) = Growth(S, x)
        BY <3>1, FollowGrowth
      <3> QED BY <3>2 DEF Term
    <2> QED BY <2>1 DEF AgreeOn
  <1>6. IsFiniteSet(U) /\ U \in SUBSET U
    BY <1>1, FS_Subset DEF Recorded
  <1> HIDE DEF U, f, d
  <1>7. h[U] = g[U]
    BY <1>3, <1>4, <1>5, <1>6, TotalsAgree
  <1> QED BY <1>3, <1>4, <1>7

\* A trade adds its quantity.
LEMMA FollowTrade ==
    ASSUME NEW e, NEW S, NEW R, Follows(e, S, R), e.type # "split"
    PROVE  Held(R, e.instrument) = Plus(Held(S, e.instrument), Whole(Change(e)))
  <1> DEFINE i == e.instrument
             W == Recorded(S, i)
             U == Recorded(R, i)
             f == [x \in U |-> Term(R, x)]
             d == [x \in W |-> Term(S, x)]
  <1>1. /\ S \in SUBSET EventType /\ IsFiniteSet(S) /\ R \in SUBSET EventType /\ IsFiniteSet(R)
        /\ e \in EventType
    BY FollowsIs DEF Follows
  <1>2. W \in SUBSET U /\ e \in U /\ U \ {e} = W /\ U \in SUBSET U
    BY DEF Recorded, Follows
  <1>3. PICK h : Totals(h, d, W, Rational, Whole(0), added) /\ Held(S, i) = h[W]
    BY <1>1, HeldFold DEF Adds
  <1>4. PICK g : Totals(g, f, U, Rational, Whole(0), added) /\ Held(R, i) = g[U]
    BY <1>1, HeldFold DEF Adds
  <1>5. AgreeOn(d, f, W)
    <2>1. ASSUME NEW x \in W PROVE Term(R, x) = Term(S, x)
      <3>1. x \in S
        BY DEF Recorded
      <3>2. Growth(R, x) = Growth(S, x)
        BY <3>1, FollowGrowth
      <3> QED BY <3>2 DEF Term
    <2> QED BY <1>2, <2>1 DEF AgreeOn
  <1>6. f[e] = Whole(Change(e))
    <2>1. SplitsAfter(R, e) = {}
      BY FollowsIs DEF SplitsAfter
    <2>2. Growth(R, e) = Whole(1)
      BY <1>1, <2>1, GrowthNone
    <2>3. Term(R, e) = Whole(Change(e))
      BY <1>1, <2>2, TermType, TimesOne DEF Term
    <2> QED BY <1>2, <2>3
  <1>7. IsFiniteSet(U)
    BY <1>1, FS_Subset DEF Recorded
  <1> HIDE DEF U, W, f, d
  <1>8. h[W] = g[W]
    BY <1>2, <1>3, <1>4, <1>5, <1>7, TotalsAgree
  <1>9. g[U] = added[<<f[e], g[U \ {e}]>>]
    BY <1>2, <1>4, Zenon DEF Totals
  <1>10. g[U] = added[<<Whole(Change(e)), h[W]>>]
    BY <1>2, <1>6, <1>8, <1>9, Zenon
  <1>11. h[W] \in Rational /\ Whole(Change(e)) \in Rational
    BY <1>1, <1>3, TermType DEF Totals
  <1>12. added[<<Whole(Change(e)), h[W]>>] = Plus(h[W], Whole(Change(e)))
    BY <1>11 DEF added
  <1> QED BY <1>3, <1>4, <1>10, <1>12, Zenon

\* A split multiplies the holding.
LEMMA FollowSplit ==
    ASSUME NEW e, NEW S, NEW R, Follows(e, S, R), e.type = "split"
    PROVE  Held(R, e.instrument) = Times(Held(S, e.instrument), e.ratio)
  <1> DEFINE i == e.instrument
             r == e.ratio
             U == Recorded(S, i)
             f == [x \in U |-> Term(S, x)]
             d == [x \in U |-> Term(R, x)]
  <1>1. /\ S \in SUBSET EventType /\ IsFiniteSet(S) /\ R \in SUBSET EventType /\ IsFiniteSet(R)
        /\ e \in EventType /\ r \in Rational
    BY FollowsIs, RatioType DEF Follows
  <1>2. Recorded(R, i) = U
    BY DEF Recorded, Follows
  <1>3. PICK g : Totals(g, f, U, Rational, Whole(0), added) /\ Held(S, i) = g[U]
    BY <1>1, HeldFold DEF Adds
  <1>4. PICK h : Totals(h, d, U, Rational, Whole(0), added) /\ Held(R, i) = h[U]
    BY <1>1, <1>2, HeldFold DEF Adds
  <1>5. ASSUME NEW x \in U
        PROVE  f[x] \in Rational /\ d[x] = Times(f[x], r) /\ d[x] \in Rational
    <2>1. x \in S /\ x \in EventType /\ e.instrument = x.instrument
      BY <1>1 DEF Recorded
    <2>2. Growth(R, x) = Times(Growth(S, x), r)
      BY <2>1, FollowGrowth
    <2>3. Whole(Change(x)) \in Rational /\ Growth(S, x) \in Rational /\ Term(S, x) \in Rational
      BY <1>1, <2>1, TermType, GrowthType
    <2>4. Times(Whole(Change(x)), Times(Growth(S, x), r)) = Times(Times(Whole(Change(x)), Growth(S, x)), r)
      BY <1>1, <2>3, TimesRegroups
    <2>5. Term(R, x) = Times(Term(S, x), r)
      BY <2>2, <2>4 DEF Term
    <2>6. Times(Term(S, x), r) \in Rational
      BY <1>1, <2>3, TimesIs
    <2> QED BY <2>3, <2>5, <2>6
  <1>6. IsFiniteSet(U)
    BY <1>1, FS_Subset DEF Recorded
  <1> DEFINE pick == [T \in (SUBSET U) \ {{}} |-> CHOOSE x \in T : TRUE]
             k == [T \in SUBSET U |-> Times(g[T], r)]
  <1>7. \A T \in SUBSET U : T # {} => pick[T] \in T
    OBVIOUS
  <1>8. Picks(pick, U)
    BY <1>7 DEF Picks
  <1>9. \A T \in SUBSET U : k[T] = Times(g[T], r)
    OBVIOUS
  <1> HIDE DEF U, f, d, pick, k, r, i
  <1>10. h[{}] = k[{}]
    BY <1>1, <1>3, <1>4, <1>9, ZeroTimes DEF Totals
  <1>11. \A a, b \in Rational : added[<<a, b>>] = Plus(b, a)
    BY DEF added
  <1>12. ASSUME NEW T \in SUBSET U, T # {}, h[T \ {pick[T]}] = k[T \ {pick[T]}]
         PROVE  h[T] = k[T]
    <2> DEFINE x == pick[T]
               V == T \ {x}
    <2>1. x \in T /\ x \in U /\ V \in SUBSET U
      BY <1>7, <1>12
    <2> HIDE DEF x
    <2>2. h[T] = added[<<d[x], h[V]>>] /\ g[T] = added[<<f[x], g[V]>>]
      BY <1>3, <1>4, <2>1, Zenon DEF Totals
    <2>3. h[V] \in Rational /\ g[V] \in Rational
      BY <1>3, <1>4, <2>1 DEF Totals
    <2>4. h[V] = Times(g[V], r)
      BY <1>9, <1>12, <2>1 DEF x
    <2> HIDE DEF V
    <2>5. f[x] \in Rational /\ d[x] = Times(f[x], r) /\ d[x] \in Rational
      BY <1>5, <2>1
    <2>6. h[T] = Plus(h[V], d[x]) /\ g[T] = Plus(g[V], f[x])
      BY <1>11, <2>2, <2>3, <2>5
    <2>7. Times(Plus(g[V], f[x]), r) = Plus(Times(g[V], r), Times(f[x], r))
      BY <1>1, <2>3, <2>5, TimesDistributes
    <2> QED BY <1>9, <2>4, <2>5, <2>6, <2>7
  <1>13. AgreeByRest(h, k, U, pick)
    BY <1>10, <1>12, Zenon DEF AgreeByRest
  <1>14. \A T \in SUBSET U : h[T] = k[T]
    BY <1>6, <1>8, <1>13, FiniteRecursionUnique
  <1>15. h[U] = Times(g[U], r)
    BY <1>9, <1>14
  <1> QED BY <1>3, <1>4, <1>15, Zenon DEF i, r

\* Replay and sum agree.
Agree(rows) == \A i \in Instruments : replayPositionEvents(rows).holding[i] = Held(rows, i)

\* The last event takes a history to where its replay is.
LEMMA AgreeStep ==
    ASSUME NEW rows, Ordered(rows), rows # {}, replayPositionEvents(rows).ok,
           Agree(rows \ {Last(rows)})
    PROVE  Agree(rows)
  <1> DEFINE e == Last(rows)
             rest == rows \ {e}
             s == replayPositionEvents(rest)
             next == Apply(e, s.holding[e.instrument])
  <1>1. e \in rows /\ \A f \in rows : ~Before(e, f)
    BY LastIsLast DEF Ordered
  <1>2. rest \in SUBSET EventType /\ IsFiniteSet(rest) /\ e \in EventType
    BY <1>1, FS_RemoveElement DEF Ordered
  <1>3. Follows(e, rest, rows)
    <2>1. \A f \in rest : Before(f, e)
      BY <1>1 DEF Ordered, Before, EventType, Days
    <2> QED BY <1>1, <1>2, <2>1 DEF Follows
  <1>4. s \in Replay /\ s.ok
    BY <1>2, ReplayType, LastHolds
  <1>5. replayPositionEvents(rows) = replayEvent(e, s)
    BY ReplayStep DEF Ordered
  <1>6. \A i \in Instruments : s.holding[i] = Held(rest, i)
    BY DEF Agree
  <1>7. e.instrument \in Instruments
    BY <1>2 DEF EventType
  <1> HIDE DEF e, rest, s
  <1>8. next = Held(rows, e.instrument)
    <2>1. CASE e.type = "split"
      <3>1. next = Times(Held(rest, e.instrument), e.ratio)
        BY <1>6, <1>7, <2>1 DEF Apply, Outgoing
      <3> QED BY <1>3, <2>1, <3>1, FollowSplit
    <2>2. CASE e.type # "split"
      <3>1. next = Plus(Held(rest, e.instrument), Whole(Change(e)))
        BY <1>6, <1>7, <2>2 DEF Apply, Change
      <3> QED BY <1>3, <2>2, <3>1, FollowTrade
    <2> QED BY <2>1, <2>2
  <1> HIDE DEF next
  <1>9. replayPositionEvents(rows).holding = [s.holding EXCEPT ![e.instrument] = next]
    BY <1>4, <1>5 DEF replayEvent, next
  <1>10. ASSUME NEW i \in Instruments PROVE replayPositionEvents(rows).holding[i] = Held(rows, i)
    <2>1. CASE i = e.instrument
      BY <1>4, <1>7, <1>8, <1>9, <2>1 DEF Replay
    <2>2. CASE i # e.instrument
      <3>1. Held(rows, i) = Held(rest, i)
        BY <1>3, <2>2, FollowOther
      <3>2. replayPositionEvents(rows).holding[i] = s.holding[i]
        BY <1>4, <1>9, <2>2 DEF Replay
      <3> QED BY <1>6, <3>1, <3>2
    <2> QED BY <2>1, <2>2
  <1> QED BY <1>10 DEF Agree

\* Replaying a history gives what the independent sum says of it.
LEMMA HeldIsReplayed ==
    ASSUME NEW rows, Ordered(rows), replayPositionEvents(rows).ok
    PROVE  Agree(rows)
  <1> DEFINE N == {n \in Nat : \A S \in SUBSET rows :
                     Cardinality(S) = n /\ replayPositionEvents(S).ok => Agree(S)}
  <1>0. \A S \in SUBSET rows : /\ Ordered(S) /\ IsFiniteSet(S) /\ Cardinality(S) \in Nat
                               /\ (Cardinality(S) = 0 <=> S = {})
    BY FS_Subset, FS_EmptySet, FS_CardinalityType DEF Ordered
  <1>1. 0 \in N
    <2>1. Agree({})
      BY ReplayEmpty, HeldNone DEF Agree, Nothing
    <2> QED BY <1>0, <2>1
  <1>2. ASSUME NEW n \in Nat, n \in N PROVE n + 1 \in N
    <2>1. ASSUME NEW S \in SUBSET rows, Cardinality(S) = n + 1, replayPositionEvents(S).ok
          PROVE  Agree(S)
      <3> DEFINE e == Last(S)
                 T == S \ {e}
      <3>1. Ordered(S) /\ S # {}
        BY <1>0, <2>1
      <3>2. e \in S
        BY <3>1, LastIsLast DEF Ordered
      <3>3. replayPositionEvents(T).ok
        BY <2>1, <3>1, LastHolds
      <3>4. Cardinality(T) = n
        <4>1. Cardinality(T) = Cardinality(S) - 1
          BY <1>0, <3>2, FS_RemoveElement
        <4> QED BY <2>1, <4>1
      <3>5. Agree(T)
        BY <1>2, <3>3, <3>4
      <3> QED BY <2>1, <3>1, <3>5, AgreeStep
    <2>2. n + 1 \in Nat
      OBVIOUS
    <2> QED BY <2>1, <2>2, Zenon
  <1> HIDE DEF N
  <1>3. Cardinality(rows) \in N
    BY <1>0, <1>1, <1>2, NaturalsByInduction
  <1> QED BY <1>3 DEF N

-----------------------------------------------------------------------------
(* What holds of the histories *)

\* The history of an account is ordered, and replays to what it sums up to.
LEMMA HistoryAgrees ==
    ASSUME PositionsInv, NEW a \in Accounts
    PROVE  /\ Ordered(EventsOf(events, a)) /\ HistoryHolds(EventsOf(events, a))
           /\ replayPositionEvents(EventsOf(events, a)).ok /\ Agree(EventsOf(events, a))
  <1>1. EventsOf(events, a) \in SUBSET events /\ \A e \in EventsOf(events, a) : e.account = a
    BY DEF EventsOf
  <1>2. Ordered(EventsOf(events, a))
    BY <1>1, FS_Subset DEF Ordered, PositionsInv, Table, Distinct
  <1>3. replayPositionEvents(EventsOf(events, a)).ok
    BY DEF PositionsInv, HistoriesReplay, validatePositionReplay
  <1> QED BY <1>2, <1>3, ReplayHolds, HeldIsReplayed

\* At an event, and before it.
LEMMA UntilAgrees ==
    ASSUME PositionsInv, NEW e \in events
    PROVE  /\ Entitled(e, replayPositionEvents(Until(e)).holding) /\ Agree(Until(e))
           /\ Held(Until(e) \cup {e}, e.instrument)[1] >= 0
  <1> DEFINE S == EventsOf(events, e.account)
             before == Until(e)
             with == before \cup {e}
  <1>1. e \in EventType /\ e.account \in Accounts /\ e.instrument \in Instruments /\ e \in S
    BY DEF PositionsInv, Table, EventType, EventsOf
  <1>2. Ordered(S) /\ EventHolds(S, e)
    BY <1>1, HistoryAgrees DEF HistoryHolds
  <1>3. before = {f \in S : Before(f, e)}
    BY DEF Until
  <1>4. /\ replayPositionEvents(before).ok /\ Entitled(e, replayPositionEvents(before).holding)
        /\ replayPositionEvents(with).ok
        /\ replayPositionEvents(with).holding[e.instrument][1] >= 0
    BY <1>2, <1>3, Zenon DEF EventHolds
  <1>5. before \in SUBSET S /\ with \in SUBSET S
    BY <1>1, <1>3
  <1> HIDE DEF S, before, with
  <1>6. Ordered(before) /\ Ordered(with)
    BY <1>2, <1>5, FS_Subset DEF Ordered
  <1>7. Agree(before) /\ Agree(with)
    BY <1>4, <1>6, HeldIsReplayed
  <1>8. Held(with, e.instrument)[1] >= 0
    BY <1>1, <1>4, <1>7 DEF Agree
  <1> QED BY <1>4, <1>7, <1>8 DEF before, with

\* A spin-off names the instrument it came from.
LEMMA SpinoffSource ==
    ASSUME PositionsInv, NEW e \in events, e.type = "spinoff"
    PROVE  e.related \in Instruments
  <1>1. e.group # NoKey /\ e.group \in Keys
    BY DEF PositionsInv, Table, EventType, Groups, Corporate
  <1>2. e \in OfGroup(events, e.group)
    BY DEF OfGroup
  <1>3. GroupWhole(OfGroup(events, e.group), OfGroup(grouped, e.group), e.group)
    BY <1>1 DEF PositionsInv, Groups
  <1> QED BY <1>2, <1>3 DEF GroupWhole

\* No holding was ever negative, at any point of any account's history,
\* whatever was backdated, edited or undone since: validatePositionReplay.
THEOREM NeverShort == Spec => []LongOnly
  <1>1. PositionsInv => LongOnly
    BY UntilAgrees DEF LongOnly
  <1> QED BY <1>1, PositionsInvariant, PTL

\* A recorded merger surrenders the whole holding, and a recorded spin-off
\* gives what its source was entitled to, of the history as it is now.
THEOREM ActionsStayEntitled == Spec => []EntitlementsHold
  <1>1. PositionsInv => EntitlementsHold
    <2> SUFFICES ASSUME PositionsInv, NEW e \in events
                 PROVE  /\ e.type = "merger_out" => Held(Until(e), e.instrument) = Whole(e.quantity)
                        /\ e.type = "spinoff" => Times(Held(Until(e), e.related), e.ratio) = Whole(e.quantity)
      BY DEF EntitlementsHold
    <2>1. Entitled(e, replayPositionEvents(Until(e)).holding) /\ Agree(Until(e))
      BY UntilAgrees
    <2>2. e.instrument \in Instruments /\ (e.type = "spinoff" => e.related \in Instruments)
      BY SpinoffSource DEF PositionsInv, Table, EventType
    <2>3. /\ replayPositionEvents(Until(e)).holding[e.instrument] = Held(Until(e), e.instrument)
          /\ e.type = "spinoff" =>
               replayPositionEvents(Until(e)).holding[e.related] = Held(Until(e), e.related)
      BY <2>1, <2>2, Zenon DEF Agree
    <2> QED BY <2>1, <2>3, Zenon DEF Entitled
  <1> QED BY <1>1, PositionsInvariant, PTL

-----------------------------------------------------------------------------
(* The cached value *)

\* The two ways the sums of a record's field are written.
LEMMA AmountsAdded ==
    ASSUME NEW T
    PROVE  SumFunction([t \in T |-> t.amount]) = MapThenSumSet(LAMBDA t : t.amount, T)
  <1> DEFINE f == [t \in T |-> t.amount]
             F(h) == [S \in SUBSET T |-> IF S = {} THEN 0
                        ELSE f[CHOOSE x \in S : TRUE] + h[S \ {CHOOSE x \in S : TRUE}]]
             G(h) == [S \in SUBSET T |-> IF S = {} THEN 0
                        ELSE (CHOOSE x \in S : TRUE).amount + h[S \ {CHOOSE x \in S : TRUE}]]
  <1>1. DOMAIN f = T
    OBVIOUS
  <1>2. SumFunction(f) = (CHOOSE h : h = F(h))[T]
    BY <1>1, Zenon DEF SumFunction, SumFunctionOnSet, FoldFunctionOnSet, MapThenFoldSet
  <1>3. MapThenSumSet(LAMBDA t : t.amount, T) = (CHOOSE h : h = G(h))[T]
    BY Zenon DEF MapThenSumSet, MapThenFoldSet
  <1>4. \A S \in SUBSET T : S # {} => f[CHOOSE x \in S : TRUE] = (CHOOSE x \in S : TRUE).amount
    OBVIOUS
  <1> HIDE DEF f
  <1>5. \A h : F(h) = G(h)
    <2> TAKE h
    <2>1. \A S \in SUBSET T :
            (IF S = {} THEN 0 ELSE f[CHOOSE x \in S : TRUE] + h[S \ {CHOOSE x \in S : TRUE}])
              = (IF S = {} THEN 0 ELSE (CHOOSE x \in S : TRUE).amount + h[S \ {CHOOSE x \in S : TRUE}])
      <3> TAKE S \in SUBSET T
      <3>1. CASE S = {}
        BY <3>1, Zenon
      <3>2. CASE S # {}
        <4>1. f[CHOOSE x \in S : TRUE] = (CHOOSE x \in S : TRUE).amount
          BY <1>4, <3>2, Zenon
        <4> QED BY <3>2, <4>1, Zenon
      <3> QED BY <3>1, <3>2, Zenon
    <2> QED BY <2>1, Zenon
  <1> HIDE DEF F, G
  <1>6. (CHOOSE h : h = F(h)) = (CHOOSE h : h = G(h))
    BY <1>5, Zenon
  <1> QED BY <1>2, <1>3, <1>6, Zenon DEF f

\* The latest quote until the day, before the splits are looked at or after.
LEMMA QuoteIsPrice ==
    ASSUME NEW a, EventsOf(events, a) \in SUBSET EventType, NEW i, NEW day \in Days
    PROVE  PriceOn(EventsOf(events, a), prices, i, day) = Quote(a, i, day)
  <1> DEFINE R == EventsOf(events, a)
             splits == {e \in R : e.instrument = i /\ e.type = "split"}
             effective == {d \in Days : prices[<<i, d>>] > 0 /\ d <= day /\ \A e \in splits : e.date <= d}
             quoted == {d \in 1 .. day : prices[<<i, d>>] > 0}
             late == \E e \in R : e.type = "split" /\ e.instrument = i /\ e.date > Max(quoted)
  <1>1. /\ PriceOn(R, prices, i, day) = IF effective = {} THEN 0 ELSE prices[<<i, Max(effective)>>]
        /\ Quote(a, i, day) = IF quoted = {} \/ late THEN 0 ELSE prices[<<i, Max(quoted)>>]
    BY Zenon DEF PriceOn, Quote
  <1>2. day \in Int /\ LastDay \in Int /\ \A e \in R : e.date \in Int
    BY PositionsAssumption DEF Days, EventType
  <1>3. /\ effective = {d \in quoted : \A e \in splits : e.date <= d}
        /\ late <=> \E e \in splits : e.date > Max(quoted)
        /\ quoted \in SUBSET Int /\ \A e \in splits : e.date \in Int
    BY <1>2 DEF Days
  <1>4. IsFiniteSet(quoted)
    <2>1. IsFiniteSet(1 .. day)
      BY <1>2, FS_Interval
    <2> QED BY <2>1, FS_Subset
  <1> DEFINE m == Max(quoted)
             n == Max(effective)
  <1> HIDE DEF R, splits, effective, quoted, late
  <1>5. CASE quoted = {}
    BY <1>1, <1>3, <1>5 DEF R
  <1>6. CASE quoted # {}
    <2>1. m \in quoted /\ \A d \in quoted : m >= d
      BY <1>3, <1>4, <1>6, MaxOfFinite
    <2>2. CASE late
      <3>1. PICK e \in splits : e.date > m
        BY <1>3, <2>2, Zenon
      <3> HIDE DEF m
      <3>2. \A d \in quoted : ~(e.date <= d)
        BY <1>3, <2>1, <3>1
      <3>3. effective = {}
        BY <1>3, <3>2, Zenon
      <3> QED BY <1>1, <2>2, <3>3 DEF R
    <2>3. CASE ~late
      <3>1. m \in effective /\ effective \in SUBSET quoted
        <4>1. \A e \in splits : ~(e.date > m)
          BY <1>3, <2>3, Zenon
        <4> HIDE DEF m
        <4>2. \A e \in splits : e.date <= m
          BY <1>3, <2>1, <4>1
        <4> QED BY <1>3, <2>1, <4>2, Zenon
      <3>2. IsFiniteSet(effective) /\ effective # {} /\ effective \in SUBSET Int
        BY <1>3, <1>4, <3>1, FS_Subset
      <3>3. n \in effective /\ \A d \in effective : n >= d
        BY <3>2, MaxOfFinite
      <3> HIDE DEF m, n
      <3>4. n >= m /\ m >= n /\ n \in Int /\ m \in Int
        BY <1>3, <2>1, <3>1, <3>3
      <3>5. n = m
        BY <3>4
      <3> QED BY <1>1, <1>6, <2>3, <3>2, <3>5, Zenon DEF R, m, n
    <2> QED BY <2>2, <2>3
  <1> QED BY <1>5, <1>6 DEF R

LEMMA CashAdded ==
    ASSUME NEW T
    PROVE  SumFunction([t \in T |-> t.cash]) = MapThenSumSet(LAMBDA t : t.cash, T)
  <1> DEFINE f == [t \in T |-> t.cash]
             F(h) == [S \in SUBSET T |-> IF S = {} THEN 0
                        ELSE f[CHOOSE x \in S : TRUE] + h[S \ {CHOOSE x \in S : TRUE}]]
             G(h) == [S \in SUBSET T |-> IF S = {} THEN 0
                        ELSE (CHOOSE x \in S : TRUE).cash + h[S \ {CHOOSE x \in S : TRUE}]]
  <1>1. DOMAIN f = T
    OBVIOUS
  <1>2. SumFunction(f) = (CHOOSE h : h = F(h))[T]
    BY <1>1, Zenon DEF SumFunction, SumFunctionOnSet, FoldFunctionOnSet, MapThenFoldSet
  <1>3. MapThenSumSet(LAMBDA t : t.cash, T) = (CHOOSE h : h = G(h))[T]
    BY Zenon DEF MapThenSumSet, MapThenFoldSet
  <1>4. \A S \in SUBSET T : S # {} => f[CHOOSE x \in S : TRUE] = (CHOOSE x \in S : TRUE).cash
    OBVIOUS
  <1> HIDE DEF f
  <1>5. \A h : F(h) = G(h)
    <2> TAKE h
    <2>1. \A S \in SUBSET T :
            (IF S = {} THEN 0 ELSE f[CHOOSE x \in S : TRUE] + h[S \ {CHOOSE x \in S : TRUE}])
              = (IF S = {} THEN 0 ELSE (CHOOSE x \in S : TRUE).cash + h[S \ {CHOOSE x \in S : TRUE}])
      <3> TAKE S \in SUBSET T
      <3>1. CASE S = {}
        BY <3>1, Zenon
      <3>2. CASE S # {}
        <4>1. f[CHOOSE x \in S : TRUE] = (CHOOSE x \in S : TRUE).cash
          BY <1>4, <3>2, Zenon
        <4> QED BY <3>2, <4>1, Zenon
      <3> QED BY <3>1, <3>2, Zenon
    <2> QED BY <2>1, Zenon
  <1> HIDE DEF F, G
  <1>6. (CHOOSE h : h = F(h)) = (CHOOSE h : h = G(h))
    BY <1>5, Zenon
  <1> QED BY <1>2, <1>3, <1>6, Zenon DEF f

\* f is what the holdings of an account are worth.
WorthEach(f, a, day) ==
  /\ DOMAIN f = Instruments
  /\ \A i \in Instruments : f[i] = canonicalRat(Held(EventsOf(events, a), i)) * Quote(a, i, day)

WorthAll(a, day) ==
  MapThenSumSet(LAMBDA i : canonicalRat(Held(EventsOf(events, a), i)) * Quote(a, i, day), Instruments)

LEMMA HoldingsAdded ==
    ASSUME NEW a, NEW day, NEW f, WorthEach(f, a, day)
    PROVE  SumFunction(f) = WorthAll(a, day)
  <1> DEFINE T == Instruments
             worthOf(i) == canonicalRat(Held(EventsOf(events, a), i)) * Quote(a, i, day)
             F(h) == [S \in SUBSET T |-> IF S = {} THEN 0
                        ELSE f[CHOOSE x \in S : TRUE] + h[S \ {CHOOSE x \in S : TRUE}]]
             G(h) == [S \in SUBSET T |-> IF S = {} THEN 0
                        ELSE worthOf(CHOOSE x \in S : TRUE) + h[S \ {CHOOSE x \in S : TRUE}]]
  <1>1. DOMAIN f = T
    BY DEF WorthEach
  <1>2. SumFunction(f) = (CHOOSE h : h = F(h))[T]
    BY <1>1, Zenon DEF SumFunction, SumFunctionOnSet, FoldFunctionOnSet, MapThenFoldSet
  <1>3. WorthAll(a, day) = (CHOOSE h : h = G(h))[T]
    BY Zenon DEF WorthAll, MapThenSumSet, MapThenFoldSet
  <1>4. \A S \in SUBSET T : S # {} => f[CHOOSE x \in S : TRUE] = worthOf(CHOOSE x \in S : TRUE)
    BY DEF WorthEach
  <1>5. \A h : F(h) = G(h)
    <2> TAKE h
    <2>1. \A S \in SUBSET T :
            (IF S = {} THEN 0 ELSE f[CHOOSE x \in S : TRUE] + h[S \ {CHOOSE x \in S : TRUE}])
              = (IF S = {} THEN 0 ELSE worthOf(CHOOSE x \in S : TRUE) + h[S \ {CHOOSE x \in S : TRUE}])
      <3> TAKE S \in SUBSET T
      <3>1. CASE S = {}
        BY <3>1, Zenon
      <3>2. CASE S # {}
        <4>1. f[CHOOSE x \in S : TRUE] = worthOf(CHOOSE x \in S : TRUE)
          BY <1>4, <3>2, Zenon
        <4> QED BY <3>2, <4>1, Zenon
      <3> QED BY <3>1, <3>2, Zenon
    <2> QED BY <2>1, Zenon
  <1> HIDE DEF F, G
  <1>6. (CHOOSE h : h = F(h)) = (CHOOSE h : h = G(h))
    BY <1>5, Zenon
  <1> QED BY <1>2, <1>3, <1>6, Zenon

\* The cached value of an active account is its worth on the day it was last
\* rebuilt: recalculatePositionAccount.
THEOREM CacheIsWorth == Spec => []CachedValue
  <1>1. PositionsInv => CachedValue
    <2> SUFFICES ASSUME PositionsInv, NEW a \in Active \ missed
                 PROVE  value[a] = Worth(a, builtOn[a])
      BY DEF CachedValue
    <2> DEFINE R == EventsOf(events, a)
               T == EventsOf(grouped, a)
               day == builtOn[a]
               holding == replayPositionEvents(R).holding
               f == [i \in Instruments |-> canonicalRat(holding[i]) * PriceOn(R, prices, i, day)]
    <2>1. a \in Accounts /\ day \in Days /\ R \in SUBSET EventType
      BY DEF Active, PositionsInv, TypeOK, Table, EventsOf
    <2>2. \A i \in Instruments : f[i] = canonicalRat(Held(R, i)) * Quote(a, i, day)
      <3> TAKE i \in Instruments
      <3>1. holding[i] = Held(R, i)
        BY <2>1, HistoryAgrees DEF Agree
      <3>2. PriceOn(R, prices, i, day) = Quote(a, i, day)
        BY <2>1, QuoteIsPrice
      <3>3. f[i] = canonicalRat(holding[i]) * PriceOn(R, prices, i, day)
        OBVIOUS
      <3> HIDE DEF f, holding, R, day
      <3> QED BY <3>1, <3>2, <3>3, Zenon
    <2>3. value[a] = cash[a] + SumFunction([t \in T |-> t.amount])
                             + SumFunction([e \in R |-> e.cash]) + SumFunction(f)
      BY Zenon DEF PositionsInv, CachedReplay, WorthOf, ReplayedWorth
    <2>4. WorthEach(f, a, day)
      BY <2>2 DEF WorthEach
    <2>5. SumFunction(f) = WorthAll(a, day)
      BY <2>4, HoldingsAdded
    <2>6. /\ SumFunction([t \in T |-> t.amount]) = MapThenSumSet(LAMBDA t : t.amount, T)
          /\ SumFunction([e \in R |-> e.cash]) = MapThenSumSet(LAMBDA e : e.cash, R)
      BY AmountsAdded, CashAdded, Zenon
    <2> HIDE DEF f
    <2> QED BY <2>3, <2>5, <2>6, Zenon DEF Worth, WorthAll
  <1> QED BY <1>1, PositionsInvariant, PTL

=============================================================================
