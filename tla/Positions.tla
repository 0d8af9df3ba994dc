----------------------------- MODULE Positions -----------------------------
(***************************************************************************)
(* The position-tracked accounts of one user: the events, corporate        *)
(* actions and prices of internal/service/investment_mutations.go and      *)
(* corporate_actions.go, and the requests of ledger.go that meet them.     *)
(*                                                                         *)
(* The quantity of a holding is nowhere stored: it is replayed from the    *)
(* account's events, and every edit must leave a history that replays.     *)
(* What is stored is a cache of the account's value.                       *)
(*                                                                         *)
(* These requests run under SERIALIZABLE and are one action each, which a  *)
(* failed or repeated request leaves out.  The requests of the ledger run  *)
(* under READ COMMITTED and escape serialization: the writing of a price   *)
(* and the deletion of an event judge accounts they do not lock, and are   *)
(* split to let them in between.                                           *)
(* How ledger requests race each other is LedgerTx's subject, and not here.*)
(* Left out: currencies and their rates, reconciliations, names.           *)
(*                                                                         *)
(* Quantities count units of the last decimal place a stored quantity can  *)
(* have (canonicalRat keeps 100): only splits make a finer holding.        *)
(***************************************************************************)
EXTENDS Integers, FiniteSets, FiniteSetsExt, Functions

CONSTANTS
  Accounts,
  Instruments, NoInstrument,
  Keys, NoKey,   \* idempotency keys; the event group a key created goes by the same name
  Trades,        \* the ordinary event types in use
  Quantities,    \* positive quantities of a request
  Ratios,        \* new to existing shares, <<numerator, denominator>>
  Prices,        \* positive prices
  Settlements,   \* positive settlements, dividends and fees
  Balances,      \* sums of the cash entries the ledger keeps for an account
  LastDay,       \* BOUND: the last day of the calendar
  Ahead,         \* days the user's calendar is ahead of UTC
  MaxMinor,      \* the largest bigint of minor units
  MaxRequests    \* BOUND: requests that write

Ordinary == {"opening_position", "buy", "sell", "quantity_adjustment"}
Outgoing == {"sell", "transfer_out", "merger_out"}
Corporate == {"transfer_in", "transfer_out", "split", "spinoff", "merger_in", "merger_out"}

ASSUME PositionsAssumption ==
  /\ IsFiniteSet(Instruments) /\ NoInstrument \notin Instruments /\ NoKey \notin Keys
  /\ Trades \subseteq Ordinary
  /\ {Ahead, MaxMinor, MaxRequests} \subseteq Nat /\ LastDay \in Nat \ {0}
  /\ Quantities \cup Prices \subseteq Nat \ {0} /\ Settlements \subseteq 1 .. MaxMinor
  /\ Balances \subseteq Int /\ 0 \in Balances
  /\ Ratios \subseteq (Nat \ {0}) \X (Nat \ {0})

VARIABLES
  status,       \* accounts: active, archived or deleted
  value,        \* accounts.current_value_minor
  cash,         \* the ledger's own transactions of an account, as their sum
  grouped,      \* the transactions that belong to an event group
  events,       \* the position_events table
  instruments,  \* the investment_instruments table: active, archived or deleted
  prices,       \* the security_prices table: price by instrument and day, 0: no row
  open,         \* the transaction that is writing a price or deleting events
  today,        \* the date in UTC
  builtOn,      \* HISTORY: the day the value of an account was last rebuilt
  missed,       \* HISTORY: accounts restored beside a transaction that took them for archived
  requests      \* the number of requests so far

accountVars == <<value, builtOn, missed>>
vars == <<status, cash, grouped, events, instruments, prices, open, today, accountVars, requests>>

Days == 1 .. LastDay
Minor == -MaxMinor - 1 .. MaxMinor
NoRow == <<NoInstrument, 0>>

\* row and price: the quote it writes; doomed: the events it deletes; active and
\* archived: how the accounts it rebuilds stand in its snapshot; written: the
\* accounts written since.
Closed == [row |-> NoRow, price |-> 0, doomed |-> {}, active |-> {}, archived |-> {}, written |-> {}]

Request == requests < MaxRequests /\ requests' = requests + 1

\* No SERIALIZABLE transaction takes effect inside another one.
Serial == open = Closed

\* validateDate: not after today in the user's timezone.
ValidDate(d) == d <= today + Ahead

-----------------------------------------------------------------------------
(* Exact fractions *)

Reduced(n, d) ==
  LET g == Max({k \in 1 .. d : n % k = 0 /\ d % k = 0})
  IN  <<n \div g, d \div g>>

Whole(n) == <<n, 1>>
Plus(p, q) == Reduced(p[1] * q[2] + q[1] * p[2], p[2] * q[2])
Times(p, q) == Reduced(p[1] * q[1], p[2] * q[2])

\* canonicalRat: the nearest decimal, halves away from zero.
canonicalRat(q) == (2 * q[1] + q[2]) \div (2 * q[2])

-----------------------------------------------------------------------------
(* Replay *)

\* ORDER BY trade_date, event_sequence within one account.
Before(e, f) == e.date < f.date \/ (e.date = f.date /\ e.sequence < f.sequence)

Last(S) == CHOOSE e \in S : \A f \in S : ~Before(e, f)

EventsOf(rows, a) == {e \in rows : e.account = a}

\* The holding after event e when the holding before was q.
Apply(e, q) ==
  CASE e.type \in Outgoing -> Plus(q, Whole(-e.quantity))
    [] e.type = "split" -> Times(q, e.ratio)
    [] OTHER -> Plus(q, Whole(e.quantity))

\* What a corporate action was computed from must still be there.
Entitled(e, holding) ==
  /\ e.type = "spinoff" => Times(holding[e.related], e.ratio) = Whole(e.quantity)
  /\ e.type = "merger_out" => holding[e.instrument] = Whole(e.quantity)

\* Mutant: recorded corporate actions are not validated.
replayEventLax(e, s) ==
  LET next == Apply(e, s.holding[e.instrument])
  IN  IF ~s.ok THEN s
      ELSE [ok |-> next[1] >= 0, holding |-> [s.holding EXCEPT ![e.instrument] = next]]

\* One turn of the loop of replayPositionEvents; a failed replay stays failed.
replayEvent(e, s) ==
  LET next == Apply(e, s.holding[e.instrument])
  IN  IF ~s.ok THEN s
      ELSE [ok |-> next[1] >= 0 /\ Entitled(e, s.holding),
            holding |-> [s.holding EXCEPT ![e.instrument] = next]]

Nothing == [ok |-> TRUE, holding |-> [i \in Instruments |-> Whole(0)]]

replayPositionEvents(rows) ==
  LET replay[S \in SUBSET rows] ==
        IF S = {} THEN Nothing ELSE replayEvent(Last(S), replay[S \ {Last(S)}])
  IN  replay[rows]

validatePositionReplay(rows, a) == replayPositionEvents(EventsOf(rows, a)).ok

\* corporateQuantityAt: through the end of day d.
quantityAt(a, i, d) ==
  replayPositionEvents({e \in EventsOf(events, a) : e.date <= d}).holding[i]

-----------------------------------------------------------------------------
(* The cached value *)

\* Mutant: a quote from before a split still counts.
positionPriceAnyAge(rows, p, a, i) ==
  LET effective == {d \in Days : p[<<i, d>>] > 0 /\ d <= today}
  IN  IF effective = {} THEN 0 ELSE p[<<i, Max(effective)>>]

\* The latest price not after today and not before the last split; 0: no price.
positionPrice(rows, p, a, i) ==
  LET splits == {e \in EventsOf(rows, a) : e.instrument = i /\ e.type = "split"}
      effective == {d \in Days : p[<<i, d>>] > 0 /\ d <= today /\ \A e \in splits : e.date <= d}
  IN  IF effective = {} THEN 0 ELSE p[<<i, Max(effective)>>]

\* holding: what the replay of the account's rows gives.
positionValue(holding, rows, c, g, p, a) ==
  c[a] + SumFunction([t \in EventsOf(g, a) |-> t.amount])
       + SumFunction([e \in EventsOf(rows, a) |-> e.cash])
       + SumFunction([i \in Instruments |-> canonicalRat(holding[i]) * positionPrice(rows, p, a, i)])

\* Mutant: the total may leave the range of a bigint.
recalculateUnchecked(rebuilt, rows, c, g, p) ==
  LET replayed == [a \in rebuilt |-> replayPositionEvents(EventsOf(rows, a))]
  IN  /\ \A a \in rebuilt : replayed[a].ok
      /\ value' = [a \in Accounts |-> IF a \in rebuilt
                                     THEN positionValue(replayed[a].holding, rows, c, g, p, a)
                                     ELSE value[a]]
      /\ builtOn' = [a \in Accounts |-> IF a \in rebuilt THEN today ELSE builtOn[a]]

\* recalculatePositionAccount for active accounts a request touched, over the
\* rows it leaves.  (It returns early for an archived account.)
recalculate(rebuilt, rows, c, g, p) ==
  LET replayed == [a \in rebuilt |-> replayPositionEvents(EventsOf(rows, a))]
      total == [a \in rebuilt |-> positionValue(replayed[a].holding, rows, c, g, p, a)]
  IN  /\ \A a \in rebuilt : replayed[a].ok /\ total[a] \in Minor
      /\ value' = [a \in Accounts |-> IF a \in rebuilt THEN total[a] ELSE value[a]]
      /\ builtOn' = [a \in Accounts |-> IF a \in rebuilt THEN today ELSE builtOn[a]]

Active == {a \in Accounts : status[a] = "active"}

\* What ends every request that changes events: the touched accounts must
\* replay, which recalculate checks of the active ones.
validateAndRecalculate(touched) ==
  /\ \A a \in touched \ Active : validatePositionReplay(events', a)
  /\ recalculate(touched \cap Active, events', cash, grouped', prices)
  /\ missed' = missed \ touched
  /\ UNCHANGED <<status, cash, instruments, prices, open, today>>

-----------------------------------------------------------------------------
(* Position events *)

FreshKey(k) == \A e \in events : e.key # k

\* Mutant: rows are counted, although deletion leaves gaps.
nextSequenceCount(rows, a, d) ==
  1 + Cardinality({e \in rows : e.account = a /\ e.date = d})

nextSequence(rows, a, d) ==
  1 + Max({0} \cup {e.sequence : e \in {f \in rows : f.account = a /\ f.date = d}})

Event(a, i, type, q, d) ==
  [account |-> a, instrument |-> i, related |-> NoInstrument, type |-> type, quantity |-> q,
   ratio |-> <<1, 1>>, cash |-> 0, date |-> d, sequence |-> 0, group |-> NoKey, key |-> NoKey]

\* The row goes to the end of its day.
Insert(rows, e) ==
  rows \cup {[e EXCEPT !.sequence = nextSequence(rows, e.account, e.date)]}

\* What a trade does to the cash of its account: positionCashEffect.
positionCashEffect(type, s) ==
  CASE type = "buy" -> -s [] type = "sell" -> s [] OTHER -> 0

EventQuantity(type, q) == q \in Quantities \/ (type = "quantity_adjustment" /\ -q \in Quantities)

CreatePositionEvent(a, i, k, type, q, s, d) ==
  /\ Serial /\ Request /\ ValidDate(d) /\ EventQuantity(type, q)
  /\ status[a] = "active" /\ instruments[i] = "active" /\ FreshKey(k)
  /\ events' = Insert(events, [Event(a, i, type, q, d) EXCEPT !.cash = positionCashEffect(type, s),
                                                              !.key = k])
  /\ UNCHANGED grouped
  /\ validateAndRecalculate({a})

\* The event keeps its place in the day, or goes to the end of another day.
UpdatePositionEvent(e, i, type, q, s, d) ==
  LET moved == [e EXCEPT !.instrument = i, !.type = type, !.quantity = q, !.date = d,
                         !.cash = positionCashEffect(type, s)]
  IN  /\ Serial /\ Request /\ ValidDate(d) /\ EventQuantity(type, q)
      /\ status[e.account] = "active" /\ instruments[i] = "active"
      /\ e.type \in Ordinary /\ e.group = NoKey
      /\ events' = IF d = e.date THEN (events \ {e}) \cup {moved} ELSE Insert(events \ {e}, moved)
      /\ UNCHANGED grouped
      /\ validateAndRecalculate({e.account})

\* A transaction that will rebuild accounts it does not lock takes its snapshot.
begin(row, p, doomed, touched) ==
  /\ open' = [row |-> row, price |-> p, doomed |-> doomed, active |-> touched \cap Active,
              archived |-> touched \ Active, written |-> {}]
  /\ UNCHANGED <<status, cash, grouped, events, instruments, prices, today, accountVars>>

\* How it ends: an account that was archived in the snapshot is passed over, and
\* one that was active is rebuilt, which fails if it has been written since.
commit(rows, p) ==
  /\ open.active \cap open.written = {}
  /\ recalculate(open.active, rows, cash, grouped, p)
  /\ missed' = (missed \ open.active) \cup (open.archived \cap Active)
  /\ open' = Closed
  /\ UNCHANGED <<status, cash, grouped, instruments, today, requests>>

\* Nothing is saved.
abort ==
  /\ ~Serial
  /\ open' = Closed
  /\ UNCHANGED <<status, cash, grouped, events, instruments, prices, today, accountVars, requests>>

\* DeletePositionEvent up to its snapshot; it locks the event.  Neither the
\* account nor the instrument has to be active.
beginDelete(e) ==
  /\ Serial /\ Request
  /\ e.type \in Ordinary /\ e.group = NoKey
  /\ begin(NoRow, 0, {e}, {e.account})

\* Mutant: the rest of the history is not replayed.
commitDeleteBlind ==
  /\ open.doomed # {}
  /\ events' = events \ open.doomed
  /\ open' = Closed
  /\ UNCHANGED <<status, cash, grouped, instruments, prices, today, accountVars, requests>>

commitDelete ==
  /\ open.doomed # {}
  /\ events' = events \ open.doomed
  /\ \A e \in open.doomed : validatePositionReplay(events', e.account)
  /\ commit(events', prices)
  /\ UNCHANGED prices

-----------------------------------------------------------------------------
(* Corporate actions *)

\* corporateIdempotency found nothing, and all the action names is active.
Record(k, d, accounts, used) ==
  /\ Serial /\ Request /\ ValidDate(d) /\ FreshKey(k)
  /\ \A a \in accounts : status[a] = "active"
  /\ \A i \in used : instruments[i] = "active"

RecordStockSplit(a, i, k, ratio, d) ==
  /\ Record(k, d, {a}, {i})
  /\ quantityAt(a, i, d)[1] > 0
  /\ events' = Insert(events, [Event(a, i, "split", 0, d) EXCEPT !.ratio = ratio, !.group = k, !.key = k])
  /\ UNCHANGED grouped
  /\ validateAndRecalculate({a})

\* Rejected by the replay when the new quantity has no exact decimal.
RecordSpinoff(a, source, new, k, ratio, d) ==
  LET held == quantityAt(a, source, d)
  IN  /\ source # new /\ Record(k, d, {a}, {source, new})
      /\ held[1] > 0
      /\ events' = Insert(events, [Event(a, new, "spinoff", canonicalRat(Times(held, ratio)), d)
                                     EXCEPT !.related = source, !.ratio = ratio, !.group = k, !.key = k])
      /\ UNCHANGED grouped
      /\ validateAndRecalculate({a})

\* Only the first of the two events carries the key.
RecordMerger(a, source, new, k, ratio, d) ==
  LET held == quantityAt(a, source, d)
      out == [Event(a, source, "merger_out", canonicalRat(held), d)
                EXCEPT !.related = new, !.ratio = ratio, !.group = k, !.key = k]
      in == [Event(a, new, "merger_in", canonicalRat(Times(held, ratio)), d)
                EXCEPT !.related = source, !.ratio = ratio, !.group = k]
  IN  /\ source # new /\ Record(k, d, {a}, {source, new})
      /\ held[1] > 0
      /\ events' = Insert(Insert(events, out), in)
      /\ UNCHANGED grouped
      /\ validateAndRecalculate({a})

Transaction(a, amount, k) == [account |-> a, amount |-> amount, group |-> k]

\* The dividend and the purchase it pays are one group.
RecordDividendReinvestment(a, i, k, q, dividend, s, d) ==
  /\ Record(k, d, {a}, {i})
  /\ grouped' = grouped \cup {Transaction(a, dividend, k)}
  /\ events' = Insert(events, [Event(a, i, "buy", q, d) EXCEPT !.cash = positionCashEffect("buy", s),
                                                               !.group = k, !.key = k])
  /\ validateAndRecalculate({a})

\* fee: 0, or what the transfer costs the account it leaves.
RecordInKindTransfer(from, to, i, k, q, fee, d) ==
  LET out == [Event(from, i, "transfer_out", q, d) EXCEPT !.group = k, !.key = k]
      in == [Event(to, i, "transfer_in", q, d) EXCEPT !.group = k]
  IN  /\ from # to /\ Record(k, d, {from, to}, {i})
      /\ events' = Insert(Insert(events, out), in)
      /\ grouped' = IF fee = 0 THEN grouped ELSE grouped \cup {Transaction(from, -fee, k)}
      /\ validateAndRecalculate({from, to})

OfGroup(rows, k) == {e \in rows : e.group = k}

\* Mutant: one active account of the group is enough.
DeleteGroupOfOne(k) ==
  LET touched == {e.account : e \in OfGroup(events, k)}
  IN  /\ Serial /\ Request
      /\ touched # {} /\ \E a \in touched : status[a] = "active"
      /\ events' = events \ OfGroup(events, k)
      /\ grouped' = grouped \ OfGroup(grouped, k)
      /\ validateAndRecalculate(touched)

\* The group goes as a whole: its events, its transactions, in all its accounts.
DeleteGroup(k) ==
  LET touched == {e.account : e \in OfGroup(events, k)}
  IN  /\ Serial /\ Request
      /\ touched # {} /\ \A a \in touched : status[a] = "active"
      /\ events' = events \ OfGroup(events, k)
      /\ grouped' = grouped \ OfGroup(grouped, k)
      /\ validateAndRecalculate(touched)

-----------------------------------------------------------------------------
(* Instruments and prices *)

\* Archiving needs every holding closed, in every account.
SetInstrumentArchived(i, archived) ==
  /\ Serial /\ Request
  /\ instruments[i] # "deleted"
  /\ archived => \A a \in Accounts : quantityAt(a, i, LastDay) = Whole(0)
  /\ instruments' = [instruments EXCEPT ![i] = IF archived THEN "archived" ELSE "active"]
  /\ UNCHANGED <<status, cash, grouped, events, prices, open, today, accountVars>>

\* The prices of the instrument go with it.
DeleteInstrument(i) ==
  /\ Serial /\ Request
  /\ instruments[i] # "deleted"
  /\ \A e \in events : i \notin {e.instrument, e.related}
  /\ instruments' = [instruments EXCEPT ![i] = "deleted"]
  /\ prices' = [r \in Instruments \X Days |-> IF r[1] = i THEN 0 ELSE prices[r]]
  /\ UNCHANGED <<status, cash, grouped, events, open, today, accountVars>>

\* recalculateInstrumentAccounts: every account with an event of the instrument.
holders(i) == {e.account : e \in {f \in events : f.instrument = i}}

\* UpsertSecurityPrice and DeleteSecurityPrice (price 0) up to their snapshot.
beginPrice(i, d, p) ==
  /\ Serial /\ Request
  /\ \/ p > 0 /\ ValidDate(d) /\ instruments[i] = "active"
     \/ p = 0 /\ prices[<<i, d>>] > 0
  /\ begin(<<i, d>>, p, {}, holders(i))

commitPrice ==
  /\ open.row # NoRow
  /\ prices' = [prices EXCEPT ![open.row] = open.price]
  /\ commit(events, prices')
  /\ UNCHANGED events

-----------------------------------------------------------------------------
(* The ledger's requests on a position account: READ COMMITTED *)

Written(a) ==
  open' = IF Serial THEN open ELSE [open EXCEPT !.written = @ \cup {a}]

\* Create, update or delete transactions of the account's cash.
ChangeCash(a, sum) ==
  /\ Request /\ status[a] = "active" /\ sum # cash[a]
  /\ cash' = [cash EXCEPT ![a] = sum]
  /\ recalculate({a}, events, cash', grouped, prices)
  /\ missed' = missed \ {a}
  /\ Written(a) /\ UNCHANGED <<status, grouped, events, instruments, prices, today>>

ArchiveAccount(a) ==
  /\ Request /\ status[a] # "deleted"
  /\ status' = [status EXCEPT ![a] = "archived"]
  /\ Written(a)
  /\ UNCHANGED <<cash, grouped, events, instruments, prices, today, accountVars>>

\* An account that is not archived is rebuilt all the same.
RestoreAccount(a) ==
  /\ Request /\ status[a] # "deleted"
  /\ status' = [status EXCEPT ![a] = "active"]
  /\ recalculate({a}, events, cash, grouped, prices)
  /\ missed' = missed \ {a}
  /\ Written(a) /\ UNCHANGED <<cash, grouped, events, instruments, prices, today>>

\* Mutant: only transactions link an account to others.
linkedByCash(a) ==
  \E t \in EventsOf(grouped, a), u \in grouped : u.group = t.group /\ u.account # a

\* A group of the account that also has rows elsewhere.
linked(a) ==
  \E e \in EventsOf(events, a) \cup EventsOf(grouped, a), f \in events \cup grouped :
    e.group # NoKey /\ f.group = e.group /\ f.account # a

\* Its rows go with it, which waits for the lock on one that is being deleted.
DeleteAccount(a) ==
  /\ Request /\ status[a] = "archived" /\ ~linked(a)
  /\ \A e \in open.doomed : e.account # a
  /\ status' = [status EXCEPT ![a] = "deleted"]
  /\ events' = events \ EventsOf(events, a)
  /\ grouped' = grouped \ EventsOf(grouped, a)
  /\ cash' = [cash EXCEPT ![a] = 0] /\ value' = [value EXCEPT ![a] = 0]
  /\ Written(a) /\ UNCHANGED <<instruments, prices, today, builtOn, missed>>

NextDay ==
  /\ today < LastDay
  /\ today' = today + 1
  /\ UNCHANGED <<status, cash, grouped, events, instruments, prices, open, accountVars, requests>>

-----------------------------------------------------------------------------
\* New accounts without an opening balance, and instruments nobody holds yet.
Init ==
  /\ status = [a \in Accounts |-> "active"]
  /\ value = [a \in Accounts |-> 0] /\ cash = [a \in Accounts |-> 0]
  /\ grouped = {} /\ events = {}
  /\ instruments = [i \in Instruments |-> "active"]
  /\ prices = [r \in Instruments \X Days |-> 0]
  /\ open = Closed
  /\ today = 1 /\ builtOn = [a \in Accounts |-> 1]
  /\ missed = {}
  /\ requests = 0

Signed == Quantities \cup {-q : q \in Quantities}

Next ==
  \/ \E a \in Accounts :
       \/ \E i \in Instruments, k \in Keys, d \in Days :
            \/ \E type \in Trades, q \in Signed, s \in Settlements :
                 CreatePositionEvent(a, i, k, type, q, s, d)
            \/ \E ratio \in Ratios : RecordStockSplit(a, i, k, ratio, d)
            \/ \E new \in Instruments, ratio \in Ratios :
                 RecordSpinoff(a, i, new, k, ratio, d) \/ RecordMerger(a, i, new, k, ratio, d)
            \/ \E q \in Quantities, dividend, s \in Settlements :
                 RecordDividendReinvestment(a, i, k, q, dividend, s, d)
            \/ \E to \in Accounts, q \in Quantities, fee \in Settlements \cup {0} :
                 RecordInKindTransfer(a, to, i, k, q, fee, d)
       \/ \E sum \in Balances : ChangeCash(a, sum)
       \/ ArchiveAccount(a) \/ RestoreAccount(a) \/ DeleteAccount(a)
  \/ \E e \in events :
       \/ \E i \in Instruments, type \in Trades, q \in Signed, s \in Settlements, d \in Days :
            UpdatePositionEvent(e, i, type, q, s, d)
       \/ beginDelete(e)
  \/ \E k \in Keys : DeleteGroup(k)
  \/ \E i \in Instruments :
       \/ \E archived \in BOOLEAN : SetInstrumentArchived(i, archived)
       \/ DeleteInstrument(i)
       \/ \E d \in Days, p \in Prices \cup {0} : beginPrice(i, d, p)
  \/ commitDelete \/ commitPrice \/ abort \/ NextDay

Spec == Init /\ [][Next]_vars

-----------------------------------------------------------------------------
(* Properties *)

EventType ==
  [account: Accounts, instrument: Instruments, related: Instruments \cup {NoInstrument},
   type: Ordinary \cup Corporate, quantity: Int, ratio: Ratios \cup {<<1, 1>>}, cash: Minor,
   date: Days, sequence: Nat \ {0}, group: Keys \cup {NoKey}, key: Keys \cup {NoKey}]

OpenType(rows) ==
  [row: (Instruments \X Days) \cup {NoRow}, price: Prices \cup {0}, doomed: SUBSET rows,
   active: SUBSET Accounts, archived: SUBSET Accounts, written: SUBSET Accounts]

\* Type invariant: what the columns of the tables can hold; and no event that is
\* being deleted goes before its deletion ends.
TypeOK ==
  /\ status \in [Accounts -> {"active", "archived", "deleted"}]
  /\ value \in [Accounts -> Minor] /\ cash \in [Accounts -> Balances]
  /\ grouped \subseteq [account: Accounts, amount: Minor, group: Keys]
  /\ events \subseteq EventType
  /\ instruments \in [Instruments -> {"active", "archived", "deleted"}]
  /\ prices \in [Instruments \X Days -> Prices \cup {0}]
  /\ today \in Days /\ builtOn \in [Accounts -> Days] /\ missed \subseteq Accounts
  /\ open \in OpenType(events)
  /\ requests \in 0 .. MaxRequests

\* What one unit recorded by e has become by the end of S.
Growth(S, e) ==
  FoldSet(LAMBDA s, q : Times(q, s.ratio), Whole(1),
          {s \in S : s.type = "split" /\ s.instrument = e.instrument /\ Before(e, s)})

\* The quantity of an instrument that the events S of one account amount to.
Held(S, i) ==
  FoldSet(LAMBDA e, q : Plus(q, Times(Whole(IF e.type \in Outgoing THEN -e.quantity ELSE e.quantity),
                                      Growth(S, e))),
          Whole(0), {e \in S : e.instrument = i /\ e.type # "split"})

Until(e) == {f \in EventsOf(events, e.account) : Before(f, e)}

\* No holding was ever negative, at any point of any account's history,
\* whatever was backdated, edited or undone since.
LongOnly ==
  \A e \in events : Held(Until(e) \cup {e}, e.instrument)[1] >= 0

\* A recorded merger surrenders the whole holding, and a recorded spin-off
\* gives the shares its source was entitled to, of the history as it is now and
\* not only as it was when the action was recorded.
EntitlementsHold ==
  \A e \in events :
    /\ e.type = "merger_out" => Held(Until(e), e.instrument) = Whole(e.quantity)
    /\ e.type = "spinoff" => Times(Held(Until(e), e.related), e.ratio) = Whole(e.quantity)

\* Events of one account and day have an order of their own, so that replay
\* does not depend on timestamps.
SequencesDistinct ==
  \A e, f \in events :
    e.account = f.account /\ e.date = f.date /\ e.sequence = f.sequence => e = f

\* A compound activity is whole or gone: a transfer has both ends, a merger
\* both instruments, a reinvestment its dividend, and cash of a group its event.
GroupsWhole ==
  /\ \A e \in events :
       /\ e.type \in {"transfer_in", "transfer_out"} =>
            \E f \in OfGroup(events, e.group) : f.account # e.account /\ f.quantity = e.quantity
       /\ e.type \in {"merger_in", "merger_out"} =>
            \E f \in OfGroup(events, e.group) : f.instrument = e.related /\ f.type # e.type
       /\ e.type = "buy" /\ e.group # NoKey => \E t \in OfGroup(grouped, e.group) : t.amount > 0
  /\ \A t \in grouped : \E e \in OfGroup(events, t.group) : e.account = t.account

\* The price that counts on a day: the latest until then, unless the account
\* has recorded a split after it.
Quote(a, i, day) ==
  LET quoted == {d \in 1 .. day : prices[<<i, d>>] > 0}
  IN  IF \/ quoted = {}
         \/ \E e \in EventsOf(events, a) : e.type = "split" /\ e.instrument = i /\ e.date > Max(quoted)
      THEN 0 ELSE prices[<<i, Max(quoted)>>]

\* What an account is worth by its own records.
Worth(a, day) ==
  cash[a] + MapThenSumSet(LAMBDA t : t.amount, EventsOf(grouped, a))
          + MapThenSumSet(LAMBDA e : e.cash, EventsOf(events, a))
          + MapThenSumSet(LAMBDA i : canonicalRat(Held(EventsOf(events, a), i)) * Quote(a, i, day), Instruments)

\* The cached value of an active account is its worth on the day it was last
\* rebuilt: whatever has changed its events, cash or prices since has rebuilt
\* it, except the price that was being written or the event that was being
\* deleted, by a transaction that took it for archived, when it was restored.
CachedValue ==
  \A a \in Active \ missed : value[a] = Worth(a, builtOn[a])

\* Restoring an account rebuilds its value from its records.
RestoredValue == \A a \in Active : value[a] = Worth(a, builtOn[a])

\* While an account stays archived its value is frozen, nothing is added to its
\* history, and its part in a group stays, though the group has other accounts.
ArchivedStep ==
  \A a \in Accounts : status[a] = "archived" /\ status'[a] = "archived" =>
    /\ value'[a] = value[a]
    /\ EventsOf(events', a) \subseteq EventsOf(events, a)
    /\ \A e \in EventsOf(events, a) \ EventsOf(events', a) : e.group = NoKey

ArchivedFrozen == [][ArchivedStep]_vars

=============================================================================
