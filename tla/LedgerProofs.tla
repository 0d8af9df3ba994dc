---------------------------- MODULE LedgerProofs ----------------------------
(***************************************************************************)
(* Proofs about Ledger, for every set of accounts, keys, amounts, dates    *)
(* and every bound.                                                        *)
(*                                                                         *)
(* LedgerInv is inductive whatever the replay computes.  The second half   *)
(* is about what it computes, for histories of any length: the loop is a   *)
(* recursion over the rows in their order, the reference is the latest     *)
(* valuation plus the sum of the effects after it, and that they agree is  *)
(* induction on the number of rows (ReplayMeaning).  The loop stops at a   *)
(* balance that is no bigint; so they agree for every history that some    *)
(* request was let through with.  There is one order, because ids never    *)
(* repeat (IdsDistinct).                                                   *)
(***************************************************************************)
EXTENDS Ledger, FiniteLemmas

-----------------------------------------------------------------------------
(* The inductive invariant *)

\* The account row exists.
Exists(a) == accounts[a].status \in {"active", "archived", "converted"}

\* A row of either table: exactly the legs of a transfer carry a group, and
\* its id and group were handed out before id next.
WellFormed(e, next) ==
  /\ e.id < next /\ e.group < next
  /\ e.type = "transfer" <=> e.group # NoGroup
  /\ e.type = "transfer" => e.kind = "transaction"

\* Rows never outlive their account.
RowsWellFormed == \A e \in events : WellFormed(e, nextId) /\ Exists(e.account)

\* CachedBalance and TransfersWhole are not inductive on their own: a new
\* account must not inherit rows, and a new group must be new.
LedgerInv == TypeOK /\ RowsWellFormed /\ CachedBalance /\ TransfersWhole /\ OneResultPerKey

-----------------------------------------------------------------------------
(* Lemmas *)

\* The replay of a history of one row is that row applied to zero.
LEMMA ReplaySingleton ==
  ASSUME NEW e
  PROVE  Replay({e}) = ReplayRow(0, e)
<1> DEFINE Step(g) == [s \in SUBSET {e} |->
                         IF s = {} THEN 0 ELSE ReplayRow(g[s \ {LastRow(s)}], LastRow(s))]
           short == [s \in SUBSET {e} |-> IF s = {} THEN 0 ELSE ReplayRow(0, e)]
           iter == CHOOSE g : g = Step(g)
<1>1. Replay({e}) = iter[{e}]
  BY DEF Replay, MapThenFoldSet
<1>2. LastRow({e}) = e
  BY DEF LastRow
<1>3. short = Step(short)
  BY <1>2
<1>4. iter = Step(iter)
  BY <1>3
<1> HIDE DEF iter
<1>5. iter[{}] = 0
  BY <1>4
<1>6. iter[{e}] = ReplayRow(iter[{e} \ {LastRow({e})}], LastRow({e}))
  BY <1>4
<1>7. {e} \ {LastRow({e})} = {}
  BY <1>2
<1> QED
  BY <1>1, <1>2, <1>5, <1>6, <1>7

\* The account whose only row is its opening balance is worth the opening value.
LEMMA ReplayOpening ==
  ASSUME NEW e \in Event, e.type = "opening_balance", e.kind = "transaction", e.amount >= 0
  PROVE  Replay({e}) = e.amount
<1>1. 0 \in Minor /\ e.amount \in Int
  BY LedgerAssumption DEF Minor, Event
<1>2. transactionEffect(e) = e.amount
  BY <1>1 DEF transactionEffect, Credits
<1>3. ReplayRow(0, e) = e.amount
  BY <1>1, <1>2 DEF ReplayRow
<1> QED
  BY <1>3, ReplaySingleton

\* replayBalance changes nothing but the value of the active accounts it was
\* given, and leaves that value inside the range of a bigint.
LEMMA ReplayBalanceEffect ==
  ASSUME TypeOK, NEW touched \in SUBSET AccountIds, NEW rows, replayBalance(touched, rows)
  PROVE  /\ accounts' \in [AccountIds -> [status: Statuses, value: Minor, liability: BOOLEAN]]
         /\ \A a \in AccountIds :
              /\ accounts'[a].status = accounts[a].status
              /\ accounts[a].status = "active" /\ a \in touched
                   => accounts'[a].value = Replay(EventsOf(rows, a))
              /\ accounts[a].status # "active" \/ a \notin touched
                   => accounts'[a] = accounts[a]
<1> DEFINE new(a) == IF a \in touched /\ IsActive(a)
                     THEN [accounts[a] EXCEPT !.value = Replay(EventsOf(rows, a))]
                     ELSE accounts[a]
<1>1. accounts' = [a \in AccountIds |-> new(a)]
  BY DEF replayBalance
<1>2. ASSUME NEW a \in AccountIds
      PROVE  /\ new(a) \in [status: Statuses, value: Minor, liability: BOOLEAN]
             /\ new(a).status = accounts[a].status
             /\ accounts[a].status = "active" /\ a \in touched
                  => new(a).value = Replay(EventsOf(rows, a))
             /\ accounts[a].status # "active" \/ a \notin touched => new(a) = accounts[a]
  <2>1. accounts[a] \in [status: Statuses, value: Minor, liability: BOOLEAN]
    BY DEF TypeOK
  <2>2. CASE a \in touched /\ IsActive(a)
    <3>1. Replay(EventsOf(rows, a)) \in Minor
      BY <2>2 DEF replayBalance
    <3> QED
      BY <2>1, <2>2, <3>1 DEF IsActive
  <2>3. CASE ~(a \in touched /\ IsActive(a))
    BY <2>1, <2>3 DEF IsActive
  <2> QED
    BY <2>2, <2>3
<1> HIDE DEF new
<1> QED
  BY <1>1, <1>2

-----------------------------------------------------------------------------
(* Each request preserves the invariant *)

\* A request that changes no row, no key and only the status or the side of an
\* existing account, and no cached value of an account that is active after it.
LEMMA StatusStep ==
  ASSUME LedgerInv, NEW a \in AccountIds, Exists(a),
         NEW row \in [status: {"active", "archived", "converted"}, value: Minor,
                      liability: BOOLEAN],
         row.status = "active" => row.value = Replay(EventsOf(events, a)),
         accounts' = [accounts EXCEPT ![a] = row],
         UNCHANGED <<events, idempotency, nextId>>
  PROVE  LedgerInv'
<1>1. TypeOK'
  BY DEF LedgerInv, TypeOK, Statuses
<1>2. RowsWellFormed'
  BY DEF LedgerInv, TypeOK, RowsWellFormed, Exists
<1>3. CachedBalance'
  BY DEF LedgerInv, TypeOK, CachedBalance, IsActive
<1>4. TransfersWhole' /\ OneResultPerKey'
  BY DEF LedgerInv, TransfersWhole, OneResultPerKey
<1> QED
  BY <1>1, <1>2, <1>3, <1>4 DEF LedgerInv

LEMMA UpdateAccountStep ==
  ASSUME LedgerInv, NEW a \in AccountIds, NEW l \in BOOLEAN, UpdateAccount(a, l)
  PROVE  LedgerInv'
<1> DEFINE row == [accounts[a] EXCEPT !.liability = l]
<1>1. accounts[a] \in [status: Statuses, value: Minor, liability: BOOLEAN]
  BY DEF LedgerInv, TypeOK
<1>2. accounts[a].status = "active" /\ accounts[a].value = Replay(EventsOf(events, a))
  BY DEF LedgerInv, CachedBalance, UpdateAccount, IsActive
<1>3. row \in [status: {"active", "archived", "converted"}, value: Minor, liability: BOOLEAN]
  BY <1>1, <1>2
<1>4. row.value = Replay(EventsOf(events, a))
  BY <1>1, <1>2
<1>5. accounts' = [accounts EXCEPT ![a] = row] /\ UNCHANGED <<events, idempotency, nextId>>
  BY DEF UpdateAccount, LedgerInv, TypeOK
<1>6. Exists(a)
  BY <1>2 DEF Exists
<1> QED
  BY <1>3, <1>4, <1>5, <1>6, StatusStep

LEMMA RetireStep ==
  ASSUME LedgerInv, NEW a \in AccountIds,
         ArchiveAccount(a) \/ ConvertAccount(a) \/ DeleteReplacement(a)
  PROVE  LedgerInv'
<1>1. PICK s \in {"archived", "converted"} :
        accounts' = [accounts EXCEPT ![a].status = s]
  BY DEF ArchiveAccount, ConvertAccount, DeleteReplacement
<1> DEFINE row == [accounts[a] EXCEPT !.status = s]
<1>2. accounts[a] \in [status: Statuses, value: Minor, liability: BOOLEAN]
  BY DEF LedgerInv, TypeOK
<1>3. row \in [status: {"active", "archived", "converted"}, value: Minor, liability: BOOLEAN]
      /\ row.status # "active"
  BY <1>2
<1>4. accounts' = [accounts EXCEPT ![a] = row] /\ UNCHANGED <<events, idempotency, nextId>>
  BY <1>1 DEF ArchiveAccount, ConvertAccount, DeleteReplacement, LedgerInv, TypeOK
<1>5. Exists(a)
  BY DEF ArchiveAccount, ConvertAccount, DeleteReplacement, IsActive, Exists
<1> QED
  BY <1>3, <1>4, <1>5, StatusStep

LEMMA RestoreStep ==
  ASSUME LedgerInv, NEW a \in AccountIds, RestoreAccount(a)
  PROVE  LedgerInv'
<1> DEFINE row == [status |-> "active", value |-> Replay(EventsOf(events, a)),
                   liability |-> accounts[a].liability]
<1>1. accounts[a] \in [status: Statuses, value: Minor, liability: BOOLEAN]
  BY DEF LedgerInv, TypeOK
<1>2. row \in [status: {"active", "archived", "converted"}, value: Minor, liability: BOOLEAN]
  BY <1>1 DEF RestoreAccount
<1>3. accounts' = [accounts EXCEPT ![a] = row]
  BY <1>1 DEF RestoreAccount, LedgerInv, TypeOK
<1>4. Exists(a) /\ UNCHANGED <<events, idempotency, nextId>>
  BY DEF RestoreAccount, Exists
<1> QED
  BY <1>2, <1>3, <1>4, StatusStep

\* The row of a new request is an event.
LEMMA RowType ==
  ASSUME TypeOK, NEW a \in AccountIds, NEW id \in Ids, NEW kind, NEW type, NEW amount \in Minor,
         NEW date \in Dates, NEW key \in Keys \cup {NoKey}, NEW group \in Ids \cup {NoGroup},
         \/ kind = "transaction" /\ type \in Credits \cup Debits \cup {"manual_adjustment", "transfer"}
         \/ kind = "valuation" /\ type = "valuation"
  PROVE  Row(id, a, kind, type, amount, date, key, group) \in Event
BY DEF Row, Event

\* replayBalance restores CachedBalance when it is given every account whose
\* rows the request changed, and keeps every account's status.
LEMMA ReplayedStep ==
  ASSUME LedgerInv, NEW touched \in SUBSET AccountIds, replayBalance(touched, events'),
         \A b \in AccountIds \ touched : EventsOf(events', b) = EventsOf(events, b)
  PROVE  /\ accounts' \in [AccountIds -> [status: Statuses, value: Minor, liability: BOOLEAN]]
         /\ CachedBalance'
         /\ \A b \in AccountIds : Exists(b)' = Exists(b)
<1>1. TypeOK
  BY DEF LedgerInv
<1>2. /\ accounts' \in [AccountIds -> [status: Statuses, value: Minor, liability: BOOLEAN]]
      /\ \A b \in AccountIds :
           /\ accounts'[b].status = accounts[b].status
           /\ accounts[b].status = "active" /\ b \in touched
                => accounts'[b].value = Replay(EventsOf(events', b))
           /\ accounts[b].status # "active" \/ b \notin touched => accounts'[b] = accounts[b]
  BY <1>1, ReplayBalanceEffect
<1>3. CachedBalance'
  <2> SUFFICES ASSUME NEW b \in AccountIds, IsActive(b)'
               PROVE  accounts'[b].value = Replay(EventsOf(events', b))
    BY DEF CachedBalance, EventsOf
  <2>1. accounts[b].status = "active"
    BY <1>2 DEF IsActive
  <2>2. CASE b \in touched
    BY <2>1, <2>2, <1>2
  <2>3. CASE b \notin touched
    <3>1. accounts'[b] = accounts[b] /\ EventsOf(events', b) = EventsOf(events, b)
      BY <2>3, <1>2
    <3>2. accounts[b].value = Replay(EventsOf(events, b))
      BY <2>1 DEF LedgerInv, CachedBalance, IsActive
    <3> QED
      BY <3>1, <3>2
  <2> QED
    BY <2>2, <2>3
<1>4. \A b \in AccountIds : Exists(b)' = Exists(b)
  BY <1>2 DEF Exists
<1> QED
  BY <1>2, <1>3, <1>4

LEMMA CreateAccountStep ==
  ASSUME LedgerInv, NEW a \in AccountIds, NEW k \in Keys \cup {NoKey}, NEW opening \in Values,
         NEW date \in Dates, NEW l \in BOOLEAN, CreateAccount(a, k, opening, date, l)
  PROVE  LedgerInv'
<1> DEFINE row == Row(nextId, a, "transaction", "opening_balance", opening, date, NoKey, NoGroup)
<1> USE LedgerAssumption
<1>1. opening \in Minor /\ opening >= 0
  BY DEF Minor
<1>2. nextId \in Ids /\ nextId' = nextId + 1 /\ nextId' \in 1 .. MaxEvents + 1
  BY DEF LedgerInv, TypeOK, CreateAccount, Room, Ids
<1>3. row \in Event
  BY <1>1, <1>2, RowType DEF LedgerInv, Credits, NoGroup
<1>4. events' = events \cup {row} /\ accounts[a].status = "unused"
  BY DEF CreateAccount
<1>5. accounts' = [accounts EXCEPT ![a] = [status |-> "active", value |-> opening,
                                           liability |-> l]]
  BY DEF CreateAccount
<1>6. idempotency' \in [Keys -> IdempotencyRow]
      /\ \A j \in Keys : idempotency'[j] # idempotency[j] => KeyFree(j)
  <2>1. CASE k = NoKey
    BY <2>1 DEF CreateAccount, LedgerInv, TypeOK
  <2>2. CASE k # NoKey
    <3>1. KeyFree(k) /\ Record(k, "create-account", a) /\ k \in Keys
      BY <2>2 DEF CreateAccount
    <3> QED
      BY <3>1 DEF Record, LedgerInv, TypeOK, IdempotencyRow
  <2> QED
    BY <2>1, <2>2
<1>7. TypeOK'
  BY <1>1, <1>2, <1>3, <1>4, <1>5, <1>6 DEF LedgerInv, TypeOK, Statuses
<1>8. \A e \in events : e.account # a
  BY <1>4 DEF LedgerInv, RowsWellFormed, Exists
<1>9. row.account = a /\ row.id = nextId /\ row.type = "opening_balance" /\ row.key = NoKey
      /\ row.group = NoGroup /\ row.amount = opening /\ row.kind = "transaction"
  BY DEF Row
<1>10. RowsWellFormed'
  BY <1>2, <1>4, <1>5, <1>9
     DEF LedgerInv, TypeOK, RowsWellFormed, WellFormed, Exists, Event, NoGroup, Ids
<1>11. CachedBalance'
  <2>1. EventsOf(events', a) = {row}
    BY <1>4, <1>8, <1>9 DEF EventsOf
  <2>2. Replay({row}) = opening
    BY <1>1, <1>3, <1>9, ReplayOpening
  <2>3. \A b \in AccountIds : b # a => EventsOf(events', b) = EventsOf(events, b)
    BY <1>4, <1>9 DEF EventsOf
  <2> SUFFICES ASSUME NEW b \in AccountIds, IsActive(b)'
               PROVE  accounts'[b].value = Replay(EventsOf(events', b))
    BY DEF CachedBalance, EventsOf
  <2>4. CASE b = a
    BY <2>1, <2>2, <2>4, <1>5 DEF LedgerInv, TypeOK
  <2>5. CASE b # a
    BY <2>3, <2>5, <1>5 DEF LedgerInv, TypeOK, CachedBalance, IsActive
  <2> QED
    BY <2>4, <2>5
<1>12. TransfersWhole'
  BY <1>4, <1>9 DEF LedgerInv, TransfersWhole, RowsWellFormed, WellFormed
<1>13. OneResultPerKey'
  BY <1>4, <1>6, <1>9 DEF LedgerInv, OneResultPerKey, KeyFree, TypeOK, Event
<1> QED
  BY <1>7, <1>10, <1>11, <1>12, <1>13 DEF LedgerInv

LEMMA DeleteAccountStep ==
  ASSUME LedgerInv, NEW a \in AccountIds, DeleteAccount(a)
  PROVE  LedgerInv'
<1> DEFINE gone == [status |-> "deleted", value |-> 0, liability |-> FALSE]
<1>1. accounts' = [accounts EXCEPT ![a] = gone] /\ UNCHANGED <<idempotency, nextId>>
  BY DEF DeleteAccount
<1>2. events' = {e \in events : e.account # a}
  BY DEF DeleteAccount, EventsOf
<1>3. gone \in [status: Statuses, value: Minor, liability: BOOLEAN]
  BY LedgerAssumption DEF Statuses, Minor
<1> HIDE DEF gone
<1>4. TypeOK'
  BY <1>1, <1>2, <1>3 DEF LedgerInv, TypeOK
<1>5. RowsWellFormed'
  BY <1>1, <1>2 DEF LedgerInv, TypeOK, RowsWellFormed, Exists
<1>6. CachedBalance'
  <2> SUFFICES ASSUME NEW b \in AccountIds, IsActive(b)'
               PROVE  accounts'[b].value = Replay(EventsOf(events', b))
    BY DEF CachedBalance, EventsOf
  <2>1. b # a
    BY <1>1 DEF IsActive, gone, LedgerInv, TypeOK
  <2>2. EventsOf(events', b) = EventsOf(events, b)
    BY <1>2, <2>1 DEF EventsOf
  <2>3. accounts'[b] = accounts[b] /\ IsActive(b)
    BY <1>1, <2>1 DEF IsActive, LedgerInv, TypeOK
  <2> QED
    BY <2>2, <2>3 DEF LedgerInv, CachedBalance
<1>7. TransfersWhole'
  <2> SUFFICES ASSUME NEW e \in events', e.type = "transfer"
               PROVE  \E f \in events' :
                        /\ f.group = e.group /\ f.account # e.account
                        /\ (f.amount < 0) # (e.amount < 0)
                        /\ \A g \in events' : g.group = e.group => g \in {e, f}
    BY DEF TransfersWhole
  <2>1. PICK f \in events : /\ f.group = e.group /\ f.account # e.account
                            /\ (f.amount < 0) # (e.amount < 0)
                            /\ \A g \in events : g.group = e.group => g \in {e, f}
    BY <1>2 DEF LedgerInv, TransfersWhole
  <2>2. e.group # NoGroup
    BY <1>2 DEF LedgerInv, RowsWellFormed, WellFormed
  <2>3. f.account # a
    BY <1>2, <2>1, <2>2 DEF DeleteAccount, Linked
  <2> QED
    BY <1>2, <2>1, <2>3
<1>8. OneResultPerKey'
  BY <1>1, <1>2 DEF LedgerInv, OneResultPerKey
<1> QED
  BY <1>4, <1>5, <1>6, <1>7, <1>8 DEF LedgerInv

\* A row without a group leaves every transfer whole.
LEMMA UngroupedRow ==
  ASSUME LedgerInv, NEW row, row.type # "transfer", row.group = NoGroup,
         events' = events \cup {row}
  PROVE  TransfersWhole'
BY DEF LedgerInv, TransfersWhole, RowsWellFormed, WellFormed

\* Rows a request adds to active accounts it then replays.
LEMMA RowsAdded ==
  ASSUME LedgerInv, NEW touched \in SUBSET AccountIds, NEW added \in SUBSET Event,
         \A a \in touched : IsActive(a),
         \A e \in added : e.account \in touched /\ WellFormed(e, nextId'),
         events' = events \cup added,
         replayBalance(touched, events'),
         idempotency' \in [Keys -> IdempotencyRow],
         nextId' \in 1 .. MaxEvents + 1, nextId <= nextId'
  PROVE  TypeOK' /\ RowsWellFormed' /\ CachedBalance'
<1>1. \A b \in AccountIds \ touched : EventsOf(events', b) = EventsOf(events, b)
  BY DEF EventsOf
<1>2. /\ accounts' \in [AccountIds -> [status: Statuses, value: Minor, liability: BOOLEAN]]
      /\ CachedBalance' /\ \A b \in AccountIds : Exists(b)' = Exists(b)
  BY <1>1, ReplayedStep
<1>3. TypeOK'
  BY <1>2 DEF LedgerInv, TypeOK
<1>4. ASSUME NEW e \in events'
      PROVE  WellFormed(e, nextId') /\ accounts'[e.account].status \in {"active", "archived", "converted"}
  <2>1. CASE e \in added
    <3>1. e.account \in AccountIds /\ Exists(e.account)
      BY <2>1 DEF IsActive, Exists
    <3> QED
      BY <2>1, <3>1, <1>2 DEF Exists
  <2>2. CASE e \in events
    <3>1. WellFormed(e, nextId) /\ Exists(e.account) /\ e \in Event
      BY <2>2 DEF LedgerInv, RowsWellFormed, TypeOK
    <3>2. WellFormed(e, nextId')
      BY <3>1 DEF WellFormed, Event, Ids, NoGroup, LedgerInv, TypeOK
    <3>3. e.account \in AccountIds
      BY <3>1 DEF Event
    <3> QED
      BY <3>1, <3>2, <3>3, <1>2 DEF Exists
  <2> QED
    BY <2>1, <2>2
<1>5. RowsWellFormed'
  BY <1>4 DEF RowsWellFormed, Exists, WellFormed
<1> QED
  BY <1>2, <1>3, <1>5

LEMMA CreateTransactionStep ==
  ASSUME LedgerInv, NEW a \in AccountIds, NEW k \in Keys, NEW type \in EntryTypes,
         NEW amount \in Minor, NEW date \in Dates, CreateTransaction(a, k, type, amount, date)
  PROVE  LedgerInv'
<1> DEFINE row == Row(nextId, a, "transaction", type, amount, date, k, NoGroup)
<1>1. /\ events' = events \cup {row} /\ nextId' = nextId + 1 /\ idempotency' = idempotency
      /\ KeyFree(k) /\ IsActive(a) /\ Room(1) /\ replayBalance({a}, events')
  BY DEF CreateTransaction
<1>2. nextId \in Ids /\ nextId' \in 1 .. MaxEvents + 1
  BY <1>1, LedgerAssumption DEF LedgerInv, TypeOK, Room, Ids
<1>3. type \in Credits \cup Debits \cup {"manual_adjustment"} /\ type # "transfer"
  BY LedgerAssumption DEF Credits, Debits
<1>4. row \in Event
  BY <1>2, <1>3, RowType DEF LedgerInv, NoGroup
<1>5. row.account = a /\ row.id = nextId /\ row.type = type /\ row.key = k /\ row.group = NoGroup
  BY DEF Row
<1> HIDE DEF row
<1>6. WellFormed(row, nextId')
  BY <1>1, <1>2, <1>3, <1>5 DEF WellFormed, NoGroup, Ids
<1>7. TypeOK' /\ RowsWellFormed' /\ CachedBalance'
  <2>1. idempotency' \in [Keys -> IdempotencyRow] /\ nextId <= nextId'
    BY <1>1, <1>2 DEF LedgerInv, TypeOK, Ids
  <2>2. \A e \in {row} : e.account \in {a} /\ WellFormed(e, nextId')
    BY <1>5, <1>6
  <2>3. \A b \in {a} : IsActive(b)
    BY <1>1
  <2>4. {row} \in SUBSET Event /\ {a} \in SUBSET AccountIds
    BY <1>4
  <2> QED
    BY ONLY <2>1, <2>2, <2>3, <2>4, LedgerInv, <1>1, <1>2, RowsAdded
<1>8. TransfersWhole'
  BY <1>1, <1>3, <1>5, UngroupedRow
<1>9. OneResultPerKey'
  BY <1>1, <1>5 DEF LedgerInv, OneResultPerKey, KeyFree
<1> QED
  BY <1>7, <1>8, <1>9 DEF LedgerInv

LEMMA CreateValuationStep ==
  ASSUME LedgerInv, NEW a \in AccountIds, NEW k \in Keys, NEW value \in Values,
         NEW date \in Dates, CreateValuation(a, k, value, date)
  PROVE  LedgerInv'
<1> DEFINE row == Row(nextId, a, "valuation", "valuation", value, date, NoKey, NoGroup)
<1>1. /\ events' = events \cup {row} /\ nextId' = nextId + 1 /\ Record(k, "valuation", nextId)
      /\ KeyFree(k) /\ IsActive(a) /\ Room(1) /\ replayBalance({a}, events')
  BY DEF CreateValuation
<1>2. nextId \in Ids /\ nextId' \in 1 .. MaxEvents + 1
  BY <1>1, LedgerAssumption DEF LedgerInv, TypeOK, Room, Ids
<1>3. value \in Minor
  BY LedgerAssumption DEF Minor
<1>4. row \in Event
  BY <1>2, <1>3, RowType DEF LedgerInv, NoGroup
<1>5. row.account = a /\ row.id = nextId /\ row.type = "valuation" /\ row.key = NoKey
      /\ row.group = NoGroup
  BY DEF Row
<1> HIDE DEF row
<1>6. WellFormed(row, nextId')
  BY <1>1, <1>2, <1>5 DEF WellFormed, NoGroup, Ids
<1>7. TypeOK' /\ RowsWellFormed' /\ CachedBalance'
  <2>1. idempotency' \in [Keys -> IdempotencyRow] /\ nextId <= nextId'
    BY <1>1, <1>2 DEF LedgerInv, TypeOK, Ids, Record, IdempotencyRow
  <2>2. \A e \in {row} : e.account \in {a} /\ WellFormed(e, nextId')
    BY <1>5, <1>6
  <2>3. \A b \in {a} : IsActive(b)
    BY <1>1
  <2>4. {row} \in SUBSET Event /\ {a} \in SUBSET AccountIds
    BY <1>4
  <2> QED
    BY ONLY <2>1, <2>2, <2>3, <2>4, LedgerInv, <1>1, <1>2, RowsAdded
<1>8. TransfersWhole'
  BY <1>1, <1>5, UngroupedRow
<1>9. OneResultPerKey'
  BY <1>1, <1>5 DEF LedgerInv, OneResultPerKey, KeyFree, Record, TypeOK, Event
<1> QED
  BY <1>7, <1>8, <1>9 DEF LedgerInv

LEMMA CreateTransferStep ==
  ASSUME LedgerInv, NEW from \in AccountIds, NEW to \in AccountIds, NEW k \in Keys,
         NEW sent \in Amounts, NEW received \in Amounts, NEW date \in Dates,
         CreateTransfer(from, to, k, sent, received, date)
  PROVE  LedgerInv'
<1> DEFINE out == Row(nextId, from, "transaction", "transfer", -sent, date, NoKey, nextId)
           in == Row(nextId + 1, to, "transaction", "transfer", received, date, NoKey, nextId)
<1>1. /\ from # to /\ Room(2) /\ KeyFree(k) /\ IsActive(from) /\ IsActive(to)
      /\ events' = events \cup {out, in} /\ nextId' = nextId + 2
      /\ Record(k, "transfer", nextId) /\ replayBalance({from, to}, events')
  BY DEF CreateTransfer
<1>2. nextId \in Ids /\ nextId + 1 \in Ids /\ nextId' \in 1 .. MaxEvents + 1
  BY <1>1, LedgerAssumption DEF LedgerInv, TypeOK, Room, Ids
<1>3. -sent \in Minor /\ received \in Minor /\ -sent < 0 /\ ~(received < 0)
  BY LedgerAssumption DEF Minor
<1>4. out \in Event /\ in \in Event
  BY <1>2, <1>3, RowType DEF LedgerInv
<1>5. /\ out.account = from /\ out.id = nextId /\ out.amount = -sent
      /\ in.account = to /\ in.id = nextId + 1 /\ in.amount = received
      /\ \A e \in {out, in} : e.type = "transfer" /\ e.kind = "transaction"
                              /\ e.key = NoKey /\ e.group = nextId
  BY DEF Row
<1> HIDE DEF out, in
<1>6. WellFormed(out, nextId') /\ WellFormed(in, nextId')
  BY <1>1, <1>2, <1>5 DEF WellFormed, NoGroup, Ids
<1>7. TypeOK' /\ RowsWellFormed' /\ CachedBalance'
  <2>1. idempotency' \in [Keys -> IdempotencyRow] /\ nextId <= nextId'
    BY <1>1, <1>2 DEF LedgerInv, TypeOK, Ids, Record, IdempotencyRow
  <2>2. \A e \in {out, in} : e.account \in {from, to} /\ WellFormed(e, nextId')
    BY <1>5, <1>6
  <2>3. \A a \in {from, to} : IsActive(a)
    BY <1>1
  <2>4. {out, in} \in SUBSET Event /\ {from, to} \in SUBSET AccountIds
    BY <1>4
  <2> QED
    BY ONLY <2>1, <2>2, <2>3, <2>4, LedgerInv, <1>1, <1>2, RowsAdded
<1>8. TransfersWhole'
  <2> SUFFICES ASSUME NEW e \in events', e.type = "transfer"
               PROVE  \E f \in events' :
                        /\ f.group = e.group /\ f.account # e.account
                        /\ (f.amount < 0) # (e.amount < 0)
                        /\ \A g \in events' : g.group = e.group => g \in {e, f}
    BY DEF TransfersWhole
  <2>1. \A g \in events : g.group # nextId
    BY <1>2 DEF LedgerInv, RowsWellFormed, WellFormed, TypeOK, Event, Ids, NoGroup
  <2>2. CASE e \in events
    BY <1>1, <1>5, <2>1, <2>2 DEF LedgerInv, TransfersWhole
  <2>3. (out.amount < 0) # (in.amount < 0) /\ out.account # in.account
    BY <1>1, <1>3, <1>5
  <2>4. \A g \in events' : g.group = nextId => g \in {out, in}
    BY <1>1, <2>1
  <2>5. CASE e = out
    <3>1. in \in events' /\ in.group = e.group
      BY <1>1, <1>5, <2>5
    <3> QED
      BY <1>5, <2>3, <2>4, <2>5, <3>1
  <2>6. CASE e = in
    <3>1. out \in events' /\ out.group = e.group
      BY <1>1, <1>5, <2>6
    <3> QED
      BY <1>5, <2>3, <2>4, <2>6, <3>1
  <2> QED
    BY <1>1, <2>2, <2>5, <2>6
<1>9. OneResultPerKey'
  BY <1>1, <1>5 DEF LedgerInv, OneResultPerKey, KeyFree, Record, TypeOK, Event
<1> QED
  BY <1>7, <1>8, <1>9 DEF LedgerInv

\* Rows may leave as long as whole groups leave.
LEMMA RowsRemoved ==
  ASSUME LedgerInv, NEW doomed \in SUBSET events, events' = events \ doomed,
         \A e \in doomed, f \in events : f.group = e.group /\ e.group # NoGroup => f \in doomed,
         UNCHANGED <<idempotency, nextId>>,
         replayBalance({e.account : e \in doomed}, events')
  PROVE  LedgerInv'
<1> DEFINE touched == {e.account : e \in doomed}
<1>1. touched \subseteq AccountIds
  BY DEF LedgerInv, TypeOK, Event
<1>2. \A b \in AccountIds \ touched : EventsOf(events', b) = EventsOf(events, b)
  BY DEF EventsOf
<1>3. replayBalance(touched, events')
  OBVIOUS
<1> HIDE DEF touched
<1>4. /\ accounts' \in [AccountIds -> [status: Statuses, value: Minor, liability: BOOLEAN]]
      /\ CachedBalance' /\ \A b \in AccountIds : Exists(b)' = Exists(b)
  BY <1>1, <1>2, <1>3, ReplayedStep
<1>5. TypeOK'
  BY <1>4 DEF LedgerInv, TypeOK
<1>6. RowsWellFormed'
  BY <1>4 DEF LedgerInv, RowsWellFormed, WellFormed, Exists, TypeOK, Event
<1>7. TransfersWhole'
  <2> SUFFICES ASSUME NEW e \in events', e.type = "transfer"
               PROVE  \E f \in events' :
                        /\ f.group = e.group /\ f.account # e.account
                        /\ (f.amount < 0) # (e.amount < 0)
                        /\ \A g \in events' : g.group = e.group => g \in {e, f}
    BY DEF TransfersWhole
  <2>1. PICK f \in events : /\ f.group = e.group /\ f.account # e.account
                            /\ (f.amount < 0) # (e.amount < 0)
                            /\ \A g \in events : g.group = e.group => g \in {e, f}
    BY DEF LedgerInv, TransfersWhole
  <2>2. e.group # NoGroup
    BY DEF LedgerInv, RowsWellFormed, WellFormed
  <2>3. f \notin doomed
    BY <2>1, <2>2
  <2> QED
    BY <2>1, <2>3
<1>8. OneResultPerKey'
  BY DEF LedgerInv, OneResultPerKey
<1> QED
  BY <1>4, <1>5, <1>6, <1>7, <1>8 DEF LedgerInv

LEMMA DeleteTransactionStep ==
  ASSUME LedgerInv, NEW e \in events, DeleteTransaction(e)
  PROVE  LedgerInv'
<1> DEFINE doomed == IF e.group = NoGroup THEN {e} ELSE {f \in events : f.group = e.group}
<1>1. /\ events' = events \ doomed /\ replayBalance({f.account : f \in doomed}, events')
      /\ UNCHANGED <<idempotency, nextId>>
  BY DEF DeleteTransaction
<1>2. doomed \subseteq events
  OBVIOUS
<1>3. \A d \in doomed, f \in events : f.group = d.group /\ d.group # NoGroup => f \in doomed
  OBVIOUS
<1> HIDE DEF doomed
<1> QED
  BY <1>1, <1>2, <1>3, RowsRemoved

LEMMA DeleteValuationStep ==
  ASSUME LedgerInv, NEW e \in events, DeleteValuation(e)
  PROVE  LedgerInv'
<1>1. /\ events' = events \ {e} /\ replayBalance({e.account}, events')
      /\ UNCHANGED <<idempotency, nextId>>
  BY DEF DeleteValuation
<1>2. e.group = NoGroup
  <2>1. e.type # "transfer"
    <3>1. e.kind = "valuation" => e.type # "transfer"
      BY DEF LedgerInv, RowsWellFormed, WellFormed
    <3> QED
      BY <3>1 DEF DeleteValuation
  <2> QED
    BY <2>1 DEF LedgerInv, RowsWellFormed, WellFormed
<1>3. {f.account : f \in {e}} = {e.account} /\ {e} \in SUBSET events
  OBVIOUS
<1>4. \A d \in {e}, f \in events : f.group = d.group /\ d.group # NoGroup => f \in {e}
  BY <1>2
<1> QED
  BY ONLY LedgerInv, <1>1, <1>3, <1>4, RowsRemoved

LEMMA UpdateTransactionStep ==
  ASSUME LedgerInv, NEW e \in events, NEW type \in EntryTypes, NEW amount \in Minor,
         NEW date \in Dates, UpdateTransaction(e, type, amount, date)
  PROVE  LedgerInv'
<1> DEFINE row == Row(e.id, e.account, e.kind, type, amount, date, e.key, e.group)
           a == e.account
<1>1. /\ events' = (events \ {e}) \cup {row} /\ replayBalance({a}, events')
      /\ idempotency' = idempotency /\ nextId' = nextId
      /\ IsActive(a) /\ e.type # "transfer" /\ e.kind = "transaction"
  BY DEF UpdateTransaction
<1>2. e \in Event /\ WellFormed(e, nextId) /\ Exists(a) /\ a \in AccountIds
  BY DEF LedgerInv, TypeOK, RowsWellFormed, Event
<1>3. type \in Credits \cup Debits \cup {"manual_adjustment"} /\ type # "transfer"
  BY LedgerAssumption DEF Credits, Debits
<1>4. row = [id |-> e.id, account |-> a, kind |-> "transaction", type |-> type,
             amount |-> amount, date |-> date, key |-> e.key, group |-> e.group]
  BY <1>1 DEF Row
<1> HIDE DEF row
<1>5. row \in Event
  BY <1>2, <1>3, <1>4 DEF Event
<1>6. row.group = NoGroup /\ row.type # "transfer" /\ row.account = a /\ row.key = e.key
  BY <1>1, <1>2, <1>3, <1>4 DEF WellFormed
<1>7. WellFormed(row, nextId)
  BY <1>2, <1>4, <1>6 DEF WellFormed
<1>8. \A b \in AccountIds \ {a} : EventsOf(events', b) = EventsOf(events, b)
  BY <1>1, <1>6 DEF EventsOf
<1> HIDE DEF a
<1>9. /\ accounts' \in [AccountIds -> [status: Statuses, value: Minor, liability: BOOLEAN]]
      /\ CachedBalance' /\ \A b \in AccountIds : Exists(b)' = Exists(b)
  BY <1>1, <1>2, <1>8, ReplayedStep
<1>10. TypeOK'
  BY <1>1, <1>5, <1>9 DEF LedgerInv, TypeOK
<1>11. RowsWellFormed'
  <2> SUFFICES ASSUME NEW f \in events'
               PROVE  WellFormed(f, nextId') /\ Exists(f.account)'
    BY DEF RowsWellFormed, Exists, WellFormed
  <2>1. CASE f = row
    BY <1>1, <1>2, <1>6, <1>7, <1>9, <2>1 DEF Exists
  <2>2. CASE f \in events
    <3>1. WellFormed(f, nextId) /\ Exists(f.account) /\ f.account \in AccountIds
      BY <2>2 DEF LedgerInv, TypeOK, RowsWellFormed, Event
    <3> QED
      BY <1>1, <1>9, <3>1 DEF Exists
  <2> QED
    BY <1>1, <2>1, <2>2
<1>12. TransfersWhole'
  <2> SUFFICES ASSUME NEW f \in events', f.type = "transfer"
               PROVE  \E g \in events' :
                        /\ g.group = f.group /\ g.account # f.account
                        /\ (g.amount < 0) # (f.amount < 0)
                        /\ \A h \in events' : h.group = f.group => h \in {f, g}
    BY DEF TransfersWhole
  <2>1. f \in events /\ f.group # NoGroup
    BY <1>1, <1>6 DEF LedgerInv, RowsWellFormed, WellFormed
  <2>2. PICK g \in events : /\ g.group = f.group /\ g.account # f.account
                            /\ (g.amount < 0) # (f.amount < 0)
                            /\ \A h \in events : h.group = f.group => h \in {f, g}
    BY <2>1 DEF LedgerInv, TransfersWhole
  <2>3. g # e
    BY <1>1, <1>2, <2>1, <2>2 DEF WellFormed
  <2> QED
    BY <1>1, <1>6, <2>1, <2>2, <2>3
<1>13. OneResultPerKey'
  BY <1>1, <1>6 DEF LedgerInv, OneResultPerKey
<1> QED
  BY <1>9, <1>10, <1>11, <1>12, <1>13 DEF LedgerInv

-----------------------------------------------------------------------------
(* Theorems *)

LEMMA InitInv == Init => LedgerInv
<1> SUFFICES ASSUME Init PROVE LedgerInv
  OBVIOUS
<1>1. TypeOK
  BY LedgerAssumption DEF Init, TypeOK, Statuses, Minor, IdempotencyRow
<1>2. CachedBalance
  BY DEF Init, CachedBalance, IsActive
<1> QED
  BY <1>1, <1>2 DEF Init, LedgerInv, RowsWellFormed, TransfersWhole, OneResultPerKey

LEMMA StutterInv ==
  ASSUME LedgerInv, UNCHANGED vars
  PROVE  LedgerInv'
<1>1. accounts' = accounts /\ events' = events /\ idempotency' = idempotency /\ nextId' = nextId
  BY DEF vars
<1> QED
  BY <1>1 DEF LedgerInv, TypeOK, RowsWellFormed, WellFormed, Exists, CachedBalance, IsActive,
              EventsOf, TransfersWhole, OneResultPerKey

LEMMA NextInv == LedgerInv /\ [Next]_vars => LedgerInv'
<1> SUFFICES ASSUME LedgerInv, [Next]_vars PROVE LedgerInv'
  OBVIOUS
<1>1. CASE UNCHANGED vars
  BY <1>1, StutterInv
<1>2. ASSUME NEW a \in AccountIds, NEW k \in Keys \cup {NoKey}, NEW opening \in Values,
             NEW date \in Dates, NEW l \in BOOLEAN, CreateAccount(a, k, opening, date, l)
      PROVE  LedgerInv'
  BY <1>2, CreateAccountStep
<1>3. ASSUME NEW a \in AccountIds, NEW l \in BOOLEAN, UpdateAccount(a, l)
      PROVE  LedgerInv'
  BY <1>3, UpdateAccountStep
<1>4. ASSUME NEW a \in AccountIds, \/ ArchiveAccount(a) \/ ConvertAccount(a) \/ DeleteReplacement(a)
                                   \/ RestoreAccount(a) \/ DeleteAccount(a)
      PROVE  LedgerInv'
  BY <1>4, RetireStep, RestoreStep, DeleteAccountStep
<1>5. ASSUME NEW a \in AccountIds, NEW k \in Keys, NEW date \in Dates, NEW type \in EntryTypes,
             NEW amount \in Minor, CreateTransaction(a, k, type, amount, date)
      PROVE  LedgerInv'
  BY <1>5, CreateTransactionStep
<1>6. ASSUME NEW a \in AccountIds, NEW k \in Keys, NEW date \in Dates, NEW value \in Values,
             CreateValuation(a, k, value, date)
      PROVE  LedgerInv'
  BY <1>6, CreateValuationStep
<1>7. ASSUME NEW a \in AccountIds, NEW k \in Keys, NEW date \in Dates, NEW to \in AccountIds,
             NEW sent \in Amounts, NEW received \in Amounts,
             CreateTransfer(a, to, k, sent, received, date)
      PROVE  LedgerInv'
  BY <1>7, CreateTransferStep
<1>8. ASSUME NEW e \in events, NEW type \in EntryTypes, NEW amount \in Minor, NEW date \in Dates,
             UpdateTransaction(e, type, amount, date)
      PROVE  LedgerInv'
  BY <1>8, UpdateTransactionStep
<1>9. ASSUME NEW e \in events, DeleteTransaction(e) \/ DeleteValuation(e)
      PROVE  LedgerInv'
  BY <1>9, DeleteTransactionStep, DeleteValuationStep
<1> QED
  BY <1>1, <1>2, <1>3, <1>4, <1>5, <1>6, <1>7, <1>8, <1>9 DEF Next

\* The rows, the cached balances and the key records stay consistent together.
THEOREM LedgerInvariant == Spec => []LedgerInv
BY InitInv, NextInv, PTL DEF Spec

\* No sequence of requests leaves a column outside its range: every cached
\* balance fits a bigint although nothing bounds the sum of the amounts.
THEOREM TypeCorrect == Spec => []TypeOK
<1>1. LedgerInv => TypeOK
  BY DEF LedgerInv
<1> QED
  BY <1>1, LedgerInvariant, PTL

\* The cached balance of every active account is the replay of its history.
THEOREM CachedBalanceCorrect == Spec => []CachedBalance
<1>1. LedgerInv => CachedBalance
  BY DEF LedgerInv
<1> QED
  BY <1>1, LedgerInvariant, PTL

\* Requests write, keep and remove transfers whole.
THEOREM TransfersStayWhole == Spec => []TransfersWhole
<1>1. LedgerInv => TransfersWhole
  BY DEF LedgerInv
<1> QED
  BY <1>1, LedgerInvariant, PTL

\* An idempotency key never stands for two results.
THEOREM KeysAreUnique == Spec => []OneResultPerKey
<1>1. LedgerInv => OneResultPerKey
  BY DEF LedgerInv
<1> QED
  BY <1>1, LedgerInvariant, PTL

\* A request on one account leaves every other account alone.
LEMMA OneAccountFrozen ==
  ASSUME TypeOK, NEW a \in AccountIds, NEW row, accounts' = [accounts EXCEPT ![a] = row],
         \/ row.status = "deleted"
         \/ accounts[a].status \notin {"archived", "converted"}
         \/ row.status = "active" /\ accounts[a].status = "archived"
         \/ row = [accounts[a] EXCEPT !.status = "archived"]
  PROVE  FrozenStep
BY DEF FrozenStep, TypeOK

LEMMA ReplayFrozen ==
  ASSUME TypeOK, NEW touched \in SUBSET AccountIds, replayBalance(touched, events')
  PROVE  FrozenStep
BY ReplayBalanceEffect DEF FrozenStep

LEMMA FrozenNext == LedgerInv /\ [Next]_vars => [FrozenStep]_vars
<1> SUFFICES ASSUME LedgerInv, Next PROVE FrozenStep
  OBVIOUS
<1>1. TypeOK /\ \A e \in events : e.account \in AccountIds
  BY DEF LedgerInv, TypeOK, Event
<1>2. ASSUME NEW a \in AccountIds, NEW k, NEW opening, NEW date, NEW l,
             CreateAccount(a, k, opening, date, l)
      PROVE  FrozenStep
  <2>1. accounts[a].status = "unused"
    BY <1>2 DEF CreateAccount
  <2>2. accounts' = [accounts EXCEPT ![a] = [status |-> "active", value |-> opening,
                                             liability |-> l]]
    BY <1>2 DEF CreateAccount
  <2> QED
    BY <1>1, <2>1, <2>2, OneAccountFrozen
<1>3. ASSUME NEW a \in AccountIds, NEW l, UpdateAccount(a, l)
      PROVE  FrozenStep
  <2>1. accounts[a].status = "active" /\ accounts' = [accounts EXCEPT ![a].liability = l]
    BY <1>3 DEF UpdateAccount, IsActive
  <2>2. accounts' = [accounts EXCEPT ![a] = [accounts[a] EXCEPT !.liability = l]]
    BY <2>1, <1>1 DEF TypeOK
  <2> QED
    BY <1>1, <2>1, <2>2, OneAccountFrozen
<1>4. ASSUME NEW a \in AccountIds, ArchiveAccount(a) \/ ConvertAccount(a)
      PROVE  FrozenStep
  <2>1. accounts[a].status = "active"
    BY <1>4 DEF ArchiveAccount, ConvertAccount, IsActive
  <2>2. PICK s \in {"archived", "converted"} : accounts' = [accounts EXCEPT ![a].status = s]
    BY <1>4 DEF ArchiveAccount, ConvertAccount
  <2>3. accounts' = [accounts EXCEPT ![a] = [accounts[a] EXCEPT !.status = s]]
    BY <2>2, <1>1 DEF TypeOK
  <2> QED
    BY <1>1, <2>1, <2>3, OneAccountFrozen
<1>11. ASSUME NEW a \in AccountIds, DeleteReplacement(a)
       PROVE  FrozenStep
  <2>1. accounts' = [accounts EXCEPT ![a] = [accounts[a] EXCEPT !.status = "archived"]]
    BY <1>1, <1>11 DEF DeleteReplacement, TypeOK
  <2> QED
    BY <1>1, <2>1, OneAccountFrozen
<1>5. ASSUME NEW a \in AccountIds, RestoreAccount(a)
      PROVE  FrozenStep
  <2> DEFINE row == [status |-> "active", value |-> Replay(EventsOf(events, a)),
                     liability |-> accounts[a].liability]
  <2>1. accounts[a].status = "archived" /\ accounts' = [accounts EXCEPT ![a] = row]
    BY <1>5 DEF RestoreAccount
  <2>2. row.status = "active"
    OBVIOUS
  <2> HIDE DEF row
  <2> QED
    BY <1>1, <2>1, <2>2, OneAccountFrozen
<1>6. ASSUME NEW a \in AccountIds, DeleteAccount(a)
      PROVE  FrozenStep
  <2>1. accounts' = [accounts EXCEPT ![a] = [status |-> "deleted", value |-> 0,
                                             liability |-> FALSE]]
    BY <1>6 DEF DeleteAccount
  <2> QED
    BY <1>1, <2>1, OneAccountFrozen
<1>7. ASSUME NEW a \in AccountIds, NEW k, NEW type, NEW amount, NEW date,
             CreateTransaction(a, k, type, amount, date) \/ CreateValuation(a, k, amount, date)
      PROVE  FrozenStep
  <2>1. replayBalance({a}, events') /\ {a} \in SUBSET AccountIds
    BY <1>7 DEF CreateTransaction, CreateValuation
  <2> QED
    BY ONLY <1>1, <2>1, ReplayFrozen
<1>8. ASSUME NEW a \in AccountIds, NEW to \in AccountIds, NEW k, NEW sent, NEW received, NEW date,
             CreateTransfer(a, to, k, sent, received, date)
      PROVE  FrozenStep
  <2>1. replayBalance({a, to}, events') /\ {a, to} \in SUBSET AccountIds
    BY <1>8 DEF CreateTransfer
  <2> QED
    BY ONLY <1>1, <2>1, ReplayFrozen
<1>9. ASSUME NEW e \in events, NEW type, NEW amount, NEW date,
             UpdateTransaction(e, type, amount, date) \/ DeleteValuation(e)
      PROVE  FrozenStep
  <2>1. replayBalance({e.account}, events') /\ {e.account} \in SUBSET AccountIds
    BY <1>1, <1>9 DEF UpdateTransaction, DeleteValuation
  <2> QED
    BY ONLY <1>1, <2>1, ReplayFrozen
<1>10. ASSUME NEW e \in events, DeleteTransaction(e)
       PROVE  FrozenStep
  <2> DEFINE touched == {f.account : f \in IF e.group = NoGroup THEN {e}
                                           ELSE {f \in events : f.group = e.group}}
  <2>1. replayBalance(touched, events')
    BY <1>10 DEF DeleteTransaction
  <2>2. touched \in SUBSET AccountIds
    BY <1>1
  <2> HIDE DEF touched
  <2> QED
    BY ONLY <1>1, <2>1, <2>2, ReplayFrozen
<1> QED
  BY <1>2, <1>3, <1>4, <1>5, <1>6, <1>7, <1>8, <1>9, <1>10, <1>11 DEF Next

\* Nothing but a restore or a deletion moves an archived account, and nothing
\* restores one whose replacement exists.
THEOREM ArchivedStaysFrozen == Spec => ArchivedFrozen
<1>1. Spec => []LedgerInv
  BY LedgerInvariant
<1> QED
  BY <1>1, FrozenNext, PTL DEF Spec, ArchivedFrozen

-----------------------------------------------------------------------------
(* Histories *)

\* Rows of either table, each with an id of its own.
History(S) ==
  /\ S \in SUBSET Event /\ IsFiniteSet(S)
  /\ \A e, f \in S : e.id = f.id => e = f

LEMMA SmallerHistory ==
    ASSUME NEW S, History(S), NEW T \in SUBSET S
    PROVE  History(T)
  BY FS_Subset DEF History

-----------------------------------------------------------------------------
(* The replay as a recursion *)

\* The rows of a history are read one after the other.
LEMMA LastRowIsLast ==
    ASSUME NEW S, History(S), S # {}
    PROVE  LastRow(S) \in S /\ \A f \in S : f = LastRow(S) \/ Before(f, LastRow(S))
  <1> DEFINE R == {p \in S \X S : Before(p[1], p[2])}
  <1>0. \A e \in S : e.date \in Int /\ e.id \in Int
    <2>1. S \in SUBSET Event /\ Dates \subseteq Int /\ Ids \subseteq Int
      BY LedgerAssumption DEF History, Ids
    <2> QED BY <2>1 DEF Event
  <1>1. /\ \A x \in S : <<x, x>> \notin R
        /\ \A x, y, z \in S : <<x, y>> \in R /\ <<y, z>> \in R => <<x, z>> \in R
    BY <1>0 DEF Before
  <1>2. \A x, y \in S : <<x, y>> \notin R => y = x \/ Before(y, x)
    BY <1>0 DEF Before, History
  <1> HIDE DEF R
  <1>3. \E m \in S : \A x \in S : <<m, x>> \notin R
    BY <1>1, FiniteHasLast DEF History
  <1>4. \E m \in S : \A x \in S : x = m \/ Before(x, m)
    BY <1>2, <1>3
  <1> QED BY <1>4, Zenon DEF LastRow

\* The effect of a row is a whole number of minor units.
LEMMA EffectType ==
    ASSUME NEW e \in Event
    PROVE  e.amount \in Int /\ transactionEffect(e) \in Int
  BY LedgerAssumption DEF Event, Minor, transactionEffect

LEMMA ReplayRowType ==
    ASSUME NEW e \in Event, NEW n \in Int
    PROVE  ReplayRow(n, e) \in Int
  BY EffectType DEF ReplayRow

Replays(S, f) ==
  f = [T \in SUBSET S |-> IF T = {} THEN 0 ELSE ReplayRow(f[T \ {LastRow(T)}], LastRow(T))]

\* f replays every part of the history S, and is all there is to replay it.
ReplayFunction(f, S) ==
  /\ f \in [SUBSET S -> Int]
  /\ Replays(S, f)
  /\ Replay(S) = f[S]
  /\ \A g : Replays(S, g) => g = f

LEMMA ReplayRecursion ==
    ASSUME NEW S, History(S)
    PROVE  \E f : ReplayFunction(f, S)
  <1> DEFINE pick == [T \in (SUBSET S) \ {{}} |-> LastRow(T)]
             step == [p \in S \X Int |-> ReplayRow(p[2], p[1])]
             G(f) == [T \in SUBSET S |-> IF T = {} THEN 0 ELSE ReplayRow(f[T \ {LastRow(T)}], LastRow(T))]
  <1>0. S \in SUBSET Event /\ IsFiniteSet(S)
    BY DEF History
  <1>1. \A T \in SUBSET S : T # {} => LastRow(T) \in T
    BY LastRowIsLast, SmallerHistory
  <1>2. Picks(pick, S)
    BY <1>1 DEF Picks
  <1>3. step \in [S \X Int -> Int]
    BY <1>0, ReplayRowType
  <1>4. \A T \in SUBSET S : T # {} => pick[T] = LastRow(T)
    OBVIOUS
  <1>5. \A e \in S, n \in Int : step[<<e, n>>] = ReplayRow(n, e)
    OBVIOUS
  <1> HIDE DEF pick, step
  <1>6. PICK f : Recurses(f, S, Int, 0, pick, step)
    BY <1>0, <1>2, <1>3, 0 \in Int, FiniteRecursion, Zenon
  <1>7. \A T \in SUBSET S : T # {} => f[T] = ReplayRow(f[T \ {LastRow(T)}], LastRow(T))
    <2> SUFFICES ASSUME NEW T \in SUBSET S, T # {}
                 PROVE  f[T] = ReplayRow(f[T \ {LastRow(T)}], LastRow(T))
      OBVIOUS
    <2>1. LastRow(T) \in S /\ f[T \ {LastRow(T)}] \in Int
      BY <1>1, <1>6 DEF Recurses
    <2>2. f[T] = step[<<LastRow(T), f[T \ {LastRow(T)}]>>]
      BY <1>4, <1>6, Zenon DEF Recurses
    <2> QED BY <1>5, <2>1, <2>2, Zenon
  <1>8. f = G(f)
    BY <1>6, <1>7, Zenon DEF Recurses
  <1>9. ASSUME NEW g, g = G(g) PROVE g = f
    <2>1. f = [T \in SUBSET S |-> f[T]] /\ g = [T \in SUBSET S |-> g[T]]
      BY <1>8, <1>9, Zenon
    <2>2. f[{}] = g[{}]
      BY <1>8, <1>9, Zenon
    <2>3. \A T \in SUBSET S : T # {} => g[T] = ReplayRow(g[T \ {LastRow(T)}], LastRow(T))
      BY <1>9, Zenon
    <2>4. AgreeByRest(f, g, S, pick)
      BY <1>4, <1>7, <2>2, <2>3, Zenon DEF AgreeByRest
    <2> HIDE DEF G
    <2>5. \A T \in SUBSET S : f[T] = g[T]
      BY <1>0, <1>2, <2>4, FiniteRecursionUnique
    <2> QED BY <2>1, <2>5, Zenon
  <1>10. Replay(S) = f[S]
    <2>1. Replay(S) = (CHOOSE g : g = G(g))[S]
      BY Zenon DEF Replay, MapThenFoldSet
    <2>2. (CHOOSE g : g = G(g)) = f
      BY <1>8, <1>9, Zenon
    <2> QED BY <2>1, <2>2, Zenon
  <1> QED BY <1>6, <1>8, <1>9, <1>10, Zenon DEF ReplayFunction, Replays, Recurses

LEMMA ReplayType ==
    ASSUME NEW S, History(S)
    PROVE  Replay(S) \in Int
  <1>1. PICK f : ReplayFunction(f, S)
    BY ReplayRecursion
  <1>2. f \in [SUBSET S -> Int] /\ Replay(S) = f[S]
    BY <1>1, Zenon DEF ReplayFunction
  <1> QED BY <1>2

LEMMA ReplayEmpty == Replay({}) = 0
  <1>1. History({})
    BY FS_EmptySet DEF History
  <1>2. PICK f : ReplayFunction(f, {})
    BY <1>1, ReplayRecursion
  <1> QED BY <1>2 DEF ReplayFunction, Replays

\* The replay reads the last row last.
LEMMA ReplayLast ==
    ASSUME NEW S, History(S), S # {}
    PROVE  Replay(S) = ReplayRow(Replay(S \ {LastRow(S)}), LastRow(S))
  <1> DEFINE rest == S \ {LastRow(S)}
  <1>1. rest \in SUBSET S
    OBVIOUS
  <1> HIDE DEF rest
  <1>2. PICK f : ReplayFunction(f, S)
    BY ReplayRecursion
  <1>3. PICK g : ReplayFunction(g, rest)
    BY <1>1, SmallerHistory, ReplayRecursion
  <1> DEFINE h == [T \in SUBSET rest |-> f[T]]
  <1>4. Replays(rest, h)
    BY <1>1, <1>2 DEF ReplayFunction, Replays
  <1>5. h[rest] = f[rest]
    OBVIOUS
  <1> HIDE DEF h
  <1>6. Replay(rest) = f[rest]
    <2>1. h = g
      BY <1>3, <1>4, Zenon DEF ReplayFunction
    <2> QED BY <1>3, <1>5, <2>1, Zenon DEF ReplayFunction
  <1>7. f[S] = ReplayRow(f[rest], LastRow(S))
    BY <1>2 DEF ReplayFunction, Replays, rest
  <1>8. Replay(S) = f[S]
    BY <1>2 DEF ReplayFunction
  <1> QED BY <1>6, <1>7, <1>8, Zenon DEF rest

-----------------------------------------------------------------------------
(* The balance the loop is meant to compute *)

Valuations(S) == {e \in S : e.kind = "valuation"}
After(S) == {e \in S : \A v \in Valuations(S) : v # e /\ Before(v, e)}
Latest(S) == {v \in Valuations(S) : \A w \in Valuations(S) : w = v \/ Before(w, v)}

Effects(S) == MapThenSumSet(transactionEffect, S)
Stated(S) == MapThenSumSet(LAMBDA e : e.amount, S)

LEMMA ReferenceIs ==
    ASSUME NEW S
    PROVE  ReferenceBalance(S) = Stated(Latest(S)) + Effects(After(S))
  BY Zenon DEF ReferenceBalance, Stated, Latest, Effects, After, Valuations

\* Effects are summed up.
LEMMA EffectsSum ==
    ASSUME NEW S \in SUBSET Event, IsFiniteSet(S)
    PROVE  \E g : Sums(g, [e \in S |-> transactionEffect(e)], S) /\ Effects(S) = g[S]
  <1> DEFINE f == [e \in S |-> transactionEffect(e)]
             G(h) == [T \in SUBSET S |-> IF T = {} THEN 0
                        ELSE transactionEffect(CHOOSE x \in T : TRUE) + h[T \ {CHOOSE x \in T : TRUE}]]
  <1>1. f \in [S -> Int]
    BY EffectType
  <1>2. \A T \in SUBSET S : T # {} => f[CHOOSE x \in T : TRUE] = transactionEffect(CHOOSE x \in T : TRUE)
    OBVIOUS
  <1> HIDE DEF f
  <1>3. PICK g : Sums(g, f, S) /\ \A h : Chosen(h, f, S) <=> h = g
    BY <1>1, FiniteSum
  <1>4. ASSUME NEW h PROVE Chosen(h, f, S) <=> h = G(h)
    <2>1. G(h) = [T \in SUBSET S |-> IF T = {} THEN 0
                    ELSE f[CHOOSE x \in T : TRUE] + h[T \ {CHOOSE x \in T : TRUE}]]
      BY <1>2
    <2> QED BY <2>1, Zenon DEF Chosen
  <1>5. Effects(S) = (CHOOSE h : h = G(h))[S]
    BY Zenon DEF Effects, MapThenSumSet, MapThenFoldSet
  <1> HIDE DEF G
  <1>6. (CHOOSE h : h = G(h)) = g
    BY <1>3, <1>4, Zenon
  <1> QED BY <1>3, <1>5, <1>6, Zenon DEF f

\* So are the amounts of valuations.
LEMMA StatedSum ==
    ASSUME NEW S \in SUBSET Event, IsFiniteSet(S)
    PROVE  \E g : Sums(g, [e \in S |-> e.amount], S) /\ Stated(S) = g[S]
  <1> DEFINE f == [e \in S |-> e.amount]
             G(h) == [T \in SUBSET S |-> IF T = {} THEN 0
                        ELSE (CHOOSE x \in T : TRUE).amount + h[T \ {CHOOSE x \in T : TRUE}]]
  <1>1. f \in [S -> Int]
    BY EffectType
  <1>2. \A T \in SUBSET S : T # {} => f[CHOOSE x \in T : TRUE] = (CHOOSE x \in T : TRUE).amount
    OBVIOUS
  <1> HIDE DEF f
  <1>3. PICK g : Sums(g, f, S) /\ \A h : Chosen(h, f, S) <=> h = g
    BY <1>1, FiniteSum
  <1>4. ASSUME NEW h PROVE Chosen(h, f, S) <=> h = G(h)
    <2>1. G(h) = [T \in SUBSET S |-> IF T = {} THEN 0
                    ELSE f[CHOOSE x \in T : TRUE] + h[T \ {CHOOSE x \in T : TRUE}]]
      BY <1>2
    <2> QED BY <2>1, Zenon DEF Chosen
  <1>5. Stated(S) = (CHOOSE h : h = G(h))[S]
    BY Zenon DEF Stated, MapThenSumSet, MapThenFoldSet
  <1> HIDE DEF G
  <1>6. (CHOOSE h : h = G(h)) = g
    BY <1>3, <1>4, Zenon
  <1> QED BY <1>3, <1>5, <1>6, Zenon DEF f

LEMMA EffectsEmpty == Effects({}) = 0 
  <1>1. PICK g : Sums(g, [e \in {} |-> transactionEffect(e)], {}) /\ Effects({}) = g[{}]
    BY EffectsSum, FS_EmptySet
  <1> QED BY <1>1 DEF Sums

LEMMA StatedType ==
    ASSUME NEW S \in SUBSET Event, IsFiniteSet(S)
    PROVE  Stated(S) \in Int
  <1>1. PICK g : Sums(g, [e \in S |-> e.amount], S) /\ Stated(S) = g[S]
    BY StatedSum
  <1> QED BY <1>1 DEF Sums

LEMMA StatedEmpty == Stated({}) = 0
  <1>1. PICK g : Sums(g, [e \in {} |-> e.amount], {}) /\ Stated({}) = g[{}]
    BY StatedSum, FS_EmptySet
  <1> QED BY <1>1 DEF Sums

LEMMA StatedSingle ==
    ASSUME NEW l \in Event
    PROVE  Stated({l}) = l.amount
  <1> DEFINE f == [e \in {l} |-> e.amount]
  <1>1. PICK g : Sums(g, f, {l}) /\ Stated({l}) = g[{l}]
    BY StatedSum, FS_Singleton
  <1>2. f[l] = l.amount /\ f[l] \in Int
    BY EffectType
  <1> HIDE DEF f
  <1>3. {l} \ {l} = {}
    OBVIOUS
  <1>4. g[{l}] = f[l] + g[{}] /\ g[{}] = 0
    BY <1>1, <1>3 DEF Sums
  <1> QED BY <1>1, <1>2, <1>4

\* A row more adds its effect.
LEMMA EffectsAdd ==
    ASSUME NEW S \in SUBSET Event, IsFiniteSet(S), NEW e \in S
    PROVE  Effects(S \ {e}) \in Int /\ Effects(S) = transactionEffect(e) + Effects(S \ {e})
  <1> DEFINE rest == S \ {e}
             f == [x \in S |-> transactionEffect(x)]
             r == [x \in rest |-> transactionEffect(x)]
  <1>1. rest \in SUBSET S /\ IsFiniteSet(S) /\ rest \in SUBSET Event /\ IsFiniteSet(rest)
    BY FS_RemoveElement
  <1>2. PICK g : Sums(g, f, S) /\ Effects(S) = g[S]
    BY EffectsSum
  <1>3. PICK h : Sums(h, r, rest) /\ Effects(rest) = h[rest]
    BY <1>1, EffectsSum
  <1>4. AgreeOn(r, f, rest)
    BY <1>1 DEF AgreeOn
  <1>5. f[e] = transactionEffect(e)
    OBVIOUS
  <1> HIDE DEF f, r, rest
  <1>6. h[rest] = g[rest]
    BY <1>1, <1>2, <1>3, <1>4, SumsAgree
  <1>7. g[S] = f[e] + g[rest]
    BY <1>2, Zenon DEF Sums, rest
  <1>8. Effects(rest) \in Int
    BY <1>3 DEF Sums
  <1> QED BY <1>2, <1>3, <1>5, <1>6, <1>7, <1>8 DEF rest

\* A transaction after every valuation adds its effect.
LEMMA ReferenceAdd ==
    ASSUME NEW R, History(R), NEW l \in Event, l \notin R, l.kind # "valuation",
           \A v \in R : v.kind = "valuation" => Before(v, l)
    PROVE  /\ ReferenceBalance(R \cup {l}) = ReferenceBalance(R) + transactionEffect(l)
           /\ ReferenceBalance(R) \in Int
  <1> DEFINE S == R \cup {l}
  <1>0. /\ R \in SUBSET Event /\ IsFiniteSet(R) /\ S \in SUBSET Event /\ IsFiniteSet(S)
        /\ R \in SUBSET S /\ l \in S /\ \A e \in S : e \in R \/ e = l
    BY FS_AddElement DEF History
  <1>1. Valuations(S) = Valuations(R)
    BY DEF Valuations
  <1>2. l \in After(S) /\ After(S) \ {l} = After(R) /\ After(S) \in SUBSET S
    BY <1>0, <1>1 DEF After, Valuations
  <1> HIDE DEF S
  <1>3. Latest(S) = Latest(R)
    BY <1>1 DEF Latest
  <1>4. IsFiniteSet(After(S)) /\ After(S) \in SUBSET Event
    BY <1>0, <1>2, FS_Subset
  <1>5. /\ Effects(After(R)) \in Int
        /\ Effects(After(S)) = transactionEffect(l) + Effects(After(R))
    BY <1>2, <1>4, EffectsAdd
  <1>6. Stated(Latest(R)) \in Int
    <2>1. Latest(R) \in SUBSET R /\ Latest(R) \in SUBSET Event
      BY <1>0 DEF Latest, Valuations
    <2>2. IsFiniteSet(Latest(R))
      BY <1>0, <2>1, FS_Subset
    <2> QED BY <2>1, <2>2, StatedType
  <1>7. /\ ReferenceBalance(R) = Stated(Latest(R)) + Effects(After(R))
        /\ ReferenceBalance(S) = Stated(Latest(S)) + Effects(After(S))
    BY ReferenceIs
  <1>8. transactionEffect(l) \in Int
    BY EffectType
  <1> QED BY <1>3, <1>5, <1>6, <1>7, <1>8 DEF S

\* What the loop computes of any history, if it does not reject it: the latest
\* valuation, and the effects that come after it.
LEMMA ReplayMeaning ==
    ASSUME NEW U, History(U), Replay(U) \in Minor
    PROVE  Replay(U) = ReferenceBalance(U)
  <1> DEFINE N == {n \in Nat : \A S \in SUBSET U :
                     Cardinality(S) = n /\ Replay(S) \in Minor => Replay(S) = ReferenceBalance(S)}
  <1>0. \A S \in SUBSET U : /\ History(S) /\ S \in SUBSET Event
                            /\ IsFiniteSet(S) /\ Cardinality(S) \in Nat
                            /\ (Cardinality(S) = 0 <=> S = {})
    BY SmallerHistory, FS_EmptySet, FS_CardinalityType DEF History
  <1>1. 0 \in N
    <2>1. Replay({}) = ReferenceBalance({})
      <3>1. Latest({}) = {} /\ After({}) = {}
        BY DEF Latest, After, Valuations
      <3>2. ReferenceBalance({}) = 0 + 0
        BY <3>1, ReferenceIs, StatedEmpty, EffectsEmpty
      <3> QED BY <3>2, ReplayEmpty
    <2> QED BY <1>0, <2>1, Zenon
  <1>2. ASSUME NEW n \in Nat, n \in N PROVE n + 1 \in N
    <2> SUFFICES ASSUME NEW S \in SUBSET U, Cardinality(S) = n + 1, Replay(S) \in Minor
                 PROVE  Replay(S) = ReferenceBalance(S)
      OBVIOUS
    <2> DEFINE l == LastRow(S)
               R == S \ {l}
    <2>1. S # {} /\ History(S) /\ R \in SUBSET U
      BY <1>0
    <2>2. l \in S /\ l \in Event /\ \A f \in S : f = l \/ Before(f, l)
      BY <1>0, <2>1, LastRowIsLast
    <2>3. \A f \in S : ~Before(l, f)
      <3>1. \A f \in S : f.date \in Int /\ f.id \in Int
        <4>1. S \in SUBSET Event /\ Dates \subseteq Int /\ Ids \subseteq Int
          BY <1>0, LedgerAssumption DEF Ids
        <4> QED BY <4>1 DEF Event
      <3> HIDE DEF l
      <3> QED BY <2>2, <3>1 DEF Before
    <2>4. Replay(S) = ReplayRow(Replay(R), l)
      BY <2>1, ReplayLast
    <2>5. Cardinality(R) = n /\ History(R) /\ R \in SUBSET Event
      <3>1. Cardinality(R) = Cardinality(S) - 1
        BY <1>0, <2>2, FS_RemoveElement
      <3> QED BY <1>0, <2>1, <3>1
    <2> HIDE DEF l
    <2>6. S = R \cup {l} /\ l \notin R
      BY <2>2
    <2> HIDE DEF R
    <2>7. Replay(R) \in Minor
      BY <2>4 DEF ReplayRow
    <2>8. Replay(R) = ReferenceBalance(R)
      BY <1>2, <2>1, <2>5, <2>7
    <2>9. ReferenceBalance(S) = Stated(Latest(S)) + Effects(After(S))
      BY ReferenceIs
    <2>10. CASE l.kind = "valuation"
      <3>1. Latest(S) = {l} /\ After(S) = {}
        BY <2>2, <2>3, <2>10 DEF Latest, After, Valuations
      <3>2. Stated({l}) = l.amount /\ l.amount \in Int
        BY <2>2, StatedSingle, EffectType
      <3>3. Replay(S) = l.amount
        BY <2>4, <2>7, <2>10 DEF ReplayRow
      <3> QED BY <2>9, <3>1, <3>2, <3>3, EffectsEmpty
    <2>11. CASE l.kind # "valuation"
      <3>1. ReferenceBalance(S) = ReferenceBalance(R) + transactionEffect(l)
        BY <1>0, <2>2, <2>5, <2>6, <2>11, ReferenceAdd DEF Valuations
      <3>2. Replay(S) = Replay(R) + transactionEffect(l) /\ transactionEffect(l) \in Int
        BY <2>2, <2>4, <2>7, <2>11, EffectType DEF ReplayRow
      <3> QED BY <2>8, <3>1, <3>2
    <2> QED BY <2>10, <2>11
  <1> HIDE DEF N
  <1>3. Nat \subseteq N
    BY <1>1, <1>2, NaturalsByInduction
  <1> QED BY <1>0, <1>3 DEF N

-----------------------------------------------------------------------------
(* The rows of the ledger *)

\* No two rows have one id, so that the query has one order to read them in.
Distinct(rows) == \A e, f \in rows : e.id = f.id => e = f
IdsDistinct == Distinct(events)

LEMMA InitIds == Init => IdsDistinct
  BY DEF Init, IdsDistinct, Distinct

\* Rows with new ids are added, rows are removed, or one is written anew.
LEMMA IdsStep ==
    ASSUME LedgerInv, IdsDistinct, [Next]_vars
    PROVE  IdsDistinct'
  <1>1. /\ \A e \in events : e.id \in Int /\ e.id < nextId
        /\ nextId \in Int
    <2>1. events \in SUBSET Event /\ Ids \subseteq Int /\ nextId \in Int
      BY LedgerAssumption DEF LedgerInv, TypeOK, Ids
    <2> QED BY <2>1 DEF LedgerInv, RowsWellFormed, WellFormed, Event
  <1>2. ASSUME NEW e, e.id = nextId, events' = events \cup {e} PROVE IdsDistinct'
    BY <1>1, <1>2 DEF IdsDistinct, Distinct
  <1>3. ASSUME NEW e, NEW f, e.id = nextId, f.id = nextId + 1, events' = events \cup {e, f}
        PROVE  IdsDistinct'
    BY <1>1, <1>3 DEF IdsDistinct, Distinct
  <1>4. ASSUME NEW e \in events, NEW f, f.id = e.id, events' = (events \ {e}) \cup {f}
        PROVE  IdsDistinct'
    BY <1>4 DEF IdsDistinct, Distinct
  <1>5. ASSUME events' \in SUBSET events PROVE IdsDistinct'
    BY <1>5 DEF IdsDistinct, Distinct
  <1>6. ASSUME NEW a \in AccountIds, NEW k, NEW type, NEW n, NEW date, NEW l,
               \/ CreateAccount(a, k, n, date, l)
               \/ CreateTransaction(a, k, type, n, date)
               \/ CreateValuation(a, k, n, date)
        PROVE  IdsDistinct'
    BY <1>2, <1>6 DEF CreateAccount, CreateTransaction, CreateValuation, Row
  <1>7. ASSUME NEW a \in AccountIds, NEW to \in AccountIds, NEW k, NEW sent, NEW received, NEW date,
               CreateTransfer(a, to, k, sent, received, date)
        PROVE  IdsDistinct'
    <2> DEFINE e == Row(nextId, a, "transaction", "transfer", -sent, date, NoKey, nextId)
               f == Row(nextId + 1, to, "transaction", "transfer", received, date, NoKey, nextId)
    <2>1. e.id = nextId /\ f.id = nextId + 1
      BY DEF Row
    <2>2. events' = events \cup {e, f}
      BY <1>7 DEF CreateTransfer
    <2> HIDE DEF e, f
    <2> QED BY <1>3, <2>1, <2>2
  <1>8. ASSUME NEW e \in events, NEW type, NEW amount, NEW date,
               UpdateTransaction(e, type, amount, date)
        PROVE  IdsDistinct'
    <2> DEFINE f == Row(e.id, e.account, e.kind, type, amount, date, e.key, e.group)
    <2>1. f.id = e.id
      BY DEF Row
    <2>2. events' = (events \ {e}) \cup {f}
      BY <1>8 DEF UpdateTransaction
    <2> HIDE DEF f
    <2> QED BY <1>4, <2>1, <2>2
  <1>9. ASSUME NEW e \in events, DeleteTransaction(e) \/ DeleteValuation(e)
        PROVE  IdsDistinct'
    BY <1>5, <1>9 DEF DeleteTransaction, DeleteValuation
  <1>10. ASSUME NEW a \in AccountIds,
                \/ \E l \in BOOLEAN : UpdateAccount(a, l)
                \/ ArchiveAccount(a) \/ RestoreAccount(a) \/ ConvertAccount(a)
                \/ DeleteReplacement(a) \/ DeleteAccount(a)
         PROVE  IdsDistinct'
    BY <1>5, <1>10 DEF UpdateAccount, ArchiveAccount, RestoreAccount, ConvertAccount, DeleteReplacement,
           DeleteAccount
  <1>11. CASE UNCHANGED vars
    BY <1>5, <1>11 DEF vars
  <1> QED BY <1>6, <1>7, <1>8, <1>9, <1>10, <1>11 DEF Next

LEMMA IdsInvariant == Spec => []IdsDistinct
  <1>1. Init => LedgerInv /\ IdsDistinct
    BY InitInv, InitIds
  <1>2. LedgerInv /\ IdsDistinct /\ [Next]_vars => (LedgerInv /\ IdsDistinct)'
    BY NextInv, IdsStep
  <1> QED BY <1>1, <1>2, PTL DEF Spec

\* The rows of an account are a history.
LEMMA EventsAreHistory ==
    ASSUME NEW E \in SUBSET Event, Distinct(E), NEW a
    PROVE  History(EventsOf(E, a))
  <1> DEFINE row == [i \in Ids |-> CHOOSE e \in E : e.id = i]
             rows == {row[i] : i \in Ids}
  <1>1. IsFiniteSet(rows)
    <2>1. IsFiniteSet(Ids)
      BY LedgerAssumption, FS_Interval DEF Ids
    <2> HIDE DEF row
    <2> QED BY <2>1, FiniteImage
  <1>2. ASSUME NEW e \in E PROVE e \in rows
    <2>1. e.id \in Ids
      BY DEF Event
    <2>2. row[e.id] = CHOOSE f \in E : f.id = e.id
      BY <2>1
    <2>3. row[e.id] = e
      BY <2>2, Zenon DEF Distinct
    <2> QED BY <2>1, <2>3
  <1> HIDE DEF rows
  <1>3. IsFiniteSet(E)
    BY <1>1, <1>2, FS_Subset
  <1>4. History(E)
    BY <1>3 DEF Distinct, History
  <1> QED BY <1>4, SmallerHistory DEF EventsOf

\* The rows of an active account replay to its cached balance, a bigint, and
\* that is the reference balance.
LEMMA ActiveMeaning ==
    ASSUME LedgerInv, IdsDistinct, NEW a \in AccountIds, IsActive(a)
    PROVE  /\ accounts[a].value = ReferenceBalance(EventsOf(events, a))
           /\ Replay(EventsOf(events, a)) = ReferenceBalance(EventsOf(events, a))
  <1>1. accounts[a].value \in Minor /\ accounts[a].value = Replay(EventsOf(events, a))
    BY DEF LedgerInv, TypeOK, CachedBalance
  <1>2. History(EventsOf(events, a))
    BY EventsAreHistory DEF LedgerInv, TypeOK, IdsDistinct
  <1> QED BY <1>1, <1>2, ReplayMeaning

-----------------------------------------------------------------------------
(* What the balances of Spec are *)

\* The balance replayBalance caches for an account is the latest valuation and
\* the signed effects of what comes after it, for histories of any length.
THEOREM ReplayComputesReference == Spec => []ReplayMeetsReference
  <1>1. LedgerInv /\ IdsDistinct => ReplayMeetsReference
    BY ActiveMeaning DEF ReplayMeetsReference
  <1> QED BY <1>1, LedgerInvariant, IdsInvariant, PTL

\* The legs of a transfer that no later valuation masks are the last rows of
\* their accounts that count.
LEMMA LegCounts ==
    ASSUME LedgerInv, IdsDistinct, LedgerInv', IdsDistinct',
           NEW a \in AccountIds, IsActive(a), IsActive(a)',
           NEW l \in Event, l \notin events, l.account = a, l.kind = "transaction", l.type = "transfer",
           EventsOf(events', a) = EventsOf(events, a) \cup {l},
           \A v \in events : v.kind = "valuation" /\ v.account = a => Before(v, l)
    PROVE  accounts[a].value \in Int /\ accounts'[a].value = accounts[a].value + l.amount
  <1> DEFINE R == EventsOf(events, a)
  <1>1. accounts[a].value = ReferenceBalance(R)
    BY ActiveMeaning
  <1>2. accounts'[a].value = ReferenceBalance(R \cup {l})
    <2>1. TypeOK' /\ CachedBalance' /\ Distinct(events')
      BY DEF LedgerInv, IdsDistinct, Distinct
    <2>2. accounts'[a].value = Replay(EventsOf(events', a))
      BY <2>1 DEF CachedBalance, IsActive, EventsOf
    <2>3. accounts'[a].value \in Minor /\ events' \in SUBSET Event
      BY <2>1 DEF TypeOK
    <2>4. History(EventsOf(events', a))
      BY <2>1, <2>3, EventsAreHistory
    <2> QED BY <2>2, <2>3, <2>4, ReplayMeaning
  <1>3. History(R) /\ l \notin R /\ \A v \in R : v.kind = "valuation" => Before(v, l)
    <2>1. History(R)
      BY EventsAreHistory DEF LedgerInv, TypeOK, IdsDistinct
    <2>2. \A v \in R : v \in events /\ v.account = a
      BY DEF EventsOf
    <2> QED BY <2>1, <2>2
  <1>4. transactionEffect(l) = l.amount
    BY DEF transactionEffect
  <1> HIDE DEF R
  <1>5. /\ ReferenceBalance(R \cup {l}) = ReferenceBalance(R) + transactionEffect(l)
        /\ ReferenceBalance(R) \in Int
    BY <1>3, ReferenceAdd
  <1> QED BY <1>1, <1>2, <1>4, <1>5

\* The two rows of a transfer meet no other of their date.
LEMMA TransferConserving ==
    ASSUME LedgerInv, IdsDistinct, LedgerInv', IdsDistinct',
           NEW from \in AccountIds, NEW to \in AccountIds, NEW k,
           NEW sent \in Amounts, NEW received \in Amounts, NEW date \in Dates,
           CreateTransfer(from, to, k, sent, received, date)
    PROVE  ConservingStep
  <1> DEFINE out == Row(nextId, from, "transaction", "transfer", -sent, date, NoKey, nextId)
             in == Row(nextId + 1, to, "transaction", "transfer", received, date, NoKey, nextId)
  <1>1. /\ out.id = nextId /\ out.account = from /\ out.kind = "transaction" /\ out.type = "transfer"
        /\ in.id = nextId + 1 /\ in.account = to /\ in.kind = "transaction" /\ in.type = "transfer"
        /\ out.date = date /\ in.date = date
    BY DEF Row
  <1>2. /\ from # to /\ events' = events \cup {out, in}
        /\ IsActive(from) /\ IsActive(to) /\ replayBalance({from, to}, events')
    BY DEF CreateTransfer
  <1> HIDE DEF out, in
  <1>3. /\ events \in SUBSET Event /\ events' \in SUBSET Event /\ nextId \in Int
        /\ \A e \in events : e.id \in Int /\ e.date \in Int /\ e.id < nextId
    <2>1. events \in SUBSET Event /\ events' \in SUBSET Event /\ nextId \in Int
          /\ Ids \subseteq Int /\ Dates \subseteq Int
      BY LedgerAssumption DEF LedgerInv, TypeOK, Ids
    <2> QED BY <2>1 DEF LedgerInv, RowsWellFormed, WellFormed, Event
  <1>4. out \in Event /\ in \in Event /\ out \notin events /\ in \notin events
    BY <1>1, <1>2, <1>3
  <1>5. IsActive(from)' /\ IsActive(to)'
    <2>1. TypeOK /\ {from, to} \in SUBSET AccountIds
      BY DEF LedgerInv
    <2>2. \A a \in AccountIds : accounts'[a].status = accounts[a].status
      BY <1>2, <2>1, ReplayBalanceEffect
    <2> QED BY <1>2, <2>2 DEF IsActive
  <1>6. /\ EventsOf(events', from) = EventsOf(events, from) \cup {out}
        /\ EventsOf(events', to) = EventsOf(events, to) \cup {in}
    BY <1>1, <1>2 DEF EventsOf
  <1>7. \A v \in events : (Before(v, out) <=> Before(v, in))
    BY <1>1, <1>3 DEF Before
  <1>8. ASSUME out.amount = -in.amount,
               \A v \in events : v.kind = "valuation" /\ v.account \in {from, to} => Before(v, out)
        PROVE  accounts'[from].value + accounts'[to].value
                 = accounts[from].value + accounts[to].value
    <2>1. accounts[from].value \in Int /\ accounts'[from].value = accounts[from].value + out.amount
      BY <1>1, <1>2, <1>4, <1>5, <1>6, <1>8, LegCounts
    <2>2. accounts[to].value \in Int /\ accounts'[to].value = accounts[to].value + in.amount
      BY <1>1, <1>2, <1>4, <1>5, <1>6, <1>7, <1>8, LegCounts
    <2>3. in.amount \in Int
      BY <1>4, EffectType
    <2> QED BY <1>8, <2>1, <2>2, <2>3
  <1>9. ASSUME NEW e \in events' \ events, NEW f \in events' \ events, e # f, e.amount = -f.amount,
               \A v \in events : v.kind = "valuation" /\ v.account \in {e.account, f.account}
                 => Before(v, e)
        PROVE  accounts'[e.account].value + accounts'[f.account].value
                 = accounts[e.account].value + accounts[f.account].value
    <2>1. (e = out /\ f = in) \/ (e = in /\ f = out)
      BY <1>2, <1>9
    <2>2. CASE e = out /\ f = in
      BY <1>1, <1>8, <1>9, <2>2
    <2>3. CASE e = in /\ f = out
      <3>1. out.amount \in Int /\ in.amount \in Int /\ in.amount = -out.amount
        BY <1>4, <1>9, <2>3, EffectType
      <3>2. out.amount = -in.amount
        BY <3>1
      <3>3. \A a \in {from, to} : accounts[a].value \in Int /\ accounts'[a].value \in Int
        BY LedgerAssumption DEF LedgerInv, TypeOK, Minor
      <3>4. \A v \in events : v.kind = "valuation" /\ v.account \in {from, to} => Before(v, out)
        BY <1>1, <1>7, <1>9, <2>3
      <3> QED BY <1>1, <1>8, <2>3, <3>2, <3>3, <3>4
    <2> QED BY <2>1, <2>2, <2>3
  <1> QED BY <1>9 DEF ConservingStep

\* No other request adds two rows.
LEMMA ConservingNext ==
    ASSUME LedgerInv, IdsDistinct, LedgerInv', IdsDistinct', [Next]_vars
    PROVE  [ConservingStep]_vars
  <1> DEFINE AtMostOne == \E x : events' \ events \in SUBSET {x}
  <1>1. ASSUME AtMostOne PROVE ConservingStep
    BY <1>1 DEF ConservingStep
  <1>2. ASSUME NEW a \in AccountIds, NEW k, NEW type, NEW n, NEW date, NEW l,
               \/ CreateAccount(a, k, n, date, l)
               \/ CreateTransaction(a, k, type, n, date)
               \/ CreateValuation(a, k, n, date)
        PROVE  AtMostOne
    BY <1>2 DEF CreateAccount, CreateTransaction, CreateValuation
  <1>3. ASSUME NEW e \in events, NEW type, NEW amount, NEW date,
               \/ UpdateTransaction(e, type, amount, date)
               \/ DeleteTransaction(e) \/ DeleteValuation(e)
        PROVE  AtMostOne
    BY <1>3 DEF UpdateTransaction, DeleteTransaction, DeleteValuation
  <1>4. ASSUME NEW a \in AccountIds,
               \/ \E l \in BOOLEAN : UpdateAccount(a, l)
               \/ ArchiveAccount(a) \/ RestoreAccount(a) \/ ConvertAccount(a)
                \/ DeleteReplacement(a) \/ DeleteAccount(a)
        PROVE  AtMostOne
    BY <1>4 DEF UpdateAccount, ArchiveAccount, RestoreAccount, ConvertAccount, DeleteReplacement,
           DeleteAccount
  <1> HIDE DEF AtMostOne
  <1>5. ASSUME NEW from \in AccountIds, NEW to \in AccountIds, NEW k,
               NEW sent \in Amounts, NEW received \in Amounts, NEW date \in Dates,
               CreateTransfer(from, to, k, sent, received, date)
        PROVE  ConservingStep
    BY <1>5, TransferConserving
  <1>6. Next => ConservingStep
    BY <1>1, <1>2, <1>3, <1>4, <1>5 DEF Next
  <1> QED BY <1>6

\* A transfer that no later valuation masks moves value and makes none.
THEOREM TransfersConserve == Spec => TransferConserves
  <1>1. LedgerInv /\ IdsDistinct /\ LedgerInv' /\ IdsDistinct' /\ [Next]_vars => [ConservingStep]_vars
    BY ConservingNext
  <1> QED BY <1>1, LedgerInvariant, IdsInvariant, PTL DEF Spec, TransferConserves

=============================================================================
