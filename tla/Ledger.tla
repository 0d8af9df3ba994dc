------------------------------- MODULE Ledger -------------------------------
(***************************************************************************)
(* The balance ledger of internal/service/ledger.go for one user: accounts *)
(* tracked by balance, their transactions, valuations and transfers, the   *)
(* cached balance each account row carries, and the idempotency keys that  *)
(* make a retried request harmless.                                        *)
(*                                                                         *)
(* Every request of the service runs in one database transaction and is    *)
(* one action here: the module states what the ledger promises when        *)
(* requests do not overlap.  LedgerTx splits the same handlers into their  *)
(* statements and interleaves them.                                        *)
(*                                                                         *)
(* A rejected request, and a retry that finds its key already used, leave  *)
(* the database as it was: both are stuttering steps.                      *)
(***************************************************************************)
EXTENDS Integers, FiniteSetsExt

CONSTANTS
  AccountIds,   \* the account rows that can ever be created; ids never come back
  Keys,         \* idempotency keys a client generates
  NoKey,        \* the opening balance and the legs of a transfer carry no key
  EntryTypes,   \* the transaction types CreateTransaction accepts
  Amounts,      \* positive amounts in minor units
  Values,       \* opening values and valuations, never negative
  Dates,        \* calendar dates that are not in the future
  MaxMinor,     \* the largest bigint of minor units (int64)
  MaxEvents     \* BOUND: transactions and valuations ever inserted

Credits == {"opening_balance", "deposit", "interest", "dividend",
            "capital_gain", "purchase", "liability_increase"}
Debits  == {"withdrawal", "capital_loss", "fee", "sale", "liability_payment"}

ASSUME LedgerAssumption ==
  /\ NoKey \notin Keys
  /\ EntryTypes \subseteq (Credits \cup Debits \cup {"manual_adjustment"}) \ {"opening_balance"}
  /\ MaxMinor \in Nat /\ MaxEvents \in Nat
  /\ Amounts \subseteq 1 .. MaxMinor
  /\ Values \subseteq 0 .. MaxMinor
  /\ Dates \subseteq Int

VARIABLES
  accounts,     \* the accounts table: status, cached current_value_minor, is_liability
  events,       \* the transactions and valuation_snapshots tables
  idempotency,  \* the idempotency_keys table: what each key produced, or NoRow
  nextId        \* the next row id; ids grow in created_at order

vars == <<accounts, events, idempotency, nextId>>

Minor  == -MaxMinor - 1 .. MaxMinor
Ids    == 1 .. MaxEvents
NoGroup == 0
NoRow  == [operation |-> "none", result |-> 0]

\* "converted" is archived with a row of account_conversions that names it as the
\* source: the row, and so the replacement it names, is still there.
Statuses == {"unused", "active", "archived", "converted", "deleted"}

Event == [id: Ids, account: AccountIds, kind: {"transaction", "valuation"},
          type: Credits \cup Debits \cup {"manual_adjustment", "transfer", "valuation"},
          amount: Minor, date: Dates, key: Keys \cup {NoKey}, group: Ids \cup {NoGroup}]

IdempotencyRow == {NoRow}
  \cup [operation: {"create-account"}, result: AccountIds]
  \cup [operation: {"valuation", "transfer"}, result: Ids]

-----------------------------------------------------------------------------
(* Balance replay *)

\* Mutant: a transfer counts by its magnitude, like the other types.
transactionEffectUnsigned(e) ==
  IF e.type = "manual_adjustment" THEN e.amount
  ELSE LET magnitude == IF e.amount < 0 THEN -e.amount ELSE e.amount
       IN  IF e.type \in Credits THEN magnitude ELSE -magnitude

\* The signed effect of a transaction: adjustments and transfers carry their
\* own sign, every other type has a fixed direction.
transactionEffect(e) ==
  IF e.type \in {"manual_adjustment", "transfer"} THEN e.amount
  ELSE LET magnitude == IF e.amount < 0 THEN -e.amount ELSE e.amount
       IN  IF e.type \in Credits THEN magnitude ELSE -magnitude

\* ORDER BY event_date, created_at.
Before(e, f) == e.date < f.date \/ (e.date = f.date /\ e.id < f.id)

\* Mutant: a valuation contributes instead of setting the balance.
ReplayRowAdding(balance, e) ==
  IF balance \notin Minor THEN balance
  ELSE balance + (IF e.kind = "valuation" THEN e.amount ELSE transactionEffect(e))

\* One row of the replay loop.  A balance outside Minor is sticky: the code
\* stops there and rejects the request.
ReplayRow(balance, e) ==
  IF balance \notin Minor THEN balance
  ELSE IF e.kind = "valuation" THEN e.amount
  ELSE balance + transactionEffect(e)

\* The row the replay of S reads last.
LastRow(S) == CHOOSE e \in S : \A f \in S : f = e \/ Before(f, e)

\* The replay: the fold of ReplayRow over the rows in order.
Replay(S) ==
  MapThenFoldSet(LAMBDA e, balance : ReplayRow(balance, e), 0, LAMBDA e : e, LastRow, S)

EventsOf(rows, a) == {e \in rows : e.account = a}

IsActive(a) == accounts[a].status = "active"

\* Mutant: the IsInt64 check of the replay is missing.
replayBalanceUnchecked(touched, rows) ==
  accounts' = [a \in AccountIds |->
                 IF a \in touched /\ IsActive(a)
                 THEN [accounts[a] EXCEPT !.value = Replay(EventsOf(rows, a))]
                 ELSE accounts[a]]

\* Mutant: the early return for archived accounts is missing.
replayBalanceArchived(touched, rows) ==
  /\ \A a \in touched : Replay(EventsOf(rows, a)) \in Minor
  /\ accounts' = [a \in AccountIds |->
                    IF a \in touched
                    THEN [accounts[a] EXCEPT !.value = Replay(EventsOf(rows, a))]
                    ELSE accounts[a]]

\* replayBalance over the rows a request leaves: every active account it
\* touched gets the replayed value, an archived one keeps the value it had.
\* The request fails as a whole when a replay leaves the range of a bigint.
replayBalance(touched, rows) ==
  /\ \A a \in touched : IsActive(a) => Replay(EventsOf(rows, a)) \in Minor
  /\ accounts' = [a \in AccountIds |->
                    IF a \in touched /\ IsActive(a)
                    THEN [accounts[a] EXCEPT !.value = Replay(EventsOf(rows, a))]
                    ELSE accounts[a]]

-----------------------------------------------------------------------------
(* Requests *)

\* Mutant: the second lookup, in transactions, is missing.
KeyFreeTableOnly(k) == idempotency[k] = NoRow

\* lookupIdempotency found nothing: no row of idempotency_keys holds the key
\* and no transaction was created under it.
KeyFree(k) == idempotency[k] = NoRow /\ \A e \in events : e.key # k

Record(k, op, result) ==
  idempotency' = [idempotency EXCEPT ![k] = [operation |-> op, result |-> result]]

\* BOUND: there is room for n more rows.
Room(n) == nextId + n <= MaxEvents + 1

Row(id, a, kind, type, amount, date, key, group) ==
  [id |-> id, account |-> a, kind |-> kind, type |-> type, amount |-> amount,
   date |-> date, key |-> key, group |-> group]

\* The account row, its opening balance and the optional key are written together.
CreateAccount(a, k, opening, date, liability) ==
  /\ accounts[a].status = "unused"
  /\ Room(1)
  /\ \/ k = NoKey /\ UNCHANGED idempotency
     \/ k # NoKey /\ KeyFree(k) /\ Record(k, "create-account", a)
  /\ accounts' = [accounts EXCEPT ![a] = [status |-> "active", value |-> opening,
                                          liability |-> liability]]
  /\ events' = events \cup {Row(nextId, a, "transaction", "opening_balance", opening,
                                date, NoKey, NoGroup)}
  /\ nextId' = nextId + 1

\* Moving an active account to another category can change its side.
UpdateAccount(a, liability) ==
  /\ IsActive(a)
  /\ accounts' = [accounts EXCEPT ![a].liability = liability]
  /\ UNCHANGED <<events, idempotency, nextId>>

ArchiveAccount(a) ==
  /\ IsActive(a)
  /\ accounts' = [accounts EXCEPT ![a].status = "archived"]
  /\ UNCHANGED <<events, idempotency, nextId>>

\* Restoring replays the history.  A source whose replacement exists is refused.
RestoreAccount(a) ==
  /\ accounts[a].status = "archived"
  /\ Replay(EventsOf(events, a)) \in Minor
  /\ accounts' = [accounts EXCEPT ![a] = [status |-> "active",
                                          value |-> Replay(EventsOf(events, a)),
                                          liability |-> accounts[a].liability]]
  /\ UNCHANGED <<events, idempotency, nextId>>

\* What a guided conversion does to its source.  Its position-tracked
\* replacement has another replay and is not an account of this module.
ConvertAccount(a) ==
  /\ IsActive(a) /\ ~accounts[a].liability
  /\ accounts' = [accounts EXCEPT ![a].status = "converted"]
  /\ UNCHANGED <<events, idempotency, nextId>>

\* DeleteAccount of the replacement takes the row of account_conversions with
\* it: the source is an archived account like any other, and may be restored.
DeleteReplacement(a) ==
  /\ accounts[a].status = "converted"
  /\ accounts' = [accounts EXCEPT ![a].status = "archived"]
  /\ UNCHANGED <<events, idempotency, nextId>>

\* Mutant: the other leg only counts while its account is active.
LinkedActive(a) == \E e, f \in events : /\ e.account = a /\ f.account # a
                                        /\ e.group = f.group /\ e.group # NoGroup
                                        /\ IsActive(f.account)

\* A transfer leg of account a whose group also has a leg elsewhere.
Linked(a) == \E e, f \in events : /\ e.account = a /\ f.account # a
                                  /\ e.group = f.group /\ e.group # NoGroup

\* Deleting the row cascades to the account's own rows.
DeleteAccount(a) ==
  /\ accounts[a].status \in {"archived", "converted"}
  /\ ~Linked(a)
  /\ accounts' = [accounts EXCEPT ![a] = [status |-> "deleted", value |-> 0,
                                          liability |-> FALSE]]
  /\ events' = events \ EventsOf(events, a)
  /\ UNCHANGED <<idempotency, nextId>>

\* Amounts are positive except in an adjustment, which is never zero and may be
\* the smallest bigint, whose magnitude is none.
EntryAmount(type, amount) ==
  \/ amount \in Amounts
  \/ type = "manual_adjustment" /\ (-amount \in Amounts \/ amount = -MaxMinor - 1)

\* The row itself carries the key: nothing is written to idempotency_keys.
CreateTransaction(a, k, type, amount, date) ==
  /\ EntryAmount(type, amount)
  /\ Room(1) /\ KeyFree(k) /\ IsActive(a)
  /\ events' = events \cup {Row(nextId, a, "transaction", type, amount, date, k, NoGroup)}
  /\ replayBalance({a}, events')
  /\ nextId' = nextId + 1
  /\ UNCHANGED idempotency

UpdateTransaction(e, type, amount, date) ==
  /\ EntryAmount(type, amount)
  /\ e.kind = "transaction" /\ e.type \notin {"opening_balance", "transfer"}
  /\ IsActive(e.account)
  /\ events' = (events \ {e}) \cup {Row(e.id, e.account, e.kind, type, amount, date, e.key, e.group)}
  /\ replayBalance({e.account}, events')
  /\ UNCHANGED <<idempotency, nextId>>

\* Mutant: only the account of the named leg is replayed.
DeleteTransactionOneReplay(e) ==
  LET doomed == IF e.group = NoGroup THEN {e} ELSE {f \in events : f.group = e.group}
  IN  /\ e.kind = "transaction" /\ e.type # "opening_balance"
      /\ IsActive(e.account)
      /\ events' = events \ doomed
      /\ replayBalance({e.account}, events')
      /\ UNCHANGED <<idempotency, nextId>>

\* Deleting one leg of a transfer deletes the group and replays both accounts;
\* only the account of the leg the user named has to be active.
DeleteTransaction(e) ==
  LET doomed == IF e.group = NoGroup THEN {e} ELSE {f \in events : f.group = e.group}
  IN  /\ e.kind = "transaction" /\ e.type # "opening_balance"
      /\ IsActive(e.account)
      /\ events' = events \ doomed
      /\ replayBalance({f.account : f \in doomed}, events')
      /\ UNCHANGED <<idempotency, nextId>>

CreateValuation(a, k, value, date) ==
  /\ Room(1) /\ KeyFree(k) /\ IsActive(a)
  /\ events' = events \cup {Row(nextId, a, "valuation", "valuation", value, date, NoKey, NoGroup)}
  /\ Record(k, "valuation", nextId)
  /\ replayBalance({a}, events')
  /\ nextId' = nextId + 1

DeleteValuation(e) ==
  /\ e.kind = "valuation" /\ IsActive(e.account)
  /\ events' = events \ {e}
  /\ replayBalance({e.account}, events')
  /\ UNCHANGED <<idempotency, nextId>>

\* The two legs share a group; the key records the group.  The amount that
\* arrives is the amount sent, a conversion of it, or what the user stated.
CreateTransfer(from, to, k, sent, received, date) ==
  /\ from # to
  /\ Room(2) /\ KeyFree(k)
  /\ \A a \in {from, to} : IsActive(a) /\ ~accounts[a].liability
  /\ events' = events \cup
       {Row(nextId, from, "transaction", "transfer", -sent, date, NoKey, nextId),
        Row(nextId + 1, to, "transaction", "transfer", received, date, NoKey, nextId)}
  /\ Record(k, "transfer", nextId)
  /\ replayBalance({from, to}, events')
  /\ nextId' = nextId + 2

-----------------------------------------------------------------------------
Init ==
  /\ accounts = [a \in AccountIds |-> [status |-> "unused", value |-> 0, liability |-> FALSE]]
  /\ events = {}
  /\ idempotency = [k \in Keys |-> NoRow]
  /\ nextId = 1

Next ==
  \/ \E a \in AccountIds :
       \/ \E k \in Keys \cup {NoKey}, opening \in Values, date \in Dates, l \in BOOLEAN :
            CreateAccount(a, k, opening, date, l)
       \/ \E l \in BOOLEAN : UpdateAccount(a, l)
       \/ ArchiveAccount(a)
       \/ RestoreAccount(a)
       \/ ConvertAccount(a)
       \/ DeleteReplacement(a)
       \/ DeleteAccount(a)
       \/ \E k \in Keys, date \in Dates :
            \/ \E type \in EntryTypes, amount \in Minor :
                 CreateTransaction(a, k, type, amount, date)
            \/ \E value \in Values : CreateValuation(a, k, value, date)
            \/ \E to \in AccountIds, sent, received \in Amounts :
                 CreateTransfer(a, to, k, sent, received, date)
  \/ \E e \in events :
       \/ \E type \in EntryTypes, amount \in Minor, date \in Dates :
            UpdateTransaction(e, type, amount, date)
       \/ DeleteTransaction(e)
       \/ DeleteValuation(e)

Spec == Init /\ [][Next]_vars

-----------------------------------------------------------------------------
(* Properties *)

\* Type invariant: what the columns of the tables can hold.
TypeOK ==
  /\ accounts \in [AccountIds -> [status: Statuses, value: Minor, liability: BOOLEAN]]
  /\ events \subseteq Event
  /\ idempotency \in [Keys -> IdempotencyRow]
  /\ nextId \in 1 .. MaxEvents + 1

\* The cached balance every total, goal and chart reads is the replay of the
\* account's own history, whatever was created, edited, deleted, archived or
\* restored before.  It fails if a request forgets one account it touched.
CachedBalance ==
  \A a \in AccountIds : IsActive(a) => accounts[a].value = Replay(EventsOf(events, a))

\* A transfer is whole or gone: its two legs sit in two accounts with opposite
\* signs, and no request leaves one leg without the other.
TransfersWhole ==
  \A e \in events : e.type = "transfer" =>
    \E f \in events :
      /\ f.group = e.group /\ f.account # e.account /\ (f.amount < 0) # (e.amount < 0)
      /\ \A g \in events : g.group = e.group => g \in {e, f}

\* A key stands for at most one result, whichever request used it first: one
\* transaction, or one row of idempotency_keys, never both.
OneResultPerKey ==
  \A e \in events : e.key # NoKey =>
    /\ idempotency[e.key] = NoRow
    /\ \A f \in events : f.key = e.key => f = e

\* What a step may do to an archived account: delete it, restore it when it has
\* no replacement, free it of one, or nothing.
FrozenStep ==
  \A a \in AccountIds : accounts[a].status \in {"archived", "converted"} =>
    \/ accounts'[a].status = "active" /\ accounts[a].status = "archived"
    \/ accounts'[a].status = "deleted"
    \/ accounts'[a] = [accounts[a] EXCEPT !.status = "archived"]
    \/ accounts'[a] = accounts[a]

\* Archiving freezes the balance: while an account stays archived nothing moves
\* its value, even when the other leg of one of its transfers is deleted; and a
\* converted source never comes back before its replacement is gone.
ArchivedFrozen == [][FrozenStep]_vars

\* What the balance of a history means: the latest valuation, which sets the
\* balance at its point, plus the signed effects that come after it.
ReferenceBalance(S) ==
  LET valuations == {e \in S : e.kind = "valuation"}
      later == {e \in S : \A v \in valuations : v # e /\ Before(v, e)}
      base == {v \in valuations : \A w \in valuations : w = v \/ Before(w, v)}
  IN  MapThenSumSet(LAMBDA e : e.amount, base) + MapThenSumSet(transactionEffect, later)

\* The replay loop computes the reference balance for every active account.
ReplayMeetsReference ==
  \A a \in AccountIds : IsActive(a) =>
    Replay(EventsOf(events, a)) = ReferenceBalance(EventsOf(events, a))

\* What a step may do with a transfer of equal amounts that no later valuation
\* of its accounts masks: move value, and leave what the two hold together.
ConservingStep ==
  \A e, f \in events' \ events :
    (/\ e.type = "transfer" /\ f.type = "transfer" /\ e # f
     /\ e.amount = -f.amount
     /\ \A v \in events : v.kind = "valuation" /\ v.account \in {e.account, f.account}
          => Before(v, e))
    => accounts'[e.account].value + accounts'[f.account].value
         = accounts[e.account].value + accounts[f.account].value

\* A transfer of equal amounts between two accounts that no later valuation
\* masks moves value without changing what the two hold together.
TransferConserves == [][ConservingStep]_vars

=============================================================================
