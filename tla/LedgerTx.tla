------------------------------ MODULE LedgerTx ------------------------------
(***************************************************************************)
(* The handlers of internal/service/ledger.go when requests overlap.       *)
(* Ledger has one action per request; here each worker runs a handler's    *)
(* READ COMMITTED transaction statement by statement:                      *)
(*   - a SELECT reads what is committed, with the transaction's own writes;*)
(*   - writes show at Commit, and the locks they take are kept until then; *)
(*   - an INSERT of a ledger row locks its account row against deletion    *)
(*     (foreign key), an UPDATE against updates, a DELETE against both;    *)
(*   - the advisory lock of an idempotency key is held to the end.         *)
(*                                                                         *)
(* What a replay computes is in Ledger.  Here a cached balance is the set  *)
(* of rows the replay that stored it had read, so it is right exactly when *)
(* that set is the account's.  The accounts exist from the start and their *)
(* opening balances, which no handler below changes, are left out.         *)
(* A request arrives with its first statement: before, it has done nothing. *)
(* Abstracted: the SELECTs of getLedgerAccount for the two accounts of a   *)
(* transfer are one step, and so are the two lookups of a key.             *)
(***************************************************************************)
EXTENDS Integers, Sequences, FiniteSets

CONSTANTS
  Workers,    \* requests in progress at once
  Accounts,
  Keys,       \* idempotency keys
  None,       \* no account, no key
  Handlers,   \* the requests clients send
  MaxRows,    \* BOUND: transactions and transfers ever inserted
  MaxEdits    \* BOUND: edits of one transaction

ASSUME LedgerTxAssumption ==
  /\ None \notin Accounts \cup Keys \cup ((1 .. MaxRows) \X Accounts)
  /\ IsFiniteSet(Accounts)
  /\ Handlers \subseteq {"CreateTransaction", "UpdateTransaction", "DeleteTransaction",
                         "CreateTransfer", "Archive", "Restore", "DeleteAccount"}
  /\ MaxRows \in Nat /\ MaxEdits \in Nat

VARIABLES
  account,   \* the accounts table: status and cached balance
  rows,      \* the transactions table
  keyRows,   \* the idempotency_keys table: keys of transfers
  nextRow,   \* the next row id
  tx,        \* the transaction of each worker
  alone      \* HISTORY: workers whose transaction has overlapped no other

vars == <<account, rows, keyRows, nextRow, tx, alone>>
tables == <<account, rows, keyRows>>

\* A version of a transaction row.  The two legs of a transfer share an id and name each
\* other's account as peer; version counts edits.
RowType == [id: 1 .. MaxRows, account: Accounts, peer: Accounts \cup {None},
            key: Keys \cup {None}, version: 0 .. MaxEdits]

\* op: the handler; pc: its next statement; account, peer, key, row (a row's
\* name): its arguments; want: names of rows a DELETE still has to lock; add, del: its uncommitted
\* rows; replay: accounts still to be replayed; seen: the rows the replay read;
\* cache: its uncommitted balances; status: the status it writes; held: locks.
Idle == [op |-> "none", pc |-> "idle", account |-> None, peer |-> None, key |-> None,
         row |-> None, want |-> {}, add |-> {}, del |-> {}, replay |-> <<>>, seen |-> {},
         cache |-> {}, status |-> "none", held |-> {}]

\* A statement that waited for a row goes on with the version committed since.
Name(r) == <<r.id, r.account>>
Current(names) == {r \in rows : Name(r) \in names}

RowsOf(a) == {r \in rows : r.account = a}
Legs(id) == {r \in rows : r.id = id}

-----------------------------------------------------------------------------
(* Locks *)

Conflicts == {<<"share", "delete">>, <<"delete", "share">>, <<"update", "update">>,
              <<"update", "delete">>, <<"delete", "update">>, <<"delete", "delete">>,
              <<"row", "row">>, <<"key", "key">>}

CanLock(w, mode, x) ==
  \A v \in Workers \ {w} : \A lock \in tx[v].held :
    lock[2] = x => <<mode, lock[1]>> \notin Conflicts

At(w, pc) == tx[w].pc = pc
Finish(w) == tx' = [tx EXCEPT ![w] = Idle]

\* The first statement of handler op leaves its transaction as t.
Begin(w, op, t) ==
  /\ At(w, "idle") /\ op \in Handlers
  /\ tx' = [tx EXCEPT ![w] = [t EXCEPT !.op = op]]
  /\ alone' = IF \A v \in Workers : At(v, "idle") THEN {w} ELSE {}
  /\ UNCHANGED <<tables, nextRow>>

\* A step of a transaction that writes nothing others can see.
Private == UNCHANGED <<tables, nextRow, alone>>

-----------------------------------------------------------------------------
(* Idempotency keys, and the accounts a request names *)

KeyUsed(k) == k \in keyRows \/ \E r \in rows : r.key = k

\* A transaction in account a, or a transfer from a to b.
Creation(b) == IF b = None THEN "CreateTransaction" ELSE "CreateTransfer"

\* Mutant: the key is looked up without its advisory lock.
lookupUnlocked(w, a, b, k) ==
  /\ a # b /\ ~KeyUsed(k)
  /\ Begin(w, Creation(b), [Idle EXCEPT !.pc = "accounts", !.account = a, !.peer = b, !.key = k])

\* CreateTransaction and CreateTransfer: lockLedgerIdempotency, then
\* lookupIdempotency.  A used key ends the request.
lockLedgerIdempotency(w, a, b, k) ==
  /\ a # b /\ CanLock(w, "key", k) /\ ~KeyUsed(k)
  /\ Begin(w, Creation(b), [Idle EXCEPT !.pc = "accounts", !.account = a, !.peer = b, !.key = k,
                                        !.held = {<<"key", k>>}])

\* getLedgerAccount, for each account the request names: active, or not found.
\* Nothing is locked.
getLedgerAccount(w) ==
  /\ At(w, "accounts")
  /\ IF \A a \in {tx[w].account, tx[w].peer} \ {None} : account[a].status = "active"
     THEN tx' = [tx EXCEPT ![w].pc = IF tx[w].row = None THEN "insert" ELSE "change"]
     ELSE Finish(w)
  /\ Private

-----------------------------------------------------------------------------
(* Writing ledger rows *)

Leg(w, a, b) == [id |-> nextRow, account |-> a, peer |-> b, version |-> 0,
                 key |-> IF b = None THEN tx[w].key ELSE None]

\* CreateTransaction and CreateTransfer: INSERT.  The foreign key waits for a
\* deletion of the account and then fails.
insert(w) ==
  LET a == tx[w].account
      b == tx[w].peer
      named == {a, b} \ {None}
      legs == IF b = None THEN {Leg(w, a, None)} ELSE {Leg(w, a, b), Leg(w, b, a)}
  IN  /\ At(w, "insert") /\ \A c \in named : CanLock(w, "share", c)
      /\ IF \E c \in named : account[c].status = "deleted"
         THEN Finish(w) /\ UNCHANGED nextRow
         ELSE /\ nextRow <= MaxRows
              /\ tx' = [tx EXCEPT ![w].pc = "replay", ![w].add = legs,
                                  ![w].held = @ \cup {<<"share", c>> : c \in named},
                                  ![w].replay = IF b = None THEN <<a>> ELSE <<a, b>>]
              /\ nextRow' = nextRow + 1
      /\ UNCHANGED <<tables, alone>>

\* UpdateTransaction and DeleteTransaction: SELECT ... FOR UPDATE of the row.
lockRow(w, op, r) ==
  /\ CanLock(w, "row", Name(r))
  /\ Begin(w, op, [Idle EXCEPT !.pc = "accounts", !.account = r.account, !.row = Name(r),
                               !.held = {<<"row", Name(r)>>}])

\* UpdateTransaction: UPDATE; the legs of a transfer cannot be edited.
UpdateRow(w) ==
  /\ At(w, "change") /\ tx[w].op = "UpdateTransaction"
  /\ \E r \in Current({tx[w].row}) :
       IF r.peer # None THEN Finish(w)
       ELSE /\ r.version < MaxEdits
            /\ tx' = [tx EXCEPT ![w].pc = "replay", ![w].del = {r}, ![w].replay = <<r.account>>,
                                ![w].add = {[r EXCEPT !.version = @ + 1]}]
  /\ Private

\* The orders in which a query can return a set.
Orders(S) == {s \in [1 .. Cardinality(S) -> S] : \A a \in S : \E i \in DOMAIN s : s[i] = a}

\* Mutant: only the account of the named leg is replayed.
DeleteRowsOneReplay(w) ==
  /\ At(w, "change") /\ tx[w].op = "DeleteTransaction"
  /\ tx' = [tx EXCEPT ![w].pc = "lockRows", ![w].want = {Name(r) : r \in Legs(tx[w].row[1])},
                      ![w].replay = <<tx[w].account>>]
  /\ Private

\* Mutant: one leg of a transfer is deleted.
DeleteRowsOneLeg(w) ==
  /\ At(w, "change") /\ tx[w].op = "DeleteTransaction"
  /\ tx' = [tx EXCEPT ![w].pc = "lockRows", ![w].want = {tx[w].row},
                      ![w].replay = <<tx[w].account>>]
  /\ Private

\* DeleteTransaction: the accounts of the transfer, in the order the query
\* returns them, then DELETE of its rows.
DeleteRows(w) ==
  /\ At(w, "change") /\ tx[w].op = "DeleteTransaction"
  /\ \E order \in Orders({r.account : r \in Legs(tx[w].row[1])}) :
       tx' = [tx EXCEPT ![w].pc = "lockRows", ![w].want = {Name(r) : r \in Legs(tx[w].row[1])},
                        ![w].replay = order]
  /\ Private

\* A DELETE, or a cascade, locks the rows it found one after another; one that
\* has gone meanwhile is skipped.
lockRows(w) ==
  LET free == {n \in tx[w].want : CanLock(w, "row", n)}
  IN  /\ At(w, "lockRows")
      /\ free # {} \/ tx[w].want = {}
      /\ tx' = [tx EXCEPT ![w].want = @ \ free,
                          ![w].del = @ \cup Current(free),
                          ![w].held = @ \cup {<<"row", n>> : n \in free},
                          ![w].pc = IF free = tx[w].want THEN "replay" ELSE @]
      /\ Private

-----------------------------------------------------------------------------
(* Replay *)

\* replayBalance: is the account archived, and its rows as this transaction
\* sees them.  Still nothing is locked.
replayRead(w) ==
  LET a == Head(tx[w].replay)
      status == IF tx[w].status # "none" /\ account[a].status # "deleted"
                THEN tx[w].status ELSE account[a].status
  IN  /\ At(w, "replay") /\ tx[w].replay # <<>>
      /\ tx' = CASE status = "deleted"  -> [tx EXCEPT ![w] = Idle]
                 [] status = "archived" -> [tx EXCEPT ![w].replay = Tail(@)]
                 [] OTHER -> [tx EXCEPT ![w].pc = "store",
                                        ![w].seen = {r \in (rows \ tx[w].del) \cup tx[w].add :
                                                       r.account = a}]
      /\ Private

\* replayBalance: UPDATE accounts SET current_value_minor waits for the other
\* writers of the row and stores what was read before.
replayStore(w) ==
  LET a == Head(tx[w].replay)
  IN  /\ At(w, "store") /\ CanLock(w, "update", a)
      /\ tx' = [tx EXCEPT ![w].pc = "replay", ![w].replay = Tail(@), ![w].seen = {},
                          ![w].held = @ \cup {<<"update", a>>},
                          ![w].cache = @ \cup {[account |-> a, rows |-> tx[w].seen]}]
      /\ Private

-----------------------------------------------------------------------------
(* Archiving, restoring and deleting accounts *)

\* SetAccountArchived: the account must exist ...
checkExists(w, op, a) ==
  /\ account[a].status # "deleted"
  /\ Begin(w, op, [Idle EXCEPT !.pc = "archive", !.account = a])

\* ... UPDATE accounts SET archived_at; restoring replays.
SetAccountArchived(w) ==
  LET a == tx[w].account
      archive == tx[w].op = "Archive"
  IN  /\ At(w, "archive") /\ CanLock(w, "update", a)
      /\ tx' = [tx EXCEPT ![w].pc = "replay", ![w].held = {<<"update", a>>},
                          ![w].status = IF archive THEN "archived" ELSE "active",
                          ![w].replay = IF archive THEN <<>> ELSE <<a>>]
      /\ Private

\* DeleteAccount: the account must be archived ...
checkArchived(w, a) ==
  /\ account[a].status = "archived"
  /\ Begin(w, "DeleteAccount", [Idle EXCEPT !.pc = "linked", !.account = a])

\* ... and no committed transfer may have its other leg elsewhere.
checkLinked(w) ==
  /\ At(w, "linked")
  /\ IF \A r \in RowsOf(tx[w].account) : Legs(r.id) = {r}
     THEN tx' = [tx EXCEPT ![w].pc = "delete"] ELSE Finish(w)
  /\ Private

\* Mutant: the schema does not cascade to the transactions table.
deleteAccountOnly(w) ==
  LET a == tx[w].account
  IN  /\ At(w, "delete") /\ CanLock(w, "delete", a)
      /\ tx' = [tx EXCEPT ![w].pc = "lockRows", ![w].status = "deleted",
                          ![w].held = {<<"delete", a>>}]
      /\ Private

\* DeleteAccount: DELETE FROM accounts waits for everyone who uses the row, and
\* cascades to the ledger rows there are by then.
deleteAccount(w) ==
  LET a == tx[w].account
  IN  /\ At(w, "delete") /\ CanLock(w, "delete", a)
      /\ IF account[a].status = "deleted" THEN Finish(w)
         ELSE tx' = [tx EXCEPT ![w].pc = "lockRows", ![w].want = {Name(r) : r \in RowsOf(a)},
                               ![w].status = "deleted", ![w].held = {<<"delete", a>>}]
      /\ Private

-----------------------------------------------------------------------------
(* The end of a transaction *)

\* Only what exists by then is updated: a statement that matches no row is no error.
Commit(w) ==
  LET t == tx[w]
      written(a) == {c \in t.cache : c.account = a}
  IN  /\ At(w, "replay") /\ t.replay = <<>>
      /\ account' = [a \in Accounts |->
           IF account[a].status = "deleted" THEN account[a]
           ELSE [status |-> IF t.status # "none" /\ a = t.account THEN t.status
                            ELSE account[a].status,
                 cache |-> IF t.status = "deleted" /\ a = t.account THEN {}
                           ELSE IF written(a) # {} THEN (CHOOSE c \in written(a) : TRUE).rows
                           ELSE account[a].cache]]
      /\ rows' = (rows \ t.del) \cup t.add
      /\ keyRows' = IF t.op = "CreateTransfer" THEN keyRows \cup {t.key} ELSE keyRows
      /\ Finish(w)
      /\ UNCHANGED <<nextRow, alone>>

\* The client disconnects, a check fails, the process stops, or PostgreSQL
\* chooses this transaction to break a deadlock.
Rollback(w) == ~At(w, "idle") /\ Finish(w) /\ Private

-----------------------------------------------------------------------------
Init ==
  /\ account = [a \in Accounts |-> [status |-> "active", cache |-> {}]]
  /\ rows = {} /\ keyRows = {} /\ nextRow = 1
  /\ tx = [w \in Workers |-> Idle]
  /\ alone = {}

Arrive(w) ==
  \/ \E a \in Accounts, b \in Accounts \cup {None}, k \in Keys : lockLedgerIdempotency(w, a, b, k)
  \/ \E op \in {"UpdateTransaction", "DeleteTransaction"}, r \in rows : lockRow(w, op, r)
  \/ \E op \in {"Archive", "Restore"}, a \in Accounts : checkExists(w, op, a)
  \/ \E a \in Accounts : checkArchived(w, a)

Step(w) ==
  \/ getLedgerAccount(w) \/ insert(w)
  \/ UpdateRow(w) \/ DeleteRows(w) \/ lockRows(w)
  \/ replayRead(w) \/ replayStore(w)
  \/ SetAccountArchived(w) \/ checkLinked(w) \/ deleteAccount(w)
  \/ Commit(w)

Next == \E w \in Workers : Arrive(w) \/ Step(w) \/ Rollback(w)

Spec == Init /\ [][Next]_vars

-----------------------------------------------------------------------------
(* Properties *)

\* Type invariant, and the foreign key: a row's account exists.
TypeOK ==
  /\ \A a \in Accounts : /\ account[a].status \in {"active", "archived", "deleted"}
                         /\ account[a].cache \subseteq RowType
  /\ rows \subseteq RowType
  /\ \A r \in rows : account[r.account].status # "deleted"
  /\ keyRows \subseteq Keys
  /\ nextRow \in 1 .. MaxRows + 1
  /\ \A w \in Workers : tx[w].add \cup tx[w].del \subseteq RowType
  /\ alone \subseteq Workers

\* However requests overlap, a key never stands for two results: not for two
\* transactions, and not for a transaction and a transfer.
OneResultPerKey ==
  \A r \in rows : r.key # None =>
    r.key \notin keyRows /\ \A s \in rows : s.key = r.key => s = r

\* The balance of an active account is the replay of its rows.
CachedBalance ==
  \A a \in Accounts : account[a].status = "active" => account[a].cache = RowsOf(a)

\* A request that overlaps no other leaves every active account it replays with
\* the right balance, whatever overlapping requests left behind.
AloneRepairs ==
  [][\A w \in alone : ~At(w, "idle") /\ At(w, "idle")' =>
       \A a \in Accounts :
         /\ account'[a].status = "active"
         /\ account'[a] # account[a] \/ \E r \in (rows' \ rows) \cup (rows \ rows') : r.account = a
         => account'[a].cache = {r \in rows' : r.account = a}]_vars

\* A transfer loses a leg to nothing but the deletion of that leg's account.
LegLostOnlyByDeletion ==
  \A r \in rows : r.peer # None =>
    account[r.peer].status = "deleted" \/ \E s \in Legs(r.id) : s.account = r.peer

\* The guide: deleting an account is blocked while a transfer has a paired
\* record in another account.
TransfersWhole == \A r \in rows : r.peer # None => \E s \in Legs(r.id) : s.account = r.peer

=============================================================================
