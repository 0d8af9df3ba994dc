--------------------------- MODULE LedgerTxProofs ---------------------------
(***************************************************************************)
(* Proofs about overlapping requests, for any number of workers, accounts, *)
(* keys and rows.                                                          *)
(*                                                                         *)
(* What a worker will commit was read before, so nothing that is checked   *)
(* is inductive by itself.  TxInv says what each worker may rely on while  *)
(* it holds its locks, and Apart that no other worker holds a lock against *)
(* it: the rows it deletes stay, the accounts it writes rows of stay, its  *)
(* key stays unused.  Commit is then the only step that touches what       *)
(* others rely on, and every change it makes is one its locks cover.       *)
(* AloneInv is about the balances, which no lock protects: they come out   *)
(* right of a request that overlaps no other.                              *)
(***************************************************************************)
EXTENDS LedgerTx, FiniteSetTheorems, TLAPS

Names == (1 .. MaxRows) \X Accounts
Creations == {"CreateTransaction", "CreateTransfer"}
Statuses == {"active", "archived", "deleted"}
Modes == {"share", "update", "delete", "row", "key"}
Locks == Modes \X (Keys \cup Accounts \cup Names)

TxType ==
  [op: Handlers \cup {"none"},
   pc: {"idle", "accounts", "insert", "change", "lockRows", "replay", "store",
        "archive", "linked", "delete"},
   account: Accounts \cup {None}, peer: Accounts \cup {None}, key: Keys \cup {None},
   row: Names \cup {None}, want: SUBSET Names, add: SUBSET RowType, del: SUBSET RowType,
   replay: Seq(Accounts), seen: SUBSET RowType,
   cache: SUBSET [account: Accounts, rows: SUBSET RowType],
   status: Statuses \cup {"none"}, held: SUBSET Locks]

\* A worker that creates: its key is locked and unused, its rows have an id of
\* their own, and their accounts cannot be deleted.
CreationInv(t, R, A, K, n) ==
  /\ t.del = {} /\ t.want = {} /\ t.status = "none" /\ t.row = None
  /\ t.account \in Accounts /\ t.account # t.peer /\ t.op = Creation(t.peer)
  /\ t.key \in Keys /\ <<"key", t.key>> \in t.held
  /\ t.key \notin K /\ \A r \in R : r.key # t.key
  /\ \A r \in t.add :
       /\ r.id < n /\ \A s \in R : s.id # r.id
       /\ <<"share", r.account>> \in t.held /\ A[r.account].status # "deleted"
       /\ r.key = IF t.peer = None THEN t.key ELSE None
       /\ r.peer # None => \E s \in t.add : s.id = r.id /\ s.account = r.peer
       /\ t.peer = None => \A s \in t.add : s = r

\* A worker that edits: the row it replaces is the locked one.
UpdateInv(t, n) ==
  /\ t.want = {} /\ t.status = "none"
  /\ t.row \in Names /\ t.row[1] < n /\ <<"row", t.row>> \in t.held
  /\ \/ t.add = {} /\ t.del = {}
     \/ \E r \in RowType : /\ t.del = {r} /\ r.peer = None /\ r.version < MaxEdits
                           /\ t.add = {[r EXCEPT !.version = @ + 1]}

\* A worker that deletes a transaction: it has every leg, or still wants it.
DeleteInv(t, R, n) ==
  /\ t.add = {} /\ t.status = "none"
  /\ t.row \in Names /\ t.row[1] < n
  /\ \A r \in t.del : r.id = t.row[1]
  /\ \A x \in t.want : x[1] = t.row[1]
  /\ t.pc \in {"lockRows", "replay", "store"} =>
       \A r \in R : r.id = t.row[1] => r \in t.del \/ Name(r) \in t.want

\* A worker that deletes an account: the same of the account's rows.
AccountInv(t, R) ==
  /\ t.add = {} /\ t.row = None
  /\ t.account \in Accounts
  /\ t.status = "none" => t.del = {} /\ t.want = {}
  /\ t.status # "none" =>
       /\ t.status = "deleted" /\ <<"delete", t.account>> \in t.held
       /\ \A r \in t.del : r.account = t.account
       /\ \A x \in t.want : x[2] = t.account
       /\ \A r \in R : r.account = t.account => r \in t.del \/ Name(r) \in t.want

\* A worker that archives or restores an account, or has no request.
NoRowsInv(t) ==
  /\ t.add = {} /\ t.del = {} /\ t.want = {} /\ t.status # "deleted" /\ t.row = None

\* The statement a worker is at is one of its handler's.
PcInv(t) ==
  /\ t.pc \in {"replay", "store"} => t.want = {}
  /\ t.pc = "store" => t.replay # <<>>
  /\ t.pc = "accounts" => t.op \in Creations \cup {"UpdateTransaction", "DeleteTransaction"}
  /\ t.pc = "insert" => t.op \in Creations
  /\ t.pc = "change" => t.op \in {"UpdateTransaction", "DeleteTransaction"}
  /\ t.pc = "lockRows" => t.op \in {"DeleteTransaction", "DeleteAccount"}
  /\ t.pc = "archive" => t.op \in {"Archive", "Restore"} /\ t.account \in Accounts
  /\ t.pc \in {"linked", "delete"} => t.op = "DeleteAccount" /\ t.status = "none"

\* What a worker in state t may rely on, with rows R, accounts A, used keys K
\* and next id n.
TxInv(t, R, A, K, n) ==
  /\ t \in TxType
  /\ PcInv(t)
  /\ t.del \subseteq R
  /\ \A r \in t.del : <<"row", Name(r)>> \in t.held
  /\ t.op \in Creations => CreationInv(t, R, A, K, n)
  /\ t.op = "UpdateTransaction" => UpdateInv(t, n)
  /\ t.op = "DeleteTransaction" => DeleteInv(t, R, n)
  /\ t.op = "DeleteAccount" => AccountInv(t, R)
  /\ t.op \in {"none", "Archive", "Restore"} => NoRowsInv(t)

\* No lock of one worker conflicts with one of another.
Apart(t, u) ==
  \A l \in t.held, m \in u.held : l[2] = m[2] => <<l[1], m[1]>> \notin Conflicts

\* The rows t creates are not those u creates or has named.
FreshFor(t, u) ==
  t.op \in Creations =>
    \A r \in t.add : /\ u.op \in Creations => \A s \in u.add : s.id # r.id
                     /\ u.row # None => u.row[1] # r.id

TablesInv(R, A, K, n) ==
  /\ R \subseteq RowType
  /\ A \in [Accounts -> [status: Statuses, cache: SUBSET RowType]]
  /\ K \subseteq Keys
  /\ n \in 1 .. MaxRows + 1
  /\ \A r \in R : A[r.account].status # "deleted" /\ r.id < n

TxsInv ==
  /\ tx \in [Workers -> TxType]
  /\ \A w \in Workers : TxInv(tx[w], rows, account, keyRows, nextRow)
  /\ \A w \in Workers, v \in Workers : w # v => Apart(tx[w], tx[v]) /\ FreshFor(tx[w], tx[v])

LedgerTxInv ==
  /\ TablesInv(rows, account, keyRows, nextRow)
  /\ OneResultPerKey
  /\ LegLostOnlyByDeletion
  /\ TxsInv
  /\ alone \subseteq Workers

-----------------------------------------------------------------------------
\* Locks conflict both ways.
LEMMA ApartSymmetric ==
    ASSUME NEW t, NEW u, Apart(t, u)
    PROVE  Apart(u, t)
  <1>1. \A a, b : <<a, b>> \in Conflicts => <<b, a>> \in Conflicts
    BY DEF Conflicts
  <1> QED  BY <1>1 DEF Apart

\* A row id in use stays in use.
LEMMA LaterId ==
    ASSUME NEW t, NEW n \in Nat, NEW m \in Nat, n <= m,
           TxInv(t, rows, account, keyRows, n)
    PROVE  TxInv(t, rows, account, keyRows, m)
  <1>1. t \in TxType  BY DEF TxInv
  <1>2. \A r \in t.add : r.id \in Nat  BY <1>1 DEF TxType, RowType
  <1>3. t.row \in Names => t.row[1] \in Nat  BY DEF Names
  <1>4. t.op \in Creations => CreationInv(t, rows, account, keyRows, m)
    BY <1>2 DEF TxInv, CreationInv
  <1>5. t.op = "UpdateTransaction" => UpdateInv(t, m)
    BY <1>3 DEF TxInv, UpdateInv
  <1>6. t.op = "DeleteTransaction" => DeleteInv(t, rows, m)
    BY <1>3 DEF TxInv, DeleteInv
  <1> QED  BY <1>4, <1>5, <1>6 DEF TxInv

\* The state of one worker changes, and an id may be drawn: the others keep
\* what they rely on.
LEMMA OneWorker ==
    ASSUME LedgerTxInv, NEW w \in Workers, NEW t,
           tx' = [tx EXCEPT ![w] = t], UNCHANGED tables,
           nextRow' \in Nat, nextRow <= nextRow', nextRow' <= MaxRows + 1, alone' \subseteq Workers,
           TxInv(t, rows, account, keyRows, nextRow'),
           \A v \in Workers \ {w} :
             Apart(t, tx[v]) /\ FreshFor(t, tx[v]) /\ FreshFor(tx[v], t)
    PROVE  LedgerTxInv'
  <1> USE DEF LedgerTxInv, TxsInv
  <1>1. TablesInv(rows, account, keyRows, nextRow)'
    BY LedgerTxAssumption DEF TablesInv, tables, RowType
  <1>2. OneResultPerKey' /\ LegLostOnlyByDeletion'
    BY DEF OneResultPerKey, LegLostOnlyByDeletion, Legs, tables
  <1>3. t \in TxType  BY DEF TxInv
  <1>4. /\ tx' \in [Workers -> TxType]
        /\ tx'[w] = t
        /\ \A v \in Workers \ {w} : tx'[v] = tx[v]
    BY <1>3
  <1>5. \A v \in Workers : TxInv(tx'[v], rows, account, keyRows, nextRow')
    <2> SUFFICES ASSUME NEW v \in Workers, v # w
                 PROVE  TxInv(tx[v], rows, account, keyRows, nextRow')
      BY <1>4
    <2>1. nextRow \in Nat  BY DEF TablesInv
    <2> QED  BY <2>1, LaterId
  <1>6. \A v \in Workers, u \in Workers : v # u => Apart(tx'[v], tx'[u]) /\ FreshFor(tx'[v], tx'[u])
    BY <1>4, ApartSymmetric
  <1> QED  BY <1>1, <1>2, <1>4, <1>5, <1>6 DEF tables

\* A worker that has no request.
LEMMA IdleInv ==
    ASSUME NEW R, NEW A, NEW K, NEW n
    PROVE  /\ TxInv(Idle, R, A, K, n)
           /\ \A u : Apart(Idle, u) /\ FreshFor(Idle, u) /\ FreshFor(u, Idle)
  <1>1. Idle \in TxType  BY DEF Idle, TxType
  <1>2. TxInv(Idle, R, A, K, n)
    BY <1>1 DEF Idle, TxInv, PcInv, NoRowsInv, Creations
  <1>3. \A u : Apart(Idle, u) /\ FreshFor(Idle, u) /\ FreshFor(u, Idle)
    BY DEF Idle, Apart, FreshFor, Creations
  <1> QED  BY <1>2, <1>3

\* A request ends without a trace.
LEMMA FinishKeeps ==
    ASSUME LedgerTxInv, NEW w \in Workers, Finish(w), Private
    PROVE  LedgerTxInv'
  <1>1. nextRow' \in Nat /\ nextRow <= nextRow' /\ nextRow' <= MaxRows + 1 /\ alone' \subseteq Workers
    BY LedgerTxAssumption DEF LedgerTxInv, TablesInv, Private
  <1>2. tx' = [tx EXCEPT ![w] = Idle] /\ UNCHANGED tables
    BY DEF Finish, Private
  <1> QED  BY <1>1, <1>2, IdleInv, OneWorker

-----------------------------------------------------------------------------
\* A worker that gets more locks is still apart from the others.
LEMMA LockApart ==
    ASSUME LedgerTxInv, NEW w \in Workers, NEW v \in Workers \ {w}, NEW t,
           \A l \in t.held : l \in tx[w].held \/ CanLock(w, l[1], l[2])
    PROVE  Apart(t, tx[v])
  <1>1. Apart(tx[w], tx[v])  BY DEF LedgerTxInv, TxsInv
  <1> QED  BY <1>1 DEF Apart, CanLock

\* The first statement of a request that reads or locks, and writes nothing.
LEMMA BeginKeeps ==
    ASSUME LedgerTxInv, NEW w \in Workers, NEW op, NEW t, NEW u,
           Begin(w, op, t), u = [t EXCEPT !.op = op],
           u.add = {}, TxInv(u, rows, account, keyRows, nextRow),
           \A v \in Workers \ {w} : Apart(u, tx[v]) /\ FreshFor(tx[v], u)
    PROVE  LedgerTxInv'
  <1>1. tx' = [tx EXCEPT ![w] = u] /\ UNCHANGED tables /\ nextRow' = nextRow
        /\ alone' \subseteq Workers
    BY DEF Begin, tables
  <1>2. nextRow \in Nat /\ nextRow <= MaxRows + 1
    BY LedgerTxAssumption DEF LedgerTxInv, TablesInv
  <1>3. \A v \in Workers \ {w} : Apart(u, tx[v]) /\ FreshFor(u, tx[v]) /\ FreshFor(tx[v], u)
    BY DEF FreshFor
  <1>4. nextRow' \in Nat /\ nextRow <= nextRow' /\ nextRow' <= MaxRows + 1
    BY <1>1, <1>2
  <1>5. TxInv(u, rows, account, keyRows, nextRow')
    BY <1>1
  <1> QED  BY <1>1, <1>3, <1>4, <1>5, OneWorker

LEMMA LockIdempotencyKeeps ==
    ASSUME LedgerTxInv, NEW w \in Workers, NEW a \in Accounts, NEW b \in Accounts \cup {None},
           NEW k \in Keys, lockLedgerIdempotency(w, a, b, k)
    PROVE  LedgerTxInv'
  <1> DEFINE t == [Idle EXCEPT !.pc = "accounts", !.account = a, !.peer = b, !.key = k,
                               !.held = {<<"key", k>>}]
             u == [t EXCEPT !.op = Creation(b)]
  <1>1. Creation(b) \in Handlers /\ Begin(w, Creation(b), t) /\ CanLock(w, "key", k)
        /\ ~KeyUsed(k) /\ a # b
    BY DEF lockLedgerIdempotency, Begin
  <1>2. /\ u \in TxType
        /\ u.op = Creation(b) /\ u.pc = "accounts" /\ u.account = a /\ u.peer = b /\ u.key = k
        /\ u.row = None /\ u.want = {} /\ u.add = {} /\ u.del = {} /\ u.status = "none"
        /\ u.held = {<<"key", k>>}
    <2>1. Idle \in TxType  BY IdleInv DEF TxInv
    <2>2. {<<"key", k>>} \in SUBSET Locks  BY DEF Locks, Modes
    <2>4. t \in TxType  BY <2>1, <2>2 DEF TxType
    <2>3. /\ Idle.row = None /\ Idle.want = {} /\ Idle.add = {} /\ Idle.del = {}
          /\ Idle.status = "none"
      BY DEF Idle
    <2>5. u \in TxType /\ u.op = Creation(b)
      BY <1>1, <2>4, ZenonT(60) DEF TxType
    <2> QED  BY <2>1, <2>3, <2>4, <2>5 DEF TxType
  <1> HIDE DEF t, u
  <1>3. TxInv(u, rows, account, keyRows, nextRow)
    <2>1. CreationInv(u, rows, account, keyRows, nextRow)
      BY <1>1, <1>2 DEF CreationInv, KeyUsed
    <2>2. u.op \in Creations
      BY <1>2 DEF Creation, Creations
    <2> QED  BY <1>2, <2>1, <2>2 DEF TxInv, PcInv, Creations
  <1>4. ASSUME NEW v \in Workers \ {w}  PROVE Apart(u, tx[v]) /\ FreshFor(tx[v], u)
    <2>1. \A l \in u.held : CanLock(w, l[1], l[2])
      BY <1>1, <1>2
    <2>2. Apart(u, tx[v])
      BY <2>1, LockApart
    <2> QED  BY <1>2, <2>2 DEF FreshFor
  <1>5. u = [t EXCEPT !.op = Creation(b)]
    BY DEF u
  <1> QED  BY <1>1, <1>2, <1>3, <1>4, <1>5, BeginKeeps

LEMMA LockRowKeeps ==
    ASSUME LedgerTxInv, NEW w \in Workers, NEW op \in {"UpdateTransaction", "DeleteTransaction"},
           NEW r \in rows, lockRow(w, op, r)
    PROVE  LedgerTxInv'
  <1> DEFINE h == {<<"row", Name(r)>>}
             t == [Idle EXCEPT !.pc = "accounts", !.account = r.account, !.row = Name(r), !.held = h]
             u == [t EXCEPT !.op = op]
  <1>1. op \in Handlers /\ Begin(w, op, t) /\ CanLock(w, "row", Name(r))
    BY DEF lockRow, Begin
  <1>2. /\ r \in RowType /\ r.account \in Accounts
        /\ Name(r) \in Names /\ Name(r)[1] = r.id /\ r.id < nextRow
    BY DEF LedgerTxInv, TablesInv, RowType, Name, Names
  <1>3. Name(r) # None
    BY <1>2, LedgerTxAssumption DEF Names
  <1>4. /\ u \in TxType
        /\ u.op = op /\ u.pc = "accounts" /\ u.row = Name(r)
        /\ u.want = {} /\ u.add = {} /\ u.del = {} /\ u.status = "none" /\ u.held = h
    <2>1. Idle \in TxType  BY IdleInv DEF TxInv
    <2>2. h \in SUBSET Locks  BY <1>2 DEF Locks, Modes
    <2>3. Idle.want = {} /\ Idle.add = {} /\ Idle.del = {} /\ Idle.status = "none"
      BY DEF Idle
    <2> HIDE DEF h
    <2>4. t \in TxType  BY <1>2, <2>1, <2>2 DEF TxType
    <2>5. u \in TxType /\ u.op = op
      BY <1>1, <2>4, ZenonT(60) DEF TxType
    <2> QED  BY <2>1, <2>3, <2>4, <2>5 DEF TxType
  <1> HIDE DEF t, u
  <1>5. TxInv(u, rows, account, keyRows, nextRow)
    <2>1. op = "UpdateTransaction" => UpdateInv(u, nextRow)
      BY <1>2, <1>4 DEF UpdateInv
    <2>2. op = "DeleteTransaction" => DeleteInv(u, rows, nextRow)
      BY <1>2, <1>4 DEF DeleteInv
    <2> QED  BY <1>4, <2>1, <2>2 DEF TxInv, PcInv, Creations
  <1>6. ASSUME NEW v \in Workers \ {w}  PROVE Apart(u, tx[v]) /\ FreshFor(tx[v], u)
    <2>1. \A l \in u.held : CanLock(w, l[1], l[2])
      BY <1>1, <1>4
    <2>2. Apart(u, tx[v])
      BY <2>1, LockApart
    <2>3. tx[v].op \in Creations => CreationInv(tx[v], rows, account, keyRows, nextRow)
      BY DEF LedgerTxInv, TxsInv, TxInv
    <2>4. tx[v].op \in Creations => \A s \in tx[v].add : s.id # r.id
      BY <2>3 DEF CreationInv
    <2> QED  BY <1>2, <1>4, <2>2, <2>4 DEF FreshFor
  <1>7. u = [t EXCEPT !.op = op]
    BY DEF u
  <1> QED  BY <1>1, <1>4, <1>5, <1>6, <1>7, BeginKeeps

\* The first SELECT of a request about an account.
LEMMA CheckKeeps ==
    ASSUME LedgerTxInv, NEW w \in Workers, NEW a \in Accounts, NEW op, NEW pc,
           \/ op \in {"Archive", "Restore"} /\ pc = "archive"
           \/ op = "DeleteAccount" /\ pc = "linked",
           Begin(w, op, [Idle EXCEPT !.pc = pc, !.account = a])
    PROVE  LedgerTxInv'
  <1> DEFINE t == [Idle EXCEPT !.pc = pc, !.account = a]
             u == [t EXCEPT !.op = op]
  <1>1. op \in Handlers  BY DEF Begin
  <1>2. /\ u \in TxType
        /\ u.op = op /\ u.pc = pc /\ u.account = a /\ u.row = None
        /\ u.want = {} /\ u.add = {} /\ u.del = {} /\ u.status = "none" /\ u.held = {}
    <2>1. Idle \in TxType  BY IdleInv DEF TxInv
    <2>2. /\ Idle.want = {} /\ Idle.add = {} /\ Idle.del = {} /\ Idle.status = "none"
          /\ Idle.held = {} /\ Idle.row = None
      BY DEF Idle
    <2>3. t \in TxType  BY <2>1 DEF TxType
    <2>4. u \in TxType /\ u.op = op
      BY <1>1, <2>3, ZenonT(60) DEF TxType
    <2> QED  BY <2>1, <2>2, <2>3, <2>4 DEF TxType
  <1>3. Begin(w, op, t)  OBVIOUS
  <1> HIDE DEF t, u
  <1>4. TxInv(u, rows, account, keyRows, nextRow)
    BY <1>2 DEF TxInv, PcInv, AccountInv, NoRowsInv, Creations
  <1>5. \A v \in Workers \ {w} : Apart(u, tx[v]) /\ FreshFor(tx[v], u)
    BY <1>2 DEF Apart, FreshFor, Creations
  <1>6. u = [t EXCEPT !.op = op]
    BY DEF u
  <1> QED  BY <1>2, <1>3, <1>4, <1>5, <1>6, BeginKeeps

-----------------------------------------------------------------------------
\* A step that changes only its worker, and draws no id.
LEMMA PrivateKeeps ==
    ASSUME LedgerTxInv, NEW w \in Workers, NEW t, tx' = [tx EXCEPT ![w] = t], Private,
           TxInv(t, rows, account, keyRows, nextRow),
           \A l \in t.held : l \in tx[w].held \/ CanLock(w, l[1], l[2]),
           t.op = tx[w].op, t.row = tx[w].row, t.op \in Creations => t.add = tx[w].add
    PROVE  LedgerTxInv'
  <1>1. /\ UNCHANGED tables /\ nextRow' = nextRow /\ alone' \subseteq Workers
        /\ nextRow' \in Nat /\ nextRow <= nextRow' /\ nextRow' <= MaxRows + 1
    BY LedgerTxAssumption DEF LedgerTxInv, TablesInv, Private
  <1>2. ASSUME NEW v \in Workers \ {w}
        PROVE  Apart(t, tx[v]) /\ FreshFor(t, tx[v]) /\ FreshFor(tx[v], t)
    <2>1. Apart(t, tx[v])  BY LockApart
    <2>2. FreshFor(tx[w], tx[v]) /\ FreshFor(tx[v], tx[w])
      BY DEF LedgerTxInv, TxsInv
    <2> QED  BY <2>1, <2>2 DEF FreshFor
  <1> QED  BY <1>1, <1>2, OneWorker

LEMMA GetLedgerAccountKeeps ==
    ASSUME LedgerTxInv, NEW w \in Workers, getLedgerAccount(w)
    PROVE  LedgerTxInv'
  <1> DEFINE t == [tx[w] EXCEPT !.pc = IF tx[w].row = None THEN "insert" ELSE "change"]
  <1>1. CASE Finish(w)
    BY <1>1, FinishKeeps DEF getLedgerAccount
  <1>2. CASE tx' = [tx EXCEPT ![w] = t]
    <2>1. TxInv(tx[w], rows, account, keyRows, nextRow) /\ tx[w] \in TxType /\ tx[w].pc = "accounts"
      BY DEF LedgerTxInv, TxsInv, getLedgerAccount, At
    <2>2. /\ t \in TxType
          /\ t.op = tx[w].op /\ t.account = tx[w].account /\ t.peer = tx[w].peer
          /\ t.key = tx[w].key /\ t.row = tx[w].row /\ t.want = tx[w].want /\ t.add = tx[w].add
          /\ t.del = tx[w].del /\ t.status = tx[w].status /\ t.held = tx[w].held
          /\ t.pc = IF tx[w].row = None THEN "insert" ELSE "change"
      BY <2>1 DEF TxType
    <2> HIDE DEF t
    <2>3. t.op \in Creations => CreationInv(t, rows, account, keyRows, nextRow)
      BY <2>1, <2>2 DEF TxInv, CreationInv
    <2>4. t.op = "UpdateTransaction" => UpdateInv(t, nextRow)
      BY <2>1, <2>2 DEF TxInv, UpdateInv
    <2>5. t.op = "DeleteTransaction" => DeleteInv(t, rows, nextRow)
      BY <2>1, <2>2 DEF TxInv, DeleteInv
    <2>6. PcInv(t)
      <3>1. t.op \in Creations => t.row = None
        BY <2>3 DEF CreationInv
      <3>2. t.op \in {"UpdateTransaction", "DeleteTransaction"} => t.row # None
        BY <2>4, <2>5, LedgerTxAssumption DEF UpdateInv, DeleteInv, Names
      <3> QED  BY <2>1, <2>2, <3>1, <3>2 DEF TxInv, PcInv
    <2>7. TxInv(t, rows, account, keyRows, nextRow)
      BY <2>1, <2>2, <2>3, <2>4, <2>5, <2>6 DEF TxInv, PcInv, Creations
    <2> QED  BY <1>2, <2>2, <2>7, PrivateKeeps DEF getLedgerAccount
  <1> QED  BY <1>1, <1>2 DEF getLedgerAccount

\* UpdateTransaction and SetAccountArchived; one lock or none is taken.
LEMMA UpdateRowKeeps ==
    ASSUME LedgerTxInv, NEW w \in Workers, UpdateRow(w)
    PROVE  LedgerTxInv'
  <1>1. PICK r \in Current({tx[w].row}) :
          IF r.peer # None THEN Finish(w)
          ELSE /\ r.version < MaxEdits
               /\ tx' = [tx EXCEPT ![w].pc = "replay", ![w].del = {r}, ![w].replay = <<r.account>>,
                                   ![w].add = {[r EXCEPT !.version = @ + 1]}]
    BY DEF UpdateRow
  <1>2. Private /\ tx[w].pc = "change" /\ tx[w].op = "UpdateTransaction"
    BY DEF UpdateRow, At
  <1>3. CASE r.peer # None
    BY <1>1, <1>2, <1>3, FinishKeeps
  <1>4. CASE r.peer = None
    <2> DEFINE e == [r EXCEPT !.version = @ + 1]
               t == [tx[w] EXCEPT !.pc = "replay", !.del = {r}, !.replay = <<r.account>>, !.add = {e}]
    <2>1. TxInv(tx[w], rows, account, keyRows, nextRow) /\ tx[w] \in TxType
      BY DEF LedgerTxInv, TxsInv
    <2>2. r \in RowType /\ r \in rows /\ r.account \in Accounts /\ Name(r) = tx[w].row
      BY DEF LedgerTxInv, TablesInv, RowType, Current
    <2>3. e \in RowType
      BY <1>1, <1>4, <2>2, LedgerTxAssumption DEF RowType
    <2>4. tx' = [tx EXCEPT ![w] = t]
      BY <1>1, <1>4
    <2>a. <<r.account>> \in Seq(Accounts) /\ {r} \in SUBSET RowType /\ {e} \in SUBSET RowType
      BY <2>2, <2>3
    <2> HIDE DEF e
    <2>5. /\ t \in TxType
          /\ t.op = tx[w].op /\ t.account = tx[w].account /\ t.row = tx[w].row
          /\ t.want = tx[w].want /\ t.status = tx[w].status /\ t.held = tx[w].held
          /\ t.pc = "replay" /\ t.del = {r} /\ t.add = {e}
      BY <2>1, <2>a, ZenonT(60) DEF TxType
    <2> HIDE DEF t
    <2>6. UpdateInv(tx[w], nextRow)
      BY <1>2, <2>1 DEF TxInv
    <2>7. UpdateInv(t, nextRow)
      BY <1>1, <1>4, <2>2, <2>5, <2>6 DEF UpdateInv, e
    <2>8. \A x \in t.del : <<"row", Name(x)>> \in t.held
      BY <2>2, <2>5, <2>6 DEF UpdateInv
    <2>9. TxInv(t, rows, account, keyRows, nextRow)
      BY <1>2, <2>2, <2>5, <2>6, <2>7, <2>8 DEF TxInv, PcInv, UpdateInv, Creations
    <2> QED  BY <1>2, <2>4, <2>5, <2>9, PrivateKeeps DEF Creations
  <1> QED  BY <1>3, <1>4

LEMMA OrdersAreSequences ==
    ASSUME NEW S \in SUBSET Accounts, NEW order \in Orders(S)
    PROVE  order \in Seq(Accounts)
  <1>1. Cardinality(S) \in Nat
    BY LedgerTxAssumption, FS_Subset, FS_CardinalityType
  <1> QED  BY <1>1 DEF Orders

LEMMA DeleteRowsKeeps ==
    ASSUME LedgerTxInv, NEW w \in Workers, DeleteRows(w)
    PROVE  LedgerTxInv'
  <1> DEFINE id == tx[w].row[1]
             W == {Name(r) : r \in Legs(id)}
  <1>1. PICK order \in Orders({r.account : r \in Legs(id)}) :
          tx' = [tx EXCEPT ![w].pc = "lockRows", ![w].want = W, ![w].replay = order]
    BY DEF DeleteRows
  <1>2. Private /\ tx[w].pc = "change" /\ tx[w].op = "DeleteTransaction"
    BY DEF DeleteRows, At
  <1> DEFINE t == [tx[w] EXCEPT !.pc = "lockRows", !.want = W, !.replay = order]
  <1>3. TxInv(tx[w], rows, account, keyRows, nextRow) /\ tx[w] \in TxType
    BY DEF LedgerTxInv, TxsInv
  <1>4. \A r \in rows : r \in RowType /\ r.account \in Accounts /\ Name(r) \in Names /\ Name(r)[1] = r.id
    BY DEF LedgerTxInv, TablesInv, RowType, Name, Names
  <1>5. W \in SUBSET Names /\ \A x \in W : x[1] = id
    BY <1>4 DEF Legs
  <1>6. \A r \in rows : r.id = id => Name(r) \in W
    BY DEF Legs
  <1>7. order \in Seq(Accounts)
    <2>1. {r.account : r \in Legs(id)} \in SUBSET Accounts
      BY <1>4 DEF Legs
    <2> QED  BY <2>1, OrdersAreSequences
  <1>8. tx' = [tx EXCEPT ![w] = t]
    BY <1>1
  <1> HIDE DEF W
  <1>9. /\ t \in TxType
        /\ t.op = tx[w].op /\ t.row = tx[w].row /\ t.add = tx[w].add /\ t.del = tx[w].del
        /\ t.status = tx[w].status /\ t.held = tx[w].held
        /\ t.pc = "lockRows" /\ t.want = W
    BY <1>3, <1>5, <1>7, ZenonT(60) DEF TxType
  <1> HIDE DEF t, id
  <1>10. DeleteInv(tx[w], rows, nextRow)
    BY <1>2, <1>3 DEF TxInv
  <1>11. id = tx[w].row[1]
    BY DEF id
  <1>12. DeleteInv(t, rows, nextRow)
    BY <1>5, <1>6, <1>9, <1>10, <1>11 DEF DeleteInv
  <1>13. TxInv(t, rows, account, keyRows, nextRow)
    BY <1>2, <1>3, <1>9, <1>12 DEF TxInv, PcInv, Creations
  <1> QED  BY <1>2, <1>8, <1>9, <1>13, PrivateKeeps

LEMMA LockRowsKeeps ==
    ASSUME LedgerTxInv, NEW w \in Workers, lockRows(w)
    PROVE  LedgerTxInv'
  <1> DEFINE free == {n \in tx[w].want : CanLock(w, "row", n)}
             gone == Current(free)
             locks == {<<"row", n>> : n \in free}
             left == tx[w].want \ free
             taken == tx[w].del \cup gone
             held == tx[w].held \cup locks
             pc == IF free = tx[w].want THEN "replay" ELSE tx[w].pc
             t == [tx[w] EXCEPT !.want = left, !.del = taken, !.held = held, !.pc = pc]
  <1>1. tx' = [tx EXCEPT ![w] = t] /\ Private /\ tx[w].pc = "lockRows"
    BY DEF lockRows, At
  <1>2. TxInv(tx[w], rows, account, keyRows, nextRow) /\ tx[w] \in TxType
    BY DEF LedgerTxInv, TxsInv
  <1>3. free \subseteq tx[w].want /\ tx[w].want \in SUBSET Names
    BY <1>2 DEF TxType
  <1>4. gone \in SUBSET RowType /\ gone \subseteq rows /\ \A r \in gone : Name(r) \in free
    BY DEF Current, LedgerTxInv, TablesInv
  <1>5. \A r \in rows : Name(r) \in free => r \in gone
    BY DEF Current
  <1>6. \A r \in gone : r.id = Name(r)[1] /\ r.account = Name(r)[2]
    BY DEF Name
  <1>7. locks \in SUBSET Locks /\ \A n \in free : <<"row", n>> \in locks
    BY <1>3 DEF Locks, Modes
  <1>8. \A l \in locks : CanLock(w, l[1], l[2])
    OBVIOUS
  <1> HIDE DEF free, gone, locks
  <1>a. /\ left \in SUBSET Names /\ taken \in SUBSET RowType /\ held \in SUBSET Locks
        /\ pc \in {"replay", "lockRows"} /\ (pc = "replay" => left = {})
    BY <1>1, <1>2, <1>3, <1>4, <1>7 DEF TxType
  <1> HIDE DEF left, taken, held, pc
  <1>9. /\ t \in TxType
        /\ t.op = tx[w].op /\ t.account = tx[w].account /\ t.row = tx[w].row /\ t.add = tx[w].add
        /\ t.status = tx[w].status /\ t.replay = tx[w].replay
        /\ t.want = left /\ t.del = taken /\ t.held = held /\ t.pc = pc
    BY <1>2, <1>a, ZenonT(60) DEF TxType
  <1> HIDE DEF t
  <1> USE DEF left, taken, held
  <1>10. /\ t.op \in {"DeleteTransaction", "DeleteAccount"}
         /\ t.op = "DeleteTransaction" => DeleteInv(tx[w], rows, nextRow)
         /\ t.op = "DeleteAccount" => AccountInv(tx[w], rows)
    BY <1>1, <1>2, <1>9 DEF TxInv, PcInv
  <1>11. t.op = "DeleteTransaction" => DeleteInv(t, rows, nextRow)
    BY <1>1, <1>3, <1>4, <1>5, <1>6, <1>9, <1>10, <1>a DEF DeleteInv
  <1>12. t.op = "DeleteAccount" => AccountInv(t, rows)
    BY <1>3, <1>4, <1>5, <1>6, <1>9, <1>10 DEF AccountInv
  <1>13. PcInv(t)
    BY <1>9, <1>10, <1>a DEF PcInv
  <1>14. t.del \subseteq rows /\ \A r \in t.del : <<"row", Name(r)>> \in t.held
    BY <1>2, <1>4, <1>7, <1>9 DEF TxInv
  <1>15. TxInv(t, rows, account, keyRows, nextRow)
    BY <1>9, <1>10, <1>11, <1>12, <1>13, <1>14 DEF TxInv, Creations
  <1>16. \A l \in t.held : l \in tx[w].held \/ CanLock(w, l[1], l[2])
    BY <1>8, <1>9
  <1> QED  BY <1>1, <1>9, <1>10, <1>15, <1>16, PrivateKeeps DEF Creations

\* A step of a replay touches neither the rows a transaction will write nor
\* what it wants.
LEMMA ReplayKeeps ==
    ASSUME LedgerTxInv, NEW w \in Workers, tx[w].pc \in {"replay", "store"},
           NEW t \in TxType, tx' = [tx EXCEPT ![w] = t], Private,
           t.pc \in {"replay", "store"}, t.pc = "store" => t.replay # <<>>,
           t.op = tx[w].op, t.account = tx[w].account, t.peer = tx[w].peer, t.key = tx[w].key,
           t.row = tx[w].row, t.want = tx[w].want, t.add = tx[w].add, t.del = tx[w].del,
           t.status = tx[w].status, tx[w].held \subseteq t.held,
           \A l \in t.held : l \in tx[w].held \/ CanLock(w, l[1], l[2])
    PROVE  LedgerTxInv'
  <1>1. TxInv(tx[w], rows, account, keyRows, nextRow)
    BY DEF LedgerTxInv, TxsInv
  <1>2. t.op \in Creations => CreationInv(t, rows, account, keyRows, nextRow)
    BY <1>1 DEF TxInv, CreationInv
  <1>3. t.op = "UpdateTransaction" => UpdateInv(t, nextRow)
    BY <1>1 DEF TxInv, UpdateInv
  <1>4. t.op = "DeleteTransaction" => DeleteInv(t, rows, nextRow)
    BY <1>1 DEF TxInv, DeleteInv
  <1>5. t.op = "DeleteAccount" => AccountInv(t, rows)
    BY <1>1 DEF TxInv, AccountInv
  <1>6. t.op \in {"none", "Archive", "Restore"} => NoRowsInv(t)
    BY <1>1 DEF TxInv, NoRowsInv
  <1>7. PcInv(t)
    BY <1>1 DEF TxInv, PcInv
  <1>8. TxInv(t, rows, account, keyRows, nextRow)
    BY <1>1, <1>2, <1>3, <1>4, <1>5, <1>6, <1>7 DEF TxInv
  <1> QED  BY <1>8, PrivateKeeps

LEMMA ReplayReadKeeps ==
    ASSUME LedgerTxInv, NEW w \in Workers, replayRead(w)
    PROVE  LedgerTxInv'
  <1> DEFINE a == Head(tx[w].replay)
             rest == Tail(tx[w].replay)
             read == {r \in (rows \ tx[w].del) \cup tx[w].add : r.account = a}
             t == [tx[w] EXCEPT !.replay = rest]
             u == [tx[w] EXCEPT !.pc = "store", !.seen = read]
  <1>1. /\ Private /\ tx[w].pc = "replay" /\ tx[w].replay # <<>>
        /\ Finish(w) \/ tx' = [tx EXCEPT ![w] = t] \/ tx' = [tx EXCEPT ![w] = u]
    BY DEF replayRead, At, Finish
  <1>2. tx[w] \in TxType
    BY DEF LedgerTxInv, TxsInv
  <1>3. rest \in Seq(Accounts) /\ read \in SUBSET RowType
    BY <1>1, <1>2 DEF TxType, LedgerTxInv, TablesInv
  <1> HIDE DEF a, rest, read
  <1>4. CASE Finish(w)
    BY <1>1, <1>4, FinishKeeps
  <1>5. CASE tx' = [tx EXCEPT ![w] = t]
    <2>1. /\ t \in TxType /\ t.pc = "replay"
          /\ t.op = tx[w].op /\ t.account = tx[w].account /\ t.peer = tx[w].peer
          /\ t.key = tx[w].key /\ t.row = tx[w].row /\ t.want = tx[w].want /\ t.add = tx[w].add
          /\ t.del = tx[w].del /\ t.status = tx[w].status /\ t.held = tx[w].held
      BY <1>1, <1>2, <1>3, ZenonT(60) DEF TxType
    <2> HIDE DEF t
    <2> QED  BY <1>1, <1>5, <2>1, ReplayKeeps
  <1>6. CASE tx' = [tx EXCEPT ![w] = u]
    <2>1. /\ u \in TxType /\ u.pc = "store" /\ u.replay = tx[w].replay
          /\ u.op = tx[w].op /\ u.account = tx[w].account /\ u.peer = tx[w].peer
          /\ u.key = tx[w].key /\ u.row = tx[w].row /\ u.want = tx[w].want /\ u.add = tx[w].add
          /\ u.del = tx[w].del /\ u.status = tx[w].status /\ u.held = tx[w].held
      BY <1>1, <1>2, <1>3, ZenonT(60) DEF TxType
    <2> HIDE DEF u
    <2> QED  BY <1>1, <1>6, <2>1, ReplayKeeps
  <1> QED  BY <1>1, <1>4, <1>5, <1>6

LEMMA ReplayStoreKeeps ==
    ASSUME LedgerTxInv, NEW w \in Workers, replayStore(w)
    PROVE  LedgerTxInv'
  <1> DEFINE a == Head(tx[w].replay)
             rest == Tail(tx[w].replay)
             lock == {<<"update", a>>}
             stored == {[account |-> a, rows |-> tx[w].seen]}
             t == [tx[w] EXCEPT !.pc = "replay", !.replay = rest, !.seen = {},
                                !.held = @ \cup lock, !.cache = @ \cup stored]
  <1>1. Private /\ tx[w].pc = "store" /\ CanLock(w, "update", a) /\ tx' = [tx EXCEPT ![w] = t]
    BY DEF replayStore, At
  <1>2. tx[w] \in TxType /\ tx[w].replay # <<>>
    BY <1>1 DEF LedgerTxInv, TxsInv, TxInv, PcInv
  <1>3. rest \in Seq(Accounts) /\ a \in Accounts
    BY <1>2 DEF TxType
  <1>4. lock \in SUBSET Locks
    BY <1>3 DEF Locks, Modes
  <1>5. stored \in SUBSET [account: Accounts, rows: SUBSET RowType]
    BY <1>2, <1>3 DEF TxType
  <1>6. \A l \in lock : CanLock(w, l[1], l[2])
    BY <1>1
  <1> HIDE DEF a, rest, lock, stored
  <1>7. /\ t \in TxType /\ t.pc = "replay"
        /\ t.op = tx[w].op /\ t.account = tx[w].account /\ t.peer = tx[w].peer
        /\ t.key = tx[w].key /\ t.row = tx[w].row /\ t.want = tx[w].want /\ t.add = tx[w].add
        /\ t.del = tx[w].del /\ t.status = tx[w].status /\ t.held = tx[w].held \cup lock
    BY <1>2, <1>3, <1>4, <1>5, ZenonT(60) DEF TxType
  <1> HIDE DEF t
  <1> QED  BY <1>1, <1>6, <1>7, ReplayKeeps

LEMMA SetAccountArchivedKeeps ==
    ASSUME LedgerTxInv, NEW w \in Workers, SetAccountArchived(w)
    PROVE  LedgerTxInv'
  <1> DEFINE a == tx[w].account
             lock == {<<"update", a>>}
             status == IF tx[w].op = "Archive" THEN "archived" ELSE "active"
             replay == IF tx[w].op = "Archive" THEN <<>> ELSE <<a>>
             t == [tx[w] EXCEPT !.pc = "replay", !.held = lock, !.status = status, !.replay = replay]
  <1>1. Private /\ tx[w].pc = "archive" /\ CanLock(w, "update", a) /\ tx' = [tx EXCEPT ![w] = t]
    BY DEF SetAccountArchived, At
  <1>2. TxInv(tx[w], rows, account, keyRows, nextRow) /\ tx[w] \in TxType
    BY DEF LedgerTxInv, TxsInv
  <1>3. a \in Accounts /\ tx[w].op \in {"Archive", "Restore"}
    BY <1>1, <1>2 DEF TxInv, PcInv
  <1>4. lock \in SUBSET Locks /\ \A l \in lock : CanLock(w, l[1], l[2])
    BY <1>1, <1>3 DEF Locks, Modes
  <1>5. status \in {"archived", "active"}
    OBVIOUS
  <1>6. replay \in Seq(Accounts)
    BY <1>3
  <1> HIDE DEF a, lock, status, replay
  <1>7. /\ t \in TxType /\ t.pc = "replay" /\ t.op = tx[w].op /\ t.row = tx[w].row
        /\ t.want = tx[w].want /\ t.add = tx[w].add /\ t.del = tx[w].del
        /\ t.status = status /\ t.held = lock
    BY <1>2, <1>4, <1>5, <1>6, ZenonT(60) DEF TxType, Statuses
  <1> HIDE DEF t
  <1>8. NoRowsInv(tx[w])
    BY <1>2, <1>3 DEF TxInv
  <1>9. TxInv(t, rows, account, keyRows, nextRow)
    BY <1>3, <1>5, <1>7, <1>8 DEF TxInv, PcInv, NoRowsInv, Creations
  <1> QED  BY <1>1, <1>4, <1>7, <1>9, PrivateKeeps

LEMMA CheckLinkedKeeps ==
    ASSUME LedgerTxInv, NEW w \in Workers, checkLinked(w)
    PROVE  LedgerTxInv'
  <1> DEFINE t == [tx[w] EXCEPT !.pc = "delete"]
  <1>1. /\ Private /\ tx[w].pc = "linked"
        /\ Finish(w) \/ tx' = [tx EXCEPT ![w] = t]
    BY DEF checkLinked, At
  <1>2. CASE Finish(w)
    BY <1>1, <1>2, FinishKeeps
  <1>3. CASE tx' = [tx EXCEPT ![w] = t]
    <2>1. TxInv(tx[w], rows, account, keyRows, nextRow) /\ tx[w] \in TxType
      BY DEF LedgerTxInv, TxsInv
    <2>2. /\ t \in TxType /\ t.pc = "delete" /\ t.op = tx[w].op /\ t.row = tx[w].row
          /\ t.account = tx[w].account /\ t.want = tx[w].want /\ t.add = tx[w].add
          /\ t.del = tx[w].del /\ t.status = tx[w].status /\ t.held = tx[w].held
      BY <2>1 DEF TxType
    <2> HIDE DEF t
    <2>3. t.op = "DeleteAccount" /\ t.status = "none"
      BY <1>1, <2>1, <2>2 DEF TxInv, PcInv
    <2>4. AccountInv(t, rows)
      BY <2>1, <2>2, <2>3 DEF TxInv, AccountInv
    <2>5. TxInv(t, rows, account, keyRows, nextRow)
      BY <2>1, <2>2, <2>3, <2>4 DEF TxInv, PcInv, Creations
    <2> QED  BY <1>1, <1>3, <2>2, <2>5, PrivateKeeps
  <1> QED  BY <1>1, <1>2, <1>3

LEMMA DeleteAccountKeeps ==
    ASSUME LedgerTxInv, NEW w \in Workers, deleteAccount(w)
    PROVE  LedgerTxInv'
  <1> DEFINE a == tx[w].account
             W == {Name(r) : r \in RowsOf(a)}
             lock == {<<"delete", a>>}
             t == [tx[w] EXCEPT !.pc = "lockRows", !.want = W, !.status = "deleted", !.held = lock]
  <1>1. /\ Private /\ tx[w].pc = "delete" /\ CanLock(w, "delete", a)
        /\ Finish(w) \/ tx' = [tx EXCEPT ![w] = t]
    BY DEF deleteAccount, At
  <1>2. CASE Finish(w)
    BY <1>1, <1>2, FinishKeeps
  <1>3. CASE tx' = [tx EXCEPT ![w] = t]
    <2>1. TxInv(tx[w], rows, account, keyRows, nextRow) /\ tx[w] \in TxType
      BY DEF LedgerTxInv, TxsInv
    <2>2. tx[w].op = "DeleteAccount" /\ AccountInv(tx[w], rows) /\ tx[w].status = "none"
      BY <1>1, <2>1 DEF TxInv, PcInv
    <2>3. a \in Accounts
      BY <2>2 DEF AccountInv
    <2>4. \A r \in rows : Name(r) \in Names /\ Name(r)[2] = r.account
      BY DEF LedgerTxInv, TablesInv, RowType, Name, Names
    <2>5. /\ W \in SUBSET Names /\ \A x \in W : x[2] = a
          /\ \A r \in rows : r.account = a => Name(r) \in W
      BY <2>4 DEF RowsOf
    <2>6. lock \in SUBSET Locks /\ \A l \in lock : CanLock(w, l[1], l[2])
      BY <1>1, <2>3 DEF Locks, Modes
    <2>7. <<"delete", a>> \in lock
      OBVIOUS
    <2> HIDE DEF W, lock
    <2>8. /\ t \in TxType /\ t.pc = "lockRows" /\ t.op = tx[w].op /\ t.row = tx[w].row
          /\ t.account = a /\ t.want = W /\ t.add = tx[w].add
          /\ t.del = tx[w].del /\ t.status = "deleted" /\ t.held = lock
      BY <2>1, <2>5, <2>6, ZenonT(60) DEF TxType, Statuses
    <2> HIDE DEF t, a
    <2>9. AccountInv(t, rows)
      BY <2>2, <2>3, <2>5, <2>7, <2>8 DEF AccountInv
    <2>10. TxInv(t, rows, account, keyRows, nextRow)
      BY <2>2, <2>8, <2>9 DEF TxInv, PcInv, AccountInv, Creations
    <2> QED  BY <1>1, <1>3, <2>2, <2>6, <2>8, <2>10, PrivateKeeps DEF Creations
  <1> QED  BY <1>1, <1>2, <1>3

-----------------------------------------------------------------------------
\* Whatever a worker has named so far is older than the next row.
LEMMA NamedBefore ==
    ASSUME NEW t, TxInv(t, rows, account, keyRows, nextRow)
    PROVE  /\ t.row # None => t.row \in Names /\ t.row[1] < nextRow
           /\ t.op \in Creations => \A r \in t.add : r.id < nextRow
  <1>1. t.op \in {"CreateTransaction", "UpdateTransaction", "DeleteTransaction",
                  "CreateTransfer", "Archive", "Restore", "DeleteAccount", "none"}
    BY LedgerTxAssumption DEF TxInv, TxType
  <1> QED
    BY <1>1 DEF TxInv, CreationInv, UpdateInv, DeleteInv, AccountInv, NoRowsInv, Creations

LEMMA InsertKeeps ==
    ASSUME LedgerTxInv, NEW w \in Workers, insert(w)
    PROVE  LedgerTxInv'
  <1> DEFINE a == tx[w].account
             b == tx[w].peer
             named == {a, b} \ {None}
             legs == IF b = None THEN {Leg(w, a, None)} ELSE {Leg(w, a, b), Leg(w, b, a)}
             locks == {<<"share", c>> : c \in named}
             held == tx[w].held \cup locks
             replay == IF b = None THEN <<a>> ELSE <<a, b>>
             t == [tx[w] EXCEPT !.pc = "replay", !.add = legs, !.held = held, !.replay = replay]
  <1>1. /\ tx[w].pc = "insert" /\ UNCHANGED <<tables, alone>>
        /\ \A c \in named : CanLock(w, "share", c)
        /\ \/ Finish(w) /\ UNCHANGED nextRow
           \/ /\ \A c \in named : account[c].status # "deleted"
              /\ nextRow <= MaxRows /\ nextRow' = nextRow + 1
              /\ tx' = [tx EXCEPT ![w] = t]
    BY DEF insert, At
  <1>2. CASE Finish(w) /\ UNCHANGED nextRow
    BY <1>1, <1>2, FinishKeeps DEF Private
  <1>3. CASE /\ \A c \in named : account[c].status # "deleted"
             /\ nextRow <= MaxRows /\ nextRow' = nextRow + 1
             /\ tx' = [tx EXCEPT ![w] = t]
    <2>1. TxInv(tx[w], rows, account, keyRows, nextRow) /\ tx[w] \in TxType
      BY DEF LedgerTxInv, TxsInv
    <2>2. tx[w].op \in Creations /\ CreationInv(tx[w], rows, account, keyRows, nextRow)
      BY <1>1, <2>1 DEF TxInv, PcInv
    <2>3. /\ a \in Accounts /\ b \in Accounts \cup {None} /\ a # b /\ a # None
          /\ tx[w].key \in Keys /\ tx[w].key # None
      BY <2>1, <2>2, LedgerTxAssumption DEF CreationInv, TxType
    <2>4. nextRow \in 1 .. MaxRows /\ \A r \in rows : r.id < nextRow
      BY <1>3, LedgerTxAssumption DEF LedgerTxInv, TablesInv
    <2>5. legs \in SUBSET RowType
      BY <2>3, <2>4, LedgerTxAssumption DEF Leg, RowType
    <2>6. \A r \in legs :
            /\ r.id = nextRow /\ r.account \in named
            /\ r.key = IF b = None THEN tx[w].key ELSE None
            /\ r.peer # None => \E s \in legs : s.id = r.id /\ s.account = r.peer
            /\ b = None => \A s \in legs : s = r
      <3>1. \A c, d : /\ Leg(w, c, d).id = nextRow /\ Leg(w, c, d).account = c
                      /\ Leg(w, c, d).peer = d
                      /\ Leg(w, c, d).key = IF d = None THEN tx[w].key ELSE None
        BY DEF Leg
      <3>2. CASE b = None
        <4>1. legs = {Leg(w, a, None)} /\ a \in named
          BY <2>3, <3>2
        <4> HIDE DEF legs, named
        <4> QED  BY <3>1, <3>2, <4>1
      <3>3. CASE b # None
        <4>1. legs = {Leg(w, a, b), Leg(w, b, a)} /\ a \in named /\ b \in named
          BY <2>3, <3>3
        <4> HIDE DEF legs, named
        <4> QED  BY <2>3, <3>1, <3>3, <4>1
      <3> QED  BY <3>2, <3>3
    <2>7. /\ named \subseteq Accounts
          /\ held \in SUBSET Locks /\ tx[w].held \subseteq held
          /\ \A c \in named : <<"share", c>> \in held
      BY <2>1, <2>3 DEF TxType, Locks, Modes
    <2>8. \A l \in held : l \in tx[w].held \/ CanLock(w, l[1], l[2])
      BY <1>1
    <2>9. replay \in Seq(Accounts)
      BY <2>3
    <2> HIDE DEF legs, held, replay, named
    <2>10. /\ t \in TxType /\ t.pc = "replay" /\ t.op = tx[w].op /\ t.row = tx[w].row
           /\ t.account = a /\ t.peer = b /\ t.key = tx[w].key /\ t.want = tx[w].want
           /\ t.add = legs /\ t.del = tx[w].del /\ t.status = tx[w].status /\ t.held = held
      BY <2>1, <2>5, <2>7, <2>9, ZenonT(60) DEF TxType
    <2> HIDE DEF t, a, b
    <2>11. CreationInv(t, rows, account, keyRows, nextRow')
      <3>1. \A r \in t.add :
              /\ r.id < nextRow' /\ \A s \in rows : s.id # r.id
              /\ <<"share", r.account>> \in t.held /\ account[r.account].status # "deleted"
        BY <1>3, <2>4, <2>6, <2>7, <2>10
      <3>2. \A r \in t.add :
              /\ r.key = IF t.peer = None THEN t.key ELSE None
              /\ r.peer # None => \E s \in t.add : s.id = r.id /\ s.account = r.peer
              /\ t.peer = None => \A s \in t.add : s = r
        BY <2>6, <2>10
      <3>3. /\ t.account = tx[w].account /\ t.peer = tx[w].peer /\ tx[w].held \subseteq t.held
        BY <2>7, <2>10 DEF a, b
      <3> QED  BY <2>2, <2>10, <3>1, <3>2, <3>3 DEF CreationInv
    <2>12. TxInv(t, rows, account, keyRows, nextRow')
      <3>1. t.want = {} /\ t.del = {}
        BY <2>11 DEF CreationInv
      <3> QED  BY <2>2, <2>10, <2>11, <3>1 DEF TxInv, PcInv, Creations
    <2>13. ASSUME NEW v \in Workers \ {w}
           PROVE  Apart(t, tx[v]) /\ FreshFor(t, tx[v]) /\ FreshFor(tx[v], t)
      <3>1. Apart(t, tx[v])
        BY <2>8, <2>10, LockApart
      <3>2. TxInv(tx[v], rows, account, keyRows, nextRow)
        BY DEF LedgerTxInv, TxsInv
      <3>3. /\ tx[v].row # None => tx[v].row[1] # nextRow
            /\ tx[v].op \in Creations => \A r \in tx[v].add : r.id # nextRow
        <4>1. tx[v].add \subseteq RowType  BY <3>2 DEF TxInv, TxType
        <4> QED  BY <2>4, <3>2, <4>1, NamedBefore DEF Names, RowType
      <3>4. t.row = None /\ \A r \in t.add : r.id = nextRow
        BY <2>6, <2>10, <2>11 DEF CreationInv
      <3>5. FreshFor(t, tx[v]) /\ FreshFor(tx[v], t)
        BY <3>3, <3>4 DEF FreshFor
      <3> QED  BY <3>1, <3>5
    <2>14. /\ UNCHANGED tables /\ alone' \subseteq Workers
           /\ nextRow' \in Nat /\ nextRow <= nextRow' /\ nextRow' <= MaxRows + 1
      BY <1>1, <1>3, <2>4, LedgerTxAssumption DEF LedgerTxInv
    <2> QED  BY <1>3, <2>12, <2>13, <2>14, OneWorker
  <1> QED  BY <1>1, <1>2, <1>3

-----------------------------------------------------------------------------
\* Every row a worker writes is a row it creates, in an account that stays and
\* under an id of its own, or a new version of the row it deletes.
Created(t, r) ==
  /\ t.op \in Creations /\ <<"share", r.account>> \in t.held
  /\ \A s \in rows : s.id # r.id
  /\ r.key \in {t.key, None}

Edited(t, r, s) ==
  /\ t.op = "UpdateTransaction" /\ t.del = {s} /\ t.add = {r} /\ s \in rows
  /\ r.id = s.id /\ r.account = s.account /\ r.key = s.key /\ r.peer = None /\ s.peer = None

LEMMA Written ==
    ASSUME LedgerTxInv, NEW w \in Workers, NEW r \in tx[w].add
    PROVE  /\ r \in RowType /\ r.id < nextRow /\ account[r.account].status # "deleted"
           /\ tx[w].status = "none"
           /\ Created(tx[w], r) \/ \E s \in tx[w].del : Edited(tx[w], r, s)
  <1>1. /\ TxInv(tx[w], rows, account, keyRows, nextRow) /\ tx[w] \in TxType
        /\ \A s \in rows : s \in RowType /\ account[s.account].status # "deleted" /\ s.id < nextRow
    BY DEF LedgerTxInv, TxsInv, TablesInv
  <1>2. r \in RowType
    BY <1>1 DEF TxType
  <1>3. tx[w].op \in Creations \/ tx[w].op = "UpdateTransaction"
    <2>1. tx[w].op \in {"CreateTransaction", "UpdateTransaction", "DeleteTransaction",
                        "CreateTransfer", "Archive", "Restore", "DeleteAccount", "none"}
      BY <1>1, LedgerTxAssumption DEF TxType
    <2> QED  BY <1>1, <2>1 DEF TxInv, DeleteInv, AccountInv, NoRowsInv, Creations
  <1>4. CASE tx[w].op \in Creations
    <2>1. CreationInv(tx[w], rows, account, keyRows, nextRow)
      BY <1>1, <1>4 DEF TxInv
    <2> QED  BY <1>2, <1>4, <2>1 DEF CreationInv, Created
  <1>5. CASE tx[w].op = "UpdateTransaction"
    <2>1. UpdateInv(tx[w], nextRow) /\ tx[w].del \subseteq rows
      BY <1>1, <1>5 DEF TxInv
    <2>2. PICK s \in RowType : /\ tx[w].del = {s} /\ s.peer = None
                               /\ tx[w].add = {[s EXCEPT !.version = @ + 1]}
      BY <2>1 DEF UpdateInv
    <2>3. r = [s EXCEPT !.version = @ + 1]
      BY <2>2
    <2>4. r.id = s.id /\ r.account = s.account /\ r.key = s.key /\ r.peer = s.peer
      BY <2>3 DEF RowType
    <2>5. Edited(tx[w], r, s)
      BY <1>5, <2>1, <2>2, <2>3, <2>4 DEF Edited
    <2> QED  BY <1>1, <1>2, <2>1, <2>2, <2>4, <2>5 DEF UpdateInv
  <1> QED  BY <1>3, <1>4, <1>5

\* Two workers hold no conflicting locks.
LEMMA NoConflict ==
    ASSUME LedgerTxInv, NEW w \in Workers, NEW v \in Workers \ {w}
    PROVE  /\ \A r \in tx[w].del : r \notin tx[v].del
           /\ \A r \in tx[w].del, s \in tx[v].del : Name(r) # Name(s)
           /\ \A x : ~(<<"key", x>> \in tx[w].held /\ <<"key", x>> \in tx[v].held)
           /\ \A x : ~(<<"share", x>> \in tx[w].held /\ <<"delete", x>> \in tx[v].held)
           /\ \A x : ~(<<"delete", x>> \in tx[w].held /\ <<"share", x>> \in tx[v].held)
  <1>1. Apart(tx[w], tx[v])
    BY DEF LedgerTxInv, TxsInv
  <1>2. \A x, i, j : <<i, x>> \in tx[w].held /\ <<j, x>> \in tx[v].held => <<i, j>> \notin Conflicts
    BY <1>1 DEF Apart
  <1>3. /\ \A r \in tx[w].del : <<"row", Name(r)>> \in tx[w].held
        /\ \A r \in tx[v].del : <<"row", Name(r)>> \in tx[v].held
    BY DEF LedgerTxInv, TxsInv, TxInv
  <1>4. /\ <<"row", "row">> \in Conflicts /\ <<"key", "key">> \in Conflicts
        /\ <<"share", "delete">> \in Conflicts /\ <<"delete", "share">> \in Conflicts
    BY DEF Conflicts
  <1>5. \A x : /\ ~(<<"key", x>> \in tx[w].held /\ <<"key", x>> \in tx[v].held)
               /\ ~(<<"share", x>> \in tx[w].held /\ <<"delete", x>> \in tx[v].held)
               /\ ~(<<"delete", x>> \in tx[w].held /\ <<"share", x>> \in tx[v].held)
               /\ ~(<<"row", x>> \in tx[w].held /\ <<"row", x>> \in tx[v].held)
    BY <1>2, <1>4
  <1> QED  BY <1>3, <1>5

\* What a commit does to the tables.
LEMMA CommitEffect ==
    ASSUME LedgerTxInv, NEW w \in Workers, Commit(w)
    PROVE  /\ rows' = (rows \ tx[w].del) \cup tx[w].add
           /\ keyRows' = IF tx[w].op = "CreateTransfer" THEN keyRows \cup {tx[w].key} ELSE keyRows
           /\ account' \in [Accounts -> [status: Statuses, cache: SUBSET RowType]]
           /\ \A a \in Accounts :
                account'[a].status = "deleted" <=>
                  \/ account[a].status = "deleted"
                  \/ /\ tx[w].status = "deleted" /\ tx[w].op = "DeleteAccount" /\ a = tx[w].account
                     /\ <<"delete", a>> \in tx[w].held
                     /\ \A r \in rows : r.account = a => r \in tx[w].del
           /\ tx[w].status = "deleted" => /\ \A r \in tx[w].del : r.account = tx[w].account
                                          /\ tx[w].account \in Accounts
                                          /\ account'[tx[w].account].status = "deleted"
           /\ nextRow' = nextRow /\ alone' = alone
           /\ tx' = [tx EXCEPT ![w] = Idle]
  <1> DEFINE t == tx[w]
             written(a) == {c \in t.cache : c.account = a}
             status(a) == IF t.status # "none" /\ a = t.account THEN t.status ELSE account[a].status
             cache(a) == IF t.status = "deleted" /\ a = t.account THEN {}
                         ELSE IF written(a) # {} THEN (CHOOSE c \in written(a) : TRUE).rows
                         ELSE account[a].cache
  <1>1. /\ t.pc = "replay"
        /\ account' = [a \in Accounts |->
             IF account[a].status = "deleted" THEN account[a]
             ELSE [status |-> status(a), cache |-> cache(a)]]
    BY DEF Commit, At
  <1>2. /\ TxInv(t, rows, account, keyRows, nextRow) /\ t \in TxType /\ t.want = {}
        /\ account \in [Accounts -> [status: Statuses, cache: SUBSET RowType]]
    BY <1>1 DEF LedgerTxInv, TxsInv, TxInv, PcInv, TablesInv
  <1>3. \A a \in Accounts : status(a) \in Statuses /\ cache(a) \in SUBSET RowType
    <2> SUFFICES ASSUME NEW a \in Accounts  PROVE status(a) \in Statuses /\ cache(a) \in SUBSET RowType
      OBVIOUS
    <2>1. written(a) # {} => (CHOOSE c \in written(a) : TRUE) \in written(a)
      OBVIOUS
    <2>2. \A c \in written(a) : c.rows \in SUBSET RowType
      BY <1>2 DEF TxType
    <2>3. cache(a) \in SUBSET RowType
      BY <1>2, <2>1, <2>2
    <2>4. status(a) \in Statuses
      BY <1>2 DEF TxType
    <2> QED  BY <2>3, <2>4
  <1> HIDE DEF cache
  <1>4. account' \in [Accounts -> [status: Statuses, cache: SUBSET RowType]]
    BY <1>1, <1>2, <1>3
  <1>5. \A a \in Accounts :
          account'[a].status = IF account[a].status = "deleted" THEN "deleted" ELSE status(a)
    BY <1>1
  <1>6. t.status = "deleted" => t.op = "DeleteAccount" /\ AccountInv(t, rows)
    <2>1. t.op \in {"CreateTransaction", "UpdateTransaction", "DeleteTransaction",
                    "CreateTransfer", "Archive", "Restore", "DeleteAccount", "none"}
      BY <1>2, LedgerTxAssumption DEF TxType
    <2> QED  BY <1>2, <2>1 DEF TxInv, CreationInv, UpdateInv, DeleteInv, NoRowsInv, Creations
  <1>7. t.status = "deleted" =>
          /\ t.account \in Accounts /\ <<"delete", t.account>> \in t.held
          /\ \A r \in t.del : r.account = t.account
          /\ \A r \in rows : r.account = t.account => r \in t.del
    BY <1>2, <1>6 DEF AccountInv
  <1>8. \A a \in Accounts :
          account'[a].status = "deleted" <=>
            account[a].status = "deleted" \/ (t.status = "deleted" /\ a = t.account)
    BY <1>5
  <1> HIDE DEF status
  <1>9. rows' = (rows \ t.del) \cup t.add /\ nextRow' = nextRow /\ alone' = alone
        /\ tx' = [tx EXCEPT ![w] = Idle]
        /\ keyRows' = IF t.op = "CreateTransfer" THEN keyRows \cup {t.key} ELSE keyRows
    BY DEF Commit, Finish
  <1> QED  BY <1>4, <1>6, <1>7, <1>8, <1>9

\* What a commit leaves right in the tables themselves.
LEMMA CommitTables ==
    ASSUME LedgerTxInv, NEW w \in Workers, Commit(w)
    PROVE  TablesInv(rows, account, keyRows, nextRow)'
  <1>1. /\ TablesInv(rows, account, keyRows, nextRow)
        /\ TxInv(tx[w], rows, account, keyRows, nextRow)
    BY DEF LedgerTxInv, TxsInv
  <1>2. /\ rows \subseteq RowType /\ keyRows \subseteq Keys /\ nextRow \in 1 .. MaxRows + 1
        /\ \A r \in rows : r.account \in Accounts /\ account[r.account].status # "deleted"
                           /\ r.id < nextRow
    BY <1>1 DEF TablesInv, RowType
  <1>3. \A r \in tx[w].add : /\ r \in RowType /\ r.id < nextRow /\ r.account \in Accounts
                             /\ account[r.account].status # "deleted" /\ tx[w].status = "none"
    BY Written DEF RowType
  <1>4. tx[w].op = "CreateTransfer" => tx[w].key \in Keys
    BY <1>1 DEF TxInv, CreationInv, Creations
  <1>5. rows' \subseteq RowType /\ keyRows' \subseteq Keys
    BY <1>2, <1>3, <1>4, CommitEffect
  <1>6. \A r \in rows' : account'[r.account].status # "deleted" /\ r.id < nextRow
    <2> SUFFICES ASSUME NEW r \in rows'
                 PROVE  account'[r.account].status # "deleted" /\ r.id < nextRow
      OBVIOUS
    <2>1. CASE r \in tx[w].add
      BY <1>3, <2>1, CommitEffect
    <2>2. CASE r \in rows /\ r \notin tx[w].del
      BY <1>2, <2>2, CommitEffect
    <2> QED  BY <2>1, <2>2, CommitEffect
  <1> QED  BY <1>2, <1>5, <1>6, CommitEffect DEF TablesInv

\* A key is used by a creation alone, and only by the one that holds it.
LEMMA CommitKeys ==
    ASSUME LedgerTxInv, NEW w \in Workers, Commit(w)
    PROVE  OneResultPerKey'
  <1>1. TxInv(tx[w], rows, account, keyRows, nextRow)
    BY DEF LedgerTxInv, TxsInv
  <1>2. \A r \in rows : r.key # None =>
          r.key \notin keyRows /\ \A s \in rows : s.key = r.key => s = r
    BY DEF LedgerTxInv, OneResultPerKey
  <1>3. rows' = (rows \ tx[w].del) \cup tx[w].add
    BY CommitEffect
  <1>4. CASE tx[w].op \in Creations
    <2>1. CreationInv(tx[w], rows, account, keyRows, nextRow)
      BY <1>1, <1>4 DEF TxInv
    <2>2. \A r \in rows : r.key # tx[w].key
      BY <2>1 DEF CreationInv
    <2>3. CASE tx[w].peer = None
      <3>1. keyRows' = keyRows
        BY <2>1, <2>3, CommitEffect DEF CreationInv, Creation
      <3>2. tx[w].key \notin keyRows /\ \A r \in tx[w].add : r.key = tx[w].key /\ \A s \in tx[w].add : s = r
        BY <2>1, <2>3 DEF CreationInv
      <3> QED  BY <1>2, <1>3, <2>2, <3>1, <3>2 DEF OneResultPerKey
    <2>4. CASE tx[w].peer # None
      <3>1. keyRows' \subseteq keyRows \cup {tx[w].key}
        BY CommitEffect
      <3>2. \A r \in tx[w].add : r.key = None
        BY <2>1, <2>4 DEF CreationInv
      <3> QED  BY <1>2, <1>3, <2>2, <3>1, <3>2 DEF OneResultPerKey
    <2> QED  BY <2>3, <2>4
  <1>5. CASE tx[w].op \notin Creations
    <2>1. keyRows' = keyRows
      BY <1>5, CommitEffect DEF Creations
    <2>2. \A r \in tx[w].add : \E s \in tx[w].del : Edited(tx[w], r, s)
      BY <1>5, Written DEF Created
    <2>3. CASE tx[w].add = {}
      BY <1>2, <1>3, <2>1, <2>3 DEF OneResultPerKey
    <2>4. CASE tx[w].add # {}
      <3>1. PICK r \in tx[w].add, s \in tx[w].del : Edited(tx[w], r, s)
        BY <2>2, <2>4
      <3>2. rows' = (rows \ {s}) \cup {r} /\ s \in rows /\ r.key = s.key
        BY <1>3, <3>1 DEF Edited
      <3> QED  BY <1>2, <2>1, <3>2 DEF OneResultPerKey
    <2> QED  BY <2>3, <2>4
  <1> QED  BY <1>4, <1>5

\* Both legs are created together and deleted together; the deletion of an
\* account takes only its own.
LEMMA CommitLegs ==
    ASSUME LedgerTxInv, NEW w \in Workers, Commit(w)
    PROVE  LegLostOnlyByDeletion'
  <1>1. TxInv(tx[w], rows, account, keyRows, nextRow) /\ tx[w] \in TxType
    BY DEF LedgerTxInv, TxsInv
  <1>2. \A r \in rows : r.peer # None =>
          account[r.peer].status = "deleted" \/ \E s \in rows : s.id = r.id /\ s.account = r.peer
    BY DEF LedgerTxInv, LegLostOnlyByDeletion, Legs
  <1>3. rows' = (rows \ tx[w].del) \cup tx[w].add
    BY CommitEffect
  <1>4. SUFFICES ASSUME NEW r \in rows', r.peer # None
                 PROVE  \/ account'[r.peer].status = "deleted"
                        \/ \E s \in rows' : s.id = r.id /\ s.account = r.peer
    BY DEF LegLostOnlyByDeletion, Legs
  <1>5. CASE r \in tx[w].add
    <2>1. ~ \E s \in tx[w].del : Edited(tx[w], r, s)
      BY <1>4 DEF Edited
    <2>2. tx[w].op \in Creations
      BY <1>5, <2>1, Written DEF Created
    <2>3. \E s \in tx[w].add : s.id = r.id /\ s.account = r.peer
      BY <1>1, <1>4, <1>5, <2>2 DEF TxInv, CreationInv
    <2> QED  BY <1>3, <2>3
  <1>6. CASE r \in rows /\ r \notin tx[w].del
    <2>1. r.peer \in Accounts
      BY <1>4, <1>6 DEF LedgerTxInv, TablesInv, RowType
    <2>2. CASE account[r.peer].status = "deleted"
      BY <2>1, <2>2, CommitEffect
    <2>3. CASE account[r.peer].status # "deleted"
      <3>1. PICK s \in rows : s.id = r.id /\ s.account = r.peer
        BY <1>2, <1>4, <1>6, <2>3
      <3>2. CASE s \notin tx[w].del
        BY <1>3, <3>1, <3>2
      <3>3. CASE s \in tx[w].del
        <4>1. tx[w].op \in {"CreateTransaction", "UpdateTransaction", "DeleteTransaction",
                            "CreateTransfer", "Archive", "Restore", "DeleteAccount", "none"}
          BY <1>1, LedgerTxAssumption DEF TxType
        <4>2. tx[w].op \in {"UpdateTransaction", "DeleteTransaction", "DeleteAccount"}
          BY <1>1, <3>3, <4>1 DEF TxInv, CreationInv, NoRowsInv, Creations
        <4>3. CASE tx[w].op = "UpdateTransaction"
          <5>1. PICK x \in RowType : /\ tx[w].del = {x}
                                     /\ tx[w].add = {[x EXCEPT !.version = @ + 1]}
            BY <1>1, <3>3, <4>3 DEF TxInv, UpdateInv
          <5>2. [x EXCEPT !.version = @ + 1].id = x.id
                /\ [x EXCEPT !.version = @ + 1].account = x.account
            BY DEF RowType
          <5> QED  BY <1>3, <3>1, <3>3, <5>1, <5>2
        <4>4. CASE tx[w].op = "DeleteTransaction"
          <5>1. DeleteInv(tx[w], rows, nextRow) /\ tx[w].want = {} /\ tx[w].pc = "replay"
            BY <1>1, <4>4 DEF TxInv, PcInv, Commit, At
          <5>2. s.id = tx[w].row[1] /\ \A q \in rows : q.id = tx[w].row[1] => q \in tx[w].del
            BY <3>3, <5>1 DEF DeleteInv
          <5> QED  BY <1>6, <3>1, <5>2
        <4>5. CASE tx[w].op = "DeleteAccount"
          <5>1. AccountInv(tx[w], rows)
            BY <1>1, <4>5 DEF TxInv
          <5>2. tx[w].status = "deleted"
            BY <3>3, <5>1 DEF AccountInv
          <5> QED  BY <3>1, <3>3, <5>2, CommitEffect
        <4> QED  BY <4>2, <4>3, <4>4, <4>5
      <3> QED  BY <3>2, <3>3
    <2> QED  BY <2>2, <2>3
  <1> QED  BY <1>3, <1>5, <1>6

\* What every other worker relies on survives the commit.
LEMMA CommitOthers ==
    ASSUME LedgerTxInv, NEW w \in Workers, Commit(w), NEW v \in Workers \ {w}
    PROVE  TxInv(tx[v], rows, account, keyRows, nextRow)'
  <1> DEFINE t == tx[w]
             u == tx[v]
  <1>1. /\ TxInv(t, rows, account, keyRows, nextRow) /\ t \in TxType
        /\ TxInv(u, rows, account, keyRows, nextRow) /\ u \in TxType
        /\ FreshFor(t, u) /\ FreshFor(u, t)
    BY DEF LedgerTxInv, TxsInv
  <1>2. rows' = (rows \ t.del) \cup t.add /\ nextRow' = nextRow /\ tx'[v] = u
    BY CommitEffect DEF LedgerTxInv, TxsInv
  <1>3. \A r \in t.add : Created(t, r) \/ \E s \in t.del : Edited(t, r, s)
    BY Written
  <1>4. u.del \subseteq rows'
    BY <1>1, <1>2, NoConflict DEF TxInv
  <1>5. u.op \in Creations => CreationInv(u, rows', account', keyRows', nextRow')
    <2> HAVE u.op \in Creations
    <2>1. CreationInv(u, rows, account, keyRows, nextRow)
      BY <1>1 DEF TxInv
    <2>2. t.op \in Creations => t.key # u.key
      <3>1. t.op \in Creations => <<"key", t.key>> \in t.held
        BY <1>1 DEF TxInv, CreationInv
      <3>2. <<"key", u.key>> \in u.held
        BY <2>1 DEF CreationInv
      <3> QED  BY <3>1, <3>2, NoConflict
    <2>3. u.key \notin keyRows'
      BY <2>1, <2>2, CommitEffect DEF CreationInv, Creations
    <2>4. u.key \in Keys /\ u.key # None /\ \A r \in rows : r.key # u.key
      BY <2>1, LedgerTxAssumption DEF CreationInv
    <2>5. \A r \in rows' : r.key # u.key
      BY <1>2, <1>3, <2>2, <2>4, ZenonT(60) DEF Created, Edited
    <2>6. ASSUME NEW r \in u.add
          PROVE  (\A s \in rows' : s.id # r.id) /\ account'[r.account].status # "deleted"
      <3>1. r.account \in Accounts /\ account[r.account].status # "deleted"
            /\ <<"share", r.account>> \in u.held /\ \A s \in rows : s.id # r.id
        BY <1>1, <2>1 DEF CreationInv, TxType, RowType
      <3>2. account'[r.account].status # "deleted"
        BY <3>1, CommitEffect, NoConflict
      <3>3. \A s \in t.add : s.id # r.id
        <4>1. t.op \in Creations => \A s \in t.add : s.id # r.id
          BY <1>1, <2>6 DEF FreshFor
        <4> QED  BY <1>3, <3>1, <4>1, ZenonT(60) DEF Created, Edited
      <3> QED  BY <1>2, <3>1, <3>2, <3>3
    <2> QED  BY <1>2, <2>1, <2>3, <2>5, <2>6 DEF CreationInv
  <1>6. u.op = "UpdateTransaction" => UpdateInv(u, nextRow')
    BY <1>1, <1>2 DEF TxInv
  <1>7. \A r \in t.add, s \in t.del : Edited(t, r, s) => s \notin u.del /\ Name(r) = Name(s)
    BY NoConflict DEF Edited, Name
  <1>8. u.op = "DeleteTransaction" => DeleteInv(u, rows', nextRow')
    <2> HAVE u.op = "DeleteTransaction"
    <2>1. DeleteInv(u, rows, nextRow)
      BY <1>1 DEF TxInv
    <2>2. ASSUME u.pc \in {"lockRows", "replay", "store"}, NEW r \in rows', r.id = u.row[1]
          PROVE  r \in u.del \/ Name(r) \in u.want
      <3>1. CASE r \in rows
        BY <2>1, <2>2, <3>1 DEF DeleteInv
      <3>2. CASE r \in t.add
        <4>1. u.row # None
          BY <2>1, LedgerTxAssumption DEF DeleteInv, Names
        <4>2. ~Created(t, r)
          BY <1>1, <2>2, <3>2, <4>1 DEF FreshFor, Created
        <4>3. PICK s \in t.del : Edited(t, r, s)
          BY <1>3, <3>2, <4>2
        <4>4. s \in rows /\ s.id = u.row[1]
          BY <2>2, <4>3 DEF Edited
        <4> QED  BY <1>7, <2>1, <2>2, <3>2, <4>3, <4>4 DEF DeleteInv
      <3> QED  BY <1>2, <3>1, <3>2
    <2> QED  BY <1>2, <2>1, <2>2 DEF DeleteInv
  <1>9. u.op = "DeleteAccount" => AccountInv(u, rows')
    <2> HAVE u.op = "DeleteAccount"
    <2>1. AccountInv(u, rows)
      BY <1>1 DEF TxInv
    <2>2. ASSUME u.status # "none", NEW r \in rows', r.account = u.account
          PROVE  r \in u.del \/ Name(r) \in u.want
      <3>1. CASE r \in rows
        BY <2>1, <2>2, <3>1 DEF AccountInv
      <3>2. CASE r \in t.add
        <4>1. ~Created(t, r)
          BY <2>1, <2>2, NoConflict DEF Created, AccountInv
        <4>2. PICK s \in t.del : Edited(t, r, s)
          BY <1>3, <3>2, <4>1
        <4>3. s \in rows /\ s.account = u.account
          BY <2>2, <4>2 DEF Edited
        <4> QED  BY <1>7, <2>1, <2>2, <3>2, <4>2, <4>3 DEF AccountInv
      <3> QED  BY <1>2, <3>1, <3>2
    <2> QED  BY <2>1, <2>2 DEF AccountInv
  <1> HIDE DEF u
  <1>10. TxInv(u, rows', account', keyRows', nextRow')
    BY <1>1, <1>4, <1>5, <1>6, <1>8, <1>9 DEF TxInv
  <1> QED  BY <1>2, <1>10

LEMMA CommitKeeps ==
    ASSUME LedgerTxInv, NEW w \in Workers, Commit(w)
    PROVE  LedgerTxInv'
  <1>1. tx \in [Workers -> TxType] /\ Idle \in TxType
    BY IdleInv DEF LedgerTxInv, TxsInv, TxInv
  <1>2. /\ tx' \in [Workers -> TxType] /\ tx'[w] = Idle
        /\ \A v \in Workers \ {w} : tx'[v] = tx[v]
    BY <1>1, CommitEffect
  <1>3. \A v \in Workers : TxInv(tx'[v], rows', account', keyRows', nextRow')
    <2>1. TxInv(Idle, rows', account', keyRows', nextRow')
      BY IdleInv
    <2>2. ASSUME NEW v \in Workers \ {w}
          PROVE  TxInv(tx'[v], rows', account', keyRows', nextRow')
      BY CommitOthers
    <2> QED  BY <1>2, <2>1, <2>2
  <1>4. \A v \in Workers, u \in Workers : v # u => Apart(tx'[v], tx'[u]) /\ FreshFor(tx'[v], tx'[u])
    <2>1. \A u : Apart(u, Idle)
      BY IdleInv, ApartSymmetric
    <2> QED  BY <1>2, <2>1, IdleInv DEF LedgerTxInv, TxsInv
  <1>5. alone' \subseteq Workers
    BY CommitEffect DEF LedgerTxInv
  <1> QED
    BY <1>2, <1>3, <1>4, <1>5, CommitTables, CommitKeys, CommitLegs DEF LedgerTxInv, TxsInv

-----------------------------------------------------------------------------
LEMMA InitHolds == Init => LedgerTxInv
  <1> SUFFICES ASSUME Init  PROVE LedgerTxInv
    OBVIOUS
  <1>1. tx = [w \in Workers |-> Idle] /\ Idle \in TxType
    BY IdleInv DEF Init, TxInv
  <1>2. TxsInv
    BY <1>1, IdleInv DEF TxsInv
  <1>3. TablesInv(rows, account, keyRows, nextRow)
    BY LedgerTxAssumption DEF Init, TablesInv, Statuses
  <1> QED
    BY <1>2, <1>3 DEF Init, LedgerTxInv, OneResultPerKey, LegLostOnlyByDeletion

LEMMA NextKeeps == LedgerTxInv /\ [Next]_vars => LedgerTxInv'
  <1> SUFFICES ASSUME LedgerTxInv, [Next]_vars  PROVE LedgerTxInv'
    OBVIOUS
  <1>1. ASSUME NEW w \in Workers, Arrive(w)  PROVE LedgerTxInv'
    <2>1. ASSUME NEW a \in Accounts, NEW b \in Accounts \cup {None}, NEW k \in Keys,
                 lockLedgerIdempotency(w, a, b, k)
          PROVE  LedgerTxInv'
      BY <2>1, LockIdempotencyKeeps
    <2>2. ASSUME NEW op \in {"UpdateTransaction", "DeleteTransaction"}, NEW r \in rows,
                 lockRow(w, op, r)
          PROVE  LedgerTxInv'
      BY <2>2, LockRowKeeps
    <2>3. ASSUME NEW op \in {"Archive", "Restore"}, NEW a \in Accounts, checkExists(w, op, a)
          PROVE  LedgerTxInv'
      BY <2>3, CheckKeeps DEF checkExists
    <2>4. ASSUME NEW a \in Accounts, checkArchived(w, a)  PROVE LedgerTxInv'
      BY <2>4, CheckKeeps DEF checkArchived
    <2> QED  BY <1>1, <2>1, <2>2, <2>3, <2>4 DEF Arrive
  <1>2. ASSUME NEW w \in Workers, Step(w)  PROVE LedgerTxInv'
    BY <1>2, GetLedgerAccountKeeps, InsertKeeps, UpdateRowKeeps, DeleteRowsKeeps, LockRowsKeeps,
       ReplayReadKeeps, ReplayStoreKeeps, SetAccountArchivedKeeps, CheckLinkedKeeps,
       DeleteAccountKeeps, CommitKeeps DEF Step
  <1>3. ASSUME NEW w \in Workers, Rollback(w)  PROVE LedgerTxInv'
    BY <1>3, FinishKeeps DEF Rollback
  <1>4. CASE UNCHANGED vars
    <2>1. OneResultPerKey' /\ LegLostOnlyByDeletion'
      BY <1>4 DEF vars, LedgerTxInv, OneResultPerKey, LegLostOnlyByDeletion, Legs
    <2> QED  BY <1>4, <2>1 DEF vars, LedgerTxInv, TxsInv
  <1> QED  BY <1>1, <1>2, <1>3, <1>4 DEF Next

-----------------------------------------------------------------------------
(* A request that overlaps no other *)

\* The rows of account a, and its status, as t will commit them.
Read(t, a, R) == {r \in (R \ t.del) \cup t.add : r.account = a}

Committed(t, a, A) ==
  IF A[a].status = "deleted" THEN "deleted"
  ELSE IF t.status # "none" /\ a = t.account THEN t.status ELSE A[a].status

\* t writes or will delete rows of account a, or makes it active again.
Touched(t, a) ==
  \/ \E r \in t.add \cup t.del : r.account = a
  \/ \E x \in t.want : x[2] = a
  \/ t.status = "active" /\ a = t.account

Among(a, s) == \E i \in 1 .. Len(s) : s[i] = a
Awaited(t, a) == Among(a, t.replay)
Stored(t, a) == \E c \in t.cache : c.account = a

\* While nothing else is committed, what a replay has read stays what will be
\* committed; and every active account that is touched is replayed, or will be.
AloneTx(t, R, A) ==
  /\ t.pc \notin {"replay", "store"} => t.cache = {}
  /\ \A c \in t.cache : c.rows = Read(t, c.account, R)
  /\ t.pc = "store" => t.seen = Read(t, Head(t.replay), R)
  /\ t.status \in {"active", "archived"} => \A a \in Accounts : Awaited(t, a) => a = t.account
  /\ \A a \in Accounts : Touched(t, a) => Awaited(t, a) \/ Stored(t, a) \/ Committed(t, a, A) # "active"

AloneInv ==
  \A w \in alone : tx[w].pc # "idle" =>
    AloneTx(tx[w], rows, account) /\ \A v \in Workers \ {w} : tx[v].pc = "idle"

\* A worker alone goes on; any other finds it has begun nothing.
LEMMA AloneKeeps ==
    ASSUME LedgerTxInv, AloneInv, NEW w \in Workers, tx[w].pc # "idle", NEW t \in TxType,
           tx' = [tx EXCEPT ![w] = t], UNCHANGED <<account, rows, alone>>,
           AloneTx(tx[w], rows, account) => AloneTx(t, rows, account)
    PROVE  AloneInv'
  <1>1. tx \in [Workers -> TxType] /\ alone \subseteq Workers
    BY DEF LedgerTxInv, TxsInv
  <1>2. tx'[w] = t /\ \A v \in Workers \ {w} : tx'[v] = tx[v]
    BY <1>1
  <1> QED  BY <1>1, <1>2 DEF AloneInv

\* A transaction ends, committed or not.
LEMMA AloneEnds ==
    ASSUME LedgerTxInv, AloneInv, NEW w \in Workers, tx[w].pc # "idle", Finish(w), UNCHANGED alone
    PROVE  AloneInv'
  <1>1. tx \in [Workers -> TxType] /\ alone \subseteq Workers
    BY DEF LedgerTxInv, TxsInv
  <1>2. tx'[w].pc = "idle" /\ \A v \in Workers \ {w} : tx'[v] = tx[v]
    BY <1>1 DEF Finish, Idle
  <1>3. \A v \in Workers \ {w} : v \in alone => tx[v].pc = "idle"
    BY DEF AloneInv
  <1> QED  BY <1>1, <1>2, <1>3 DEF AloneInv

\* A request that arrives has done nothing yet.
Unbegun(t) ==
  /\ t.add = {} /\ t.del = {} /\ t.want = {} /\ t.status = "none" /\ t.cache = {}
  /\ t.pc \notin {"replay", "store"}

LEMMA AloneBegins ==
    ASSUME LedgerTxInv, NEW w \in Workers, NEW op, NEW t, Begin(w, op, t),
           NEW u, u = [t EXCEPT !.op = op], Unbegun(u)
    PROVE  AloneInv'
  <1>1. tx \in [Workers -> TxType]
    BY DEF LedgerTxInv, TxsInv
  <1>2. /\ tx' = [tx EXCEPT ![w] = u]
        /\ alone' = IF \A v \in Workers : tx[v].pc = "idle" THEN {w} ELSE {}
    BY DEF Begin, At
  <1>3. tx'[w] = u /\ \A v \in Workers \ {w} : tx'[v] = tx[v]
    BY <1>1, <1>2
  <1>4. AloneTx(u, rows', account')
    BY DEF Unbegun, AloneTx, Touched
  <1> QED  BY <1>2, <1>3, <1>4 DEF AloneInv

LEMMA AloneArrives ==
    ASSUME LedgerTxInv, NEW w \in Workers, Arrive(w)
    PROVE  AloneInv'
  <1>1. ASSUME NEW a \in Accounts, NEW b \in Accounts \cup {None}, NEW k \in Keys,
               lockLedgerIdempotency(w, a, b, k)
        PROVE  AloneInv'
    <2> DEFINE t == [Idle EXCEPT !.pc = "accounts", !.account = a, !.peer = b, !.key = k,
                                 !.held = {<<"key", k>>}]
               u == [t EXCEPT !.op = Creation(b)]
    <2>1. Begin(w, Creation(b), t)
      BY <1>1 DEF lockLedgerIdempotency
    <2>2. Unbegun(u)
      BY DEF Unbegun, Idle
    <2> HIDE DEF t
    <2> QED  BY <2>1, <2>2, AloneBegins
  <1>2. ASSUME NEW op, NEW r \in rows, lockRow(w, op, r)
        PROVE  AloneInv'
    <2> DEFINE t == [Idle EXCEPT !.pc = "accounts", !.account = r.account, !.row = Name(r),
                                 !.held = {<<"row", Name(r)>>}]
               u == [t EXCEPT !.op = op]
    <2>1. Begin(w, op, t)
      BY <1>2 DEF lockRow
    <2>2. Unbegun(u)
      BY DEF Unbegun, Idle
    <2> HIDE DEF t
    <2> QED  BY <2>1, <2>2, AloneBegins
  <1>3. ASSUME NEW op, NEW a \in Accounts, checkExists(w, op, a)
        PROVE  AloneInv'
    <2> DEFINE t == [Idle EXCEPT !.pc = "archive", !.account = a]
               u == [t EXCEPT !.op = op]
    <2>1. Begin(w, op, t)
      BY <1>3 DEF checkExists
    <2>2. Unbegun(u)
      BY DEF Unbegun, Idle
    <2> HIDE DEF t
    <2> QED  BY <2>1, <2>2, AloneBegins
  <1>4. ASSUME NEW a \in Accounts, checkArchived(w, a)
        PROVE  AloneInv'
    <2> DEFINE t == [Idle EXCEPT !.pc = "linked", !.account = a]
               u == [t EXCEPT !.op = "DeleteAccount"]
    <2>1. Begin(w, "DeleteAccount", t)
      BY <1>4 DEF checkArchived
    <2>2. Unbegun(u)
      BY DEF Unbegun, Idle
    <2> HIDE DEF t
    <2> QED  BY <2>1, <2>2, AloneBegins
  <1> QED  BY <1>1, <1>2, <1>3, <1>4 DEF Arrive

\* Reading an account or its transfers changes nothing but the statement.
LEMMA AloneReads ==
    ASSUME LedgerTxInv, AloneInv, NEW w \in Workers, getLedgerAccount(w) \/ checkLinked(w)
    PROVE  AloneInv'
  <1>1. /\ tx[w].pc \in {"accounts", "linked"} /\ Private
        /\ \/ Finish(w)
           \/ \E pc \in {"insert", "change", "delete"} : tx' = [tx EXCEPT ![w].pc = pc]
    BY DEF getLedgerAccount, checkLinked, At
  <1>2. CASE Finish(w)
    BY <1>1, <1>2, AloneEnds DEF Private
  <1>3. ASSUME NEW pc \in {"insert", "change", "delete"}, tx' = [tx EXCEPT ![w].pc = pc]
        PROVE  AloneInv'
    <2> DEFINE t == [tx[w] EXCEPT !.pc = pc]
    <2>1. tx[w] \in TxType
      BY DEF LedgerTxInv, TxsInv
    <2>2. /\ t \in TxType /\ t.pc = pc /\ t.cache = tx[w].cache /\ t.add = tx[w].add
          /\ t.del = tx[w].del /\ t.want = tx[w].want /\ t.status = tx[w].status
          /\ t.replay = tx[w].replay /\ t.account = tx[w].account
      BY <2>1 DEF TxType
    <2>3. tx' = [tx EXCEPT ![w] = t]
      BY <1>3
    <2> HIDE DEF t
    <2>4. AloneTx(tx[w], rows, account) => AloneTx(t, rows, account)
      BY <1>1, <2>2 DEF AloneTx, Touched, Awaited, Among, Stored, Read, Committed
    <2> QED  BY <1>1, <2>2, <2>3, <2>4, AloneKeeps DEF Private, tables
  <1> QED  BY <1>1, <1>2, <1>3

\* A request writes rows: the replay it starts covers their accounts.
LEMMA AloneWrites ==
    ASSUME LedgerTxInv, AloneInv, NEW w \in Workers, tx[w].pc \notin {"idle", "replay", "store"},
           NEW t \in TxType, tx' = [tx EXCEPT ![w] = t], UNCHANGED <<account, rows, alone>>,
           t.pc # "store", t.cache = tx[w].cache,
           t.status \in {"active", "archived"} => \A a \in Accounts : Awaited(t, a) => a = t.account,
           \A a \in Accounts : Touched(t, a) => Awaited(t, a) \/ Committed(t, a, account) # "active"
    PROVE  AloneInv'
  <1>1. AloneTx(tx[w], rows, account) => AloneTx(t, rows, account)
    BY DEF AloneTx
  <1> QED  BY <1>1, AloneKeeps

LEMMA AloneInserts ==
    ASSUME LedgerTxInv, AloneInv, NEW w \in Workers, insert(w)
    PROVE  AloneInv'
  <1> DEFINE a == tx[w].account
             b == tx[w].peer
             named == {a, b} \ {None}
             legs == IF b = None THEN {Leg(w, a, None)} ELSE {Leg(w, a, b), Leg(w, b, a)}
             held == tx[w].held \cup {<<"share", c>> : c \in named}
             replay == IF b = None THEN <<a>> ELSE <<a, b>>
             t == [tx[w] EXCEPT !.pc = "replay", !.add = legs, !.held = held, !.replay = replay]
  <1>1. /\ tx[w].pc = "insert" /\ UNCHANGED <<account, rows, alone>>
        /\ Finish(w) \/ tx' = [tx EXCEPT ![w] = t]
    BY DEF insert, At, tables
  <1>2. CASE Finish(w)
    BY <1>1, <1>2, AloneEnds
  <1>3. CASE tx' = [tx EXCEPT ![w] = t]
    <2>1. tx[w] \in TxType /\ tx \in [Workers -> TxType] /\ TxInv(tx[w], rows, account, keyRows, nextRow)
      BY DEF LedgerTxInv, TxsInv
    <2>2. tx' \in [Workers -> TxType]
      BY InsertKeeps DEF LedgerTxInv, TxsInv
    <2>3. t \in TxType
      <3>1. tx'[w] = t
        BY <1>3, <2>1
      <3> HIDE DEF t
      <3> QED  BY <2>2, <3>1
    <2>4. \A r \in legs : r.account = a \/ (r.account = b /\ b # None)
      BY DEF Leg
    <2>5. tx[w].op \in Creations /\ CreationInv(tx[w], rows, account, keyRows, nextRow)
      BY <1>1, <2>1 DEF TxInv, PcInv
    <2>6. (b = None => replay = <<a>>) /\ (b # None => replay = <<a, b>>)
      OBVIOUS
    <2> HIDE DEF legs, held, replay
    <2>7. /\ t.pc = "replay" /\ t.add = legs /\ t.replay = replay
          /\ t.del = {} /\ t.want = {} /\ t.status = "none" /\ t.cache = tx[w].cache
      BY <2>1, <2>5 DEF TxType, CreationInv
    <2> HIDE DEF t, a, b
    <2>8. \A c \in Accounts : Touched(t, c) => Awaited(t, c)
      <3> SUFFICES ASSUME NEW c \in Accounts, Touched(t, c)  PROVE Awaited(t, c)
        OBVIOUS
      <3>1. c = a \/ (c = b /\ b # None)
        BY <2>4, <2>7 DEF Touched
      <3>2. CASE b = None
        <4>1. Len(t.replay) = 1 /\ t.replay[1] = a
          BY <2>6, <2>7, <3>2
        <4> QED  BY <3>1, <3>2, <4>1 DEF Awaited, Among
      <3>3. CASE b # None
        <4>1. Len(t.replay) = 2 /\ t.replay[1] = a /\ t.replay[2] = b
          BY <2>6, <2>7, <3>3
        <4> QED  BY <3>1, <4>1 DEF Awaited, Among
      <3> QED  BY <3>2, <3>3
    <2> QED  BY <1>1, <1>3, <2>3, <2>7, <2>8, AloneWrites
  <1> QED  BY <1>1, <1>2, <1>3

LEMMA AloneEdits ==
    ASSUME LedgerTxInv, AloneInv, NEW w \in Workers, UpdateRow(w)
    PROVE  AloneInv'
  <1>1. PICK r \in Current({tx[w].row}) :
          IF r.peer # None THEN Finish(w)
          ELSE tx' = [tx EXCEPT ![w].pc = "replay", ![w].del = {r}, ![w].replay = <<r.account>>,
                                ![w].add = {[r EXCEPT !.version = @ + 1]}]
    BY DEF UpdateRow
  <1>2. tx[w].pc = "change" /\ tx[w].op = "UpdateTransaction" /\ UNCHANGED <<account, rows, alone>>
    BY DEF UpdateRow, At, Private, tables
  <1>3. CASE Finish(w)
    BY <1>2, <1>3, AloneEnds
  <1>4. CASE r.peer = None
    <2> DEFINE e == [r EXCEPT !.version = @ + 1]
               t == [tx[w] EXCEPT !.pc = "replay", !.del = {r}, !.replay = <<r.account>>, !.add = {e}]
    <2>1. tx[w] \in TxType /\ tx \in [Workers -> TxType] /\ UpdateInv(tx[w], nextRow)
      BY <1>2 DEF LedgerTxInv, TxsInv, TxInv
    <2>2. tx' = [tx EXCEPT ![w] = t]
      BY <1>1, <1>4
    <2>3. e.account = r.account
      BY DEF Current, LedgerTxInv, TablesInv, RowType
    <2> HIDE DEF e
    <2>4. /\ t.pc = "replay" /\ t.add = {e} /\ t.del = {r} /\ t.replay = <<r.account>>
          /\ t.want = {} /\ t.status = "none" /\ t.cache = tx[w].cache
      BY <2>1 DEF TxType, UpdateInv
    <2> HIDE DEF t
    <2>5. t \in TxType
      BY <2>1, <2>2, UpdateRowKeeps DEF LedgerTxInv, TxsInv
    <2>6. \A c \in Accounts : Touched(t, c) => Awaited(t, c)
      <3>1. Len(t.replay) = 1 /\ t.replay[1] = r.account
        BY <2>4
      <3> QED  BY <2>3, <2>4, <3>1 DEF Touched, Awaited, Among
    <2> QED  BY <1>2, <2>2, <2>4, <2>5, <2>6, AloneWrites
  <1> QED  BY <1>1, <1>3, <1>4

\* DeleteTransaction names the accounts of every leg before it locks them.
LEMMA AloneDeletes ==
    ASSUME LedgerTxInv, AloneInv, NEW w \in Workers, DeleteRows(w)
    PROVE  AloneInv'
  <1> DEFINE id == tx[w].row[1]
             W == {Name(r) : r \in Legs(id)}
  <1>1. PICK order \in Orders({r.account : r \in Legs(id)}) :
          tx' = [tx EXCEPT ![w].pc = "lockRows", ![w].want = W, ![w].replay = order]
    BY DEF DeleteRows
  <1> DEFINE t == [tx[w] EXCEPT !.pc = "lockRows", !.want = W, !.replay = order]
  <1>2. tx[w].pc = "change" /\ tx[w].op = "DeleteTransaction" /\ UNCHANGED <<account, rows, alone>>
    BY DEF DeleteRows, At, Private, tables
  <1>3. /\ tx[w] \in TxType /\ tx \in [Workers -> TxType] /\ tx[w].del \subseteq rows
        /\ DeleteInv(tx[w], rows, nextRow)
    BY <1>2 DEF LedgerTxInv, TxsInv, TxInv
  <1>4. tx' = [tx EXCEPT ![w] = t]
    BY <1>1
  <1>5. \A x \in W : \E r \in Legs(id) : x[2] = r.account
    BY DEF Name
  <1>6. \A r \in tx[w].del : r \in Legs(id)
    BY <1>3 DEF DeleteInv, Legs
  <1>7. \A r \in Legs(id) : \E i \in 1 .. Len(order) : order[i] = r.account
    <2> DEFINE S == {r.account : r \in Legs(id)}
    <2>1. S \in SUBSET Accounts
      BY DEF Legs, LedgerTxInv, TablesInv, RowType
    <2>2. \A r \in Legs(id) : r.account \in S
      OBVIOUS
    <2> HIDE DEF S
    <2>3. order \in Seq(Accounts) /\ \A c \in S : \E i \in DOMAIN order : order[i] = c
      BY <1>1, <2>1, OrdersAreSequences DEF Orders, S
    <2> QED  BY <2>2, <2>3
  <1> HIDE DEF W
  <1>8. /\ t.pc = "lockRows" /\ t.add = {} /\ t.del = tx[w].del /\ t.replay = order
        /\ t.want = W /\ t.status = "none" /\ t.cache = tx[w].cache
    BY <1>3 DEF TxType, DeleteInv
  <1> HIDE DEF t, id
  <1>9. t \in TxType
    BY <1>3, <1>4, DeleteRowsKeeps DEF LedgerTxInv, TxsInv
  <1>10. \A c \in Accounts : Touched(t, c) => Awaited(t, c)
    BY <1>5, <1>6, <1>7, <1>8 DEF Touched, Awaited, Among
  <1> QED  BY <1>2, <1>4, <1>8, <1>9, <1>10, AloneWrites

\* SetAccountArchived and DeleteAccount: a restored account is replayed, and
\* no other account is active when they commit.
LEMMA AloneSetsStatus ==
    ASSUME LedgerTxInv, AloneInv, NEW w \in Workers, SetAccountArchived(w)
    PROVE  AloneInv'
  <1> DEFINE a == tx[w].account
             lock == {<<"update", a>>}
             status == IF tx[w].op = "Archive" THEN "archived" ELSE "active"
             replay == IF tx[w].op = "Archive" THEN <<>> ELSE <<a>>
             t == [tx[w] EXCEPT !.pc = "replay", !.held = lock, !.status = status, !.replay = replay]
  <1>1. tx[w].pc = "archive" /\ tx' = [tx EXCEPT ![w] = t] /\ UNCHANGED <<account, rows, alone>>
    BY DEF SetAccountArchived, At, Private, tables
  <1>2. /\ tx[w] \in TxType /\ tx \in [Workers -> TxType] /\ NoRowsInv(tx[w])
    BY <1>1 DEF LedgerTxInv, TxsInv, TxInv, PcInv
  <1>3. \/ status = "archived" /\ replay = <<>>
        \/ status = "active" /\ replay = <<a>>
    OBVIOUS
  <1> HIDE DEF lock, status, replay
  <1>4. /\ t.pc = "replay" /\ t.add = {} /\ t.del = {} /\ t.want = {} /\ t.replay = replay
        /\ t.status = status /\ t.account = a /\ t.cache = tx[w].cache
    BY <1>2 DEF TxType, NoRowsInv
  <1> HIDE DEF t, a
  <1>5. t \in TxType
    BY <1>1, <1>2, SetAccountArchivedKeeps DEF LedgerTxInv, TxsInv
  <1>6. CASE status = "archived" /\ replay = <<>>
    <2>1. Len(t.replay) = 0
      BY <1>4, <1>6
    <2>2. \A c \in Accounts : ~Touched(t, c) /\ ~Awaited(t, c)
      BY <1>4, <1>6, <2>1 DEF Touched, Awaited, Among
    <2> QED  BY <1>1, <1>4, <1>5, <2>2, AloneWrites
  <1>7. CASE status = "active" /\ replay = <<a>>
    <2>1. Len(t.replay) = 1 /\ t.replay[1] = a
      BY <1>4, <1>7
    <2>2. \A c \in Accounts : Awaited(t, c) <=> c = a
      BY <2>1 DEF Awaited, Among
    <2> QED  BY <1>1, <1>4, <1>5, <1>7, <2>2, AloneWrites DEF Touched
  <1> QED  BY <1>3, <1>6, <1>7

LEMMA AloneDeletesAccount ==
    ASSUME LedgerTxInv, AloneInv, NEW w \in Workers, deleteAccount(w)
    PROVE  AloneInv'
  <1> DEFINE a == tx[w].account
             W == {Name(r) : r \in RowsOf(a)}
             lock == {<<"delete", a>>}
             t == [tx[w] EXCEPT !.pc = "lockRows", !.want = W, !.status = "deleted", !.held = lock]
  <1>1. /\ tx[w].pc = "delete" /\ UNCHANGED <<account, rows, alone>>
        /\ Finish(w) \/ tx' = [tx EXCEPT ![w] = t]
    BY DEF deleteAccount, At, Private, tables
  <1>2. CASE Finish(w)
    BY <1>1, <1>2, AloneEnds
  <1>3. CASE tx' = [tx EXCEPT ![w] = t]
    <2>1. /\ tx[w] \in TxType /\ tx \in [Workers -> TxType]
          /\ tx[w].add = {} /\ tx[w].del = {}
      BY <1>1 DEF LedgerTxInv, TxsInv, TxInv, PcInv, AccountInv
    <2>2. \A x \in W : x[2] = a
      BY DEF RowsOf, Name
    <2> HIDE DEF W, lock
    <2>3. /\ t.pc = "lockRows" /\ t.add = {} /\ t.del = {} /\ t.want = W
          /\ t.status = "deleted" /\ t.account = a /\ t.cache = tx[w].cache
      BY <2>1 DEF TxType
    <2> HIDE DEF t, a
    <2>4. t \in TxType
      BY <1>3, <2>1, DeleteAccountKeeps DEF LedgerTxInv, TxsInv
    <2>5. \A c \in Accounts : Touched(t, c) => Committed(t, c, account) # "active"
      BY <2>2, <2>3 DEF Touched, Committed
    <2> QED  BY <1>1, <1>3, <2>3, <2>4, <2>5, AloneWrites
  <1> QED  BY <1>1, <1>2, <1>3

\* The rows a DELETE locks are of accounts it already touched.
LEMMA AloneLocks ==
    ASSUME LedgerTxInv, AloneInv, NEW w \in Workers, lockRows(w)
    PROVE  AloneInv'
  <1> DEFINE free == {n \in tx[w].want : CanLock(w, "row", n)}
             gone == Current(free)
             held == tx[w].held \cup {<<"row", n>> : n \in free}
             pc == IF free = tx[w].want THEN "replay" ELSE tx[w].pc
             t == [tx[w] EXCEPT !.want = @ \ free, !.del = @ \cup gone, !.held = held, !.pc = pc]
  <1>1. tx' = [tx EXCEPT ![w] = t] /\ tx[w].pc = "lockRows" /\ UNCHANGED <<account, rows, alone>>
    BY DEF lockRows, At, Private, tables
  <1>2. tx[w] \in TxType /\ tx \in [Workers -> TxType]
    BY DEF LedgerTxInv, TxsInv
  <1>3. free \subseteq tx[w].want /\ \A r \in gone : \E x \in free : x[2] = r.account
    BY DEF Current, Name
  <1>4. pc # "store"
    BY <1>1
  <1> HIDE DEF free, gone, held, pc
  <1>5. /\ t.pc = pc /\ t.want = tx[w].want \ free /\ t.del = tx[w].del \cup gone
        /\ t.add = tx[w].add /\ t.status = tx[w].status /\ t.account = tx[w].account
        /\ t.replay = tx[w].replay /\ t.cache = tx[w].cache
    BY <1>2 DEF TxType
  <1> HIDE DEF t
  <1>6. t \in TxType
    BY <1>1, <1>2, LockRowsKeeps DEF LedgerTxInv, TxsInv
  <1>7. \A a : Touched(t, a) => Touched(tx[w], a)
    BY <1>3, <1>5 DEF Touched
  <1>8. AloneTx(tx[w], rows, account) => AloneTx(t, rows, account)
    BY <1>1, <1>4, <1>5, <1>7 DEF AloneTx, Awaited, Among, Stored, Committed
  <1> QED  BY <1>1, <1>6, <1>8, AloneKeeps

\* The accounts still to be replayed: the next one and the rest.
LEMMA HeadAndTail ==
    ASSUME NEW s \in Seq(Accounts), s # <<>>
    PROVE  /\ Head(s) \in Accounts
           /\ \A c : Among(c, s) <=> c = Head(s) \/ Among(c, Tail(s))
  <1>1. /\ Len(s) \in Nat /\ Len(s) >= 1 /\ Head(s) = s[1] /\ s[1] \in Accounts
        /\ Len(Tail(s)) = Len(s) - 1
        /\ \A i \in 1 .. Len(Tail(s)) : Tail(s)[i] = s[i + 1]
    OBVIOUS
  <1>2. \A i \in 1 .. Len(s) : i # 1 => (i - 1) \in 1 .. Len(Tail(s)) /\ Tail(s)[i - 1] = s[i]
    BY <1>1
  <1>3. \A i \in 1 .. Len(Tail(s)) : (i + 1) \in 1 .. Len(s)
    BY <1>1
  <1>4. \A c : Among(c, s) => c = Head(s) \/ Among(c, Tail(s))
    BY <1>1, <1>2 DEF Among
  <1>5. \A c : Among(c, Tail(s)) => Among(c, s)
    BY <1>1, <1>3 DEF Among
  <1>6. Among(Head(s), s)
    BY <1>1 DEF Among
  <1> QED  BY <1>1, <1>4, <1>5, <1>6

\* A replay passes over an account that will not be active, and what it reads
\* of one that will be is what the transaction commits.
LEMMA AloneReplays ==
    ASSUME LedgerTxInv, AloneInv, NEW w \in Workers, replayRead(w)
    PROVE  AloneInv'
  <1> DEFINE a == Head(tx[w].replay)
             rest == Tail(tx[w].replay)
             read == {r \in (rows \ tx[w].del) \cup tx[w].add : r.account = a}
             status == IF tx[w].status # "none" /\ account[a].status # "deleted"
                       THEN tx[w].status ELSE account[a].status
             t == [tx[w] EXCEPT !.replay = rest]
             u == [tx[w] EXCEPT !.pc = "store", !.seen = read]
  <1>1. /\ tx[w].pc = "replay" /\ tx[w].replay # <<>> /\ UNCHANGED <<account, rows, alone>>
        /\ \/ Finish(w)
           \/ status = "archived" /\ tx' = [tx EXCEPT ![w] = t]
           \/ tx' = [tx EXCEPT ![w] = u]
    BY DEF replayRead, At, Finish, Private, tables
  <1>2. tx[w] \in TxType /\ tx \in [Workers -> TxType]
    BY DEF LedgerTxInv, TxsInv
  <1>3. CASE Finish(w)
    BY <1>1, <1>3, AloneEnds
  <1>4. CASE status = "archived" /\ tx' = [tx EXCEPT ![w] = t]
    <2>1. a \in Accounts /\ \A c : Awaited(tx[w], c) <=> c = a \/ Among(c, rest)
      BY <1>1, <1>2, HeadAndTail DEF TxType, Awaited, Among
    <2>2. AloneTx(tx[w], rows, account) => Committed(tx[w], a, account) # "active"
      <3>1. Awaited(tx[w], a) /\ tx[w].status \in Statuses \cup {"none"}
        BY <1>2, <2>1 DEF TxType
      <3> QED  BY <1>4, <2>1, <3>1 DEF AloneTx, Committed, Statuses
    <2> HIDE DEF a, rest, status
    <2>3. /\ t.pc = "replay" /\ t.replay = rest /\ t.want = tx[w].want /\ t.del = tx[w].del
          /\ t.add = tx[w].add /\ t.status = tx[w].status /\ t.account = tx[w].account
          /\ t.cache = tx[w].cache
      BY <1>1, <1>2 DEF TxType
    <2> HIDE DEF t
    <2>4. t \in TxType
      BY <1>2, <1>4, ReplayReadKeeps DEF LedgerTxInv, TxsInv
    <2>5. \A c : (Touched(t, c) <=> Touched(tx[w], c)) /\ (Stored(t, c) <=> Stored(tx[w], c))
                 /\ Committed(t, c, account) = Committed(tx[w], c, account)
                 /\ Read(t, c, rows) = Read(tx[w], c, rows)
      BY <2>3 DEF Touched, Stored, Committed, Read
    <2>6. \A c : (Awaited(t, c) => Awaited(tx[w], c)) /\ (Awaited(tx[w], c) => c = a \/ Awaited(t, c))
      BY <2>1, <2>3 DEF Awaited, Among
    <2>7. AloneTx(tx[w], rows, account) => AloneTx(t, rows, account)
      BY <2>2, <2>3, <2>5, <2>6 DEF AloneTx
    <2> QED  BY <1>1, <1>4, <2>4, <2>7, AloneKeeps
  <1>5. CASE tx' = [tx EXCEPT ![w] = u]
    <2> HIDE DEF status
    <2>1. read = Read(tx[w], Head(tx[w].replay), rows)
      BY DEF Read
    <2> HIDE DEF a, read
    <2>2. /\ u.pc = "store" /\ u.seen = read /\ u.replay = tx[w].replay /\ u.want = tx[w].want
          /\ u.del = tx[w].del /\ u.add = tx[w].add /\ u.status = tx[w].status
          /\ u.account = tx[w].account /\ u.cache = tx[w].cache
      BY <1>2 DEF TxType
    <2> HIDE DEF u
    <2>3. u \in TxType
      BY <1>2, <1>5, ReplayReadKeeps DEF LedgerTxInv, TxsInv
    <2>4. \A c : (Touched(u, c) <=> Touched(tx[w], c)) /\ (Stored(u, c) <=> Stored(tx[w], c))
                 /\ Committed(u, c, account) = Committed(tx[w], c, account)
                 /\ (Awaited(u, c) <=> Awaited(tx[w], c))
                 /\ Read(u, c, rows) = Read(tx[w], c, rows)
      BY <2>2 DEF Touched, Stored, Committed, Read, Awaited, Among
    <2>5. AloneTx(tx[w], rows, account) => AloneTx(u, rows, account)
      BY <2>1, <2>2, <2>4 DEF AloneTx
    <2> QED  BY <1>1, <1>5, <2>3, <2>5, AloneKeeps
  <1> QED  BY <1>1, <1>3, <1>4, <1>5

LEMMA AloneStores ==
    ASSUME LedgerTxInv, AloneInv, NEW w \in Workers, replayStore(w)
    PROVE  AloneInv'
  <1> DEFINE a == Head(tx[w].replay)
             rest == Tail(tx[w].replay)
             entry == [account |-> a, rows |-> tx[w].seen]
             held == tx[w].held \cup {<<"update", a>>}
             t == [tx[w] EXCEPT !.pc = "replay", !.replay = rest, !.seen = {}, !.held = held,
                                !.cache = @ \cup {entry}]
  <1>1. tx[w].pc = "store" /\ tx' = [tx EXCEPT ![w] = t] /\ UNCHANGED <<account, rows, alone>>
    BY DEF replayStore, At, Private, tables
  <1>2. tx[w] \in TxType /\ tx \in [Workers -> TxType] /\ tx[w].replay # <<>>
    BY <1>1 DEF LedgerTxInv, TxsInv, TxInv, PcInv
  <1>3. \A c : Awaited(tx[w], c) <=> c = a \/ Among(c, rest)
    BY <1>2, HeadAndTail DEF TxType, Awaited, Among
  <1>4. entry.account = a /\ entry.rows = tx[w].seen /\ a = Head(tx[w].replay)
    OBVIOUS
  <1> HIDE DEF a, rest, entry, held
  <1>5. /\ t.pc = "replay" /\ t.replay = rest /\ t.want = tx[w].want /\ t.del = tx[w].del
        /\ t.add = tx[w].add /\ t.status = tx[w].status /\ t.account = tx[w].account
        /\ t.cache = tx[w].cache \cup {entry}
    BY <1>2 DEF TxType
  <1> HIDE DEF t
  <1>6. t \in TxType
    BY <1>1, <1>2, ReplayStoreKeeps DEF LedgerTxInv, TxsInv
  <1>7. \A c : (Touched(t, c) <=> Touched(tx[w], c)) /\ (Stored(tx[w], c) \/ c = a => Stored(t, c))
               /\ Committed(t, c, account) = Committed(tx[w], c, account)
               /\ Read(t, c, rows) = Read(tx[w], c, rows)
    BY <1>4, <1>5 DEF Touched, Stored, Committed, Read
  <1>8. \A c : (Awaited(t, c) => Awaited(tx[w], c)) /\ (Awaited(tx[w], c) => c = a \/ Awaited(t, c))
    BY <1>3, <1>5 DEF Awaited, Among
  <1>9. AloneTx(tx[w], rows, account) => AloneTx(t, rows, account)
    <2> SUFFICES ASSUME AloneTx(tx[w], rows, account)  PROVE AloneTx(t, rows, account)
      OBVIOUS
    <2>1. \A c \in t.cache : c.rows = Read(t, c.account, rows)
      BY <1>1, <1>4, <1>5, <1>7 DEF AloneTx
    <2> QED  BY <1>5, <1>7, <1>8, <2>1 DEF AloneTx
  <1> QED  BY <1>1, <1>6, <1>9, AloneKeeps

\* What a request that overlapped nothing commits is what it touched, replayed.
LEMMA AloneCommits ==
    ASSUME LedgerTxInv, NEW w \in Workers, Commit(w), AloneTx(tx[w], rows, account),
           NEW a \in Accounts, account'[a].status = "active",
           account'[a] # account[a] \/ \E r \in (rows' \ rows) \cup (rows \ rows') : r.account = a
    PROVE  account'[a].cache = {r \in rows' : r.account = a}
  <1> DEFINE t == tx[w]
             written == {c \in t.cache : c.account = a}
             status == IF t.status # "none" /\ a = t.account THEN t.status ELSE account[a].status
             cache == IF t.status = "deleted" /\ a = t.account THEN {}
                      ELSE IF written # {} THEN (CHOOSE c \in written : TRUE).rows
                      ELSE account[a].cache
  <1>1. /\ t.pc = "replay" /\ t.replay = <<>> /\ t.want = {} /\ t \in TxType
        /\ account[a] \in [status: Statuses, cache: SUBSET RowType]
        /\ rows' = (rows \ t.del) \cup t.add
    BY DEF Commit, At, LedgerTxInv, TxsInv, TxInv, PcInv, TablesInv
  <1>2. account'[a] = IF account[a].status = "deleted" THEN account[a]
                      ELSE [status |-> status, cache |-> cache]
    BY DEF Commit
  <1> HIDE DEF cache
  <1>3. account[a].status # "deleted" /\ status = "active" /\ account'[a].cache = cache
    BY <1>2
  <1>4. Committed(t, a, account) = "active"
    BY <1>3 DEF Committed
  <1>5. ~Awaited(t, a)
    <2>1. Len(t.replay) = 0
      BY <1>1
    <2> QED  BY <2>1 DEF Awaited, Among
  <1>6. Touched(t, a) => written # {}
    BY <1>4, <1>5 DEF AloneTx, Stored
  <1>7. Touched(t, a) \/ written # {}
    <2> SUFFICES ASSUME ~Touched(t, a), written = {}  PROVE FALSE
      OBVIOUS
    <2>1. \A r \in (rows' \ rows) \cup (rows \ rows') : r.account # a
      BY <1>1 DEF Touched
    <2>2. t.status = "none" \/ a # t.account
      BY <1>3 DEF Touched
    <2>3. status = account[a].status /\ cache = account[a].cache
      BY <2>2 DEF cache
    <2>4. account'[a] = account[a]
      BY <1>1, <1>2, <2>3
    <2> QED  BY <2>1, <2>4
  <1>8. PICK c \in written : cache = c.rows
    <2>1. written # {} /\ ~(t.status = "deleted" /\ a = t.account)
      BY <1>3, <1>6, <1>7
    <2>2. cache = (CHOOSE c \in written : TRUE).rows
      BY <2>1 DEF cache
    <2> QED  BY <2>1, <2>2
  <1>9. c.rows = Read(t, a, rows)
    BY <1>8 DEF AloneTx
  <1> QED  BY <1>1, <1>3, <1>8, <1>9 DEF Read

LEMMA AloneNext == LedgerTxInv /\ AloneInv /\ [Next]_vars => AloneInv'
  <1> SUFFICES ASSUME LedgerTxInv, AloneInv, [Next]_vars  PROVE AloneInv'
    OBVIOUS
  <1>1. CASE UNCHANGED vars
    BY <1>1 DEF vars, AloneInv
  <1>2. ASSUME NEW w \in Workers, Arrive(w)  PROVE AloneInv'
    BY <1>2, AloneArrives
  <1>3. ASSUME NEW w \in Workers, Rollback(w)  PROVE AloneInv'
    BY <1>3, AloneEnds DEF Rollback, Private, At
  <1>4. ASSUME NEW w \in Workers, Step(w)  PROVE AloneInv'
    <2>1. CASE Commit(w)
      BY <2>1, AloneEnds DEF Commit, At
    <2> QED  BY <1>4, <2>1, AloneReads, AloneInserts, AloneEdits, AloneDeletes, AloneLocks, AloneReplays,
                AloneStores, AloneSetsStatus, AloneDeletesAccount DEF Step
  <1> QED  BY <1>1, <1>2, <1>3, <1>4 DEF Next

\* One step of the property AloneRepairs.
RepairingStep ==
  \A w \in alone : ~At(w, "idle") /\ At(w, "idle")' =>
    \A a \in Accounts :
      /\ account'[a].status = "active"
      /\ account'[a] # account[a] \/ \E r \in (rows' \ rows) \cup (rows \ rows') : r.account = a
      => account'[a].cache = {r \in rows' : r.account = a}

\* The worker whose transaction ends is the one that takes the step, and only
\* Commit shows anything.
LEMMA AloneRepairing == LedgerTxInv /\ AloneInv /\ [Next]_vars => [RepairingStep]_vars
  <1> SUFFICES ASSUME LedgerTxInv, AloneInv, Next  PROVE RepairingStep
    OBVIOUS
  <1> SUFFICES ASSUME NEW w \in alone, tx[w].pc # "idle", tx'[w].pc = "idle", NEW a \in Accounts,
                      account'[a].status = "active",
                      account'[a] # account[a] \/ \E r \in (rows' \ rows) \cup (rows \ rows') : r.account = a
               PROVE  account'[a].cache = {r \in rows' : r.account = a}
    BY DEF RepairingStep, At
  <1>1. w \in Workers /\ AloneTx(tx[w], rows, account) /\ \A v \in Workers \ {w} : tx[v].pc = "idle"
    BY DEF LedgerTxInv, AloneInv
  <1>2. account' # account \/ rows' # rows
    OBVIOUS
  <1>3. PICK v \in Workers : Commit(v)
    <2>1. ASSUME NEW v \in Workers, Arrive(v)  PROVE UNCHANGED tables
      BY <2>1 DEF Arrive, lockLedgerIdempotency, lockRow, checkExists, checkArchived, Begin
    <2>2. ASSUME NEW v \in Workers, Step(v), ~Commit(v)  PROVE UNCHANGED tables
      BY <2>2 DEF Step, getLedgerAccount, insert, UpdateRow, DeleteRows, lockRows, replayRead,
         replayStore, SetAccountArchived, checkLinked, deleteAccount, Private
    <2>3. ASSUME NEW v \in Workers, Rollback(v)  PROVE UNCHANGED tables
      BY <2>3 DEF Rollback, Private
    <2>4. ~UNCHANGED tables
      BY <1>2 DEF tables
    <2> QED  BY <2>1, <2>2, <2>3, <2>4 DEF Next
  <1>4. v = w
    BY <1>1, <1>3 DEF Commit, At
  <1> QED  BY <1>1, <1>3, <1>4, AloneCommits

LEMMA AloneInit == Init => AloneInv
  BY DEF Init, AloneInv

-----------------------------------------------------------------------------
(* Theorems *)

\* However requests overlap, each worker may rely on what it has read under its
\* locks until it commits: the inductive invariant.
THEOREM LedgerTxInvariant == Spec => []LedgerTxInv
  BY InitHolds, NextKeeps, PTL DEF Spec

\* The tables keep their types and foreign key while requests overlap: no row
\* is ever in an account that has been deleted.
THEOREM LedgerTxTypeCorrect == Spec => []TypeOK
  <1>1. LedgerTxInv => TypeOK
    <2> SUFFICES ASSUME LedgerTxInv  PROVE TypeOK
      OBVIOUS
    <2>1. \A w \in Workers : tx[w].add \cup tx[w].del \subseteq RowType
      BY DEF LedgerTxInv, TxsInv, TxType
    <2> QED  BY <2>1 DEF LedgerTxInv, TablesInv, TypeOK, Statuses
  <1> QED  BY <1>1, LedgerTxInvariant, PTL

\* A request sent again with its key, at whatever moment, adds no second result.
THEOREM KeysAnswerOnce == Spec => []OneResultPerKey
  <1>1. LedgerTxInv => OneResultPerKey
    BY DEF LedgerTxInv
  <1> QED  BY <1>1, LedgerTxInvariant, PTL

\* Whatever overlaps, half a transfer remains only after the account of the
\* other half has been deleted.
THEOREM LegsStayTogether == Spec => []LegLostOnlyByDeletion
  <1>1. LedgerTxInv => LegLostOnlyByDeletion
    BY DEF LedgerTxInv
  <1> QED  BY <1>1, LedgerTxInvariant, PTL

\* Whatever state overlapping requests left behind, a request that overlaps no
\* other leaves every active account it changes with the balance of its rows.
THEOREM AloneRepairsBalances == Spec => AloneRepairs
  <1>1. LedgerTxInv /\ AloneInv /\ [Next]_vars => AloneInv'
    BY AloneNext
  <1>2. LedgerTxInv /\ AloneInv /\ [Next]_vars => [RepairingStep]_vars
    BY AloneRepairing
  <1> QED  BY <1>1, <1>2, AloneInit, LedgerTxInvariant, PTL DEF Spec, AloneRepairs, RepairingStep

=============================================================================
