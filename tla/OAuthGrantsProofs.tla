------------------------- MODULE OAuthGrantsProofs -------------------------
(***************************************************************************)
(* Proofs about the authorization server, for any number of requests at    *)
(* once, grants, tokens and any lifetimes.                                 *)
(*                                                                         *)
(* A handler decides on what it has read, and some of it is not locked: an *)
(* exchange knows of its grant only what its snapshot told.  TxInv says    *)
(* what each transaction may still rely on, LocksApart that no two hold    *)
(* one row; TablesInv is what the tables then always satisfy, above all    *)
(* that tokens exist only after the code of their grant has been used.     *)
(* From that a second use of a secret finds everything its first use made, *)
(* and a live grant has one secret left: the refinement of GrantChain.     *)
(* ApproversDiffer counts the live grants: each has a worker of its own,   *)
(* the one that approved it and would replace it with its next.            *)
(***************************************************************************)
EXTENDS OAuthGrants, FiniteSetTheorems, TLAPS

States == {"none", "live", "revoked"}
Ops == {"none", "approve", "deny", "exchange", "refresh", "revoke", "disconnect"}
Steps == {"idle", "take", "approve", "deny", "replace", "code", "token", "refresh",
          "issue", "prune", "revoke", "kill", "killTokens", "killLocks"}

TxType == [op: Ops, pc: Steps, grant: Grants \cup {None}, row: TokenRows \cup {NoRow},
           start: 0 .. MaxTime, ended: BOOLEAN, todo: SUBSET Rows, held: SUBSET Rows]

Issuing(t) == t.pc \in {"issue", "prune"}
Killing(t) == t.pc \in {"kill", "killTokens", "killLocks"}

\* A request being decided is still there, and the grants it replaces are live.
DecisionInv(t, Q, G) ==
  /\ t.pc \in {"approve", "deny", "replace"} =>
       <<"request", t.grant>> \in t.held /\ Q[t.grant].state = "pending"
  /\ \A h \in Grants : <<"grant", h>> \in t.held => G[h] = "live"
  /\ t.pc = "approve" => t.op = "approve"
  /\ t.pc \in {"take", "approve", "deny", "replace"}

\* The tokens a transaction that issues may delete: the one presented, and those
\* of its grant that expired long ago.
PruneInv(t, T) ==
  \A u \in T :
    /\ Row(u) \in t.held => u.grant = t.grant
                            /\ (Row(u) = t.row \/ u.expires < t.start - Retention)
    /\ Row(u) \in t.todo => u.grant = t.grant /\ u.expires < t.start - Retention

\* A code being exchanged has not been used, and nobody else can use it.
ExchangeInv(t, C, T) ==
  /\ t.row = NoRow
  /\ t.pc = "code" \/ Issuing(t) \/ Killing(t)
  /\ Issuing(t) => <<"code", t.grant>> \in t.held /\ ~C[t.grant].used
  /\ Killing(t) => C[t.grant].used
  /\ ~Killing(t) => PruneInv(t, T)

\* A refresh token being renewed belongs to a live grant, and is unused.
RefreshInv(t, G, C, T) ==
  /\ t.row \in {"refresh"} \X (1 .. MaxIssues)
  /\ t.pc \in {"token", "refresh"} \/ Issuing(t) \/ Killing(t)
  /\ C[t.grant].used
  /\ \A u \in T : Row(u) = t.row => u.grant = t.grant
  /\ t.pc # "token" => t.row \in t.held /\ \E u \in T : Row(u) = t.row
  /\ Issuing(t) => /\ <<"grant", t.grant>> \in t.held /\ G[t.grant] = "live"
                   /\ \E u \in T : Row(u) = t.row /\ ~u.used
  /\ ~Killing(t) => PruneInv(t, T)

\* A replay that ends a grant has all its tokens, or still waits for them.
KillInv(t, T) ==
  /\ t.pc \in {"killTokens", "killLocks"} => <<"grant", t.grant>> \in t.held
  /\ t.pc = "killLocks" => \A u \in T : u.grant = t.grant => Row(u) \in t.todo \cup t.held

TxInv(t, Q, G, C, T, n) ==
  /\ t \in TxType
  /\ \A k \in Kinds, i \in 1 .. MaxIssues : <<k, i>> \in t.held \cup t.todo \cup {t.row} => i < n
  /\ t.op # "none" => t.grant \in Grants
  /\ t.op \in {"exchange", "refresh", "revoke", "disconnect"} => G[t.grant] # "none"
  /\ t.op = "none" => t.pc = "idle"
  /\ t.op \in {"approve", "deny"} => DecisionInv(t, Q, G)
  /\ t.op = "exchange" => ExchangeInv(t, C, T)
  /\ t.op = "refresh" => RefreshInv(t, G, C, T)
  /\ t.op \in {"revoke", "disconnect"} => (t.pc = "revoke" /\ t.row[1] = "access") \/ Killing(t)
  /\ t.op \in {"exchange", "refresh"} /\ Killing(t) => KillInv(t, T)
  /\ t.op \in {"revoke", "disconnect"} /\ t.pc \in {"killTokens", "killLocks"} =>
       <<"grant", t.grant>> \in t.held

\* The unused refresh tokens of a grant.
Spendable(g, T) == {u \in T : u.grant = g /\ u.kind = "refresh" /\ ~u.used}

TablesInv(Q, G, C, T, n, rep) ==
  /\ Q \in [Grants -> [state: {"none", "pending", "gone"}, expires: Times]]
  /\ G \in [Grants -> States]
  /\ C \in [Grants -> [used: BOOLEAN, expires: Times]]
  /\ T \subseteq Token
  /\ n \in 1 .. MaxIssues + 1
  /\ rep \subseteq Grants
  /\ \A g \in Grants : /\ Q[g].state # "gone" => G[g] = "none"
                       /\ C[g].used => G[g] # "none"
                       /\ G[g] = "live" /\ C[g].used =>
                            \E u \in Spendable(g, T) : \A v \in Spendable(g, T) : v.issue = u.issue
  /\ \A u \in T : u.issue < n /\ C[u.grant].used
  /\ \A u, v \in T : Row(u) = Row(v) => u = v
  /\ \A g \in rep : G[g] = "revoked" /\ C[g].used /\ \A u \in T : u.grant = g => u.revoked

LocksApart == \A w, v \in Workers : w # v => tx[w].held \cap tx[v].held = {}

Issuers == {w \in Workers : Issuing(tx[w])}

OAuthInv ==
  /\ now \in 0 .. MaxTime
  /\ TablesInv(request, grant, code, tokens, nextIssue, replayed)
  /\ tx \in [Workers -> TxType]
  /\ \A w \in Workers : TxInv(tx[w], request, grant, code, tokens, nextIssue)
  /\ LocksApart
  /\ nextIssue + Cardinality(Issuers) <= MaxIssues + 1

-----------------------------------------------------------------------------
(* Lemmas about rows, and about the workers other than the one that steps *)

\* The names of rows of different tables differ.
LEMMA RowNames ==
    /\ \A a, b : <<a, b>> # NoRow
    /\ \A g : /\ <<"request", g>> \notin TokenRows
              /\ <<"grant", g>> \notin TokenRows
              /\ <<"code", g>> \notin TokenRows
    /\ \A g \in Grants : /\ <<"request", g>> \in Rows
                         /\ <<"grant", g>> \in Rows
                         /\ <<"code", g>> \in Rows
    /\ TokenRows \subseteq Rows
    /\ \A u \in Token : Row(u) \in TokenRows /\ Row(u)[1] = u.kind /\ Row(u)[2] = u.issue
  <1>1. \A a, b : <<a, b>> # NoRow
    BY DEF NoRow
  <1>2. \A u \in Token : Row(u) \in TokenRows /\ Row(u)[1] = u.kind /\ Row(u)[2] = u.issue
    BY DEF Row, Token, TokenRows
  <1> QED  BY <1>1, <1>2 DEF TokenRows, Kinds, Rows

\* Only worker w goes on, and the rows it holds then nobody else holds.
Changes(w) ==
  /\ tx' \in [Workers -> TxType]
  /\ \A v \in Workers \ {w} : tx'[v] = tx[v] /\ tx'[w].held \cap tx[v].held = {}

LEMMA OneWorker ==
    ASSUME OAuthInv, NEW w \in Workers, Changes(w), UNCHANGED <<now, tables>>,
           TxInv(tx'[w], request, grant, code, tokens, nextIssue),
           Issuing(tx'[w]) => Issuing(tx[w]) \/ RoomToIssue
    PROVE  OAuthInv'
  <1>1. /\ now' = now /\ request' = request /\ grant' = grant /\ code' = code /\ tokens' = tokens
        /\ nextIssue' = nextIssue /\ replayed' = replayed
    BY DEF tables
  <1>2. \A v \in Workers : TxInv(tx'[v], request, grant, code, tokens, nextIssue)
    BY DEF OAuthInv, Changes
  <1>3. LocksApart'
    BY DEF OAuthInv, Changes, LocksApart
  <1>4. nextIssue + Cardinality(Issuers') <= MaxIssues + 1
    <2>1. IsFiniteSet(Issuers) /\ IsFiniteSet(Issuers \cup {w})
      BY OAuthAssumption, FS_Subset, FS_AddElement DEF Issuers
    <2>2. /\ Cardinality(Issuers) \in Nat /\ nextIssue \in Nat /\ MaxIssues \in Nat
          /\ Cardinality(Issuers \cup {w}) <= Cardinality(Issuers) + 1
      <3>1. MaxIssues \in Nat
        BY OAuthAssumption
      <3>2. nextIssue \in 1 .. MaxIssues + 1
        BY DEF OAuthInv, TablesInv
      <3>3. Cardinality(Issuers) \in Nat
        BY <2>1, FS_CardinalityType
      <3>4. Cardinality(Issuers \cup {w}) <= Cardinality(Issuers) + 1
        BY <2>1, <3>3, FS_AddElement
      <3> QED  BY <3>1, <3>2, <3>3, <3>4
    <2>3. CASE Issuing(tx'[w]) => Issuing(tx[w])
      <3>1. Issuers' \subseteq Issuers
        BY <2>3 DEF Issuers, Changes
      <3>2. Cardinality(Issuers') \in Nat /\ Cardinality(Issuers') <= Cardinality(Issuers)
        BY <2>1, <3>1, FS_Subset, FS_CardinalityType
      <3> QED  BY <2>2, <3>2 DEF OAuthInv
    <2>4. CASE RoomToIssue
      <3>1. nextIssue + Cardinality(Issuers) <= MaxIssues
        BY <2>4 DEF RoomToIssue, Issuers, Issuing
      <3>2. Issuers' \subseteq Issuers \cup {w}
        BY DEF Issuers, Changes
      <3>3. Cardinality(Issuers') \in Nat /\ Cardinality(Issuers') <= Cardinality(Issuers \cup {w})
        BY <2>1, <3>2, FS_Subset, FS_CardinalityType
      <3>4. Cardinality(Issuers \cup {w}) \in Nat
        BY <2>1, FS_CardinalityType
      <3> QED  BY <2>2, <3>1, <3>3, <3>4
    <2> QED  BY <2>3, <2>4
  <1> QED  BY <1>1, <1>2, <1>3, <1>4 DEF OAuthInv, Changes

LEMMA IdleType ==
    /\ Idle \in TxType
    /\ Idle.op = "none" /\ Idle.pc = "idle" /\ Idle.grant = None /\ Idle.row = NoRow
    /\ Idle.held = {} /\ Idle.todo = {} /\ Idle.ended = FALSE /\ Idle.start = 0
  BY OAuthAssumption DEF Idle, TxType, Ops, Steps

LEMMA IdleInv ==
    ASSUME NEW Q, NEW G, NEW C, NEW T, NEW n
    PROVE  TxInv(Idle, Q, G, C, T, n)
  BY IdleType, RowNames DEF TxInv

\* A transaction ends without a trace.
LEMMA FinishEffect ==
    ASSUME OAuthInv, NEW w \in Workers, Finish(w)
    PROVE  Changes(w) /\ tx'[w] = Idle
  BY IdleType DEF OAuthInv, Finish, Changes

LEMMA FinishKeeps ==
    ASSUME OAuthInv, NEW w \in Workers, Finish(w), UNCHANGED <<now, tables>>
    PROVE  OAuthInv'
  BY FinishEffect, IdleInv, IdleType, OneWorker DEF Issuing

LEMMA HoldEffect ==
    ASSUME OAuthInv, NEW w \in Workers, NEW row \in Rows, NEW pc \in Steps,
           Hold(w, row, pc), Free(w, row)
    PROVE  /\ Changes(w)
           /\ tx'[w].pc = pc /\ tx'[w].held = tx[w].held \cup {row}
           /\ tx'[w].op = tx[w].op /\ tx'[w].grant = tx[w].grant /\ tx'[w].row = tx[w].row
           /\ tx'[w].start = tx[w].start /\ tx'[w].todo = tx[w].todo
  <1> DEFINE t == [tx[w] EXCEPT !.held = @ \cup {row}, !.pc = pc]
  <1>1. tx \in [Workers -> TxType] /\ tx[w] \in TxType
    BY DEF OAuthInv
  <1>2. tx[w].held \cup {row} \in SUBSET Rows
    BY <1>1 DEF TxType
  <1>3. /\ t \in TxType
        /\ t.pc = pc /\ t.held = tx[w].held \cup {row}
        /\ t.op = tx[w].op /\ t.grant = tx[w].grant /\ t.row = tx[w].row
        /\ t.start = tx[w].start /\ t.todo = tx[w].todo
    BY <1>1, <1>2 DEF TxType
  <1>4. tx' = [tx EXCEPT ![w] = t]
    BY DEF Hold
  <1> HIDE DEF t
  <1>5. tx' \in [Workers -> TxType] /\ tx'[w] = t /\ \A v \in Workers \ {w} : tx'[v] = tx[v]
    BY <1>1, <1>3, <1>4
  <1>6. \A v \in Workers \ {w} : t.held \cap tx[v].held = {}
    BY <1>3 DEF Free, OAuthInv, LocksApart
  <1> QED  BY <1>3, <1>5, <1>6 DEF Changes

LEMMA ScanEffect ==
    ASSUME OAuthInv, NEW w \in Workers, NEW rows \in SUBSET Rows, NEW pc \in Steps,
           Scan(w, rows, pc)
    PROVE  /\ Changes(w)
           /\ tx'[w].pc = pc /\ tx'[w].todo = rows
           /\ tx'[w].op = tx[w].op /\ tx'[w].grant = tx[w].grant /\ tx'[w].row = tx[w].row
           /\ tx'[w].start = tx[w].start /\ tx'[w].held = tx[w].held
  <1> DEFINE t == [tx[w] EXCEPT !.todo = rows, !.pc = pc]
  <1>1. tx \in [Workers -> TxType] /\ tx[w] \in TxType
    BY DEF OAuthInv
  <1>2. /\ t \in TxType
        /\ t.pc = pc /\ t.todo = rows
        /\ t.op = tx[w].op /\ t.grant = tx[w].grant /\ t.row = tx[w].row
        /\ t.start = tx[w].start /\ t.held = tx[w].held
    BY <1>1 DEF TxType
  <1>3. tx' = [tx EXCEPT ![w] = t]
    BY DEF Scan
  <1> HIDE DEF t
  <1>4. tx' \in [Workers -> TxType] /\ tx'[w] = t /\ \A v \in Workers \ {w} : tx'[v] = tx[v]
    BY <1>1, <1>2, <1>3
  <1> QED  BY <1>2, <1>4 DEF Changes, OAuthInv, LocksApart

\* The rows a scan gets: free ones it still wanted, of which it keeps keep.
LEMMA LockEffect ==
    ASSUME OAuthInv, NEW w \in Workers, NEW rows, NEW keep \in SUBSET rows,
           rows = {row \in tx[w].todo : Free(w, row)},
           tx' = [tx EXCEPT ![w].todo = @ \ rows, ![w].held = @ \cup keep]
    PROVE  /\ Changes(w)
           /\ tx'[w].pc = tx[w].pc /\ tx'[w].todo = tx[w].todo \ rows
           /\ tx'[w].held = tx[w].held \cup keep
           /\ tx'[w].op = tx[w].op /\ tx'[w].grant = tx[w].grant /\ tx'[w].row = tx[w].row
           /\ tx'[w].start = tx[w].start
  <1> DEFINE held == tx[w].held \cup keep
             todo == tx[w].todo \ rows
             t == [tx[w] EXCEPT !.todo = todo, !.held = held]
  <1>1. tx \in [Workers -> TxType] /\ tx[w] \in TxType
    BY DEF OAuthInv
  <1>2. held \in SUBSET Rows /\ todo \in SUBSET Rows
    BY <1>1 DEF TxType
  <1>3. \A v \in Workers \ {w} : held \cap tx[v].held = {}
    BY DEF Free, OAuthInv, LocksApart
  <1>4. tx' = [tx EXCEPT ![w] = t]
    OBVIOUS
  <1> HIDE DEF held, todo
  <1>5. /\ t \in TxType
        /\ t.pc = tx[w].pc /\ t.todo = todo /\ t.held = held
        /\ t.op = tx[w].op /\ t.grant = tx[w].grant /\ t.row = tx[w].row
        /\ t.start = tx[w].start
    BY <1>1, <1>2 DEF TxType
  <1> HIDE DEF t
  <1>6. tx' \in [Workers -> TxType] /\ tx'[w] = t /\ \A v \in Workers \ {w} : tx'[v] = tx[v]
    BY <1>1, <1>4, <1>5
  <1> QED  BY <1>3, <1>5, <1>6 DEF Changes, held, todo

-----------------------------------------------------------------------------
(* A request arrives *)

LEMMA BeginKeeps ==
    ASSUME OAuthInv, NEW w \in Workers, NEW t, t \in TxType, Begin(w, t), t.held = {},
           UNCHANGED <<now, tables>>, ~Issuing(t),
           TxInv(t, request, grant, code, tokens, nextIssue)
    PROVE  OAuthInv'
  <1>1. Changes(w) /\ tx'[w] = t
    BY DEF OAuthInv, Begin, Changes
  <1> QED  BY <1>1, OneWorker

LEMMA BeginDecisionKeeps ==
    ASSUME OAuthInv, NEW w \in Workers, NEW g \in Grants, NEW op \in {"approve", "deny"},
           BeginDecision(w, g, op)
    PROVE  OAuthInv'
  <1> DEFINE t == [Idle EXCEPT !.op = op, !.pc = "take", !.grant = g, !.start = now]
  <1>1. now \in 0 .. MaxTime
    BY DEF OAuthInv
  <1>2. /\ t \in TxType
        /\ t.op = op /\ t.pc = "take" /\ t.grant = g /\ t.row = NoRow /\ t.held = {} /\ t.todo = {}
    BY <1>1, IdleType DEF TxType, Ops, Steps
  <1>3. Begin(w, t) /\ UNCHANGED <<now, tables>>
    BY DEF BeginDecision
  <1> HIDE DEF t
  <1>4. TxInv(t, request, grant, code, tokens, nextIssue)
    BY <1>2, RowNames DEF TxInv, DecisionInv
  <1> QED  BY <1>2, <1>3, <1>4, BeginKeeps DEF Issuing

LEMMA BeginExchangeKeeps ==
    ASSUME OAuthInv, NEW w \in Workers, NEW g \in Grants, BeginExchange(w, g)
    PROVE  OAuthInv'
  <1> DEFINE ended == (grant[g] = "revoked")
             t == [Idle EXCEPT !.op = "exchange", !.pc = "code", !.grant = g, !.start = now,
                               !.ended = ended]
  <1>1. now \in 0 .. MaxTime /\ ended \in BOOLEAN
    BY DEF OAuthInv
  <1>2. Begin(w, t) /\ UNCHANGED <<now, tables>> /\ grant[g] # "none"
    BY DEF BeginExchange
  <1> HIDE DEF ended
  <1>3. /\ t \in TxType
        /\ t.op = "exchange" /\ t.pc = "code" /\ t.grant = g /\ t.row = NoRow
        /\ t.held = {} /\ t.todo = {}
    BY <1>1, IdleType DEF TxType, Ops, Steps
  <1> HIDE DEF t
  <1>4. TxInv(t, request, grant, code, tokens, nextIssue)
    BY <1>2, <1>3, RowNames DEF TxInv, ExchangeInv, PruneInv, Issuing, Killing
  <1> QED  BY <1>2, <1>3, <1>4, BeginKeeps DEF Issuing

LEMMA BeginDisconnectKeeps ==
    ASSUME OAuthInv, NEW w \in Workers, NEW g \in Grants, BeginDisconnect(w, g)
    PROVE  OAuthInv'
  <1> DEFINE t == [Idle EXCEPT !.op = "disconnect", !.pc = "kill", !.grant = g]
  <1>1. /\ t \in TxType
        /\ t.op = "disconnect" /\ t.pc = "kill" /\ t.grant = g /\ t.row = NoRow
        /\ t.held = {} /\ t.todo = {}
    BY IdleType DEF TxType, Ops, Steps
  <1>2. Begin(w, t) /\ UNCHANGED <<now, tables>> /\ grant[g] # "none"
    BY DEF BeginDisconnect
  <1> HIDE DEF t
  <1>3. TxInv(t, request, grant, code, tokens, nextIssue)
    BY <1>1, <1>2, RowNames DEF TxInv, Issuing, Killing
  <1> QED  BY <1>1, <1>2, <1>3, BeginKeeps DEF Issuing

\* What a presented token tells of its grant.
LEMMA TokenFacts ==
    ASSUME OAuthInv, NEW t \in tokens
    PROVE  /\ t \in Token /\ t.grant \in Grants /\ t.issue < nextIssue
           /\ t.issue \in 1 .. MaxIssues /\ t.kind \in Kinds
           /\ code[t.grant].used /\ grant[t.grant] # "none"
           /\ Row(t) = <<t.kind, t.issue>> /\ Row(t) \in TokenRows
           /\ \A u \in tokens : Row(u) = Row(t) => u = t
  <1>1. t \in Token /\ t.issue < nextIssue /\ code[t.grant].used
        /\ \A u \in tokens : Row(u) = Row(t) => u = t
    BY DEF OAuthInv, TablesInv
  <1>2. t.grant \in Grants /\ t.issue \in 1 .. MaxIssues /\ t.kind \in Kinds
    BY <1>1 DEF Token
  <1>3. grant[t.grant] # "none"
    BY <1>1, <1>2 DEF OAuthInv, TablesInv
  <1> QED  BY <1>1, <1>2, <1>3, RowNames DEF Row

LEMMA BeginRefreshKeeps ==
    ASSUME OAuthInv, NEW w \in Workers, NEW t \in tokens, BeginRefresh(w, t)
    PROVE  OAuthInv'
  <1> DEFINE u == [Idle EXCEPT !.op = "refresh", !.pc = "token", !.grant = t.grant,
                               !.row = Row(t), !.start = now]
  <1>1. now \in 0 .. MaxTime /\ t.kind = "refresh"
    BY DEF OAuthInv, BeginRefresh
  <1>2. Begin(w, u) /\ UNCHANGED <<now, tables>>
    BY DEF BeginRefresh
  <1>3. /\ u \in TxType
        /\ u.op = "refresh" /\ u.pc = "token" /\ u.grant = t.grant /\ u.row = Row(t)
        /\ u.held = {} /\ u.todo = {}
    BY <1>1, IdleType, TokenFacts DEF TxType, Ops, Steps
  <1> HIDE DEF u
  <1>4. RefreshInv(u, grant, code, tokens)
    BY <1>1, <1>3, TokenFacts DEF RefreshInv, PruneInv, Issuing, Killing
  <1>5. \A k \in Kinds, i \in 1 .. MaxIssues : <<k, i>> = u.row => i < nextIssue
    BY <1>3, TokenFacts
  <1>6. TxInv(u, request, grant, code, tokens, nextIssue)
    BY <1>3, <1>4, <1>5, TokenFacts DEF TxInv, Killing
  <1> QED  BY <1>2, <1>3, <1>6, BeginKeeps DEF Issuing

LEMMA BeginRevokeKeeps ==
    ASSUME OAuthInv, NEW w \in Workers, NEW t \in tokens, BeginRevoke(w, t)
    PROVE  OAuthInv'
  <1> DEFINE pc == IF t.kind = "refresh" THEN "kill" ELSE "revoke"
             u == [Idle EXCEPT !.op = "revoke", !.grant = t.grant, !.row = Row(t), !.pc = pc]
  <1>1. Begin(w, u) /\ UNCHANGED <<now, tables>>
    BY DEF BeginRevoke
  <1>2. pc \in {"kill", "revoke"} /\ (pc = "revoke" => t.kind = "access")
    BY TokenFacts DEF Kinds
  <1> HIDE DEF pc
  <1>3. /\ u \in TxType
        /\ u.op = "revoke" /\ u.pc = pc /\ u.grant = t.grant /\ u.row = Row(t)
        /\ u.held = {} /\ u.todo = {}
    BY <1>2, IdleType, TokenFacts DEF TxType, Ops, Steps
  <1> HIDE DEF u
  <1>4. \A k \in Kinds, i \in 1 .. MaxIssues : <<k, i>> = u.row => i < nextIssue
    BY <1>3, TokenFacts
  <1>5. u.pc = "revoke" => u.row[1] = "access"
    BY <1>2, <1>3, TokenFacts
  <1>6. TxInv(u, request, grant, code, tokens, nextIssue)
    BY <1>2, <1>3, <1>4, <1>5, TokenFacts DEF TxInv, Killing
  <1> QED  BY <1>1, <1>2, <1>3, <1>6, BeginKeeps DEF Issuing

-----------------------------------------------------------------------------
(* A request goes on without writing *)

\* The handler whose statement a worker is at, and what it may rely on.
LEMMA WorkerFacts ==
    ASSUME OAuthInv, NEW w \in Workers
    PROVE  /\ TxInv(tx[w], request, grant, code, tokens, nextIssue)
           /\ tx[w] \in TxType
           /\ tx[w].pc # "idle" => tx[w].grant \in Grants
           /\ tx[w].pc \in {"take", "approve", "deny", "replace"} => tx[w].op \in {"approve", "deny"}
           /\ tx[w].pc = "code" => tx[w].op = "exchange"
           /\ tx[w].pc \in {"token", "refresh"} => tx[w].op = "refresh"
           /\ Issuing(tx[w]) => tx[w].op \in {"exchange", "refresh"}
           /\ tx[w].pc = "revoke" => tx[w].op \in {"revoke", "disconnect"} /\ tx[w].row[1] = "access"
           /\ Killing(tx[w]) => tx[w].op \in {"exchange", "refresh", "revoke", "disconnect"}
  <1>1. TxInv(tx[w], request, grant, code, tokens, nextIssue) /\ tx[w] \in TxType
    BY DEF OAuthInv
  <1>2. tx[w].op \in Ops /\ tx[w].pc \in Steps
    BY <1>1 DEF TxType
  <1>3. CASE tx[w].op = "none"
    BY <1>1, <1>3 DEF TxInv, Issuing, Killing
  <1>4. CASE tx[w].op \in {"approve", "deny"}
    BY <1>1, <1>4 DEF TxInv, DecisionInv, Issuing, Killing
  <1>5. CASE tx[w].op = "exchange"
    BY <1>1, <1>5 DEF TxInv, ExchangeInv, Issuing, Killing
  <1>6. CASE tx[w].op = "refresh"
    BY <1>1, <1>6 DEF TxInv, RefreshInv, Issuing, Killing
  <1>7. CASE tx[w].op \in {"revoke", "disconnect"}
    BY <1>1, <1>7 DEF TxInv, Issuing, Killing
  <1> QED  BY <1>2, <1>3, <1>4, <1>5, <1>6, <1>7 DEF Ops

LEMMA TakeRequestKeeps ==
    ASSUME OAuthInv, NEW w \in Workers, takeRequest(w)
    PROVE  OAuthInv'
  <1> DEFINE row == <<"request", tx[w].grant>>
  <1>1. /\ tx[w].pc = "take" /\ UNCHANGED <<now, tables>> /\ Free(w, row)
        /\ \/ request[tx[w].grant].state = "pending" /\ Hold(w, row, tx[w].op)
           \/ Finish(w)
    BY DEF takeRequest, At
  <1>2. CASE Finish(w)
    BY <1>1, <1>2, FinishKeeps
  <1>3. CASE request[tx[w].grant].state = "pending" /\ Hold(w, row, tx[w].op)
    <2>1. /\ tx[w].op \in {"approve", "deny"} /\ tx[w].grant \in Grants
          /\ TxInv(tx[w], request, grant, code, tokens, nextIssue)
          /\ DecisionInv(tx[w], request, grant)
      BY <1>1, WorkerFacts DEF TxInv
    <2>2. row \in Rows /\ tx[w].op \in Steps
      BY <2>1, RowNames DEF Steps
    <2>3. /\ Changes(w)
          /\ tx'[w].pc = tx[w].op /\ tx'[w].held = tx[w].held \cup {row}
          /\ tx'[w].op = tx[w].op /\ tx'[w].grant = tx[w].grant /\ tx'[w].row = tx[w].row
          /\ tx'[w].todo = tx[w].todo
      BY <1>1, <1>3, <2>2, HoldEffect
    <2>4. DecisionInv(tx'[w], request, grant)
      BY <1>3, <2>1, <2>3 DEF DecisionInv
    <2>5. \A k \in Kinds : \A i : <<k, i>> # row
      BY DEF Kinds
    <2>6. tx'[w] \in TxType
      BY <2>3 DEF Changes
    <2> HIDE DEF row
    <2>7. TxInv(tx'[w], request, grant, code, tokens, nextIssue)
      BY <2>1, <2>3, <2>4, <2>5, <2>6 DEF TxInv
    <2> QED  BY <1>1, <2>1, <2>3, <2>7, OneWorker DEF Issuing
  <1> QED  BY <1>1, <1>2, <1>3

LEMMA ApproveReplaceKeeps ==
    ASSUME OAuthInv, NEW w \in Workers, ApproveReplace(w)
    PROVE  OAuthInv'
  <1> DEFINE live == {<<"grant", g>> : g \in {h \in Grants : grant[h] = "live"}}
  <1>1. tx[w].pc = "approve" /\ UNCHANGED <<now, tables>> /\ Scan(w, live, "replace")
    BY DEF ApproveReplace, At
  <1>2. /\ tx[w].op \in {"approve", "deny"} /\ tx[w].grant \in Grants
        /\ TxInv(tx[w], request, grant, code, tokens, nextIssue)
        /\ DecisionInv(tx[w], request, grant)
    BY <1>1, WorkerFacts DEF TxInv
  <1>3. live \in SUBSET Rows /\ \A k \in Kinds : \A i : <<k, i>> \notin live
    BY RowNames DEF Kinds
  <1> HIDE DEF live
  <1>4. /\ Changes(w)
        /\ tx'[w].pc = "replace" /\ tx'[w].todo = live /\ tx'[w].held = tx[w].held
        /\ tx'[w].op = tx[w].op /\ tx'[w].grant = tx[w].grant /\ tx'[w].row = tx[w].row
    BY <1>1, <1>3, ScanEffect DEF Steps
  <1>5. DecisionInv(tx'[w], request, grant)
    BY <1>1, <1>2, <1>4 DEF DecisionInv
  <1>6. tx'[w] \in TxType
    BY <1>4 DEF Changes
  <1>7. TxInv(tx'[w], request, grant, code, tokens, nextIssue)
    BY <1>2, <1>3, <1>4, <1>5, <1>6 DEF TxInv
  <1> QED  BY <1>1, <1>4, <1>7, OneWorker DEF Issuing

LEMMA ApproveReplaceLockKeeps ==
    ASSUME OAuthInv, NEW w \in Workers, ApproveReplaceLock(w)
    PROVE  OAuthInv'
  <1> DEFINE rows == {row \in tx[w].todo : Free(w, row)}
             keep == {row \in rows : grant[row[2]] = "live"}
  <1>1. /\ tx[w].pc = "replace" /\ UNCHANGED <<now, tables>>
        /\ tx' = [tx EXCEPT ![w].todo = @ \ rows, ![w].held = @ \cup keep]
    BY DEF ApproveReplaceLock, LockRows, At
  <1>2. /\ tx[w].op \in {"approve", "deny"} /\ tx[w].grant \in Grants
        /\ TxInv(tx[w], request, grant, code, tokens, nextIssue)
        /\ DecisionInv(tx[w], request, grant)
    BY <1>1, WorkerFacts DEF TxInv
  <1>3. \A h \in Grants : <<"grant", h>> \in keep => grant[h] = "live"
    OBVIOUS
  <1>4. keep \subseteq tx[w].todo /\ keep \in SUBSET rows
    OBVIOUS
  <1> HIDE DEF keep
  <1>5. /\ Changes(w)
        /\ tx'[w].pc = "replace" /\ tx'[w].todo = tx[w].todo \ rows
        /\ tx'[w].held = tx[w].held \cup keep
        /\ tx'[w].op = tx[w].op /\ tx'[w].grant = tx[w].grant /\ tx'[w].row = tx[w].row
    BY <1>1, <1>4, LockEffect
  <1> HIDE DEF rows
  <1>6. DecisionInv(tx'[w], request, grant)
    BY <1>1, <1>2, <1>3, <1>5 DEF DecisionInv
  <1>7. tx'[w] \in TxType
    BY <1>5 DEF Changes
  <1>8. TxInv(tx'[w], request, grant, code, tokens, nextIssue)
    BY <1>2, <1>4, <1>5, <1>6, <1>7 DEF TxInv
  <1> QED  BY <1>1, <1>5, <1>8, OneWorker DEF Issuing

LEMMA ExchangeCodeKeeps ==
    ASSUME OAuthInv, NEW w \in Workers, exchangeCode(w)
    PROVE  OAuthInv'
  <1> DEFINE g == tx[w].grant
             row == <<"code", g>>
  <1>1. /\ tx[w].pc = "code" /\ UNCHANGED <<now, tables>> /\ Free(w, row)
        /\ \/ Finish(w)
           \/ code[g].used /\ Hold(w, row, "kill")
           \/ ~code[g].used /\ RoomToIssue /\ Hold(w, row, "issue")
    BY DEF exchangeCode, At
  <1>2. CASE Finish(w)
    BY <1>1, <1>2, FinishKeeps
  <1>3. /\ tx[w].op = "exchange" /\ g \in Grants
        /\ TxInv(tx[w], request, grant, code, tokens, nextIssue)
        /\ ExchangeInv(tx[w], code, tokens)
    BY <1>1, WorkerFacts DEF TxInv
  <1>4. row \in Rows /\ \A k \in Kinds : \A i : <<k, i>> # row
    BY <1>3, RowNames DEF Kinds
  <1>5. \A u \in tokens : Row(u) # row
    BY <1>4, TokenFacts
  <1>6. ASSUME NEW pc \in {"kill", "issue"}, Hold(w, row, pc),
               pc = "kill" => code[g].used, pc = "issue" => ~code[g].used /\ RoomToIssue
        PROVE  OAuthInv'
    <2>1. /\ Changes(w)
          /\ tx'[w].pc = pc /\ tx'[w].held = tx[w].held \cup {row}
          /\ tx'[w].op = tx[w].op /\ tx'[w].grant = tx[w].grant /\ tx'[w].row = tx[w].row
          /\ tx'[w].start = tx[w].start /\ tx'[w].todo = tx[w].todo
      BY <1>1, <1>4, <1>6, HoldEffect DEF Steps
    <2>2. PruneInv(tx'[w], tokens)
      BY <1>1, <1>3, <1>5, <2>1 DEF ExchangeInv, PruneInv, Killing
    <2>3. ExchangeInv(tx'[w], code, tokens)
      BY <1>3, <1>6, <2>1, <2>2 DEF ExchangeInv, Issuing, Killing
    <2>4. tx'[w] \in TxType
      BY <2>1 DEF Changes
    <2> HIDE DEF row
    <2>5. TxInv(tx'[w], request, grant, code, tokens, nextIssue)
      BY <1>3, <1>4, <1>6, <2>1, <2>3, <2>4 DEF TxInv, KillInv, Killing
    <2> QED  BY <1>1, <1>6, <2>1, <2>5, OneWorker DEF Issuing
  <1> QED  BY <1>1, <1>2, <1>6

LEMMA RefreshLockTokenKeeps ==
    ASSUME OAuthInv, NEW w \in Workers, refreshLockToken(w)
    PROVE  OAuthInv'
  <1> DEFINE row == tx[w].row
  <1>1. /\ tx[w].pc = "token" /\ UNCHANGED <<now, tables>> /\ Free(w, row)
        /\ \/ Finish(w)
           \/ TokenExists(row) /\ Hold(w, row, "refresh")
    BY DEF refreshLockToken, At
  <1>2. CASE Finish(w)
    BY <1>1, <1>2, FinishKeeps
  <1>3. CASE TokenExists(row) /\ Hold(w, row, "refresh")
    <2>1. /\ tx[w].op = "refresh" /\ tx[w].grant \in Grants
          /\ TxInv(tx[w], request, grant, code, tokens, nextIssue)
          /\ RefreshInv(tx[w], grant, code, tokens)
      BY <1>1, WorkerFacts DEF TxInv
    <2>2. row \in TokenRows /\ row \in Rows
      BY <2>1, RowNames DEF RefreshInv, TokenRows, Kinds
    <2>3. /\ Changes(w)
          /\ tx'[w].pc = "refresh" /\ tx'[w].held = tx[w].held \cup {row}
          /\ tx'[w].op = tx[w].op /\ tx'[w].grant = tx[w].grant /\ tx'[w].row = tx[w].row
          /\ tx'[w].start = tx[w].start /\ tx'[w].todo = tx[w].todo
      BY <1>1, <1>3, <2>2, HoldEffect DEF Steps
    <2>4. PruneInv(tx'[w], tokens)
      BY <1>1, <2>1, <2>3 DEF RefreshInv, PruneInv, Killing
    <2>5. RefreshInv(tx'[w], grant, code, tokens)
      BY <1>3, <2>1, <2>3, <2>4 DEF RefreshInv, Issuing, Killing, TokenExists
    <2>6. tx'[w] \in TxType
      BY <2>3 DEF Changes
    <2>7. TxInv(tx'[w], request, grant, code, tokens, nextIssue)
      BY <2>1, <2>3, <2>5, <2>6 DEF TxInv, Killing
    <2> QED  BY <1>1, <2>3, <2>7, OneWorker DEF Issuing
  <1> QED  BY <1>1, <1>2, <1>3

LEMMA RefreshKeeps ==
    ASSUME OAuthInv, NEW w \in Workers, refresh(w)
    PROVE  OAuthInv'
  <1> DEFINE g == tx[w].grant
             row == <<"grant", g>>
             t == CHOOSE u \in tokens : Row(u) = tx[w].row
  <1>1. /\ tx[w].pc = "refresh" /\ UNCHANGED <<now, tables>> /\ Free(w, row)
        /\ \/ Finish(w)
           \/ Hold(w, row, "kill")
           \/ ~t.used /\ grant[g] # "revoked" /\ RoomToIssue /\ Hold(w, row, "issue")
    BY DEF refresh, At
  <1>2. CASE Finish(w)
    BY <1>1, <1>2, FinishKeeps
  <1>3. /\ tx[w].op = "refresh" /\ g \in Grants /\ grant[g] # "none"
        /\ TxInv(tx[w], request, grant, code, tokens, nextIssue)
        /\ RefreshInv(tx[w], grant, code, tokens)
    BY <1>1, WorkerFacts DEF TxInv
  <1>4. grant[g] \in States
    BY <1>3 DEF OAuthInv, TablesInv
  <1>5. t \in tokens /\ Row(t) = tx[w].row
    BY <1>1, <1>3 DEF RefreshInv
  <1>6. row \in Rows /\ \A k \in Kinds : \A i : <<k, i>> # row
    BY <1>3, RowNames DEF Kinds
  <1>7. \A u \in tokens : Row(u) # row
    BY <1>6, TokenFacts
  <1> HIDE DEF t
  <1>8. ASSUME NEW pc \in {"kill", "issue"}, Hold(w, row, pc),
               pc = "issue" => ~t.used /\ grant[g] # "revoked" /\ RoomToIssue
        PROVE  OAuthInv'
    <2>1. /\ Changes(w)
          /\ tx'[w].pc = pc /\ tx'[w].held = tx[w].held \cup {row}
          /\ tx'[w].op = tx[w].op /\ tx'[w].grant = tx[w].grant /\ tx'[w].row = tx[w].row
          /\ tx'[w].start = tx[w].start /\ tx'[w].todo = tx[w].todo
      BY <1>1, <1>6, <1>8, HoldEffect DEF Steps
    <2>2. PruneInv(tx'[w], tokens)
      BY <1>1, <1>3, <1>7, <2>1 DEF RefreshInv, PruneInv, Killing
    <2>3. pc = "issue" => grant[g] = "live" /\ \E u \in tokens : Row(u) = tx[w].row /\ ~u.used
      BY <1>3, <1>4, <1>5, <1>8 DEF States
    <2>4. RefreshInv(tx'[w], grant, code, tokens)
      BY <1>1, <1>3, <1>8, <2>1, <2>2, <2>3 DEF RefreshInv, Issuing, Killing
    <2>5. tx'[w] \in TxType
      BY <2>1 DEF Changes
    <2> HIDE DEF row
    <2>6. TxInv(tx'[w], request, grant, code, tokens, nextIssue)
      BY <1>3, <1>6, <1>8, <2>1, <2>4, <2>5 DEF TxInv, KillInv, Killing
    <2> QED  BY <1>1, <1>8, <2>1, <2>6, OneWorker DEF Issuing
  <1> QED  BY <1>1, <1>2, <1>8

\* A transaction that issues plans which expired tokens to delete, or locks them.
LEMMA PruneStepKeeps ==
    ASSUME OAuthInv, NEW w \in Workers, Issuing(tx[w]), Changes(w), UNCHANGED <<now, tables>>,
           tx'[w].pc = "prune", tx'[w].op = tx[w].op, tx'[w].grant = tx[w].grant,
           tx'[w].row = tx[w].row, tx'[w].start = tx[w].start, tx[w].held \subseteq tx'[w].held,
           PruneInv(tx'[w], tokens),
           \A k \in Kinds, i \in 1 .. MaxIssues : <<k, i>> \in tx'[w].held \cup tx'[w].todo => i < nextIssue
    PROVE  OAuthInv'
  <1>1. /\ tx[w].op \in {"exchange", "refresh"} /\ tx[w].grant \in Grants
        /\ TxInv(tx[w], request, grant, code, tokens, nextIssue)
    BY WorkerFacts DEF Issuing
  <1>2. tx[w].op = "exchange" => ExchangeInv(tx'[w], code, tokens)
    BY <1>1 DEF TxInv, ExchangeInv, Issuing, Killing
  <1>3. tx[w].op = "refresh" => RefreshInv(tx'[w], grant, code, tokens)
    BY <1>1 DEF TxInv, RefreshInv, Issuing, Killing
  <1>4. tx'[w] \in TxType
    BY DEF Changes
  <1>5. TxInv(tx'[w], request, grant, code, tokens, nextIssue)
    BY <1>1, <1>2, <1>3, <1>4 DEF TxInv, Killing
  <1> QED  BY <1>5, OneWorker

LEMMA IssueTokensPruneKeeps ==
    ASSUME OAuthInv, NEW w \in Workers, issueTokensPrune(w)
    PROVE  OAuthInv'
  <1> DEFINE old == {Row(t) : t \in {u \in TokensOf(tx[w].grant) : u.expires < tx[w].start - Retention}}
  <1>1. tx[w].pc = "issue" /\ UNCHANGED <<now, tables>> /\ Scan(w, old, "prune")
    BY DEF issueTokensPrune, At
  <1>2. TxInv(tx[w], request, grant, code, tokens, nextIssue) /\ PruneInv(tx[w], tokens)
    BY <1>1, WorkerFacts DEF TxInv, ExchangeInv, RefreshInv, Issuing, Killing
  <1>3. old \in SUBSET Rows
    BY TokenFacts, RowNames DEF TokensOf
  <1>4. \A u \in tokens : Row(u) \in old => u.grant = tx[w].grant /\ u.expires < tx[w].start - Retention
    BY TokenFacts DEF TokensOf
  <1>5. \A k \in Kinds, i \in 1 .. MaxIssues : <<k, i>> \in old => i < nextIssue
    BY TokenFacts DEF TokensOf
  <1> HIDE DEF old
  <1>6. /\ Changes(w)
        /\ tx'[w].pc = "prune" /\ tx'[w].todo = old /\ tx'[w].held = tx[w].held
        /\ tx'[w].op = tx[w].op /\ tx'[w].grant = tx[w].grant /\ tx'[w].row = tx[w].row
        /\ tx'[w].start = tx[w].start
    BY <1>1, <1>3, ScanEffect DEF Steps
  <1>7. PruneInv(tx'[w], tokens)
    BY <1>2, <1>4, <1>6 DEF PruneInv
  <1>8. \A k \in Kinds, i \in 1 .. MaxIssues : <<k, i>> \in tx'[w].held \cup tx'[w].todo => i < nextIssue
    BY <1>2, <1>5, <1>6 DEF TxInv
  <1> QED  BY <1>1, <1>6, <1>7, <1>8, PruneStepKeeps DEF Issuing

LEMMA IssueTokensPruneLockKeeps ==
    ASSUME OAuthInv, NEW w \in Workers, issueTokensPruneLock(w)
    PROVE  OAuthInv'
  <1> DEFINE rows == {row \in tx[w].todo : Free(w, row)}
             keep == {row \in rows : TokenExists(row)}
  <1>1. /\ tx[w].pc = "prune" /\ UNCHANGED <<now, tables>>
        /\ tx' = [tx EXCEPT ![w].todo = @ \ rows, ![w].held = @ \cup keep]
    BY DEF issueTokensPruneLock, LockRows, At
  <1>2. TxInv(tx[w], request, grant, code, tokens, nextIssue) /\ PruneInv(tx[w], tokens)
    BY <1>1, WorkerFacts DEF TxInv, ExchangeInv, RefreshInv, Issuing, Killing
  <1>3. keep \subseteq tx[w].todo /\ keep \in SUBSET rows
    OBVIOUS
  <1> HIDE DEF keep
  <1>4. /\ Changes(w)
        /\ tx'[w].pc = "prune" /\ tx'[w].todo = tx[w].todo \ rows
        /\ tx'[w].held = tx[w].held \cup keep
        /\ tx'[w].op = tx[w].op /\ tx'[w].grant = tx[w].grant /\ tx'[w].row = tx[w].row
        /\ tx'[w].start = tx[w].start
    BY <1>1, <1>3, LockEffect
  <1> HIDE DEF rows
  <1>5. PruneInv(tx'[w], tokens)
    BY <1>2, <1>3, <1>4 DEF PruneInv
  <1>6. \A k \in Kinds, i \in 1 .. MaxIssues : <<k, i>> \in tx'[w].held \cup tx'[w].todo => i < nextIssue
    BY <1>2, <1>3, <1>4 DEF TxInv
  <1> QED  BY <1>1, <1>4, <1>5, <1>6, PruneStepKeeps DEF Issuing

\* A transaction that ends a grant holds its row, or waits for the tokens.
LEMMA KillStepKeeps ==
    ASSUME OAuthInv, NEW w \in Workers, Killing(tx[w]), Changes(w), UNCHANGED <<now, tables>>,
           tx'[w].pc \in {"killTokens", "killLocks"}, tx'[w].op = tx[w].op,
           tx'[w].grant = tx[w].grant, tx'[w].row = tx[w].row, tx[w].held \subseteq tx'[w].held,
           <<"grant", tx[w].grant>> \in tx'[w].held,
           tx'[w].pc = "killLocks" =>
             \A u \in tokens : u.grant = tx[w].grant => Row(u) \in tx'[w].todo \cup tx'[w].held,
           \A k \in Kinds, i \in 1 .. MaxIssues : <<k, i>> \in tx'[w].held \cup tx'[w].todo => i < nextIssue
    PROVE  OAuthInv'
  <1>1. /\ tx[w].op \in {"exchange", "refresh", "revoke", "disconnect"} /\ tx[w].grant \in Grants
        /\ TxInv(tx[w], request, grant, code, tokens, nextIssue)
    BY WorkerFacts DEF Killing
  <1>2. Killing(tx'[w]) /\ ~Issuing(tx'[w]) /\ tx'[w].pc # "token" /\ tx[w].pc # "token"
    BY DEF Killing, Issuing
  <1>3. tx[w].op = "exchange" => ExchangeInv(tx'[w], code, tokens)
    BY <1>1, <1>2 DEF TxInv, ExchangeInv
  <1>4. tx[w].op = "refresh" => RefreshInv(tx'[w], grant, code, tokens)
    BY <1>1, <1>2 DEF TxInv, RefreshInv
  <1>5. KillInv(tx'[w], tokens)
    BY DEF KillInv
  <1>6. tx'[w] \in TxType
    BY DEF Changes
  <1>7. TxInv(tx'[w], request, grant, code, tokens, nextIssue)
    BY <1>1, <1>2, <1>3, <1>4, <1>5, <1>6 DEF TxInv
  <1> QED  BY <1>2, <1>7, OneWorker

LEMMA RevokeGrantKeeps ==
    ASSUME OAuthInv, NEW w \in Workers, revokeGrant(w)
    PROVE  OAuthInv'
  <1> DEFINE row == <<"grant", tx[w].grant>>
  <1>1. /\ tx[w].pc = "kill" /\ UNCHANGED <<now, tables>> /\ Free(w, row)
        /\ Finish(w) \/ Hold(w, row, "killTokens")
    BY DEF revokeGrant, At
  <1>2. CASE Finish(w)
    BY <1>1, <1>2, FinishKeeps
  <1>3. CASE Hold(w, row, "killTokens")
    <2>1. tx[w].grant \in Grants /\ TxInv(tx[w], request, grant, code, tokens, nextIssue)
      BY <1>1, WorkerFacts
    <2>2. row \in Rows /\ \A k \in Kinds : \A i : <<k, i>> # row
      BY <2>1, RowNames DEF Kinds
    <2>3. /\ Changes(w)
          /\ tx'[w].pc = "killTokens" /\ tx'[w].held = tx[w].held \cup {row}
          /\ tx'[w].op = tx[w].op /\ tx'[w].grant = tx[w].grant /\ tx'[w].row = tx[w].row
          /\ tx'[w].todo = tx[w].todo
      BY <1>1, <1>3, <2>2, HoldEffect DEF Steps
    <2>4. \A k \in Kinds, i \in 1 .. MaxIssues : <<k, i>> \in tx'[w].held \cup tx'[w].todo => i < nextIssue
      BY <2>1, <2>2, <2>3 DEF TxInv
    <2> QED  BY <1>1, <2>3, <2>4, KillStepKeeps DEF Killing
  <1> QED  BY <1>1, <1>2, <1>3

\* A worker that has begun to end a grant holds the row of the grant.
LEMMA KillerHolds ==
    ASSUME OAuthInv, NEW w \in Workers, tx[w].pc \in {"killTokens", "killLocks"}
    PROVE  <<"grant", tx[w].grant>> \in tx[w].held
  BY WorkerFacts DEF TxInv, KillInv, Killing

LEMMA RevokeGrantTokensKeeps ==
    ASSUME OAuthInv, NEW w \in Workers, revokeGrantTokens(w)
    PROVE  OAuthInv'
  <1> DEFINE all == {Row(t) : t \in TokensOf(tx[w].grant)}
  <1>1. tx[w].pc = "killTokens" /\ UNCHANGED <<now, tables>> /\ Scan(w, all, "killLocks")
    BY DEF revokeGrantTokens, At
  <1>2. TxInv(tx[w], request, grant, code, tokens, nextIssue)
    BY WorkerFacts
  <1>3. all \in SUBSET Rows
    BY TokenFacts, RowNames DEF TokensOf
  <1>4. \A u \in tokens : u.grant = tx[w].grant => Row(u) \in all
    BY DEF TokensOf
  <1>5. \A k \in Kinds, i \in 1 .. MaxIssues : <<k, i>> \in all => i < nextIssue
    BY TokenFacts DEF TokensOf
  <1> HIDE DEF all
  <1>6. /\ Changes(w)
        /\ tx'[w].pc = "killLocks" /\ tx'[w].todo = all /\ tx'[w].held = tx[w].held
        /\ tx'[w].op = tx[w].op /\ tx'[w].grant = tx[w].grant /\ tx'[w].row = tx[w].row
    BY <1>1, <1>3, ScanEffect DEF Steps
  <1>7. \A k \in Kinds, i \in 1 .. MaxIssues : <<k, i>> \in tx'[w].held \cup tx'[w].todo => i < nextIssue
    BY <1>2, <1>5, <1>6 DEF TxInv
  <1> QED  BY <1>1, <1>4, <1>6, <1>7, KillerHolds, KillStepKeeps DEF Killing

LEMMA RevokeGrantLockKeeps ==
    ASSUME OAuthInv, NEW w \in Workers, revokeGrantLock(w)
    PROVE  OAuthInv'
  <1> DEFINE rows == {row \in tx[w].todo : Free(w, row)}
             keep == {row \in rows : TokenExists(row)}
  <1>1. /\ tx[w].pc = "killLocks" /\ UNCHANGED <<now, tables>>
        /\ tx' = [tx EXCEPT ![w].todo = @ \ rows, ![w].held = @ \cup keep]
    BY DEF revokeGrantLock, LockRows, At
  <1>2. TxInv(tx[w], request, grant, code, tokens, nextIssue)
    BY WorkerFacts
  <1>3. keep \subseteq tx[w].todo /\ keep \in SUBSET rows
    OBVIOUS
  <1>4. \A u \in tokens : Row(u) \in rows => Row(u) \in keep
    BY DEF TokenExists
  <1> HIDE DEF keep
  <1>5. /\ Changes(w)
        /\ tx'[w].pc = "killLocks" /\ tx'[w].todo = tx[w].todo \ rows
        /\ tx'[w].held = tx[w].held \cup keep
        /\ tx'[w].op = tx[w].op /\ tx'[w].grant = tx[w].grant /\ tx'[w].row = tx[w].row
    BY <1>1, <1>3, LockEffect
  <1> HIDE DEF rows
  <1>6. \A k \in Kinds, i \in 1 .. MaxIssues : <<k, i>> \in tx'[w].held \cup tx'[w].todo => i < nextIssue
    BY <1>2, <1>3, <1>5 DEF TxInv
  <1>7. CASE tx[w].op \in {"exchange", "refresh"}
    <2>1. \A u \in tokens : u.grant = tx[w].grant => Row(u) \in tx[w].todo \cup tx[w].held
      BY <1>1, <1>2, <1>7 DEF TxInv, KillInv, Killing
    <2>2. \A u \in tokens : u.grant = tx[w].grant => Row(u) \in tx'[w].todo \cup tx'[w].held
      BY <1>4, <1>5, <2>1
    <2> QED  BY <1>1, <1>5, <1>6, <2>2, KillerHolds, KillStepKeeps DEF Killing
  <1>8. CASE tx[w].op \in {"revoke", "disconnect"}
    <2>1. tx'[w] \in TxType /\ tx[w].grant \in Grants
      BY <1>1, <1>5, WorkerFacts DEF Changes
    <2>2. <<"grant", tx[w].grant>> \in tx'[w].held
      BY <1>1, <1>5, KillerHolds
    <2>3. TxInv(tx'[w], request, grant, code, tokens, nextIssue)
      BY <1>2, <1>5, <1>6, <1>8, <2>1, <2>2 DEF TxInv, Killing
    <2> QED  BY <1>1, <1>5, <2>3, OneWorker DEF Issuing
  <1> QED  BY <1>1, <1>7, <1>8, WorkerFacts DEF Killing

-----------------------------------------------------------------------------
(* A transaction commits *)

\* What the locks of a transaction protect is still so after another's commit.
LEMMA StillHolds ==
    ASSUME NEW t, NEW Q, NEW G, NEW C, NEW T, NEW n \in Nat,
           NEW QQ, NEW GG, NEW CC, NEW TT, NEW nn \in Nat,
           TxInv(t, Q, G, C, T, n), n <= nn,
           \A g \in Grants : <<"request", g>> \in t.held /\ Q[g].state = "pending" =>
                               QQ[g].state = "pending",
           \A g \in Grants : <<"grant", g>> \in t.held /\ G[g] = "live" => GG[g] = "live",
           \A g \in Grants : <<"code", g>> \in t.held /\ ~C[g].used => ~CC[g].used,
           \A g \in Grants : G[g] # "none" => GG[g] # "none" /\ (C[g].used => CC[g].used),
           \A u \in TT :
             \/ \E v \in T : Row(v) = Row(u) /\ v.grant = u.grant /\ v.expires = u.expires
             \/ /\ Row(u) \notin t.held \cup t.todo \cup {t.row}
                /\ t.op \in {"exchange", "refresh"} /\ t.pc = "killLocks" => u.grant # t.grant,
           t.op = "refresh" => \A u \in T : Row(u) = t.row /\ t.row \in t.held =>
                                 \E v \in TT : Row(v) = t.row /\ (~u.used => ~v.used)
    PROVE  TxInv(t, QQ, GG, CC, TT, nn)
  <1>1. t.op # "none" => t.grant \in Grants
    BY DEF TxInv
  <1>2. t.op \in {"approve", "deny"} => DecisionInv(t, QQ, GG)
    BY <1>1 DEF TxInv, DecisionInv
  <1>3. ASSUME t.op \in {"exchange", "refresh"}, ~Killing(t), PruneInv(t, T)
        PROVE  PruneInv(t, TT)
    BY <1>3 DEF PruneInv
  <1>4. t.op = "exchange" => ExchangeInv(t, CC, TT)
    BY <1>1, <1>3 DEF TxInv, ExchangeInv
  <1>5. t.op = "refresh" => RefreshInv(t, GG, CC, TT)
    <2> HAVE t.op = "refresh"
    <2>1. RefreshInv(t, G, C, T) /\ G[t.grant] # "none" /\ t.grant \in Grants
      BY DEF TxInv
    <2>2. CC[t.grant].used
      BY <2>1 DEF RefreshInv
    <2>3. \A u \in TT : Row(u) = t.row => u.grant = t.grant
      BY <2>1 DEF RefreshInv
    <2>4. t.pc # "token" => t.row \in t.held /\ \E u \in TT : Row(u) = t.row
      BY <2>1 DEF RefreshInv
    <2>5. Issuing(t) => /\ <<"grant", t.grant>> \in t.held /\ GG[t.grant] = "live"
                        /\ \E u \in TT : Row(u) = t.row /\ ~u.used
      <3> HAVE Issuing(t)
      <3>1. <<"grant", t.grant>> \in t.held /\ G[t.grant] = "live" /\ t.row \in t.held
        BY <2>1 DEF RefreshInv, Issuing
      <3>2. PICK u \in T : Row(u) = t.row /\ ~u.used
        BY <2>1 DEF RefreshInv
      <3> QED  BY <2>1, <3>1, <3>2
    <2> QED  BY <1>3, <2>1, <2>2, <2>3, <2>4, <2>5 DEF RefreshInv
  <1>6. t.op \in {"exchange", "refresh"} /\ Killing(t) => KillInv(t, TT)
    BY DEF TxInv, KillInv
  <1>7. t \in TxType
    BY DEF TxInv
  <1>8. \A k \in Kinds, i \in 1 .. MaxIssues : <<k, i>> \in t.held \cup t.todo \cup {t.row} => i < nn
    BY DEF TxInv
  <1> QED  BY <1>1, <1>2, <1>4, <1>5, <1>6, <1>7, <1>8 DEF TxInv

LEMMA StillHoldsTokens ==
    ASSUME NEW t, NEW Q, NEW G, NEW C, NEW T, NEW n \in Nat, NEW QQ, NEW GG, NEW CC,
           TxInv(t, Q, G, C, T, n),
           \A g \in Grants : <<"request", g>> \in t.held /\ Q[g].state = "pending" =>
                               QQ[g].state = "pending",
           \A g \in Grants : <<"grant", g>> \in t.held /\ G[g] = "live" => GG[g] = "live",
           \A g \in Grants : <<"code", g>> \in t.held /\ ~C[g].used => ~CC[g].used,
           \A g \in Grants : G[g] # "none" => GG[g] # "none" /\ (C[g].used => CC[g].used)
    PROVE  TxInv(t, QQ, GG, CC, T, n)
  <1>1. \A u \in T : \E v \in T : Row(v) = Row(u) /\ v.grant = u.grant /\ v.expires = u.expires
    OBVIOUS
  <1>2. \A u \in T : Row(u) = t.row /\ t.row \in t.held =>
                     \E v \in T : Row(v) = t.row /\ (~u.used => ~v.used)
    OBVIOUS
  <1>3. n <= n
    OBVIOUS
  <1> QED  BY <1>1, <1>2, <1>3, StillHolds

LEMMA CommitFrame ==
    ASSUME OAuthInv, NEW w \in Workers, Finish(w), now' = now,
           TablesInv(request, grant, code, tokens, nextIssue, replayed)',
           \A v \in Workers \ {w} : TxInv(tx[v], request', grant', code', tokens', nextIssue'),
           nextIssue' = nextIssue \/ (Issuing(tx[w]) /\ nextIssue' = nextIssue + 1)
    PROVE  OAuthInv'
  <1>1. Changes(w) /\ tx'[w] = Idle /\ \A v \in Workers \ {w} : tx'[v] = tx[v]
    BY FinishEffect DEF Changes
  <1>2. \A v \in Workers : TxInv(tx'[v], request', grant', code', tokens', nextIssue')
    BY <1>1, IdleInv
  <1>3. LocksApart'
    BY <1>1 DEF OAuthInv, Changes, LocksApart
  <1>4. nextIssue' + Cardinality(Issuers') <= MaxIssues + 1
    <2>1. Issuers' = Issuers \ {w}
      BY <1>1, IdleType DEF Issuers, Issuing
    <2>2. IsFiniteSet(Issuers) /\ Cardinality(Issuers) \in Nat
      BY OAuthAssumption, FS_Subset, FS_CardinalityType DEF Issuers
    <2>3. /\ Cardinality(Issuers') = IF w \in Issuers THEN Cardinality(Issuers) - 1
                                     ELSE Cardinality(Issuers)
      BY <2>1, <2>2, FS_RemoveElement
    <2>4. Issuing(tx[w]) => w \in Issuers
      BY DEF Issuers
    <2>5. nextIssue \in Nat /\ MaxIssues \in Nat /\ nextIssue + Cardinality(Issuers) <= MaxIssues + 1
      BY OAuthAssumption DEF OAuthInv, TablesInv
    <2> QED  BY <2>2, <2>3, <2>4, <2>5
  <1>5. tx' \in [Workers -> TxType]
    BY <1>1 DEF Changes
  <1> QED  BY <1>2, <1>3, <1>4, <1>5 DEF OAuthInv

\* Every request, grant, code and token of the tables, spelled out.
LEMMA TableFacts ==
    ASSUME OAuthInv
    PROVE  /\ request \in [Grants -> [state: {"none", "pending", "gone"}, expires: Times]]
           /\ grant \in [Grants -> States]
           /\ code \in [Grants -> [used: BOOLEAN, expires: Times]]
           /\ tokens \subseteq Token /\ replayed \subseteq Grants
           /\ nextIssue \in 1 .. MaxIssues + 1 /\ nextIssue \in Nat
           /\ \A g \in Grants : /\ request[g].state # "gone" => grant[g] = "none"
                                /\ code[g].used => grant[g] # "none"
           /\ \A g \in replayed : /\ grant[g] = "revoked" /\ code[g].used
                                  /\ \A u \in tokens : u.grant = g => u.revoked
  BY OAuthAssumption DEF OAuthInv, TablesInv

\* The row of a grant is held by one transaction.
LEMMA HeldByOne ==
    ASSUME OAuthInv, NEW w \in Workers, NEW v \in Workers \ {w}, NEW row \in tx[w].held
    PROVE  row \notin tx[v].held
  BY DEF OAuthInv, LocksApart

LEMMA DenyKeeps ==
    ASSUME OAuthInv, NEW w \in Workers, Deny(w)
    PROVE  OAuthInv'
  <1> DEFINE g == tx[w].grant
  <1>1. /\ tx[w].pc = "deny" /\ Finish(w)
        /\ request' = [request EXCEPT ![g].state = "gone"]
        /\ UNCHANGED <<now, grant, code, tokens, nextIssue, replayed>>
    BY DEF Deny, At
  <1>2. g \in Grants /\ <<"request", g>> \in tx[w].held
    BY <1>1, WorkerFacts DEF TxInv, DecisionInv
  <1>3. /\ request' \in [Grants -> [state: {"none", "pending", "gone"}, expires: Times]]
        /\ \A h \in Grants \ {g} : request'[h] = request[h]
        /\ request'[g].state = "gone"
    BY <1>1, <1>2, TableFacts
  <1>4. TablesInv(request, grant, code, tokens, nextIssue, replayed)'
    BY <1>1, <1>3 DEF OAuthInv, TablesInv
  <1>5. ASSUME NEW v \in Workers \ {w}
        PROVE  TxInv(tx[v], request', grant', code', tokens', nextIssue')
    <2>1. TxInv(tx[v], request, grant, code, tokens, nextIssue) /\ nextIssue \in Nat
      BY TableFacts DEF OAuthInv
    <2>2. <<"request", g>> \notin tx[v].held
      BY <1>2, HeldByOne
    <2>3. \A h \in Grants : <<"request", h>> \in tx[v].held /\ request[h].state = "pending" =>
                              request'[h].state = "pending"
      BY <1>3, <2>2
    <2> HIDE DEF g
    <2>4. TxInv(tx[v], request', grant, code, tokens, nextIssue)
      BY <2>1, <2>3, StillHoldsTokens
    <2> QED  BY <1>1, <2>4
  <1> QED  BY <1>1, <1>4, <1>5, CommitFrame

LEMMA ApproveCommitKeeps ==
    ASSUME OAuthInv, NEW w \in Workers, ApproveCommit(w)
    PROVE  OAuthInv'
  <1> DEFINE g == tx[w].grant
             fresh == [used |-> FALSE, expires |-> tx[w].start + CodeLife]
  <1>1. /\ tx[w].pc = "replace" /\ Finish(w)
        /\ request' = [request EXCEPT ![g].state = "gone"]
        /\ grant' = [h \in Grants |-> IF h = g THEN "live"
                                      ELSE IF <<"grant", h>> \in tx[w].held THEN "revoked"
                                      ELSE grant[h]]
        /\ code' = [code EXCEPT ![g] = fresh]
        /\ UNCHANGED <<now, tokens, nextIssue, replayed>>
    BY DEF ApproveCommit, At
  <1>2. /\ g \in Grants /\ <<"request", g>> \in tx[w].held /\ request[g].state = "pending"
        /\ \A h \in Grants : <<"grant", h>> \in tx[w].held => grant[h] = "live"
    BY <1>1, WorkerFacts DEF TxInv, DecisionInv
  <1>3. grant[g] = "none" /\ ~code[g].used
    BY <1>2, TableFacts
  <1>4. fresh \in [used: BOOLEAN, expires: Times] /\ ~fresh.used
    <2>1. tx[w].start \in 0 .. MaxTime
      BY WorkerFacts DEF TxType
    <2> QED  BY <2>1, OAuthAssumption DEF Times
  <1> HIDE DEF fresh
  <1>5. /\ request' \in [Grants -> [state: {"none", "pending", "gone"}, expires: Times]]
        /\ \A h \in Grants \ {g} : request'[h] = request[h]
        /\ request'[g].state = "gone"
    BY <1>1, <1>2, TableFacts
  <1>6. /\ code' \in [Grants -> [used: BOOLEAN, expires: Times]]
        /\ \A h \in Grants \ {g} : code'[h] = code[h]
        /\ ~code'[g].used
    BY <1>1, <1>2, <1>4, TableFacts
  <1>7. /\ grant' \in [Grants -> States]
        /\ grant'[g] = "live"
        /\ \A h \in Grants \ {g} :
             /\ <<"grant", h>> \in tx[w].held => grant'[h] = "revoked"
             /\ <<"grant", h>> \notin tx[w].held => grant'[h] = grant[h]
    BY <1>1, <1>2, TableFacts DEF States
  <1> HIDE DEF g
  <1>8. TablesInv(request, grant, code, tokens, nextIssue, replayed)'
    <2>1. \A h \in Grants : /\ request'[h].state # "gone" => grant'[h] = "none"
                            /\ code'[h].used => grant'[h] # "none"
      <3> SUFFICES ASSUME NEW h \in Grants
                   PROVE  /\ request'[h].state # "gone" => grant'[h] = "none"
                          /\ code'[h].used => grant'[h] # "none"
        OBVIOUS
      <3>1. CASE h = g
        BY <1>5, <1>6, <3>1
      <3>2. CASE h # g
        <4>1. request'[h] = request[h] /\ code'[h] = code[h]
          BY <1>5, <1>6, <3>2
        <4>2. /\ request[h].state # "gone" => grant[h] = "none"
              /\ code[h].used => grant[h] # "none"
          BY TableFacts
        <4>3. CASE <<"grant", h>> \in tx[w].held
          BY <1>2, <1>7, <3>2, <4>1, <4>2, <4>3
        <4>4. CASE <<"grant", h>> \notin tx[w].held
          BY <1>7, <3>2, <4>1, <4>2, <4>4
        <4> QED  BY <4>3, <4>4
      <3> QED  BY <3>1, <3>2
    <2>2. \A h \in Grants : grant'[h] = "live" /\ code'[h].used =>
            \E u \in Spendable(h, tokens) : \A v \in Spendable(h, tokens) : v.issue = u.issue
      <3> SUFFICES ASSUME NEW h \in Grants, grant'[h] = "live", code'[h].used
                   PROVE  \E u \in Spendable(h, tokens) : \A v \in Spendable(h, tokens) : v.issue = u.issue
        OBVIOUS
      <3>1. h # g /\ grant[h] = "live" /\ code[h].used
        BY <1>6, <1>7
      <3> QED  BY <3>1 DEF OAuthInv, TablesInv
    <2>3. \A u \in tokens : u.issue < nextIssue /\ code'[u.grant].used
      BY <1>3, <1>6, TokenFacts
    <2>4. \A h \in replayed : grant'[h] = "revoked" /\ code'[h].used
      <3> SUFFICES ASSUME NEW h \in replayed  PROVE grant'[h] = "revoked" /\ code'[h].used
        OBVIOUS
      <3>1. h \in Grants /\ grant[h] = "revoked" /\ code[h].used
        BY TableFacts
      <3>2. h # g /\ <<"grant", h>> \notin tx[w].held
        BY <1>2, <1>3, <3>1
      <3> QED  BY <1>6, <1>7, <3>1, <3>2
    <2>5. \A u, v \in tokens : Row(u) = Row(v) => u = v
      BY DEF OAuthInv, TablesInv
    <2>6. \A h \in replayed : \A u \in tokens : u.grant = h => u.revoked
      BY TableFacts
    <2>7. TablesInv(request', grant', code', tokens, nextIssue, replayed)
      BY <1>5, <1>6, <1>7, <2>1, <2>2, <2>3, <2>4, <2>5, <2>6, TableFacts DEF TablesInv
    <2> QED  BY <1>1, <2>7
  <1>9. ASSUME NEW v \in Workers \ {w}
        PROVE  TxInv(tx[v], request', grant', code', tokens', nextIssue')
    <2>1. TxInv(tx[v], request, grant, code, tokens, nextIssue) /\ nextIssue \in Nat
      BY TableFacts DEF OAuthInv
    <2>2. \A h \in Grants : <<"request", h>> \in tx[v].held /\ request[h].state = "pending" =>
                              request'[h].state = "pending"
      BY <1>2, <1>5, HeldByOne
    <2>3. \A h \in Grants : <<"grant", h>> \in tx[v].held /\ grant[h] = "live" => grant'[h] = "live"
      BY <1>3, <1>7, HeldByOne
    <2>4. \A h \in Grants : /\ <<"code", h>> \in tx[v].held /\ ~code[h].used => ~code'[h].used
                            /\ grant[h] # "none" => grant'[h] # "none" /\ (code[h].used => code'[h].used)
      BY <1>3, <1>6, <1>7
    <2>5. TxInv(tx[v], request', grant', code', tokens, nextIssue)
      BY <2>1, <2>2, <2>3, <2>4, StillHoldsTokens, ZenonT(60)
    <2> QED  BY <1>1, <2>5
  <1> QED  BY <1>1, <1>8, <1>9, CommitFrame

\* Of the tokens T some, S among them, become revoked; nothing else changes.
Marks(S, T, TT) ==
  /\ TT \subseteq Token
  /\ \A u \in TT : \E v \in T :
       /\ Row(v) = Row(u) /\ v.grant = u.grant /\ v.expires = u.expires
       /\ v.kind = u.kind /\ v.issue = u.issue /\ (v.used <=> u.used)
       /\ (Row(u) \in S \/ v.revoked) => u.revoked
  /\ \A v \in T : \E u \in TT :
       /\ Row(v) = Row(u) /\ v.grant = u.grant
       /\ v.kind = u.kind /\ v.issue = u.issue /\ (v.used <=> u.used)
  /\ \A u, v \in TT : Row(u) = Row(v) => u = v

LEMMA MarkTokens ==
    ASSUME OAuthInv, NEW S,
           tokens' = {IF Row(t) \in S THEN [t EXCEPT !.revoked = TRUE] ELSE t : t \in tokens}
    PROVE  Marks(S, tokens, tokens')
  <1> DEFINE Mark(t) == IF Row(t) \in S THEN [t EXCEPT !.revoked = TRUE] ELSE t
  <1>1. tokens' = {Mark(t) : t \in tokens}
    OBVIOUS
  <1>2. \A t \in tokens :
          /\ Mark(t) \in Token /\ Row(Mark(t)) = Row(t)
          /\ Mark(t).grant = t.grant /\ Mark(t).expires = t.expires
          /\ Mark(t).kind = t.kind /\ Mark(t).issue = t.issue /\ (Mark(t).used <=> t.used)
          /\ (Row(t) \in S \/ t.revoked) => Mark(t).revoked
    <2> SUFFICES ASSUME NEW t \in tokens
                 PROVE  /\ Mark(t) \in Token /\ Row(Mark(t)) = Row(t)
                        /\ Mark(t).grant = t.grant /\ Mark(t).expires = t.expires
                        /\ Mark(t).kind = t.kind /\ Mark(t).issue = t.issue
                        /\ (Mark(t).used <=> t.used)
                        /\ (Row(t) \in S \/ t.revoked) => Mark(t).revoked
      OBVIOUS
    <2>1. t \in Token
      BY TableFacts
    <2>2. CASE Row(t) \notin S
      BY <2>1, <2>2
    <2>3. CASE Row(t) \in S
      BY <2>1, <2>3 DEF Token, Row
    <2> QED  BY <2>2, <2>3
  <1>3. \A u, v \in tokens : Row(u) = Row(v) => u = v
    BY DEF OAuthInv, TablesInv
  <1> HIDE DEF Mark
  <1> QED  BY <1>1, <1>2, <1>3 DEF Marks

\* Revoking some tokens keeps the tables, if only live grants become revoked.
LEMMA MarkKeepsTables ==
    ASSUME OAuthInv, NEW S, Marks(S, tokens, tokens'),
           UNCHANGED <<request, code, nextIssue>>,
           grant' \in [Grants -> States], replayed' \subseteq Grants,
           \A g \in Grants : grant'[g] # grant[g] => grant'[g] = "revoked" /\ grant[g] # "none",
           \A g \in replayed : grant'[g] = "revoked",
           \A g \in replayed' \ replayed :
             /\ grant'[g] = "revoked" /\ code[g].used
             /\ \A u \in tokens : u.grant = g => Row(u) \in S
    PROVE  TablesInv(request, grant, code, tokens, nextIssue, replayed)'
  <1>1. \A g \in Grants : /\ request[g].state # "gone" => grant'[g] = "none"
                          /\ code[g].used => grant'[g] # "none"
    BY TableFacts
  <1>2. \A g \in Grants : grant'[g] = "live" /\ code[g].used =>
          \E u \in Spendable(g, tokens') : \A v \in Spendable(g, tokens') : v.issue = u.issue
    <2> SUFFICES ASSUME NEW g \in Grants, grant'[g] = "live", code[g].used
                 PROVE  \E u \in Spendable(g, tokens') :
                          \A v \in Spendable(g, tokens') : v.issue = u.issue
      OBVIOUS
    <2>1. grant[g] = "live"
      OBVIOUS
    <2>2. PICK u \in Spendable(g, tokens) : \A v \in Spendable(g, tokens) : v.issue = u.issue
      BY <2>1 DEF OAuthInv, TablesInv
    <2>3. \A v \in Spendable(g, tokens') : v.issue = u.issue
      <3> SUFFICES ASSUME NEW v \in Spendable(g, tokens')  PROVE v.issue = u.issue
        OBVIOUS
      <3>1. v \in tokens' /\ v.grant = g /\ v.kind = "refresh" /\ ~v.used
        BY DEF Spendable
      <3>2. PICK x \in tokens : /\ x.grant = v.grant /\ x.kind = v.kind
                                /\ x.issue = v.issue /\ (x.used <=> v.used)
        BY <3>1 DEF Marks
      <3>3. x \in Spendable(g, tokens)
        BY <3>1, <3>2 DEF Spendable
      <3> QED  BY <2>2, <3>2, <3>3
    <2>4. u \in tokens /\ u.grant = g /\ u.kind = "refresh" /\ ~u.used
      BY <2>2 DEF Spendable
    <2>5. PICK y \in tokens' : y.grant = u.grant /\ y.kind = u.kind /\ y.issue = u.issue
                               /\ (u.used <=> y.used)
      BY <2>4 DEF Marks
    <2>6. y \in Spendable(g, tokens')
      BY <2>4, <2>5 DEF Spendable
    <2> QED  BY <2>3, <2>5, <2>6
  <1>3. \A u \in tokens' : u.issue < nextIssue /\ code[u.grant].used
    <2> SUFFICES ASSUME NEW u \in tokens'  PROVE u.issue < nextIssue /\ code[u.grant].used
      OBVIOUS
    <2>1. PICK x \in tokens : x.grant = u.grant /\ x.issue = u.issue
      BY DEF Marks
    <2>2. x.issue < nextIssue /\ code[x.grant].used
      BY TokenFacts
    <2> QED  BY <2>1, <2>2
  <1>4. \A g \in replayed' : grant'[g] = "revoked" /\ code[g].used
                             /\ \A u \in tokens' : u.grant = g => u.revoked
    <2> SUFFICES ASSUME NEW g \in replayed'
                 PROVE  grant'[g] = "revoked" /\ code[g].used
                        /\ \A u \in tokens' : u.grant = g => u.revoked
      OBVIOUS
    <2>1. \A u \in tokens' : \E v \in tokens :
            Row(v) = Row(u) /\ v.grant = u.grant /\ ((Row(u) \in S \/ v.revoked) => u.revoked)
      BY DEF Marks
    <2>2. CASE g \in replayed
      <3>1. grant'[g] = "revoked" /\ code[g].used /\ \A u \in tokens : u.grant = g => u.revoked
        BY <2>2, TableFacts
      <3> QED  BY <2>1, <3>1
    <2>3. CASE g \notin replayed
      BY <2>1, <2>3
    <2> QED  BY <2>2, <2>3
  <1>5. tokens' \subseteq Token /\ \A u, v \in tokens' : Row(u) = Row(v) => u = v
    BY DEF Marks
  <1>6. /\ request \in [Grants -> [state: {"none", "pending", "gone"}, expires: Times]]
        /\ code \in [Grants -> [used: BOOLEAN, expires: Times]]
        /\ nextIssue \in 1 .. MaxIssues + 1
    BY TableFacts
  <1>7. TablesInv(request, grant', code, tokens', nextIssue, replayed')
    BY <1>1, <1>2, <1>3, <1>4, <1>5, <1>6 DEF TablesInv
  <1> QED  BY <1>7

\* What other transactions rely on survives the revocation of tokens, if nobody
\* else holds a grant that ends.
LEMMA MarkStillHolds ==
    ASSUME OAuthInv, NEW S, NEW v \in Workers, Marks(S, tokens, tokens'),
           UNCHANGED <<request, code, nextIssue>>,
           \A g \in Grants : grant'[g] # grant[g] =>
             grant[g] # "none" /\ grant'[g] # "none" /\ <<"grant", g>> \notin tx[v].held
    PROVE  TxInv(tx[v], request', grant', code', tokens', nextIssue')
  <1>1. TxInv(tx[v], request, grant, code, tokens, nextIssue) /\ nextIssue \in Nat
    BY TableFacts DEF OAuthInv
  <1>2. \A u \in tokens' :
          \/ \E x \in tokens : Row(x) = Row(u) /\ x.grant = u.grant /\ x.expires = u.expires
          \/ /\ Row(u) \notin tx[v].held \cup tx[v].todo \cup {tx[v].row}
             /\ tx[v].op \in {"exchange", "refresh"} /\ tx[v].pc = "killLocks" => u.grant # tx[v].grant
    BY DEF Marks
  <1>3. \A u \in tokens : Row(u) = tx[v].row /\ tx[v].row \in tx[v].held =>
                            \E x \in tokens' : Row(x) = tx[v].row /\ (~u.used => ~x.used)
    BY DEF Marks
  <1>4. /\ \A g \in Grants : <<"grant", g>> \in tx[v].held /\ grant[g] = "live" => grant'[g] = "live"
        /\ \A g \in Grants : grant[g] # "none" => grant'[g] # "none"
    OBVIOUS
  <1>5. nextIssue <= nextIssue
    BY <1>1
  <1>6. TxInv(tx[v], request, grant', code, tokens', nextIssue)
    BY <1>1, <1>2, <1>3, <1>4, <1>5, StillHolds
  <1> QED  BY <1>6

LEMMA RevokeAccessKeeps ==
    ASSUME OAuthInv, NEW w \in Workers, RevokeAccess(w)
    PROVE  OAuthInv'
  <1> DEFINE S == {tx[w].row}
  <1>1. /\ Finish(w) /\ UNCHANGED <<now, request, grant, code, nextIssue, replayed>>
        /\ tokens' = {IF Row(t) \in S THEN [t EXCEPT !.revoked = TRUE] ELSE t : t \in tokens}
    BY DEF RevokeAccess
  <1> HIDE DEF S
  <1>2. Marks(S, tokens, tokens')
    BY <1>1, MarkTokens
  <1>3. TablesInv(request, grant, code, tokens, nextIssue, replayed)'
    <2>1. /\ grant' \in [Grants -> States] /\ replayed' \subseteq Grants /\ grant' = grant
          /\ replayed' \ replayed = {} /\ \A g \in replayed : grant'[g] = "revoked"
      BY <1>1, TableFacts
    <2> QED  BY <1>1, <1>2, <2>1, MarkKeepsTables
  <1>4. \A v \in Workers \ {w} : TxInv(tx[v], request', grant', code', tokens', nextIssue')
    BY <1>1, <1>2, MarkStillHolds
  <1> QED  BY <1>1, <1>3, <1>4, CommitFrame

LEMMA RevokeGrantCommitKeeps ==
    ASSUME OAuthInv, NEW w \in Workers, revokeGrantCommit(w)
    PROVE  OAuthInv'
  <1> DEFINE g == tx[w].grant
             S == tx[w].held
  <1>1. /\ tx[w].pc = "killLocks" /\ tx[w].todo = {} /\ Finish(w)
        /\ grant' = [grant EXCEPT ![g] = "revoked"]
        /\ tokens' = {IF Row(t) \in S THEN [t EXCEPT !.revoked = TRUE] ELSE t : t \in tokens}
        /\ replayed' = IF tx[w].op \in {"exchange", "refresh"} THEN replayed \cup {g} ELSE replayed
        /\ UNCHANGED <<now, request, code, nextIssue>>
    BY DEF revokeGrantCommit, At
  <1>2. g \in Grants /\ TxInv(tx[w], request, grant, code, tokens, nextIssue)
        /\ tx[w].op \in {"exchange", "refresh", "revoke", "disconnect"}
    BY <1>1, WorkerFacts DEF Killing
  <1>3. grant[g] # "none"
    BY <1>2 DEF TxInv
  <1>4. <<"grant", g>> \in S
    BY <1>1, KillerHolds
  <1>5. tx[w].op \in {"exchange", "refresh"} =>
          code[g].used /\ \A u \in tokens : u.grant = g => Row(u) \in S
    BY <1>1, <1>2 DEF TxInv, KillInv, ExchangeInv, RefreshInv, Killing
  <1> HIDE DEF g, S
  <1>6. /\ grant' \in [Grants -> States]
        /\ grant'[g] = "revoked" /\ \A h \in Grants \ {g} : grant'[h] = grant[h]
    BY <1>1, <1>2, TableFacts DEF States
  <1>7. replayed' \subseteq Grants /\ \A h \in replayed : grant'[h] = "revoked"
    BY <1>1, <1>2, <1>6, TableFacts
  <1>8. \A h \in replayed' \ replayed :
          grant'[h] = "revoked" /\ code[h].used /\ \A u \in tokens : u.grant = h => Row(u) \in S
    BY <1>1, <1>5, <1>6
  <1>9. \A h \in Grants : grant'[h] # grant[h] => grant'[h] = "revoked" /\ grant[h] # "none" /\ h = g
    BY <1>3, <1>6
  <1>10. Marks(S, tokens, tokens')
    BY <1>1, MarkTokens
  <1>11. TablesInv(request, grant, code, tokens, nextIssue, replayed)'
    BY <1>1, <1>6, <1>7, <1>8, <1>9, <1>10, MarkKeepsTables
  <1>12. ASSUME NEW v \in Workers \ {w}
         PROVE  TxInv(tx[v], request', grant', code', tokens', nextIssue')
    <2>1. <<"grant", g>> \notin tx[v].held
      BY <1>4, HeldByOne DEF S
    <2>2. \A h \in Grants : grant'[h] # grant[h] =>
            grant[h] # "none" /\ grant'[h] # "none" /\ <<"grant", h>> \notin tx[v].held
      BY <1>9, <2>1
    <2> QED  BY <1>1, <1>10, <2>2, MarkStillHolds
  <1> QED  BY <1>1, <1>11, <1>12, CommitFrame

\* There is a serial number for a transaction that issues.
LEMMA RoomLeft ==
    ASSUME OAuthInv, NEW w \in Workers, Issuing(tx[w])
    PROVE  nextIssue \in 1 .. MaxIssues /\ nextIssue + 1 \in 1 .. MaxIssues + 1
  <1>1. IsFiniteSet(Issuers) /\ w \in Issuers
    BY OAuthAssumption, FS_Subset DEF Issuers
  <1>2. Cardinality(Issuers) \in Nat /\ Cardinality(Issuers) # 0
    BY <1>1, FS_CardinalityType, FS_EmptySet
  <1>3. nextIssue \in 1 .. MaxIssues + 1 /\ nextIssue + Cardinality(Issuers) <= MaxIssues + 1
    BY TableFacts DEF OAuthInv
  <1>4. MaxIssues \in Nat
    BY OAuthAssumption
  <1> QED  BY <1>2, <1>3, <1>4

LEMMA PairFacts ==
    ASSUME OAuthInv, NEW w \in Workers, Issuing(tx[w])
    PROVE  /\ Pair(w, nextIssue) \subseteq Token
           /\ \A u \in Pair(w, nextIssue) :
                /\ u.issue = nextIssue /\ u.grant = tx[w].grant /\ ~u.used
                /\ Row(u) = <<u.kind, nextIssue>> /\ u.kind \in Kinds
           /\ \A u, v \in Pair(w, nextIssue) : u.kind = v.kind => u = v
           /\ \E u \in Pair(w, nextIssue) : u.kind = "refresh"
  <1> DEFINE Life(k) == tx[w].start + (IF k = "access" THEN AccessLife ELSE RefreshLife)
             New(k) == [issue |-> nextIssue, kind |-> k, grant |-> tx[w].grant, used |-> FALSE,
                        revoked |-> FALSE, expires |-> Life(k)]
  <1>1. Pair(w, nextIssue) = {New(k) : k \in Kinds}
    BY DEF Pair
  <1>2. tx[w].start \in 0 .. MaxTime /\ tx[w].grant \in Grants /\ nextIssue \in 1 .. MaxIssues
    BY WorkerFacts, RoomLeft DEF TxType, Issuing
  <1>3. \A k \in Kinds : Life(k) \in Times
    BY <1>2, OAuthAssumption DEF Times
  <1> HIDE DEF Life
  <1>4. \A k \in Kinds : New(k) \in Token
    BY <1>2, <1>3 DEF Token
  <1>5. \A k \in Kinds : /\ New(k).issue = nextIssue /\ New(k).grant = tx[w].grant
                         /\ ~New(k).used /\ New(k).kind = k
    OBVIOUS
  <1> HIDE DEF New
  <1> QED  BY <1>1, <1>4, <1>5 DEF Row, Kinds

\* The rows that issuing the next pair leaves, replaces and adds, and what they
\* were before.
LEMMA IssueEffect ==
    ASSUME OAuthInv, NEW w \in Workers, issueTokens(w)
    PROVE  /\ Issuing(tx[w]) /\ Finish(w) /\ UNCHANGED <<now, request, grant, replayed>>
           /\ nextIssue' = nextIssue + 1
           /\ tx[w].grant \in Grants
           /\ tx[w].op = "exchange" =>
                /\ code' = [code EXCEPT ![tx[w].grant].used = TRUE]
                /\ ~code[tx[w].grant].used /\ <<"code", tx[w].grant>> \in tx[w].held
                /\ tokens' = tokens \cup Pair(w, nextIssue)
                /\ \A u \in tokens : u.grant # tx[w].grant
           /\ tx[w].op # "exchange" =>
                /\ code' = code /\ code[tx[w].grant].used
                /\ grant[tx[w].grant] = "live" /\ <<"grant", tx[w].grant>> \in tx[w].held
                /\ \E old \in Spendable(tx[w].grant, tokens) :
                     /\ \A u \in Spendable(tx[w].grant, tokens) : u = old
                     /\ Row(old) \in tx[w].held
                     /\ tokens' = {t \in tokens : Row(t) \notin tx[w].held}
                                  \cup {[old EXCEPT !.used = TRUE]} \cup Pair(w, nextIssue)
                /\ \A u \in tokens : Row(u) \in tx[w].held => u.grant = tx[w].grant
  <1> DEFINE g == tx[w].grant
  <1>1. /\ tx[w].pc = "prune" /\ Finish(w) /\ UNCHANGED <<now, request, grant, replayed>>
        /\ nextIssue' = nextIssue + 1
        /\ code' = IF tx[w].op = "exchange" THEN [code EXCEPT ![g].used = TRUE] ELSE code
        /\ tokens' = {t \in tokens : Row(t) \notin tx[w].held}
                     \cup {[t EXCEPT !.used = TRUE] : t \in {u \in tokens : Row(u) = tx[w].row}}
                     \cup Pair(w, nextIssue)
    BY DEF issueTokens, At
  <1>2. /\ Issuing(tx[w]) /\ ~Killing(tx[w]) /\ tx[w].op \in {"exchange", "refresh"} /\ g \in Grants
        /\ TxInv(tx[w], request, grant, code, tokens, nextIssue)
    BY <1>1, WorkerFacts DEF Issuing, Killing
  <1>3. ASSUME tx[w].op = "exchange"
        PROVE  /\ ~code[g].used /\ <<"code", g>> \in tx[w].held
               /\ tokens' = tokens \cup Pair(w, nextIssue)
               /\ \A u \in tokens : u.grant # g
    <2>1. ExchangeInv(tx[w], code, tokens)
      BY <1>2, <1>3 DEF TxInv
    <2>2. ~code[g].used /\ <<"code", g>> \in tx[w].held /\ tx[w].row = NoRow /\ PruneInv(tx[w], tokens)
      BY <1>2, <2>1 DEF ExchangeInv
    <2>3. \A u \in tokens : u.grant # g
      BY <2>2, TokenFacts
    <2>4. \A u \in tokens : Row(u) \notin tx[w].held
      BY <2>2, <2>3 DEF PruneInv
    <2>5. \A u \in tokens : Row(u) # tx[w].row
      BY <2>2, RowNames, TokenFacts
    <2> QED  BY <1>1, <2>2, <2>3, <2>4, <2>5
  <1>4. ASSUME tx[w].op # "exchange"
        PROVE  /\ code[g].used /\ grant[g] = "live" /\ <<"grant", g>> \in tx[w].held
               /\ \E old \in Spendable(g, tokens) :
                    /\ \A u \in Spendable(g, tokens) : u = old
                    /\ Row(old) \in tx[w].held
                    /\ tokens' = {t \in tokens : Row(t) \notin tx[w].held}
                                 \cup {[old EXCEPT !.used = TRUE]} \cup Pair(w, nextIssue)
               /\ \A u \in tokens : Row(u) \in tx[w].held => u.grant = g
    <2>1. RefreshInv(tx[w], grant, code, tokens)
      BY <1>2, <1>4 DEF TxInv
    <2>2. /\ code[g].used /\ grant[g] = "live" /\ <<"grant", g>> \in tx[w].held
          /\ PruneInv(tx[w], tokens) /\ tx[w].row \in {"refresh"} \X (1 .. MaxIssues)
          /\ tx[w].row \in tx[w].held
      BY <1>1, <1>2, <2>1 DEF RefreshInv
    <2>3. PICK old \in tokens : Row(old) = tx[w].row /\ ~old.used
      BY <1>2, <2>1 DEF RefreshInv
    <2>4. old.kind = "refresh" /\ old.grant = g
      BY <2>1, <2>2, <2>3, TokenFacts DEF RefreshInv
    <2>5. old \in Spendable(g, tokens)
      BY <2>3, <2>4 DEF Spendable
    <2>6. PICK x \in Spendable(g, tokens) : \A u \in Spendable(g, tokens) : u.issue = x.issue
      BY <1>2, <2>2 DEF OAuthInv, TablesInv
    <2>7. \A u \in Spendable(g, tokens) : u = old
      <3> SUFFICES ASSUME NEW u \in Spendable(g, tokens)  PROVE u = old
        OBVIOUS
      <3>1. u \in tokens /\ u.kind = old.kind /\ u.issue = old.issue
        BY <2>4, <2>5, <2>6 DEF Spendable
      <3>2. Row(u) = Row(old)
        BY <3>1 DEF Row
      <3> QED  BY <3>1, <3>2, TokenFacts
    <2>8. {u \in tokens : Row(u) = tx[w].row} = {old}
      BY <2>3, TokenFacts
    <2>9. tokens' = {t \in tokens : Row(t) \notin tx[w].held}
                    \cup {[old EXCEPT !.used = TRUE]} \cup Pair(w, nextIssue)
      BY <1>1, <2>8
    <2>10. \A u \in tokens : Row(u) \in tx[w].held => u.grant = g
      BY <2>2 DEF PruneInv
    <2> QED  BY <2>2, <2>3, <2>5, <2>7, <2>9, <2>10
  <1> QED  BY <1>1, <1>2, <1>3, <1>4

\* Every token afterwards is one of the pair or was there before, and of the
\* grant's refresh tokens only the new one is unused.
LEMMA IssuedTokens ==
    ASSUME OAuthInv, NEW w \in Workers, issueTokens(w)
    PROVE  /\ code' \in [Grants -> [used: BOOLEAN, expires: Times]]
           /\ code'[tx[w].grant].used
           /\ \A h \in Grants \ {tx[w].grant} : code'[h] = code[h]
           /\ tokens' \subseteq Token
           /\ Pair(w, nextIssue) \subseteq tokens'
           /\ \A u \in tokens : Row(u) \notin tx[w].held \/ u.grant # tx[w].grant => u \in tokens'
           /\ \A u \in tokens' \ Pair(w, nextIssue) :
                /\ \E x \in tokens : Row(x) = Row(u) /\ x.grant = u.grant /\ x.expires = u.expires
                                     /\ x.issue = u.issue
                /\ u.grant # tx[w].grant => u \in tokens
                /\ u \notin Spendable(tx[w].grant, tokens')
           /\ \A u, v \in tokens' \ Pair(w, nextIssue) : Row(u) = Row(v) => u = v
  <1> DEFINE g == tx[w].grant
             P == Pair(w, nextIssue)
  <1>1. g \in Grants /\ P \subseteq Token
    BY IssueEffect, PairFacts
  <1>2. \A u, v \in tokens : Row(u) = Row(v) => u = v
    BY DEF OAuthInv, TablesInv
  <1>3. CASE tx[w].op = "exchange"
    <2>1. /\ code' = [code EXCEPT ![g].used = TRUE] /\ tokens' = tokens \cup P
          /\ \A u \in tokens : u.grant # g
      BY <1>3, IssueEffect
    <2>2. /\ code' \in [Grants -> [used: BOOLEAN, expires: Times]] /\ code'[g].used
          /\ \A h \in Grants \ {g} : code'[h] = code[h]
      BY <1>1, <2>1, TableFacts, ZenonT(60)
    <2>3. tokens' \subseteq Token
      BY <1>1, <2>1, TableFacts
    <2> HIDE DEF P
    <2>4. \A u \in tokens' \ P : u \in tokens /\ u \notin Spendable(g, tokens')
      BY <2>1 DEF Spendable
    <2> QED  BY <1>2, <2>1, <2>2, <2>3, <2>4 DEF P
  <1>4. CASE tx[w].op # "exchange"
    <2>1. PICK old \in Spendable(g, tokens) :
            /\ \A u \in Spendable(g, tokens) : u = old
            /\ Row(old) \in tx[w].held
            /\ tokens' = {t \in tokens : Row(t) \notin tx[w].held}
                         \cup {[old EXCEPT !.used = TRUE]} \cup P
      BY <1>4, IssueEffect
    <2>2. /\ code' = code /\ code[g].used
          /\ \A u \in tokens : Row(u) \in tx[w].held => u.grant = g
      BY <1>4, IssueEffect
    <2> DEFINE spent == [old EXCEPT !.used = TRUE]
    <2>3. old \in tokens /\ old \in Token /\ old.grant = g
      BY <2>1, TableFacts DEF Spendable
    <2>4. /\ spent \in Token /\ Row(spent) = Row(old) /\ spent.grant = g /\ spent.used
          /\ spent.expires = old.expires /\ spent.issue = old.issue
      BY <2>3 DEF Token, Row
    <2>5. tokens' = {t \in tokens : Row(t) \notin tx[w].held} \cup {spent} \cup P
      BY <2>1
    <2> HIDE DEF spent, P
    <2>6. tokens' \subseteq Token
      BY <1>1, <2>4, <2>5, TableFacts
    <2>7. \A u \in tokens : Row(u) \notin tx[w].held \/ u.grant # g => u \in tokens'
      BY <2>2, <2>5
    <2>8. \A u \in tokens' \ P : u = spent \/ (u \in tokens /\ Row(u) \notin tx[w].held)
      BY <2>5
    <2>9. \A u \in tokens' \ P :
            \E x \in tokens : Row(x) = Row(u) /\ x.grant = u.grant /\ x.expires = u.expires
                              /\ x.issue = u.issue
      BY <2>3, <2>4, <2>8
    <2>10. \A u \in tokens' \ P : u \notin Spendable(g, tokens')
      <3> SUFFICES ASSUME NEW u \in tokens' \ P  PROVE u \notin Spendable(g, tokens')
        OBVIOUS
      <3>1. CASE u = spent
        BY <2>4, <3>1 DEF Spendable
      <3>2. CASE u \in tokens /\ Row(u) \notin tx[w].held
        <4>1. u # old
          BY <2>1, <3>2
        <4>2. u \notin Spendable(g, tokens)
          BY <2>1, <4>1
        <4> QED  BY <3>2, <4>2 DEF Spendable
      <3> QED  BY <2>8, <3>1, <3>2
    <2>11. \A u, v \in tokens' \ P : Row(u) = Row(v) => u = v
      BY <1>2, <2>1, <2>4, <2>8
    <2>12. P \subseteq tokens' /\ \A u \in tokens' \ P : u.grant # g => u \in tokens
      BY <2>4, <2>5
    <2>13. /\ code' \in [Grants -> [used: BOOLEAN, expires: Times]] /\ code'[g].used
           /\ \A h \in Grants \ {g} : code'[h] = code[h]
      BY <2>2, TableFacts
    <2> QED  BY <2>6, <2>7, <2>9, <2>10, <2>11, <2>12, <2>13 DEF P
  <1> QED  BY <1>3, <1>4

LEMMA IssueKeepsTables ==
    ASSUME OAuthInv, NEW w \in Workers, issueTokens(w)
    PROVE  TablesInv(request, grant, code, tokens, nextIssue, replayed)'
  <1> DEFINE g == tx[w].grant
             P == Pair(w, nextIssue)
  <1>1. /\ Issuing(tx[w]) /\ UNCHANGED <<request, grant, replayed>> /\ nextIssue' = nextIssue + 1
        /\ g \in Grants
    BY IssueEffect
  <1>2. nextIssue \in 1 .. MaxIssues /\ nextIssue' \in 1 .. MaxIssues + 1
    BY <1>1, RoomLeft
  <1>3. /\ code' \in [Grants -> [used: BOOLEAN, expires: Times]]
        /\ code'[g].used /\ \A h \in Grants \ {g} : code'[h] = code[h]
        /\ tokens' \subseteq Token /\ P \subseteq tokens'
        /\ \A u \in tokens : u.grant # g => u \in tokens'
        /\ \A u \in tokens' \ P :
             /\ \E x \in tokens : Row(x) = Row(u) /\ x.grant = u.grant /\ x.issue = u.issue
             /\ u.grant # g => u \in tokens
             /\ u \notin Spendable(g, tokens')
        /\ \A u, v \in tokens' \ P : Row(u) = Row(v) => u = v
    BY IssuedTokens
  <1>4. /\ \A u \in P : /\ u.issue = nextIssue /\ u.grant = g /\ ~u.used
                        /\ Row(u) = <<u.kind, nextIssue>> /\ u.kind \in Kinds
        /\ \A u, v \in P : u.kind = v.kind => u = v
        /\ \E u \in P : u.kind = "refresh"
    BY <1>1, PairFacts
  <1>5. tx[w].op = "exchange" => grant[g] # "none"
    BY WorkerFacts DEF TxInv
  <1>6. grant[g] # "none" /\ g \notin replayed
    <2>1. CASE tx[w].op = "exchange"
      BY <1>5, <2>1, IssueEffect, TableFacts
    <2>2. CASE tx[w].op # "exchange"
      <3>1. grant[g] = "live"
        BY <2>2, IssueEffect
      <3> QED  BY <3>1, TableFacts
    <2> QED  BY <2>1, <2>2
  <1> HIDE DEF g, P
  <1>7. \A h \in Grants : /\ request[h].state # "gone" => grant[h] = "none"
                          /\ code'[h].used => grant[h] # "none"
    BY <1>3, <1>6, TableFacts
  <1>8. \A h \in Grants : grant[h] = "live" /\ code'[h].used =>
          \E u \in Spendable(h, tokens') : \A v \in Spendable(h, tokens') : v.issue = u.issue
    <2> SUFFICES ASSUME NEW h \in Grants, grant[h] = "live", code'[h].used
                 PROVE  \E u \in Spendable(h, tokens') :
                          \A v \in Spendable(h, tokens') : v.issue = u.issue
      OBVIOUS
    <2>1. CASE h = g
      <3>1. PICK u \in P : u.kind = "refresh"
        BY <1>4
      <3>2. u \in Spendable(g, tokens')
        BY <1>3, <1>4, <3>1 DEF Spendable
      <3>3. \A v \in Spendable(g, tokens') : v \in P
        BY <1>3 DEF Spendable
      <3>4. \A v \in Spendable(g, tokens') : v.issue = u.issue
        BY <1>4, <3>3
      <3> QED  BY <2>1, <3>2, <3>4
    <2>2. CASE h # g
      <3>1. code[h].used
        BY <1>3, <2>2
      <3>2. PICK u \in Spendable(h, tokens) : \A v \in Spendable(h, tokens) : v.issue = u.issue
        BY <3>1 DEF OAuthInv, TablesInv
      <3>3. u \in Spendable(h, tokens')
        BY <1>3, <2>2, <3>2 DEF Spendable
      <3>4. \A v \in Spendable(h, tokens') : v \in Spendable(h, tokens)
        <4> SUFFICES ASSUME NEW v \in Spendable(h, tokens')  PROVE v \in Spendable(h, tokens)
          OBVIOUS
        <4>1. v \in tokens' /\ v.grant = h /\ v.kind = "refresh" /\ ~v.used
          BY DEF Spendable
        <4>2. v \notin P /\ v \in tokens
          BY <1>3, <1>4, <2>2, <4>1
        <4> QED  BY <4>1, <4>2 DEF Spendable
      <3> QED  BY <3>2, <3>3, <3>4
    <2> QED  BY <2>1, <2>2
  <1>9. \A u \in tokens' : u.issue < nextIssue' /\ code'[u.grant].used
    <2> SUFFICES ASSUME NEW u \in tokens'  PROVE u.issue < nextIssue' /\ code'[u.grant].used
      OBVIOUS
    <2>1. CASE u \in P
      BY <1>1, <1>2, <1>3, <1>4, <2>1
    <2>2. CASE u \notin P
      <3>1. PICK x \in tokens : x.grant = u.grant /\ x.issue = u.issue
        BY <1>3, <2>2
      <3>2. x.issue \in 1 .. MaxIssues /\ x.issue < nextIssue /\ x.grant \in Grants /\ code[x.grant].used
        BY TokenFacts
      <3> QED  BY <1>1, <1>2, <1>3, <3>1, <3>2
    <2> QED  BY <2>1, <2>2
  <1>10. \A u, v \in tokens' : Row(u) = Row(v) => u = v
    <2> SUFFICES ASSUME NEW u \in tokens', NEW v \in tokens', Row(u) = Row(v)  PROVE u = v
      OBVIOUS
    <2>1. u.issue = v.issue /\ u.kind = v.kind
      BY DEF Row
    <2>2. \A x \in tokens' \ P : x.issue # nextIssue
      <3> SUFFICES ASSUME NEW x \in tokens' \ P  PROVE x.issue # nextIssue
        OBVIOUS
      <3>1. PICK y \in tokens : y.issue = x.issue
        BY <1>3
      <3> QED  BY <1>2, <3>1, TokenFacts
    <2>3. u \in P <=> v \in P
      BY <1>4, <2>1, <2>2
    <2> QED  BY <1>3, <1>4, <2>1, <2>3
  <1>11. \A h \in replayed : /\ grant[h] = "revoked" /\ code'[h].used
                             /\ \A u \in tokens' : u.grant = h => u.revoked
    <2> SUFFICES ASSUME NEW h \in replayed
                 PROVE  /\ grant[h] = "revoked" /\ code'[h].used
                        /\ \A u \in tokens' : u.grant = h => u.revoked
      OBVIOUS
    <2>1. /\ h \in Grants /\ h # g /\ grant[h] = "revoked" /\ code[h].used
          /\ \A u \in tokens : u.grant = h => u.revoked
      BY <1>6, TableFacts
    <2>2. \A u \in tokens' : u.grant = h => u \in tokens
      BY <1>3, <1>4, <2>1
    <2> QED  BY <1>3, <2>1, <2>2
  <1>12. TablesInv(request, grant, code', tokens', nextIssue', replayed)
    BY <1>2, <1>3, <1>7, <1>8, <1>9, <1>10, <1>11, TableFacts DEF TablesInv
  <1> QED  BY <1>1, <1>12

LEMMA IssueTokensKeeps ==
    ASSUME OAuthInv, NEW w \in Workers, issueTokens(w)
    PROVE  OAuthInv'
  <1> DEFINE g == tx[w].grant
             P == Pair(w, nextIssue)
  <1>1. /\ Issuing(tx[w]) /\ Finish(w) /\ UNCHANGED <<now, request, grant, replayed>>
        /\ nextIssue' = nextIssue + 1 /\ g \in Grants
    BY IssueEffect
  <1>2. ASSUME NEW v \in Workers \ {w}
        PROVE  TxInv(tx[v], request', grant', code', tokens', nextIssue')
    <2>1. /\ TxInv(tx[v], request, grant, code, tokens, nextIssue)
          /\ nextIssue \in Nat /\ nextIssue' \in Nat /\ nextIssue <= nextIssue'
      BY <1>1, TableFacts DEF OAuthInv
    <2>2. \A h \in Grants : /\ <<"code", h>> \in tx[v].held /\ ~code[h].used => ~code'[h].used
                            /\ code[h].used => code'[h].used
      <3> SUFFICES ASSUME NEW h \in Grants
                   PROVE  /\ <<"code", h>> \in tx[v].held /\ ~code[h].used => ~code'[h].used
                          /\ code[h].used => code'[h].used
        OBVIOUS
      <3>1. CASE h # g
        BY <3>1, IssuedTokens
      <3>2. CASE h = g /\ tx[w].op = "exchange"
        <4>1. <<"code", h>> \notin tx[v].held
          BY <3>2, IssueEffect, HeldByOne
        <4> QED  BY <3>2, <4>1, IssuedTokens
      <3>3. CASE tx[w].op # "exchange"
        BY <3>3, IssueEffect
      <3> QED  BY <3>1, <3>2, <3>3
    <2>3. tx[v].op \in {"exchange", "refresh"} /\ tx[v].pc = "killLocks" => tx[v].grant # g
      <3> SUFFICES ASSUME tx[v].op \in {"exchange", "refresh"}, tx[v].pc = "killLocks"
                   PROVE  tx[v].grant # g
        OBVIOUS
      <3>1. CASE tx[w].op = "exchange"
        <4>1. ~code[g].used
          BY <3>1, IssueEffect
        <4>2. code[tx[v].grant].used
          BY <2>1 DEF TxInv, ExchangeInv, RefreshInv, Killing
        <4> QED  BY <4>1, <4>2
      <3>2. CASE tx[w].op # "exchange"
        <4>1. <<"grant", g>> \in tx[w].held
          BY <3>2, IssueEffect
        <4>2. <<"grant", tx[v].grant>> \in tx[v].held
          BY KillerHolds
        <4> QED  BY <4>1, <4>2, HeldByOne
      <3> QED  BY <3>1, <3>2
    <2>4. ASSUME NEW u \in tokens'
          PROVE  \/ \E x \in tokens : Row(x) = Row(u) /\ x.grant = u.grant /\ x.expires = u.expires
                 \/ /\ Row(u) \notin tx[v].held \cup tx[v].todo \cup {tx[v].row}
                    /\ tx[v].op \in {"exchange", "refresh"} /\ tx[v].pc = "killLocks" =>
                         u.grant # tx[v].grant
      <3>1. CASE u \in P
        <4>1. /\ Row(u) = <<u.kind, nextIssue>> /\ u.kind \in Kinds /\ u.grant = g
              /\ nextIssue \in 1 .. MaxIssues
          BY <1>1, <3>1, PairFacts, RoomLeft
        <4>2. ~(nextIssue < nextIssue)
          BY <2>1
        <4>3. <<u.kind, nextIssue>> \notin tx[v].held \cup tx[v].todo \cup {tx[v].row}
          BY <2>1, <4>1, <4>2 DEF TxInv
        <4> QED  BY <2>3, <4>1, <4>3
      <3>2. CASE u \notin P
        BY <3>2, IssuedTokens
      <3> QED  BY <3>1, <3>2
    <2>5. \A u \in tokens : Row(u) = tx[v].row /\ tx[v].row \in tx[v].held =>
                              \E x \in tokens' : Row(x) = tx[v].row /\ (~u.used => ~x.used)
      <3> SUFFICES ASSUME NEW u \in tokens, Row(u) = tx[v].row, tx[v].row \in tx[v].held
                   PROVE  u \in tokens'
        OBVIOUS
      <3>1. Row(u) \notin tx[w].held
        BY HeldByOne
      <3> QED  BY <3>1, IssuedTokens
    <2>6. TxInv(tx[v], request, grant, code', tokens', nextIssue')
      BY <2>1, <2>2, <2>4, <2>5, StillHolds, ZenonT(60)
    <2> QED  BY <1>1, <2>6
  <1> QED  BY <1>1, <1>2, IssueKeepsTables, CommitFrame

-----------------------------------------------------------------------------
(* The rest of the world, and every step *)

LEMMA StartAuthorizationKeeps ==
    ASSUME OAuthInv, NEW g \in Grants, StartAuthorization(g)
    PROVE  OAuthInv'
  <1> DEFINE expired == {h \in Grants : request[h].state = "pending" /\ request[h].expires < now}
             fresh == [state |-> "pending", expires |-> now + RequestLife]
  <1>1. /\ request[g].state = "none"
        /\ \A h \in expired, w \in Workers : <<"request", h>> \notin tx[w].held
        /\ request' = [h \in Grants |-> IF h = g THEN fresh
                                        ELSE IF h \in expired THEN [request[h] EXCEPT !.state = "gone"]
                                        ELSE request[h]]
        /\ UNCHANGED <<now, grant, code, tokens, nextIssue, tx, replayed>>
    BY DEF StartAuthorization
  <1>2. fresh \in [state: {"none", "pending", "gone"}, expires: Times] /\ fresh.state = "pending"
    <2>1. now \in 0 .. MaxTime
      BY DEF OAuthInv
    <2>2. now + RequestLife \in Times
      BY <2>1, OAuthAssumption DEF Times
    <2> QED  BY <2>2
  <1> HIDE DEF fresh
  <1>3. /\ request' \in [Grants -> [state: {"none", "pending", "gone"}, expires: Times]]
        /\ request'[g].state = "pending"
        /\ \A h \in Grants \ {g} : request'[h].state = IF h \in expired THEN "gone"
                                                       ELSE request[h].state
    <2>1. ASSUME NEW h \in Grants
          PROVE  /\ [request[h] EXCEPT !.state = "gone"] \in
                      [state: {"none", "pending", "gone"}, expires: Times]
                 /\ [request[h] EXCEPT !.state = "gone"].state = "gone"
                 /\ request[h] \in [state: {"none", "pending", "gone"}, expires: Times]
      BY TableFacts
    <2> HIDE DEF expired
    <2> QED  BY <1>1, <1>2, <2>1
  <1>4. grant[g] = "none" /\ \A h \in Grants : request[h].state # "gone" => grant[h] = "none"
    BY <1>1, TableFacts
  <1>5. \A h \in Grants : request'[h].state # "gone" => grant[h] = "none"
    <2> HIDE DEF expired
    <2> QED  BY <1>3, <1>4
  <1>6. TablesInv(request', grant, code, tokens, nextIssue, replayed)
    BY <1>3, <1>5 DEF OAuthInv, TablesInv
  <1>7. ASSUME NEW w \in Workers
        PROVE  TxInv(tx[w], request', grant, code, tokens, nextIssue)
    <2>1. TxInv(tx[w], request, grant, code, tokens, nextIssue) /\ nextIssue \in Nat
      BY TableFacts DEF OAuthInv
    <2>2. \A h \in Grants : <<"request", h>> \in tx[w].held /\ request[h].state = "pending" =>
                              request'[h].state = "pending"
      <3> HIDE DEF expired
      <3> QED  BY <1>1, <1>3
    <2> QED  BY <2>1, <2>2, StillHoldsTokens
  <1>8. LocksApart' /\ Issuers' = Issuers
    BY <1>1 DEF OAuthInv, LocksApart, Issuers
  <1> QED  BY <1>1, <1>6, <1>7, <1>8 DEF OAuthInv

LEMMA TickKeeps ==
    ASSUME OAuthInv, Tick
    PROVE  OAuthInv'
  <1>1. now' \in 0 .. MaxTime
    BY OAuthAssumption DEF OAuthInv, Tick
  <1>2. UNCHANGED <<request, grant, code, tokens, nextIssue, replayed, tx>>
    BY DEF Tick, tables
  <1>3. LocksApart' /\ Issuers' = Issuers
    BY <1>2 DEF OAuthInv, LocksApart, Issuers
  <1> QED  BY <1>1, <1>2, <1>3 DEF OAuthInv

LEMMA StepKeeps ==
    ASSUME OAuthInv, NEW w \in Workers, Step(w)
    PROVE  OAuthInv'
  BY TakeRequestKeeps, ApproveReplaceKeeps, ApproveReplaceLockKeeps, ApproveCommitKeeps, DenyKeeps,
     ExchangeCodeKeeps, RefreshLockTokenKeeps, RefreshKeeps, IssueTokensPruneKeeps,
     IssueTokensPruneLockKeeps, IssueTokensKeeps, RevokeAccessKeeps, RevokeGrantKeeps,
     RevokeGrantTokensKeeps, RevokeGrantLockKeeps, RevokeGrantCommitKeeps DEF Step

LEMMA ArriveKeeps ==
    ASSUME OAuthInv, NEW w \in Workers, Arrive(w)
    PROVE  OAuthInv'
  BY BeginDecisionKeeps, BeginExchangeKeeps, BeginDisconnectKeeps, BeginRefreshKeeps, BeginRevokeKeeps
     DEF Arrive

LEMMA NextKeeps == OAuthInv /\ [Next]_vars => OAuthInv'
  <1> SUFFICES ASSUME OAuthInv, [Next]_vars  PROVE OAuthInv'
    OBVIOUS
  <1>1. CASE UNCHANGED vars
    BY <1>1 DEF vars, OAuthInv, LocksApart, Issuers
  <1>2. ASSUME NEW w \in Workers, Rollback(w)  PROVE OAuthInv'
    BY <1>2, FinishKeeps DEF Rollback
  <1> QED  BY <1>1, <1>2, ArriveKeeps, StepKeeps, StartAuthorizationKeeps, TickKeeps DEF Next

LEMMA InitHolds == Init => OAuthInv
  <1> SUFFICES ASSUME Init  PROVE OAuthInv
    OBVIOUS
  <1>1. now \in 0 .. MaxTime
    BY OAuthAssumption DEF Init
  <1>2. 0 \in Times
    BY OAuthAssumption DEF Times
  <1>3. TablesInv(request, grant, code, tokens, nextIssue, replayed)
    BY <1>2, OAuthAssumption DEF Init, TablesInv, States
  <1>4. tx \in [Workers -> TxType] /\ \A w \in Workers : tx[w] = Idle
    BY IdleType DEF Init
  <1>5. LocksApart
    BY <1>4, IdleType DEF LocksApart
  <1>6. Issuers = {}
    BY <1>4, IdleType DEF Issuers, Issuing
  <1>7. nextIssue + Cardinality(Issuers) <= MaxIssues + 1
    BY <1>6, FS_EmptySet, OAuthAssumption DEF Init
  <1> QED  BY <1>1, <1>3, <1>4, <1>5, <1>7, IdleInv DEF OAuthInv

-----------------------------------------------------------------------------
(* The chain of secrets of each grant *)

\* A grant as GrantChain sees it, in given tables.
StateOf(g, G) == IF G[g] = "revoked" THEN "ended" ELSE G[g]
SecretsOf(g, G, C, T) ==
  IF G[g] = "live"
  THEN {t.issue : t \in Spendable(g, T)} \cup (IF ~C[g].used THEN {0} ELSE {})
  ELSE {}

\* The refinement mapping.
chainState == [g \in Grants |-> IF grant[g] = "revoked" THEN "ended" ELSE grant[g]]
chainSecret == [g \in Grants |-> IF grant[g] = "live" THEN Unused(g) ELSE {}]

LEMMA ChainMapping ==
    /\ chainState = [g \in Grants |-> StateOf(g, grant)]
    /\ chainState' = [g \in Grants |-> StateOf(g, grant')]
    /\ chainSecret = [g \in Grants |-> SecretsOf(g, grant, code, tokens)]
    /\ chainSecret' = [g \in Grants |-> SecretsOf(g, grant', code', tokens')]
  <1>1. \A g \in Grants : SecretsOf(g, grant, code, tokens) = IF grant[g] = "live" THEN Unused(g) ELSE {}
    BY DEF SecretsOf, Unused, Spendable, TokensOf
  <1>2. \A g \in Grants :
          SecretsOf(g, grant', code', tokens') = IF grant'[g] = "live" THEN Unused(g)' ELSE {}
    BY DEF SecretsOf, Unused, Spendable, TokensOf
  <1> QED  BY <1>1, <1>2 DEF chainState, chainSecret, StateOf

\* The steps of GrantChain, through the mapping.
LEMMA ChainOpens ==
    ASSUME NEW g \in Grants, NEW R \in SUBSET (Grants \ {g}),
           chainState[g] = "none", \A h \in R : chainState[h] = "live",
           chainState' = [h \in Grants |-> IF h = g THEN "live"
                                           ELSE IF h \in R THEN "ended" ELSE chainState[h]],
           chainSecret' = [h \in Grants |-> IF h = g THEN {0}
                                            ELSE IF h \in R THEN {} ELSE chainSecret[h]]
    PROVE  Chain!Next
  <1>1. Chain!Open(g, R)
    BY DEF Chain!Open, chainState, chainSecret
  <1> QED  BY <1>1 DEF Chain!Next

LEMMA ChainSpends ==
    ASSUME NEW g \in Grants, NEW old \in 0 .. MaxIssues, NEW new \in 0 .. MaxIssues, new > old,
           chainState[g] = "live", chainState' = chainState, chainSecret[g] = {old},
           chainSecret' = [chainSecret EXCEPT ![g] = {new}]
    PROVE  Chain!Next
  <1>1. Chain!Spend(g)
    BY DEF Chain!Spend, chainState, chainSecret
  <1> QED  BY <1>1 DEF Chain!Next

LEMMA ChainEnds ==
    ASSUME NEW g \in Grants, chainState[g] = "live",
           chainState' = [chainState EXCEPT ![g] = "ended"],
           chainSecret' = [chainSecret EXCEPT ![g] = {}]
    PROVE  Chain!Next
  <1>1. Chain!End(g)
    BY DEF Chain!End, chainState, chainSecret
  <1> QED  BY <1>1 DEF Chain!Next

\* A live grant has the code, or one unused refresh token.
LEMMA OneSecret ==
    ASSUME OAuthInv, NEW g \in Grants
    PROVE  /\ ~code[g].used => \A u \in tokens : u.grant # g
           /\ grant[g] = "live" /\ ~code[g].used => SecretsOf(g, grant, code, tokens) = {0}
           /\ \A old \in Spendable(g, tokens) :
                grant[g] = "live" /\ code[g].used => SecretsOf(g, grant, code, tokens) = {old.issue}
  <1>1. ~code[g].used => \A u \in tokens : u.grant # g
    BY TokenFacts
  <1>2. grant[g] = "live" /\ ~code[g].used => SecretsOf(g, grant, code, tokens) = {0}
    BY <1>1 DEF SecretsOf, Spendable
  <1>3. ASSUME NEW old \in Spendable(g, tokens), grant[g] = "live", code[g].used
        PROVE  SecretsOf(g, grant, code, tokens) = {old.issue}
    <2>1. PICK u \in Spendable(g, tokens) : \A v \in Spendable(g, tokens) : v.issue = u.issue
      BY <1>3 DEF OAuthInv, TablesInv
    <2>2. {t.issue : t \in Spendable(g, tokens)} = {old.issue}
      BY <1>3, <2>1
    <2>3. SecretsOf(g, grant, code, tokens) = {t.issue : t \in Spendable(g, tokens)}
      BY <1>3 DEF SecretsOf
    <2> QED  BY <2>2, <2>3
  <1> QED  BY <1>1, <1>2, <1>3

LEMMA ApproveCommitOpens ==
    ASSUME OAuthInv, NEW w \in Workers, ApproveCommit(w)
    PROVE  Chain!Next
  <1> DEFINE g == tx[w].grant
             replaced == {h \in Grants \ {g} : <<"grant", h>> \in tx[w].held}
  <1>1. /\ tx[w].pc = "replace"
        /\ grant' = [h \in Grants |-> IF h = g THEN "live"
                                      ELSE IF <<"grant", h>> \in tx[w].held THEN "revoked"
                                      ELSE grant[h]]
        /\ code' = [code EXCEPT ![g] = [used |-> FALSE, expires |-> tx[w].start + CodeLife]]
        /\ tokens' = tokens
    BY DEF ApproveCommit, At
  <1>2. /\ g \in Grants /\ request[g].state = "pending"
        /\ \A h \in Grants : <<"grant", h>> \in tx[w].held => grant[h] = "live"
    BY <1>1, WorkerFacts DEF TxInv, DecisionInv
  <1>3. grant[g] = "none" /\ ~code[g].used /\ \A u \in tokens : u.grant # g
    BY <1>2, TableFacts, OneSecret
  <1>4. replaced \in SUBSET (Grants \ {g})
    OBVIOUS
  <1>5. /\ grant'[g] = "live" /\ ~code'[g].used
        /\ \A h \in replaced : grant'[h] = "revoked" /\ grant[h] = "live"
        /\ \A h \in Grants \ {g} : code'[h] = code[h] /\ (h \notin replaced => grant'[h] = grant[h])
    BY <1>1, <1>2, TableFacts
  <1> HIDE DEF g, replaced
  <1>6. StateOf(g, grant') = "live" /\ SecretsOf(g, grant', code', tokens') = {0}
    BY <1>1, <1>3, <1>5 DEF StateOf, SecretsOf, Spendable
  <1>7. \A h \in replaced : StateOf(h, grant') = "ended" /\ SecretsOf(h, grant', code', tokens') = {}
    BY <1>5 DEF StateOf, SecretsOf
  <1>8. \A h \in Grants \ {g} : h \notin replaced =>
          /\ StateOf(h, grant') = StateOf(h, grant)
          /\ SecretsOf(h, grant', code', tokens') = SecretsOf(h, grant, code, tokens)
    BY <1>1, <1>5 DEF StateOf, SecretsOf
  <1>9. /\ chainState' = [h \in Grants |-> IF h = g THEN "live"
                                           ELSE IF h \in replaced THEN "ended" ELSE chainState[h]]
        /\ chainSecret' = [h \in Grants |-> IF h = g THEN {0}
                                            ELSE IF h \in replaced THEN {} ELSE chainSecret[h]]
    BY <1>6, <1>7, <1>8, ChainMapping
  <1>10. chainState[g] = "none" /\ \A h \in replaced : chainState[h] = "live"
    BY <1>2, <1>3, <1>4, <1>5, ChainMapping DEF StateOf
  <1> QED  BY <1>2, <1>4, <1>9, <1>10, ChainOpens

ChainKept == chainState' = chainState /\ chainSecret' = chainSecret

LEMMA TablesKept ==
    ASSUME UNCHANGED <<grant, code, tokens>>
    PROVE  ChainKept
  BY ChainMapping DEF ChainKept

LEMMA IssueTokensSpends ==
    ASSUME OAuthInv, NEW w \in Workers, issueTokens(w)
    PROVE  Chain!Next \/ ChainKept
  <1> DEFINE g == tx[w].grant
             P == Pair(w, nextIssue)
  <1>1. Issuing(tx[w]) /\ grant' = grant /\ g \in Grants
    BY IssueEffect
  <1>2. /\ code'[g].used /\ \A h \in Grants \ {g} : code'[h] = code[h]
        /\ P \subseteq tokens'
        /\ \A u \in tokens : u.grant # g => u \in tokens'
        /\ \A u \in tokens' \ P : (u.grant # g => u \in tokens) /\ u \notin Spendable(g, tokens')
    BY IssuedTokens
  <1>3. /\ \A u \in P : u.issue = nextIssue /\ u.grant = g /\ ~u.used
        /\ \E u \in P : u.kind = "refresh"
    BY <1>1, PairFacts
  <1>4. nextIssue \in 1 .. MaxIssues /\ 0 \in 0 .. MaxIssues /\ nextIssue \in 0 .. MaxIssues /\ nextIssue > 0
    <2>1. nextIssue \in 1 .. MaxIssues /\ MaxIssues \in Nat
      BY <1>1, RoomLeft, OAuthAssumption
    <2> QED  BY <2>1
  <1>5. ASSUME grant[g] = "live"
        PROVE  \E old \in 0 .. MaxIssues : old < nextIssue /\ SecretsOf(g, grant, code, tokens) = {old}
    <2>1. CASE tx[w].op = "exchange"
      <3>1. SecretsOf(g, grant, code, tokens) = {0}
        BY <1>1, <1>5, <2>1, IssueEffect, OneSecret
      <3> QED  BY <1>4, <3>1
    <2>2. CASE tx[w].op # "exchange"
      <3>1. code[g].used /\ \E old \in Spendable(g, tokens) : TRUE
        BY <2>2, IssueEffect
      <3>2. PICK old \in Spendable(g, tokens) : TRUE
        BY <3>1
      <3>3. SecretsOf(g, grant, code, tokens) = {old.issue}
        BY <1>1, <1>5, <3>1, OneSecret
      <3>4. old.issue \in 1 .. MaxIssues /\ old.issue < nextIssue
        BY <3>2, TokenFacts DEF Spendable
      <3> QED  BY <3>3, <3>4
    <2> QED  BY <2>1, <2>2
  <1> HIDE DEF g, P
  <1>6. \A h \in Grants \ {g} :
          SecretsOf(h, grant', code', tokens') = SecretsOf(h, grant, code, tokens)
    <2> SUFFICES ASSUME NEW h \in Grants \ {g}
                 PROVE  SecretsOf(h, grant', code', tokens') = SecretsOf(h, grant, code, tokens)
      OBVIOUS
    <2>1. Spendable(h, tokens') = Spendable(h, tokens)
      BY <1>2, <1>3 DEF Spendable
    <2> QED  BY <1>1, <1>2, <2>1 DEF SecretsOf
  <1>7. grant[g] = "live" => SecretsOf(g, grant', code', tokens') = {nextIssue}
    <2>1. \A u \in Spendable(g, tokens') : u \in P
      BY <1>2 DEF Spendable
    <2>2. \E u \in Spendable(g, tokens') : u.issue = nextIssue
      BY <1>2, <1>3 DEF Spendable
    <2>3. {t.issue : t \in Spendable(g, tokens')} = {nextIssue}
      BY <1>3, <2>1, <2>2
    <2> QED  BY <1>1, <1>2, <2>3 DEF SecretsOf
  <1>8. chainState' = chainState
    BY <1>1, ChainMapping
  <1>9. CASE grant[g] = "live"
    <2>1. PICK old \in 0 .. MaxIssues :
            old < nextIssue /\ SecretsOf(g, grant, code, tokens) = {old}
      BY <1>5, <1>9
    <2>2. chainState[g] = "live" /\ chainSecret[g] = {old}
      BY <1>1, <1>9, <2>1, ChainMapping DEF StateOf
    <2>3. chainSecret' = [chainSecret EXCEPT ![g] = {nextIssue}]
      BY <1>6, <1>7, <1>9, ChainMapping
    <2>4. nextIssue > old
      BY <1>4, <2>1
    <2> QED  BY <1>1, <1>4, <1>8, <2>2, <2>3, <2>4, ChainSpends
  <1>10. CASE grant[g] # "live"
    <2>1. SecretsOf(g, grant', code', tokens') = SecretsOf(g, grant, code, tokens)
      BY <1>1, <1>10 DEF SecretsOf
    <2> QED  BY <1>6, <1>8, <2>1, ChainMapping DEF ChainKept
  <1> QED  BY <1>9, <1>10

\* Revoking tokens neither spends nor makes a secret.
LEMMA MarkKeepsSecrets ==
    ASSUME NEW S, Marks(S, tokens, tokens'), code' = code, NEW g, grant'[g] = grant[g]
    PROVE  SecretsOf(g, grant', code', tokens') = SecretsOf(g, grant, code, tokens)
  <1>1. \A u \in Spendable(g, tokens) : \E v \in Spendable(g, tokens') : v.issue = u.issue
    <2> SUFFICES ASSUME NEW u \in Spendable(g, tokens)
                 PROVE  \E v \in Spendable(g, tokens') : v.issue = u.issue
      OBVIOUS
    <2>1. u \in tokens /\ u.grant = g /\ u.kind = "refresh" /\ ~u.used
      BY DEF Spendable
    <2>2. PICK v \in tokens' : u.grant = v.grant /\ u.kind = v.kind /\ u.issue = v.issue
                               /\ (u.used <=> v.used)
      BY <2>1 DEF Marks
    <2>3. v \in Spendable(g, tokens')
      BY <2>1, <2>2 DEF Spendable
    <2> QED  BY <2>2, <2>3
  <1>2. \A u \in Spendable(g, tokens') : \E v \in Spendable(g, tokens) : v.issue = u.issue
    <2> SUFFICES ASSUME NEW u \in Spendable(g, tokens')
                 PROVE  \E v \in Spendable(g, tokens) : v.issue = u.issue
      OBVIOUS
    <2>1. u \in tokens' /\ u.grant = g /\ u.kind = "refresh" /\ ~u.used
      BY DEF Spendable
    <2>2. PICK v \in tokens : v.grant = u.grant /\ v.kind = u.kind /\ v.issue = u.issue
                              /\ (v.used <=> u.used)
      BY <2>1 DEF Marks
    <2>3. v \in Spendable(g, tokens)
      BY <2>1, <2>2 DEF Spendable
    <2> QED  BY <2>2, <2>3
  <1>3. {t.issue : t \in Spendable(g, tokens')} = {t.issue : t \in Spendable(g, tokens)}
    BY <1>1, <1>2
  <1> QED  BY <1>3 DEF SecretsOf

LEMMA RevokeAccessKeepsChain ==
    ASSUME OAuthInv, NEW w \in Workers, RevokeAccess(w)
    PROVE  ChainKept
  <1> DEFINE S == {tx[w].row}
  <1>1. /\ grant' = grant /\ code' = code
        /\ tokens' = {IF Row(t) \in S THEN [t EXCEPT !.revoked = TRUE] ELSE t : t \in tokens}
    BY DEF RevokeAccess
  <1> HIDE DEF S
  <1>2. Marks(S, tokens, tokens')
    BY <1>1, MarkTokens
  <1>3. \A g \in Grants : SecretsOf(g, grant', code', tokens') = SecretsOf(g, grant, code, tokens)
    BY <1>1, <1>2, MarkKeepsSecrets
  <1> QED  BY <1>1, <1>3, ChainMapping DEF ChainKept

LEMMA RevokeGrantCommitEnds ==
    ASSUME OAuthInv, NEW w \in Workers, revokeGrantCommit(w)
    PROVE  Chain!Next \/ ChainKept
  <1> DEFINE g == tx[w].grant
             S == tx[w].held
  <1>1. /\ tx[w].pc = "killLocks" /\ code' = code
        /\ grant' = [grant EXCEPT ![g] = "revoked"]
        /\ tokens' = {IF Row(t) \in S THEN [t EXCEPT !.revoked = TRUE] ELSE t : t \in tokens}
    BY DEF revokeGrantCommit, At
  <1>2. g \in Grants /\ grant[g] # "none"
    BY <1>1, WorkerFacts DEF TxInv, Killing
  <1> HIDE DEF g, S
  <1>3. Marks(S, tokens, tokens')
    BY <1>1, MarkTokens
  <1>4. grant'[g] = "revoked" /\ \A h \in Grants \ {g} : grant'[h] = grant[h]
    BY <1>1, <1>2, TableFacts
  <1>5. \A h \in Grants : grant'[h] = grant[h] =>
          SecretsOf(h, grant', code', tokens') = SecretsOf(h, grant, code, tokens)
    BY <1>1, <1>3, MarkKeepsSecrets
  <1>6. CASE grant[g] = "live"
    <2>1. chainState[g] = "live"
      BY <1>2, <1>6, ChainMapping DEF StateOf
    <2>2. \A h \in Grants : StateOf(h, grant') = IF h = g THEN "ended" ELSE StateOf(h, grant)
      BY <1>4 DEF StateOf
    <2>3. chainState' = [chainState EXCEPT ![g] = "ended"]
      BY <2>2, ChainMapping
    <2>4. SecretsOf(g, grant', code', tokens') = {}
      BY <1>4 DEF SecretsOf
    <2>5. chainSecret' = [chainSecret EXCEPT ![g] = {}]
      BY <1>4, <1>5, <2>4, ChainMapping
    <2> QED  BY <1>2, <2>1, <2>3, <2>5, ChainEnds
  <1>7. CASE grant[g] # "live"
    <2>1. grant[g] = "revoked"
      BY <1>2, <1>7, TableFacts DEF States
    <2>2. \A h \in Grants : grant'[h] = grant[h]
      BY <1>4, <2>1
    <2>3. \A h \in Grants : StateOf(h, grant') = StateOf(h, grant)
      BY <2>2 DEF StateOf
    <2> QED  BY <1>5, <2>2, <2>3, ChainMapping DEF ChainKept
  <1> QED  BY <1>6, <1>7

LEMMA ChainStep == OAuthInv /\ [Next]_vars => [Chain!Next]_<<chainState, chainSecret>>
  <1> SUFFICES ASSUME OAuthInv, [Next]_vars  PROVE Chain!Next \/ ChainKept
    BY DEF ChainKept
  <1>1. CASE UNCHANGED vars
    BY <1>1, TablesKept DEF vars
  <1>2. CASE Tick \/ \E g \in Grants : StartAuthorization(g)
    BY <1>2, TablesKept DEF Tick, StartAuthorization, tables
  <1>3. ASSUME NEW w \in Workers, Arrive(w) \/ Rollback(w)  PROVE ChainKept
    BY <1>3, TablesKept DEF Arrive, Rollback, BeginDecision, BeginExchange, BeginDisconnect,
       BeginRefresh, BeginRevoke, tables
  <1>4. ASSUME NEW w \in Workers, Step(w)  PROVE Chain!Next \/ ChainKept
    <2>1. CASE ApproveCommit(w)
      BY <2>1, ApproveCommitOpens
    <2>2. CASE issueTokens(w)
      BY <2>2, IssueTokensSpends
    <2>3. CASE RevokeAccess(w)
      BY <2>3, RevokeAccessKeepsChain
    <2>4. CASE revokeGrantCommit(w)
      BY <2>4, RevokeGrantCommitEnds
    <2>5. CASE ~(ApproveCommit(w) \/ issueTokens(w) \/ RevokeAccess(w) \/ revokeGrantCommit(w))
      <3>1. UNCHANGED <<grant, code, tokens>>
        BY <1>4, <2>5 DEF Step, takeRequest, ApproveReplace, ApproveReplaceLock, Deny, exchangeCode,
           refreshLockToken, refresh, issueTokensPrune, issueTokensPruneLock, revokeGrant,
           revokeGrantTokens, revokeGrantLock, tables
      <3> QED  BY <3>1, TablesKept
    <2> QED  BY <2>1, <2>2, <2>3, <2>4, <2>5
  <1> QED  BY <1>1, <1>2, <1>3, <1>4 DEF Next

LEMMA ChainInit == Init => Chain!Init
  <1> SUFFICES ASSUME Init  PROVE Chain!Init
    OBVIOUS
  <1>1. \A g \in Grants : grant[g] = "none"
    BY DEF Init
  <1> QED  BY <1>1 DEF Chain!Init

-----------------------------------------------------------------------------
(* How many grants are live: each was approved by a worker of its own *)

Live == {g \in Grants : grant[g] = "live"}

\* f names the worker that approved each live grant.  Approving another one, it
\* sees the first, and replaces it: the grant is still to be locked, or held.
ApprovedBy(f) ==
  /\ \A g, h \in Live : f[g] = f[h] => g = h
  /\ \A g \in Live : tx[f[g]].pc = "replace" =>
                       <<"grant", g>> \in tx[f[g]].todo \cup tx[f[g]].held

ApproversDiffer == \E f \in [Live -> Workers] : ApprovedBy(f)

\* Only w goes on, and what it had to replace and is still live it has to replace.
Replacing(w) ==
  /\ \A v \in Workers \ {w} : tx'[v] = tx[v]
  /\ tx'[w].pc = "replace" =>
       \A g \in Live' :
         \/ <<"grant", g>> \in tx'[w].todo \cup tx'[w].held
         \/ tx[w].pc = "replace" /\ <<"grant", g>> \notin tx[w].todo \cup tx[w].held

LEMMA FewerLive ==
    ASSUME ApproversDiffer, NEW w \in Workers, Replacing(w), Live' \subseteq Live
    PROVE  ApproversDiffer'
  <1>1. PICK f \in [Live -> Workers] : ApprovedBy(f)
    BY DEF ApproversDiffer
  <1> DEFINE k == [g \in Live' |-> f[g]]
  <1>2. k \in [Live' -> Workers] /\ \A g \in Live' : k[g] = f[g]
    BY <1>1
  <1> HIDE DEF k
  <1>3. \A g, h \in Live' : k[g] = k[h] => g = h
    BY <1>1, <1>2 DEF ApprovedBy
  <1>4. ASSUME NEW g \in Live', tx'[k[g]].pc = "replace"
        PROVE  <<"grant", g>> \in tx'[k[g]].todo \cup tx'[k[g]].held
    <2>1. g \in Live /\ k[g] = f[g] /\ f[g] \in Workers
      BY <1>1, <1>2, <1>4
    <2>2. tx[f[g]].pc = "replace" => <<"grant", g>> \in tx[f[g]].todo \cup tx[f[g]].held
      BY <1>1, <2>1 DEF ApprovedBy
    <2>3. CASE f[g] = w
      BY <1>4, <2>1, <2>2, <2>3 DEF Replacing
    <2>4. CASE f[g] # w
      BY <1>4, <2>1, <2>2, <2>4 DEF Replacing
    <2> QED  BY <2>3, <2>4
  <1> QED  BY <1>2, <1>3, <1>4 DEF ApproversDiffer, ApprovedBy

\* A worker that is not about to replace grants has nothing to remember.
LEMMA NothingToReplace ==
    ASSUME OAuthInv, NEW w \in Workers,
           \/ Finish(w)
           \/ \E row, pc : Hold(w, row, pc) /\ pc # "replace"
           \/ \E rows, pc : Scan(w, rows, pc) /\ pc # "replace"
           \/ \E t : Begin(w, t) /\ t.pc # "replace"
           \/ tx[w].pc # "replace" /\ \E todo, held : tx' = [tx EXCEPT ![w].todo = todo, ![w].held = held]
    PROVE  Replacing(w)
  <1>1. tx \in [Workers -> TxType] /\ tx[w] \in TxType
    BY DEF OAuthInv
  <1> SUFFICES \E t : tx' = [tx EXCEPT ![w] = t] /\ t.pc # "replace"
    BY <1>1 DEF Replacing
  <1>2. CASE Finish(w)
    BY <1>2, IdleType DEF Finish
  <1>3. CASE \E t : Begin(w, t) /\ t.pc # "replace"
    BY <1>3 DEF Begin
  <1>4. ASSUME NEW row, NEW pc, Hold(w, row, pc), pc # "replace"
        PROVE  \E t : tx' = [tx EXCEPT ![w] = t] /\ t.pc # "replace"
    <2> DEFINE t == [tx[w] EXCEPT !.held = @ \cup {row}, !.pc = pc]
    <2>1. tx' = [tx EXCEPT ![w] = t]
      BY <1>4 DEF Hold
    <2>2. t.pc = pc
      BY <1>1 DEF TxType
    <2> HIDE DEF t
    <2> QED  BY <1>4, <2>1, <2>2
  <1>5. ASSUME NEW rows, NEW pc, Scan(w, rows, pc), pc # "replace"
        PROVE  \E t : tx' = [tx EXCEPT ![w] = t] /\ t.pc # "replace"
    <2> DEFINE t == [tx[w] EXCEPT !.todo = rows, !.pc = pc]
    <2>1. tx' = [tx EXCEPT ![w] = t]
      BY <1>5 DEF Scan
    <2>2. t.pc = pc
      BY <1>1 DEF TxType
    <2> HIDE DEF t
    <2> QED  BY <1>5, <2>1, <2>2
  <1>6. ASSUME NEW todo, NEW held, tx[w].pc # "replace",
               tx' = [tx EXCEPT ![w].todo = todo, ![w].held = held]
        PROVE  \E t : tx' = [tx EXCEPT ![w] = t] /\ t.pc # "replace"
    <2> DEFINE t == [tx[w] EXCEPT !.todo = todo, !.held = held]
    <2>1. tx' = [tx EXCEPT ![w] = t]
      BY <1>6
    <2>2. t.pc = tx[w].pc
      BY <1>1 DEF TxType
    <2> HIDE DEF t
    <2> QED  BY <1>6, <2>1, <2>2
  <1> QED  BY <1>2, <1>3, <1>4, <1>5, <1>6

\* The statement of an approval begins over every grant that is live.
LEMMA ApproveReplaceSeesAll ==
    ASSUME OAuthInv, NEW w \in Workers, ApproveReplace(w)
    PROVE  Replacing(w) /\ grant' = grant
  <1> DEFINE live == {<<"grant", g>> : g \in {h \in Grants : grant[h] = "live"}}
  <1>1. Scan(w, live, "replace") /\ grant' = grant
    BY DEF ApproveReplace, tables
  <1>2. live \in SUBSET Rows /\ \A g \in Live' : <<"grant", g>> \in live
    BY <1>1, RowNames DEF Live
  <1> HIDE DEF live
  <1>3. Changes(w) /\ tx'[w].todo = live
    BY <1>1, <1>2, ScanEffect DEF Steps
  <1> QED  BY <1>1, <1>2, <1>3 DEF Replacing, Changes

\* A row is given up only when its grant is no longer live.
LEMMA ApproveReplaceLockKeepsLive ==
    ASSUME OAuthInv, NEW w \in Workers, ApproveReplaceLock(w)
    PROVE  Replacing(w) /\ grant' = grant
  <1> DEFINE rows == {row \in tx[w].todo : Free(w, row)}
             keep == {row \in rows : grant[row[2]] = "live"}
  <1>1. /\ tx[w].pc = "replace" /\ grant' = grant
        /\ tx' = [tx EXCEPT ![w].todo = @ \ rows, ![w].held = @ \cup keep]
    BY DEF ApproveReplaceLock, LockRows, At, tables
  <1>2. keep \in SUBSET rows /\ \A g \in Live : <<"grant", g>> \in rows => <<"grant", g>> \in keep
    BY DEF Live
  <1> HIDE DEF keep
  <1>3. Changes(w) /\ tx'[w].todo = tx[w].todo \ rows /\ tx'[w].held = tx[w].held \cup keep
    BY <1>1, <1>2, LockEffect
  <1> HIDE DEF rows
  <1>4. Live' = Live
    BY <1>1 DEF Live
  <1> QED  BY <1>1, <1>2, <1>3, <1>4 DEF Replacing, Changes

\* An approval commits: what its worker approved before is replaced, so the new
\* grant is the one its worker answers for.
LEMMA ApproveCommitReplaces ==
    ASSUME OAuthInv, ApproversDiffer, NEW w \in Workers, ApproveCommit(w)
    PROVE  ApproversDiffer'
  <1> DEFINE g == tx[w].grant
  <1>1. PICK f \in [Live -> Workers] : ApprovedBy(f)
    BY DEF ApproversDiffer
  <1>2. /\ tx[w].pc = "replace" /\ tx[w].todo = {} /\ Finish(w)
        /\ grant' = [h \in Grants |-> IF h = g THEN "live"
                                      ELSE IF <<"grant", h>> \in tx[w].held THEN "revoked"
                                      ELSE grant[h]]
    BY DEF ApproveCommit, At
  <1>3. /\ tx'[w].pc = "idle" /\ \A v \in Workers \ {w} : tx'[v] = tx[v]
    BY <1>2, FinishEffect, IdleType DEF Changes
  <1> HIDE DEF g
  <1>4. \A h \in Live' : h # g => h \in Live /\ <<"grant", h>> \notin tx[w].held
    BY <1>2 DEF Live
  <1>5. \A h \in Live' : h # g => f[h] \in Workers \ {w}
    BY <1>1, <1>2, <1>4 DEF ApprovedBy
  <1> DEFINE k == [h \in Live' |-> IF h = g THEN w ELSE f[h]]
  <1>6. /\ k \in [Live' -> Workers]
        /\ \A h \in Live' : (h = g => k[h] = w) /\ (h # g => k[h] = f[h])
    BY <1>5
  <1> HIDE DEF k
  <1>7. \A h, i \in Live' : k[h] = k[i] => h = i
    BY <1>1, <1>4, <1>5, <1>6 DEF ApprovedBy
  <1>8. ASSUME NEW h \in Live', tx'[k[h]].pc = "replace"
        PROVE  <<"grant", h>> \in tx'[k[h]].todo \cup tx'[k[h]].held
    <2>1. h # g
      BY <1>3, <1>6, <1>8
    <2>2. k[h] = f[h] /\ h \in Live /\ tx'[k[h]] = tx[f[h]]
      BY <1>3, <1>4, <1>5, <1>6, <2>1
    <2> QED  BY <1>1, <1>8, <2>2 DEF ApprovedBy
  <1> QED  BY <1>6, <1>7, <1>8 DEF ApproversDiffer, ApprovedBy

LEMMA ArrivalsBegin ==
    ASSUME OAuthInv, NEW w \in Workers, Arrive(w)
    PROVE  \E t : Begin(w, t) /\ t.pc # "replace"
  <1>1. ASSUME NEW g \in Grants, NEW op \in {"approve", "deny"}, BeginDecision(w, g, op)
        PROVE  \E t : Begin(w, t) /\ t.pc # "replace"
    <2> DEFINE t == [Idle EXCEPT !.op = op, !.pc = "take", !.grant = g, !.start = now]
    <2>1. Begin(w, t)
      BY <1>1 DEF BeginDecision
    <2>2. t.pc = "take"
      BY IdleType DEF TxType
    <2> HIDE DEF t
    <2> QED  BY <2>1, <2>2
  <1>2. ASSUME NEW g \in Grants, BeginExchange(w, g)
        PROVE  \E t : Begin(w, t) /\ t.pc # "replace"
    <2> DEFINE t == [Idle EXCEPT !.op = "exchange", !.pc = "code", !.grant = g, !.start = now,
                             !.ended = (grant[g] = "revoked")]
    <2>1. Begin(w, t)
      BY <1>2 DEF BeginExchange
    <2>2. t.pc = "code"
      BY IdleType DEF TxType
    <2> HIDE DEF t
    <2> QED  BY <2>1, <2>2
  <1>3. ASSUME NEW g \in Grants, BeginDisconnect(w, g)
        PROVE  \E t : Begin(w, t) /\ t.pc # "replace"
    <2> DEFINE t == [Idle EXCEPT !.op = "disconnect", !.pc = "kill", !.grant = g]
    <2>1. Begin(w, t)
      BY <1>3 DEF BeginDisconnect
    <2>2. t.pc = "kill"
      BY IdleType DEF TxType
    <2> HIDE DEF t
    <2> QED  BY <2>1, <2>2
  <1>4. ASSUME NEW u \in tokens, BeginRefresh(w, u)
        PROVE  \E t : Begin(w, t) /\ t.pc # "replace"
    <2> DEFINE t == [Idle EXCEPT !.op = "refresh", !.pc = "token", !.grant = u.grant,
                             !.row = Row(u), !.start = now]
    <2>1. Begin(w, t)
      BY <1>4 DEF BeginRefresh
    <2>2. t.pc = "token"
      BY IdleType DEF TxType
    <2> HIDE DEF t
    <2> QED  BY <2>1, <2>2
  <1>5. ASSUME NEW u \in tokens, BeginRevoke(w, u)
        PROVE  \E t : Begin(w, t) /\ t.pc # "replace"
    <2> DEFINE t == [Idle EXCEPT !.op = "revoke", !.grant = u.grant, !.row = Row(u),
                             !.pc = IF u.kind = "refresh" THEN "kill" ELSE "revoke"]
    <2>1. Begin(w, t)
      BY <1>5 DEF BeginRevoke
    <2>2. t.pc \in {"kill", "revoke"}
      BY IdleType DEF TxType
    <2> HIDE DEF t
    <2> QED  BY <2>1, <2>2
  <1> QED  BY <1>1, <1>2, <1>3, <1>4, <1>5 DEF Arrive

\* Every other statement leaves the grants or ends one.
LEMMA OtherStepsReplaceNothing ==
    ASSUME OAuthInv, NEW w \in Workers, Arrive(w) \/ Step(w) \/ Rollback(w),
           ~(ApproveReplace(w) \/ ApproveReplaceLock(w) \/ ApproveCommit(w))
    PROVE  Replacing(w) /\ Live' \subseteq Live
  <1>1. tx \in [Workers -> TxType] /\ tx[w] \in TxType
    BY DEF OAuthInv
  <1>2. CASE Arrive(w)
    <2>1. \E t : Begin(w, t) /\ t.pc # "replace"
      BY <1>2, ArrivalsBegin
    <2>2. grant' = grant
      BY <1>2 DEF Arrive, BeginDecision, BeginExchange, BeginDisconnect, BeginRefresh, BeginRevoke, tables
    <2> QED  BY <2>1, <2>2, NothingToReplace DEF Live
  <1>3. CASE Rollback(w) \/ Deny(w) \/ RevokeAccess(w) \/ issueTokens(w)
    BY <1>3, NothingToReplace DEF Rollback, Deny, RevokeAccess, issueTokens, tables, Live
  <1>4. CASE takeRequest(w)
    <2>1. tx[w].op \in {"approve", "deny"}
      BY <1>4, WorkerFacts DEF takeRequest, At
    <2>2. grant' = grant /\ (Finish(w) \/ Hold(w, <<"request", tx[w].grant>>, tx[w].op))
      BY <1>4 DEF takeRequest, tables
    <2> QED  BY <2>1, <2>2, NothingToReplace DEF Live
  <1>5. CASE exchangeCode(w) \/ refreshLockToken(w) \/ refresh(w) \/ revokeGrant(w)
    <2>1. grant' = grant
      BY <1>5 DEF exchangeCode, refreshLockToken, refresh, revokeGrant, tables
    <2>2. Finish(w) \/ \E row : \E pc \in {"kill", "issue", "refresh", "killTokens"} : Hold(w, row, pc)
      BY <1>5 DEF exchangeCode, refreshLockToken, refresh, revokeGrant
    <2> QED  BY <2>1, <2>2, NothingToReplace DEF Live
  <1>6. CASE issueTokensPrune(w) \/ revokeGrantTokens(w)
    <2>1. grant' = grant
      BY <1>6 DEF issueTokensPrune, revokeGrantTokens, tables
    <2>2. \E rows : \E pc \in {"prune", "killLocks"} : Scan(w, rows, pc)
      BY <1>6 DEF issueTokensPrune, revokeGrantTokens
    <2> QED  BY <2>1, <2>2, NothingToReplace DEF Live
  <1>7. CASE issueTokensPruneLock(w) \/ revokeGrantLock(w)
    <2>1. grant' = grant /\ tx[w].pc # "replace"
      BY <1>7 DEF issueTokensPruneLock, revokeGrantLock, At, tables
    <2>2. \E todo, held : tx' = [tx EXCEPT ![w].todo = todo, ![w].held = held]
      BY <1>7 DEF issueTokensPruneLock, revokeGrantLock, LockRows
    <2> QED  BY <2>1, <2>2, NothingToReplace DEF Live
  <1>8. CASE revokeGrantCommit(w)
    <2>1. Finish(w) /\ grant' = [grant EXCEPT ![tx[w].grant] = "revoked"]
      BY <1>8 DEF revokeGrantCommit
    <2>2. grant \in [Grants -> States]
      BY TableFacts
    <2>3. Live' \subseteq Live
      BY <2>1, <2>2 DEF Live
    <2> QED  BY <2>1, <2>3, NothingToReplace
  <1> QED  BY <1>2, <1>3, <1>4, <1>5, <1>6, <1>7, <1>8 DEF Step

LEMMA ApproversKeep == OAuthInv /\ ApproversDiffer /\ [Next]_vars => ApproversDiffer'
  <1> SUFFICES ASSUME OAuthInv, ApproversDiffer, [Next]_vars  PROVE ApproversDiffer'
    OBVIOUS
  <1>1. CASE UNCHANGED vars \/ Tick \/ \E g \in Grants : StartAuthorization(g)
    <2>1. tx' = tx /\ grant' = grant
      BY <1>1 DEF vars, Tick, StartAuthorization, tables
    <2> QED  BY <2>1 DEF ApproversDiffer, ApprovedBy, Live
  <1>2. ASSUME NEW w \in Workers, Arrive(w) \/ Step(w) \/ Rollback(w)  PROVE ApproversDiffer'
    <2>1. CASE ApproveCommit(w)
      BY <2>1, ApproveCommitReplaces
    <2>2. CASE ApproveReplace(w) \/ ApproveReplaceLock(w)
      BY <2>2, ApproveReplaceSeesAll, ApproveReplaceLockKeepsLive, FewerLive DEF Live
    <2>3. CASE ~(ApproveReplace(w) \/ ApproveReplaceLock(w) \/ ApproveCommit(w))
      BY <1>2, <2>3, OtherStepsReplaceNothing, FewerLive
    <2> QED  BY <2>1, <2>2, <2>3
  <1> QED  BY <1>1, <1>2 DEF Next

LEMMA ApproversInit == Init => ApproversDiffer
  <1> SUFFICES ASSUME Init  PROVE ApproversDiffer
    OBVIOUS
  <1>1. Live = {}
    BY DEF Init, Live
  <1>2. [g \in Live |-> None] \in [Live -> Workers]
    BY <1>1
  <1> QED  BY <1>1, <1>2 DEF ApproversDiffer, ApprovedBy

LEMMA ApproversBoundLive == ApproversDiffer => LiveGrantsOverlap
  <1> SUFFICES ASSUME ApproversDiffer  PROVE LiveGrantsOverlap
    OBVIOUS
  <1>1. PICK f \in [Live -> Workers] : ApprovedBy(f)
    BY DEF ApproversDiffer
  <1>2. f \in Injection(Live, Workers)
    BY <1>1 DEF ApprovedBy, Injection, IsInjective
  <1>3. Cardinality(Live) <= Cardinality(Workers)
    BY <1>2, OAuthAssumption, FS_Injection
  <1> QED  BY <1>3 DEF LiveGrantsOverlap, Live

-----------------------------------------------------------------------------
(* Theorems *)

\* What each request of internal/oauth may rely on while it holds its locks,
\* and what the tables always satisfy.
THEOREM OAuthInvariant == Spec => []OAuthInv
  BY InitHolds, NextKeeps, PTL DEF Spec

\* Every column and every transaction keeps its type; in particular there is a
\* serial number for every pair a request in progress may still issue.
THEOREM OAuthTypeCorrect == Spec => []TypeOK
  <1>1. OAuthInv => TypeOK
    BY DEF OAuthInv, TablesInv, TypeOK, TxType, Ops, Steps, States
  <1> QED  BY <1>1, OAuthInvariant, PTL

\* A code or refresh token presented a second time costs the grant every token
\* it produced, also those a request in progress was about to commit.
THEOREM ReplaysRevokeAll == Spec => []ReplayRevokesAll
  <1>1. OAuthInv => ReplayRevokesAll
    BY DEF OAuthInv, TablesInv, ReplayRevokesAll, TokensOf
  <1> QED  BY <1>1, OAuthInvariant, PTL

\* Every overlapping use of the authorization server is one chain of secrets per
\* grant: spent one at a time, in order of issue, and over once the grant ends.
THEOREM ImplementsGrantChain == Spec => RefinesGrantChain
  <1>1. OAuthInv /\ [Next]_vars => [Chain!Next]_<<chainState, chainSecret>>
    BY ChainStep
  <1> QED  BY <1>1, ChainInit, OAuthInvariant, PTL
           DEF Spec, RefinesGrantChain, Chain!Spec, chainState, chainSecret

\* Only approvals that overlap leave several grants live: with n requests in
\* progress at once, never more than n, however many approvals follow each other.
THEOREM LiveGrantsBounded == Spec => []LiveGrantsOverlap
  <1>1. Init => OAuthInv /\ ApproversDiffer
    BY InitHolds, ApproversInit
  <1>2. OAuthInv /\ ApproversDiffer /\ [Next]_vars => (OAuthInv /\ ApproversDiffer)'
    BY NextKeeps, ApproversKeep
  <1> QED  BY <1>1, <1>2, ApproversBoundLive, PTL DEF Spec

=============================================================================
