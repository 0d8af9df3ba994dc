---------------------------- MODULE OAuthGrants ----------------------------
(***************************************************************************)
(* The authorization server of internal/oauth/service.go, for the grants   *)
(* of one user to one registered client: consent, the token endpoint,      *)
(* revocation and the connected apps page, all running at once.            *)
(*                                                                         *)
(* Every handler is one READ COMMITTED transaction.  A worker runs one     *)
(* handler; each action is one SQL statement, or the wait for one row      *)
(* lock.  Row locks are kept until the end of the transaction and its      *)
(* writes, made to locked or new rows only, show at commit: they are in    *)
(* the commit actions.  A statement reads what was committed when it       *)
(* began; a row it had to wait for is read again once it has the lock.     *)
(***************************************************************************)
EXTENDS Integers, FiniteSets

CONSTANTS
  Workers,      \* requests in progress at once
  Grants,       \* authorization requests, and the grant each one can become
  None,         \* no grant
  RequestLife, CodeLife, AccessLife, RefreshLife, Retention,  \* durations
  MaxTime,      \* BOUND: the clock stops here
  MaxIssues     \* BOUND: token pairs ever issued

ASSUME OAuthAssumption ==
  /\ IsFiniteSet(Workers)
  /\ None \notin Grants
  /\ {RequestLife, CodeLife, AccessLife, RefreshLife, MaxIssues} \subseteq Nat \ {0}
  /\ Retention \in Nat /\ MaxTime \in Nat

VARIABLES
  now,        \* the clock of the service
  request,    \* oauth_authorization_requests
  grant,      \* oauth_grants
  code,       \* oauth_authorization_codes; a grant has one code
  tokens,     \* oauth_tokens, a set of rows
  nextIssue,  \* serial number of the next pair of tokens
  tx,         \* the transaction of each worker
  replayed    \* HISTORY: grants whose used code or refresh token was presented
              \* again, and answered

vars == <<now, request, grant, code, tokens, nextIssue, tx, replayed>>
tables == <<request, grant, code, tokens, nextIssue, replayed>>

Times == 0 .. MaxTime + RequestLife + CodeLife + AccessLife + RefreshLife
Kinds == {"access", "refresh"}
Token == [issue: 1 .. MaxIssues, kind: Kinds, grant: Grants, expires: Times,
          used: BOOLEAN, revoked: BOOLEAN]

\* The name of a row, for its lock.
TokenRows == Kinds \X (1 .. MaxIssues)
Rows == ({"request", "grant", "code"} \X Grants) \cup TokenRows
NoRow == <<>>

\* op: the handler; pc: its next statement; grant, row: its arguments; start:
\* the timestamp it took first; ended: the grant was revoked in the snapshot of
\* its SELECT; todo: rows its statement still has to lock; held: rows it locked.
\* A revocation uses its timestamp for revoked_at only, which is a flag here.
Idle == [op |-> "none", pc |-> "idle", grant |-> None, row |-> NoRow, start |-> 0,
         ended |-> FALSE, todo |-> {}, held |-> {}]

Row(t) == <<t.kind, t.issue>>
TokensOf(g) == {t \in tokens : t.grant = g}

-----------------------------------------------------------------------------
(* Transactions *)

At(w, pc) == tx[w].pc = pc
Goto(w, pc) == tx' = [tx EXCEPT ![w].pc = pc]
Finish(w) == tx' = [tx EXCEPT ![w] = Idle]

Begin(w, handler) == At(w, "idle") /\ tx' = [tx EXCEPT ![w] = handler]

Free(w, row) == \A v \in Workers \ {w} : row \notin tx[v].held

\* The statement finds its row, locks it and goes on.
Hold(w, row, pc) == tx' = [tx EXCEPT ![w].held = @ \cup {row}, ![w].pc = pc]

\* An UPDATE or DELETE begins: its snapshot tells the rows it will lock.
Scan(w, rows, pc) == tx' = [tx EXCEPT ![w].todo = rows, ![w].pc = pc]

\* The scan locks the rows nobody else holds, in one step, and waits for the
\* others; a row that no longer satisfies the WHERE clause is skipped.
LockRows(w, qualifies(_)) ==
  LET rows == {row \in tx[w].todo : Free(w, row)}
  IN  /\ rows # {}
      /\ tx' = [tx EXCEPT ![w].todo = @ \ rows,
                          ![w].held = @ \cup {row \in rows : qualifies(row)}]

TokenExists(row) == \E t \in tokens : Row(t) = row

-----------------------------------------------------------------------------
(* Authorization requests and consent *)

\* One autocommitted DELETE, which waits for rows in decision, and one INSERT.
StartAuthorization(g) ==
  LET expired == {h \in Grants : request[h].state = "pending" /\ request[h].expires < now}
  IN  /\ request[g].state = "none"
      /\ \A h \in expired, w \in Workers : <<"request", h>> \notin tx[w].held
      /\ request' = [h \in Grants |->
                       IF h = g THEN [state |-> "pending", expires |-> now + RequestLife]
                       ELSE IF h \in expired THEN [request[h] EXCEPT !.state = "gone"]
                       ELSE request[h]]
      /\ UNCHANGED <<now, grant, code, tokens, nextIssue, tx, replayed>>

\* The user answers the consent page, which shows pending requests only.
BeginDecision(w, g, op) ==
  /\ request[g].state = "pending"
  /\ Begin(w, [Idle EXCEPT !.op = op, !.pc = "take", !.grant = g, !.start = now])
  /\ UNCHANGED <<now, tables>>

\* Mutant: the request is not found and the transaction is left open.
takeRequestLeaking(w) ==
  LET r == request[tx[w].grant]
  IN  /\ At(w, "take") /\ Free(w, <<"request", tx[w].grant>>)
      /\ IF r.state = "pending" /\ r.expires > tx[w].start
         THEN Hold(w, <<"request", tx[w].grant>>, tx[w].op)
         ELSE UNCHANGED tx
      /\ UNCHANGED <<now, tables>>

\* takeRequest: DELETE ... RETURNING.  A request decided or expired is not found.
takeRequest(w) ==
  LET r == request[tx[w].grant]
  IN  /\ At(w, "take") /\ Free(w, <<"request", tx[w].grant>>)
      /\ IF r.state = "pending" /\ r.expires > tx[w].start
         THEN Hold(w, <<"request", tx[w].grant>>, tx[w].op)
         ELSE Finish(w)
      /\ UNCHANGED <<now, tables>>

\* Mutant: Approve adds a grant and leaves the earlier ones.
ApproveReplaceNothing(w) ==
  /\ At(w, "approve")
  /\ Scan(w, {}, "replace")
  /\ UNCHANGED <<now, tables>>

\* Approve: UPDATE oauth_grants begins over the grants it sees live.
ApproveReplace(w) ==
  /\ At(w, "approve")
  /\ Scan(w, {<<"grant", g>> : g \in {h \in Grants : grant[h] = "live"}}, "replace")
  /\ UNCHANGED <<now, tables>>

ApproveReplaceLock(w) ==
  /\ At(w, "replace")
  /\ LockRows(w, LAMBDA row : grant[row[2]] = "live")
  /\ UNCHANGED <<now, tables>>

\* Approve: the earlier grants end, the new one is inserted with its code.
ApproveCommit(w) ==
  LET g == tx[w].grant
  IN  /\ At(w, "replace") /\ tx[w].todo = {}
      /\ request' = [request EXCEPT ![g].state = "gone"]
      /\ grant' = [h \in Grants |-> IF h = g THEN "live"
                                    ELSE IF <<"grant", h>> \in tx[w].held THEN "revoked"
                                    ELSE grant[h]]
      /\ code' = [code EXCEPT ![g] = [used |-> FALSE, expires |-> tx[w].start + CodeLife]]
      /\ Finish(w)
      /\ UNCHANGED <<now, tokens, nextIssue, replayed>>

Deny(w) ==
  /\ At(w, "deny")
  /\ request' = [request EXCEPT ![tx[w].grant].state = "gone"]
  /\ Finish(w)
  /\ UNCHANGED <<now, grant, code, tokens, nextIssue, replayed>>

-----------------------------------------------------------------------------
(* The token endpoint *)

\* BOUND: a pair for each request that has its locks; others are refused.
RoomToIssue ==
  nextIssue + Cardinality({v \in Workers : tx[v].pc \in {"issue", "prune"}}) <= MaxIssues

\* exchangeCode: the SELECT begins; it locks the code row only, so what it
\* knows of the grant is its snapshot.
BeginExchange(w, g) ==
  /\ grant[g] # "none"
  /\ Begin(w, [Idle EXCEPT !.op = "exchange", !.pc = "code", !.grant = g, !.start = now,
                           !.ended = (grant[g] = "revoked")])
  /\ UNCHANGED <<now, tables>>

\* Mutant: the SELECT of the code does not lock it.
exchangeCodeUnlocked(w) ==
  LET c == code[tx[w].grant]
  IN  /\ At(w, "code")
      /\ IF c.used THEN Goto(w, "kill")
         ELSE IF c.expires <= tx[w].start \/ tx[w].ended \/ ~RoomToIssue THEN Finish(w)
         ELSE Goto(w, "issue")
      /\ UNCHANGED <<now, tables>>

\* exchangeCode has the code row: a used code ends its grant.
exchangeCode(w) ==
  LET g == tx[w].grant
      c == code[g]
  IN  /\ At(w, "code") /\ Free(w, <<"code", g>>)
      /\ IF c.used THEN Hold(w, <<"code", g>>, "kill")
         ELSE IF c.expires <= tx[w].start \/ tx[w].ended \/ ~RoomToIssue THEN Finish(w)
         ELSE Hold(w, <<"code", g>>, "issue")
      /\ UNCHANGED <<now, tables>>

\* refresh: FOR UPDATE OF token, grant_row locks the token first.
BeginRefresh(w, t) ==
  /\ t.kind = "refresh"
  /\ Begin(w, [Idle EXCEPT !.op = "refresh", !.pc = "token", !.grant = t.grant,
                           !.row = Row(t), !.start = now])
  /\ UNCHANGED <<now, tables>>

refreshLockToken(w) ==
  /\ At(w, "token") /\ Free(w, tx[w].row)
  /\ IF TokenExists(tx[w].row) THEN Hold(w, tx[w].row, "refresh") ELSE Finish(w)
  /\ UNCHANGED <<now, tables>>

\* Mutant: the SELECT of the refresh token locks the token only.
refreshGrantUnlocked(w) ==
  LET g == tx[w].grant
      t == CHOOSE u \in tokens : Row(u) = tx[w].row
  IN  /\ At(w, "refresh")
      /\ IF t.used /\ grant[g] = "live" THEN Goto(w, "kill")
         ELSE IF t.used \/ t.revoked \/ grant[g] = "revoked" \/ t.expires <= tx[w].start \/ ~RoomToIssue
         THEN Finish(w)
         ELSE Goto(w, "issue")
      /\ UNCHANGED <<now, tables>>

\* refresh has both rows: a used token of a live grant ends the grant.
refresh(w) ==
  LET g == tx[w].grant
      t == CHOOSE u \in tokens : Row(u) = tx[w].row
  IN  /\ At(w, "refresh") /\ Free(w, <<"grant", g>>)
      /\ IF t.used /\ grant[g] = "live" THEN Hold(w, <<"grant", g>>, "kill")
         ELSE IF t.used \/ t.revoked \/ grant[g] = "revoked" \/ t.expires <= tx[w].start \/ ~RoomToIssue
         THEN Finish(w)
         ELSE Hold(w, <<"grant", g>>, "issue")
      /\ UNCHANGED <<now, tables>>

\* issueTokens: DELETE of the tokens of the grant that expired a while ago.
issueTokensPrune(w) ==
  /\ At(w, "issue")
  /\ Scan(w, {Row(t) : t \in {u \in TokensOf(tx[w].grant) : u.expires < tx[w].start - Retention}},
          "prune")
  /\ UNCHANGED <<now, tables>>

issueTokensPruneLock(w) ==
  /\ At(w, "prune")
  /\ LockRows(w, TokenExists)
  /\ UNCHANGED <<now, tables>>

\* Mutant: the tokens are inserted without their grant.
PairOrphaned(w, n) ==
  {[issue |-> n, kind |-> k, grant |-> None, used |-> FALSE, revoked |-> FALSE,
    expires |-> tx[w].start + (IF k = "access" THEN AccessLife ELSE RefreshLife)] : k \in Kinds}

\* The pair of tokens that serial number n stands for.
Pair(w, n) ==
  {[issue |-> n, kind |-> k, grant |-> tx[w].grant, used |-> FALSE, revoked |-> FALSE,
    expires |-> tx[w].start + (IF k = "access" THEN AccessLife ELSE RefreshLife)] : k \in Kinds}

\* The secret that paid for the pair is marked used, the pair is inserted and
\* the rows the prune locked are gone.
issueTokens(w) ==
  /\ At(w, "prune") /\ tx[w].todo = {}
  /\ code' = IF tx[w].op = "exchange" THEN [code EXCEPT ![tx[w].grant].used = TRUE] ELSE code
  /\ tokens' = {t \in tokens : Row(t) \notin tx[w].held}
               \cup {[t EXCEPT !.used = TRUE] : t \in {u \in tokens : Row(u) = tx[w].row}}
               \cup Pair(w, nextIssue)
  /\ nextIssue' = nextIssue + 1
  /\ Finish(w)
  /\ UNCHANGED <<now, request, grant, replayed>>

-----------------------------------------------------------------------------
(* Revocation *)

\* Revoke, RFC 7009: the SELECT locks nothing; a refresh token ends the grant.
BeginRevoke(w, t) ==
  /\ Begin(w, [Idle EXCEPT !.op = "revoke", !.grant = t.grant, !.row = Row(t),
                           !.pc = IF t.kind = "refresh" THEN "kill" ELSE "revoke"])
  /\ UNCHANGED <<now, tables>>

\* Revoke: an access token goes alone.
RevokeAccess(w) ==
  /\ At(w, "revoke") /\ Free(w, tx[w].row)
  /\ tokens' = {IF Row(t) = tx[w].row THEN [t EXCEPT !.revoked = TRUE] ELSE t : t \in tokens}
  /\ Finish(w)
  /\ UNCHANGED <<now, request, grant, code, nextIssue, replayed>>

\* RevokeConnectedApp: its own UPDATE comes first and must find the grant live.
BeginDisconnect(w, g) ==
  /\ grant[g] = "live"
  /\ Begin(w, [Idle EXCEPT !.op = "disconnect", !.pc = "kill", !.grant = g])
  /\ UNCHANGED <<now, tables>>

\* revokeGrant: UPDATE oauth_grants.
revokeGrant(w) ==
  LET g == tx[w].grant
  IN  /\ At(w, "kill") /\ Free(w, <<"grant", g>>)
      /\ IF tx[w].op = "disconnect" /\ grant[g] # "live"
         THEN Finish(w)
         ELSE Hold(w, <<"grant", g>>, "killTokens")
      /\ UNCHANGED <<now, tables>>

\* revokeGrant: UPDATE oauth_tokens begins over the tokens it sees.
revokeGrantTokens(w) ==
  /\ At(w, "killTokens")
  /\ Scan(w, {Row(t) : t \in TokensOf(tx[w].grant)}, "killLocks")
  /\ UNCHANGED <<now, tables>>

revokeGrantLock(w) ==
  /\ At(w, "killLocks")
  /\ LockRows(w, TokenExists)
  /\ UNCHANGED <<now, tables>>

revokeGrantCommit(w) ==
  LET g == tx[w].grant
  IN  /\ At(w, "killLocks") /\ tx[w].todo = {}
      /\ grant' = [grant EXCEPT ![g] = "revoked"]
      /\ tokens' = {IF Row(t) \in tx[w].held THEN [t EXCEPT !.revoked = TRUE] ELSE t : t \in tokens}
      /\ replayed' = IF tx[w].op \in {"exchange", "refresh"} THEN replayed \cup {g} ELSE replayed
      /\ Finish(w)
      /\ UNCHANGED <<now, request, code, nextIssue>>

-----------------------------------------------------------------------------
(* The rest of the world *)

\* The client disconnects, a check of the request fails or the process stops:
\* the transaction is rolled back and its locks are dropped.
Rollback(w) ==
  /\ ~At(w, "idle")
  /\ Finish(w)
  /\ UNCHANGED <<now, tables>>

\* Rows the next statement of w may be waiting for.
Wanted(w) ==
  CASE At(w, "take")    -> {<<"request", tx[w].grant>>}
    [] At(w, "code")    -> {<<"code", tx[w].grant>>}
    [] At(w, "token")   -> {tx[w].row}
    [] At(w, "revoke")  -> {tx[w].row}
    [] At(w, "refresh") -> {<<"grant", tx[w].grant>>}
    [] At(w, "kill")    -> {<<"grant", tx[w].grant>>}
    [] OTHER            -> tx[w].todo

Blocked(w) == Wanted(w) # {} /\ \A row \in Wanted(w) : ~Free(w, row)

\* PostgreSQL breaks a cycle of waits by failing one of the transactions.
Deadlocked == {w \in Workers : /\ Blocked(w)
                               /\ \E v \in Workers : /\ Blocked(v)
                                                     /\ Wanted(w) \cap tx[v].held # {}
                                                     /\ Wanted(v) \cap tx[w].held # {}}

DeadlockVictim(w) == w \in Deadlocked /\ Rollback(w)

Tick ==
  /\ now < MaxTime
  /\ now' = now + 1
  /\ UNCHANGED <<tx, tables>>

-----------------------------------------------------------------------------
Init ==
  /\ now = 0
  /\ request = [g \in Grants |-> [state |-> "none", expires |-> 0]]
  /\ grant = [g \in Grants |-> "none"]
  /\ code = [g \in Grants |-> [used |-> FALSE, expires |-> 0]]
  /\ tokens = {}
  /\ nextIssue = 1
  /\ tx = [w \in Workers |-> Idle]
  /\ replayed = {}

\* The next statement of a request in progress.
Step(w) ==
  \/ takeRequest(w) \/ ApproveReplace(w) \/ ApproveReplaceLock(w) \/ ApproveCommit(w) \/ Deny(w)
  \/ exchangeCode(w) \/ refreshLockToken(w) \/ refresh(w)
  \/ issueTokensPrune(w) \/ issueTokensPruneLock(w) \/ issueTokens(w)
  \/ RevokeAccess(w)
  \/ revokeGrant(w) \/ revokeGrantTokens(w) \/ revokeGrantLock(w) \/ revokeGrantCommit(w)

\* A request arrives.
Arrive(w) ==
  \/ \E g \in Grants : \/ BeginDecision(w, g, "approve")
                       \/ BeginDecision(w, g, "deny")
                       \/ BeginExchange(w, g)
                       \/ BeginDisconnect(w, g)
  \/ \E t \in tokens : BeginRefresh(w, t) \/ BeginRevoke(w, t)

Next ==
  \/ \E w \in Workers : Arrive(w) \/ Step(w) \/ Rollback(w)
  \/ \E g \in Grants : StartAuthorization(g)
  \/ Tick

Spec == Init /\ [][Next]_vars

\* A statement that can run runs; row locks are queued, so a waiter is not
\* overtaken for ever; a deadlock is noticed.
Fairness == \A w \in Workers : SF_vars(Step(w)) /\ WF_vars(DeadlockVictim(w))

FairSpec == Spec /\ Fairness

-----------------------------------------------------------------------------
(* Properties *)

\* Type invariant.
TypeOK ==
  /\ now \in 0 .. MaxTime
  /\ request \in [Grants -> [state: {"none", "pending", "gone"}, expires: Times]]
  /\ grant \in [Grants -> {"none", "live", "revoked"}]
  /\ code \in [Grants -> [used: BOOLEAN, expires: Times]]
  /\ tokens \subseteq Token
  /\ nextIssue \in 1 .. MaxIssues + 1
  /\ tx \in [Workers -> [op: {"none", "approve", "deny", "exchange", "refresh", "revoke", "disconnect"},
                         pc: {"idle", "take", "approve", "deny", "replace", "code", "token", "refresh",
                              "issue", "prune", "revoke", "kill", "killTokens", "killLocks"},
                         grant: Grants \cup {None}, row: TokenRows \cup {NoRow}, start: 0 .. MaxTime,
                         ended: BOOLEAN, todo: SUBSET Rows, held: SUBSET Rows]]
  /\ replayed \subseteq Grants

\* The unused secrets of a grant: its code, number 0, and its refresh tokens.
Unused(g) ==
  {t.issue : t \in {u \in TokensOf(g) : u.kind = "refresh" /\ ~u.used}}
  \cup (IF grant[g] # "none" /\ ~code[g].used THEN {0} ELSE {})

\* A code or refresh token that was presented twice costs the grant everything
\* it produced, also the pair a request in progress was about to commit.
ReplayRevokesAll ==
  \A g \in replayed : grant[g] = "revoked" /\ \A t \in TokensOf(g) : t.revoked

\* Every overlapping use of codes and refresh tokens amounts to one chain of
\* secrets per grant, each spent at most once, that never restarts.
Chain == INSTANCE GrantChain WITH
  Secrets <- 0 .. MaxIssues,
  state <- [g \in Grants |-> IF grant[g] = "revoked" THEN "ended" ELSE grant[g]],
  secret <- [g \in Grants |-> IF grant[g] = "live" THEN Unused(g) ELSE {}]

RefinesGrantChain == Chain!Spec

\* Every request is answered, although the handlers do not lock the grant and
\* its tokens in one order.
RequestsEnd == \A w \in Workers : ~At(w, "idle") ~> At(w, "idle")

\* Only approvals that overlap can leave several grants live: with n requests in
\* progress at once, however many approvals follow each other, at most n.
LiveGrantsOverlap == Cardinality({g \in Grants : grant[g] = "live"}) <= Cardinality(Workers)

\* The comment on Approve: approving a client again replaces the earlier grant,
\* so the user never has two live grants for it.
OneLiveGrant == \A g, h \in Grants : grant[g] = "live" /\ grant[h] = "live" => g = h

=============================================================================
