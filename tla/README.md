# Wealthboard in TLA+

Wealthboard is a self-hosted net-worth tracker: a Go HTTP API over PostgreSQL and
a React client. All authoritative state is in PostgreSQL; every request is one
database transaction, and the processes share nothing else. So what can go wrong
on the server is what goes wrong between the statements of transactions, and
between requests that are each correct. The client keeps copies of that state: a
session, cached answers, half-filled forms, previews. What can go wrong there is
what happens between an answer and the moment it is used. This directory models
both: TLA+ modules translated from the source, TLC configurations that check them
on small instances, and theorems checked by TLAPS.

Paths below are relative to the repository. `PROJECT.json` maps every definition
that models code to the lines it stands for, and lists runs, mutants (a plausible
bug for every property, under which TLC finds the property violated), hazards
and theorems.

## Contents

| module | what it is |
| --- | --- |
| `Ledger` | the balance ledger, one action per request |
| `FiniteLemmas` | induction, recursion, folds and sums over finite sets, and sequences, for the proofs |
| `LedgerProofs` | its inductive invariant and theorems; what a replay computes |
| `LedgerTx` | the ledger's handlers statement by statement, overlapping |
| `LedgerTxProofs` | its inductive invariant and theorems |
| `GrantChain` | what the authorization server promises about a grant's secrets |
| `OAuthGrants` | the authorization server statement by statement; implements `GrantChain` |
| `OAuthGrantsProofs` | its inductive invariant and theorems, `GrantChain` among them |
| `Estate` | the estate plan: shares and numbered summaries, overlapping |
| `EstateProofs` | its inductive invariant and theorems |
| `Positions` | holdings, corporate actions, prices and the cached value built from them |
| `PositionsProofs` | its inductive invariant and theorems; what a replay of position events computes |
| `WebSession` | the signed-in session of a browser tab, beside other tabs |
| `WebForms`, `WebFormTable` | any form from opening to the answer; the list of the client's forms |
| `WebAmounts` | amounts of money from the keystroke to the row |
| `WebCache`, `WebPageTable` | the query cache and the settings panels; the list of the pages' sections |
| `WebImport`, `WebConvert` | the two import pages and the conversion sheet, each with its preview |
| `WebNewAccount` | the new account page and its series of requests |
| `WebTrade`, `WebCorporate` | the forms of trades and corporate actions and the rules of the server |
| `WebActivity` | the activity list: filters, search, pages by offset |
| `WebAccounts`, `WebAllocation` | the list of accounts and the allocation, each joined from several answers |
| `WebEstate`, `EstateTerms` | the estate pages over the plan the server keeps; the constants they share with `Estate` |
| `WebWrites` | what the client sends: `WebForms`, `WebAmounts`, `WebTrade`, `WebCorporate`, `WebNewAccount`, `WebImport`, `WebConvert` side by side |
| `WebViews` | what it shows: `WebCache`, `WebAccounts`, `WebAllocation`, `WebEstate`, `WebActivity` side by side |
| `WebWritesProofs` | inductive invariants and theorems of `WebSession` and `WebWrites` |
| `WebViewsProofs` | inductive invariants and theorems of `WebViews` |
| `MC*.tla`, `MC*.cfg` | instances for TLC |

To check a module: `tlc -config MCLedger.cfg MCLedger.tla`; the proofs:
`tlapm LedgerProofs.tla` and likewise for the other `*Proofs` modules.

## The system

State, operations and interactions of each part. "Locks" says what protects a
read that a later write depends on; it is what the properties are about.

- **Ledger** (`internal/service/ledger.go`). `accounts` (status, side, cached
  `current_value_minor`), `transactions`, `valuation_snapshots`,
  `idempotency_keys`. Ten operations create, change, archive, restore and delete
  accounts, transactions, valuations and transfers; every one that touches rows
  ends by replaying the account's history into the cached balance. READ
  COMMITTED. An advisory lock per idempotency key, `FOR UPDATE` on an edited
  row; the account row is *not* locked before the replay's last UPDATE.
  Must hold: the cached balance is the replay of the rows; transfers are whole
  or gone; a key has one result; an archived balance is frozen.
- **Authorization server for MCP clients** (`internal/oauth`). Clients,
  authorization requests, grants, codes, tokens. Consent makes a grant with a
  code, the code and then each refresh token is exchanged for the next pair,
  reuse ends the grant, and so do revocation and the connected apps page. READ
  COMMITTED with `FOR UPDATE` on codes, tokens and grants, in an order that
  differs between handlers. Must hold: one live secret per grant, no token
  survives a replay, every request ends.
- **Estate planning** (`estate_mutations.go`). Beneficiaries, a plan, directives
  per account, allocations by tier, retained summaries. READ COMMITTED without
  locks; summaries under REPEATABLE READ with a lock on the plan. Must hold: a
  tier is never given away more than once; versions are distinct.
- **Account conversion** (`account_conversion.go`). Archives a balance account and
  creates a position account with its goal and estate directive, once per
  source; advisory lock and `FOR UPDATE` on the source. Calls the investment
  replay.
- **Investments and corporate actions** (`investment_mutations.go`,
  `corporate_actions.go`). Instruments, prices, position events, reconciliations;
  every change replays quantities (never negative; recorded ratios still exact)
  and the cash of the account. SERIALIZABLE, `FOR UPDATE` on accounts and
  instruments, no retry. Shares `accounts` and `transactions` with the ledger.
- **Goals** (`goal_mutations.go`). Goals, plans, milestones, a link kept on both
  sides (`accounts.goal_id`, `goals.linked_account_id`). READ COMMITTED, the
  account locked first on creation, the goal first on update. Uses the ledger's
  `idempotency_keys`.
- **Metadata** (`metadata_mutations.go`). Settings, categories, institutions,
  exchange rates; checks against other tables without locks.
- **Imports** (`imports.go`, `*_history_import.go`). Preview, then commit of the
  same file by hash, SERIALIZABLE, through the ledger's or the positions' replay.
- **Portability** (`portability.go`). Export; restore of a user's data in one
  transaction, which replays every account.
- **Identity** (`internal/auth`). Users, session versions, OIDC identities, API
  keys, login attempts. Optimistic version checks for passwords, `FOR UPDATE`
  and SERIALIZABLE for login methods, one retry after a lost creation race.
- **MCP server, HTTP API, read side, command** carry no state of their own: they
  decode requests, call the services above, and render what they read.
  **Operator tools** and **migrations** are sequential wrappers around
  `pg_dump`/`pg_restore` and goose.

- **Web client** (`web/src`). Per tab: the session query, the CSRF token, the
  cache of the signed-in person's queries, and what its pages hold (values typed
  in a form, an idempotency key, a preview, a draft, filters in the address).
  Tabs share the cookie and tell each other only that something changed. Nothing
  is saved in the browser. Must hold: nobody changes another person's
  data, and nobody keeps it in view once a switch is noticed; what is submitted is recorded once and as it was shown; what was previewed
  is what is done; what is called saved, covered or complete is.

Interactions: the services meet in the tables. Ledger, investments, conversion,
goals, imports and restore write `accounts`; ledger, investments, imports and
restore write `transactions`; ledger and goals write `idempotency_keys`;
conversion moves goal links and estate directives; deleting an account cascades
to its rows, its directive and its link. The client meets them in requests that
are answered late, out of order or never, and each part of it in the query cache.

What is hard here: reads under READ COMMITTED that a later write relies on;
snapshots older than the lock they are meant to be protected by; locks taken in
different orders; requests retried by a client that lost the answer; expiry
judged by a clock read before a wait; bigint balances; histories entered out of
order; and in the client answers that arrive after the page has moved on, copies
of different moments joined in one page, and fields that keep what was typed in
them after they are hidden. `PROJECT.json` lists each at its line.

## Ledger

**State and actions.** `accounts`, `events` (transactions and valuations in one
set, as the replay's query unites them), `idempotency`, `nextId` (ids stand for
`created_at`, the tie-breaker within a date). Each operation is one action,
its final replay included; rejected requests and idempotent retries stutter.
`Replay` is a fold of the loop's body over the rows in query order, with the
range check of the code. `ConvertAccount` is what conversion does to its source,
which cannot be restored while its replacement exists; `DeleteReplacement` is the
deletion of the replacement, after which it can (the replacement itself is tracked
by position and is not an account of this module).

**Run `ledger`**: two accounts, two keys, two dates, at most four rows ever
created, a bigint whose maximum is 3. Four rows are a transfer between two
opened accounts, or an opening with three rows that may be backdated before each
other; maximum 3 with amounts 1 and 2 lets both a sum and an intermediate
balance overflow; two dates give equal and unequal order. Checked: `TypeOK`,
`CachedBalance`, `TransfersWhole`, `OneResultPerKey`, `ReplayMeetsReference` (the
loop computes "latest valuation plus what follows"), and of steps:
`ArchivedFrozen` (nothing moves the value of an archived account, and a converted
source does not come back before its replacement is gone), `TransferConserves`.

**Proved** (`LedgerProofs`), for any accounts, keys, amounts, values, dates and
bounds that satisfy `LedgerAssumption`:

| theorem | says |
| --- | --- |
| `TypeCorrect` | `Spec => []TypeOK`; the cached balance always fits a bigint |
| `CachedBalanceCorrect` | `Spec => []CachedBalance` |
| `TransfersStayWhole` | `Spec => []TransfersWhole` |
| `KeysAreUnique` | `Spec => []OneResultPerKey` |
| `ArchivedStaysFrozen` | `Spec => ArchivedFrozen` |
| `ReplayComputesReference` | `Spec => []ReplayMeetsReference`: for histories of any length |
| `TransfersConserve` | `Spec => TransferConserves` |

The argument: none of the invariants is inductive alone. `CachedBalance` needs
that a new account starts without rows, so a row must never outlive its account
(`RowsWellFormed`); `TransfersWhole` needs that a new group is new, so every id
and group is below `nextId`, and that exactly the legs of transfers have a group.
`LedgerInv` conjoins them; one lemma per action shows it is preserved. Lemmas
about the replay (of one row; of rows of other accounts) and about the row sets
are stated once. The last two theorems are about what a replay computes. The fold over
the sorted rows is a recursion that takes the last row of a set (`FiniteLemmas`), and
the induction is over the set of the sizes for which the claim holds, so that no
operator has to be passed to a theorem. A replay that did not fail returns the
latest valuation and the signed effects of what comes after it; the rows of a
history are ordered because no two have one id (`IdsDistinct`). A transfer adds
one row to each of two histories, so conservation follows from those two sums.

**Overlap: `LedgerTx`.** The sequential guarantees assume that requests do not
overlap, and nothing enforces that: two requests of one account meet only in the
replay's last UPDATE. `LedgerTx` runs the handlers of a transaction (create, edit,
delete), a transfer, archive, restore and deletion of an account statement by
statement under PostgreSQL's rules: a SELECT sees what is committed, writes show
at commit, locks are held until then, a foreign key locks the referenced account.
The amounts are abstracted: a cached balance is the *set of rows* the replay that
stored it had read, so it is right exactly when that set is the account's.

- **Run `ledger_tx`**: two workers, two accounts, two keys, two transactions or
  transfers, one edit, all seven handlers. Two rows and two workers suffice for
  each race below; more of either repeat them. What survives overlap:
  `OneResultPerKey`; `LegLostOnlyByDeletion`; `AloneRepairs` (a request that
  overlaps nothing leaves the accounts it replays right, whatever state earlier
  overlaps left); `TypeOK` includes the foreign key.
- **Run `ledger_tx_cache`** finds `CachedBalance` violated: two creations in one
  account each replay without the other's row, and the second UPDATE wins.
- **Run `ledger_tx_transfer`** finds `TransfersWhole` violated: a transfer commits
  between the check for linked transfers and the deletion of the account.

**Proved** (`LedgerTxProofs`), for any number of requests at once, keys, rows and
edits and any finite set of accounts (`LedgerTxAssumption`, which also says that no
row is called `None`):

| theorem | says |
| --- | --- |
| `LedgerTxTypeCorrect` | `Spec => []TypeOK`; no row is in a deleted account |
| `KeysAnswerOnce` | `Spec => []OneResultPerKey` |
| `LegsStayTogether` | `Spec => []LegLostOnlyByDeletion` |
| `AloneRepairsBalances` | `Spec => AloneRepairs` |

What a request commits it has read before, so none of these is inductive. `TxInv`
says, per handler, what a request may rely on while it holds its locks: the key of a
creation is unused and its accounts cannot be deleted; the row of an edit is the one
it locked; a deletion has every leg, or still wants it. `Apart` says that the
locks of two requests never conflict. `Commit` is the only step that changes what
others rely on: for each of the others the lock it holds excludes the change.
`AloneRepairs` compares the begin and the end of one request. `AloneInv` is what holds
in between: nothing else is committed meanwhile, so what a replay has read is what
its account will have, and every active account the request touches has been
replayed or still will be.

## Authorization server

**State and actions** (`OAuthGrants`). Tables of requests, grants, codes, tokens,
and the transaction of each worker: its next statement, the rows it still has to
lock and those it holds. An action is one statement or the wait for one lock;
writes go to locked or new rows and show at commit. A SELECT that locks only some
of its rows keeps what it knew of the others (`ended`). A grant has the name of
the request it came from. Clock, lifetimes and retention are small integers;
`now` is read where the code reads it, before the transaction. PKCE, redirect
and scope checks reject without a change; they are `Rollback`.

- **Run `grants`** (`MCGrants`), in two parts that bound different things.
  *One request* of three at most, two workers, three token pairs, clock 0..2, so that a code, an access
  and a refresh token can each expire while a request waits and a pruned token is
  presented again: after a replay was answered, the grant and all its tokens are
  revoked, also tokens of a request that was in progress (`ReplayRevokesAll`).
  *Several*: three requests of a client decided two at a time, without the clock and
  with two pairs (`LiveGrantsOverlap`: with n requests at once at most n grants are live).
  `RefinesGrantChain`: in both, every interleaving implements `GrantChain`, one
  chain of secrets per grant that never forks or restarts, under the mapping that
  reads a grant's unused code and refresh tokens as its secret.
- **Run `access`** checks, beside the session below, `RequestsEnd`: every request is
  answered (its clock is too short for a prune). Fairness: strong on a worker's statements, because PostgreSQL queues
  waiters for a row lock and a waiter is not overtaken for ever; weak on breaking a
  deadlock, because the server looks for one after `deadlock_timeout`. Arrivals,
  roll-backs and the clock have no fairness. The deadlock is real: refresh locks a
  token and then its grant, revocation the grant and then its tokens.
- **Run `oauth_one_live_grant`** finds `OneLiveGrant` violated: two approvals that
  overlap replace what each sees and leave two live grants.

**Proved** (`OAuthGrantsProofs`), for any number of grants, tokens and requests at
once (finitely many), any lifetimes and retention (`OAuthAssumption`):

| theorem | says |
| --- | --- |
| `OAuthTypeCorrect` | `Spec => []TypeOK` |
| `ReplaysRevokeAll` | `Spec => []ReplayRevokesAll` |
| `ImplementsGrantChain` | `Spec => RefinesGrantChain`: every step is one of `GrantChain` or a stutter |
| `LiveGrantsBounded` | `Spec => []LiveGrantsOverlap` |

An exchange knows of its grant only what its snapshot told, so `ReplayRevokesAll`
needs more than the tables. Two facts carry it. *Tokens exist only after the code of
their grant has been used* (`TablesInv`): who locks an unused code can add no token
to a grant that a replay is ending, since a replay has found the code used. *A renewal
holds the row of its live grant* (`RefreshInv`): who is about to commit a new pair
excludes who collects the tokens to revoke (`KillInv`). `LocksApart` says that no two
requests hold one row; `StillHolds` that what a request's locks protect survives the
commit of any other. For the refinement, a live grant whose code is used has one
unused refresh token, because the one presented is marked used where the next is
inserted. For the bound on live grants the invariant is that an injection exists from
the live grants to the workers (`ApproversDiffer`): a grant belongs to the worker that
approved it, and while that worker approves again, the grant is among those it will
replace. `RequestsEnd` (liveness) stays with TLC.

## Estate plan

**State and actions** (`Estate`). Beneficiaries, directives, allocations as a
function from (list, beneficiary, tier) to a share, how many summaries have each
version, and the transactions in progress. `upsertAllocation` is split where it
reads: beneficiary, directive, existing row, sum of the others, write, commit. A
summary keeps what its first SELECT saw, since REPEATABLE READ shows it nothing
newer, and fails at the plan's lock only if the plan's *row* has changed.

- **Run `views`** (`MCViews`), its part "requests": two workers, one asset and the residue, two
  beneficiaries, one tier, shares of a whole of 2, two versions. Tiers and lists are
  independent of each other, so two lists in one tier show what there is. `Alone`: a
  request that overlaps no other never overruns a tier, even one already overrun,
  assigns only to active beneficiaries and included assets, and an undisturbed
  summary continues the numbering after deletions and after duplicates.
  `TypeOK` bounds the duplicates of a version. The other parts of the run are pages of
  the client, under "Web client".
- **Run `estate_versions`** finds `DistinctVersions` violated: the second summary
  waits for the plan's lock and then numbers itself from its older snapshot.

Overlapping allocations can also exceed 100% of a tier, which SPEC.md:561-562
excludes; `Alone` is the part that holds.

**Proved** (`EstateProofs`), for any finite sets of workers and beneficiaries, any
assets, tiers and shares (`EstateAssumption`):

| theorem | says |
| --- | --- |
| `EstateTypeCorrect` | `Spec => []TypeOK`; a version is given out at most once per request at once |
| `AloneIsSafe` | `Spec => Alone` |

A request that has overlapped no other knows more than its transaction holds: it is
the only one in progress, and each thing it has read is still so (`AloneOK`) when it
writes and commits. The sum of a tier is a fold over the beneficiaries; `GivenAdd` takes
one of them out of it, as the code does when it replaces a share. The bound on
duplicate versions is not inductive alone: a version given out and the summaries in
progress that are about to get it are together no more than the workers (`Numbered`).

## Positions

**State and actions** (`Positions`). The events of every position account, the
transactions that belong to an event group, the ledger's own transactions of an
account as their sum, instruments, prices, and the cached value. A holding is
stored nowhere: `replayPositionEvents` folds the events of an account in their
order, and every request that changes events must leave a history that replays:
never negative, recorded mergers and spin-offs still exact. Each request under
SERIALIZABLE is one action, because PostgreSQL lets it take effect as a whole or
not at all; nothing retries a failed one, so it simply does not happen. The
ledger's requests on these accounts run under READ COMMITTED and escape
serialization. A trade locks the account's row first, which makes them wait or
makes the trade fail. Writing a price and deleting an event decide which accounts to
rebuild without locking them, and are therefore split into `beginPrice` or
`beginDelete` (the snapshot) and `commitPrice` or `commitDelete` (or `abort`, when a
row it must update has been written since); the variable `open` is such a
transaction. A deletion does lock its event, so the account cannot be deleted
under it.
A ledger request is one step here. That its replay can have read too early, before
a trade or another ledger request it then waits for, is the race `LedgerTx` shows,
and `CachedValue` is stated under the assumption that it does not happen.

Quantities count units of the last decimal place that can be stored, so that a
whole number is a quantity with a finite decimal and a fraction is what only a
split can make; `canonicalRat` rounds to it. Ratios, sums and products are exact,
as `big.Rat` is. `builtOn` and `missed` are history variables and guard nothing: the
day a value was last rebuilt (the code rebuilds on a change, not at midnight,
so a future price or a stale one is judged as of that day), and the accounts that
a price or a deletion passed over because they were restored beside it.

- **Run `positions`**: two accounts, two instruments, three keys, two days, a
  calendar one day ahead of UTC (so an event and a price can be dated tomorrow),
  quantity, price and settlement 1, ratio 1:2, a bigint whose maximum is 2, four
  requests. Four requests are enough to record an action on a holding and then
  backdate, edit, undo or archive against it; a reverse split of one unit makes the
  fraction. Sales and adjustments are the ordinary trades in use (an opening
  position is an upward adjustment to every property; purchases come from
  reinvestments). Checked: `LongOnly` (no holding negative at any point of any
  history), `EntitlementsHold` (recorded mergers and spin-offs agree with the
  history as it is now), `SequencesDistinct`, `GroupsWhole`, `CachedValue`, `TypeOK`
  (the value fits a bigint) and, of steps, `ArchivedFrozen`. `LongOnly` and
  `EntitlementsHold` use their own definition of a holding (a sum of what each event
  has grown to) and `CachedValue` its own definition of the price in force.
- **Run `positions_restore`** finds `RestoredValue` violated: the transaction that
  deletes an event (or writes a price) has seen the account as archived and skips it;
  the account is restored without seeing the deletion (or the price). `CachedValue` is
  what remains: every active account outside `missed` is right.

Not a property, because nothing promises it: deleting the sale that closed a
holding opens it again although its instrument has been archived since.

**Proved**, for any accounts, keys and days, any finite set of instruments, any whole
quantities, prices and ratios, and settlements that fit a bigint
(`PositionsAssumption`), and histories of any length:

| theorem | says |
| --- | --- |
| `PositionsTypeCorrect` | `Spec => []TypeOK`; the cached value always fits a bigint |
| `PlacesDistinct` | `Spec => []SequencesDistinct` |
| `CompoundWhole` | `Spec => []GroupsWhole` |
| `CacheReplays`, `HistoriesHold` | what the model's own replay says of the cache and of every event |
| `ArchivedStaysFrozen` | `Spec => ArchivedFrozen` |
| `NeverShort` | `Spec => []LongOnly` |
| `ActionsStayEntitled` | `Spec => []EntitlementsHold` |
| `CacheIsWorth` | `Spec => []CachedValue`: for every active account but those restored beside a price or a deletion that took them for archived |

Every request leaves histories that replay
(`HistoriesReplay`); what is written by one request is of one group and stays whole
(`Groups`); and a price's write or a deletion, which lock none of the accounts they rebuild, abort when
one of their rows has been written since the snapshot, so that those they do rebuild are
still active (`SnapshotKept`). `CachedReplay` adds that each request rebuilds
every account it writes to, and that the price of an instrument an account never held
does not count in its value. The last three replace the replay by
an independent definition (`Held`: the sum of what each event has grown to through the
splits after it). Replay multiplies a whole holding by a split, `Held` each part, and a
sum is taken in any order; they are equal as pairs because fractions are kept in lowest
terms, which is proved of `Reduced` first.

## Web client

Each module is one component with the server reduced to what it decides. Requests
are sent in one step, served in another and answered in a third, and an answer may
be late, lost or, where the code allows it, overtaken. TanStack Query (fetches
that join, cancel, retry and invalidate) is external and modelled from how
`lib/queries.ts` uses it.

The parts meet in the query cache only, and `WebCache` says what each may rely on: an
answer read at some time since it was asked for. So they are put side by side:
`WebWrites` is the sum of the forms and sheets, `WebViews` that of the pages; `part`
says which one a behaviour belongs to, and the variables of the others stay 0. A
property of a sum says of each part what the module's own properties say; they are
stated and explained in the modules. Runs and theorems are both about the sums.

**Session** (`WebSession`, run `access`). One tab in full, the other tabs by what they do to
the shared cookie. The tab's session query, token and cached queries are set by
answers in any order; a fetch that the query has given up still sets the token.
The server answers a query for the cookie, the tab files the answer under the person
it shows (`queries.ts:24-32`), so `Read` keeps both (`key`, `of`); `strayed` records
that the cookie has been another person's since this one was first shown.
Two people, two sessions (the first and the one it is exchanged for; the first is a's, since people
differ in nothing; without the
liveness property also checked with three). `ClearedOnSwitch`: what is cached or
being fetched is filed under the person shown, and is their own data unless the tab has
`strayed`: whatever the switch was noticed by, nothing of before it is left. While
it is not noticed the tab may show the other person's data as this person's.
`WritesAsShown`: a form submitted in one
person's name is not applied to another's data. It excepts a tab whose token was set
by an answer no longer expected or whose session was set by a changed sign-in method
(`mixed`, set where that happens and cleared by the next fetch). `SessionConverges`:
a tab brought into view again and again shows, in the end and for good, whose
session the browser holds. Fairness: weak on a message between tabs, strong on the answer of a session
fetch, since it is sent again each time; of the person nothing is assumed but what
the property says.

**Proved** (`WebWritesProofs`), for any people and any number of sessions:
`SessionTypeCorrect`, `QueriesCleared` (`SessionSpec => []ClearedOnSwitch`) and
`WritesApplyToShown` (`SessionSpec => WritesAsShown`). `QueriesCleared` rests on
the invariant that, unless the tab has strayed, the cookie is the shown person's or
nobody's (`OwnDataInv`), so that what is read is theirs. That a write goes to the person
shown is not inductive: it rests on the token being of a session of that person
unless `mixed` (`TokenOfShown`), which rests on every session that a tab, an answer
on its way or the cookie mentions having been issued (`Known`), because the owner of
a session is fixed when it is issued. Functions of the tab (`Show`, `Revalidate`,
`SignedOut`) have lemmas of their own; then one lemma per group of actions.

**Runs `web`** (`MCWeb`, of `WebWrites`: the first seven rows) **and `views`**
(`MCViews`, of `WebViews`: the others), by part:

| part | instance | property |
| --- | --- | --- |
| `WebForms` with `WebFormTable` | every kind of form, two openings, three submissions, two bodies | `FormsRecord`: an attempt's key records once what is sent again, and a success is what was submitted |
| `WebAmounts` | all eight forms with amounts; yen and shillings; 0, 1.5 and 2 | `FormsRecord`: what is recorded is, to the last digit, what the form showed; the notice names it |
| `WebImport` | two files, four rows, three requests, both pages | `ImportsWhole`: no row twice; trades all or none |
| `WebConvert` | three drafts, one incomplete, three balances, three requests | `DoneAsReviewed`: only into what was previewed, with the difference shown |
| `WebNewAccount` | two categories, one instrument, two holdings, two runs | `DoneAsReviewed`: the account has what the last step showed |
| `WebTrade` | opening and purchase, three changes of the form, two saves | `RequestsWellFormed`: no field the type or currency excludes (the settlement across currencies may be missing); `SettledCashKept`: an untouched edit of a trade across currencies moves the same cash, unless it was given cash beside a rate it does not agree with |
| `WebCorporate` | three of five kinds, two instruments, three changes | `RequestsWellFormed`: no action of an instrument on itself, no rate within a currency (a missing settlement, a fee of zero and what is archived or no longer held are sent and refused) |
| `WebCache` with `WebPageTable` | settings and one page, two panels, three versions, two saves | `FiguresCurrent`: no section shows what is older than the save it was told of; no panel takes back another's |
| `WebActivity` | two rows, pages of one, two filters, both without a search text | `ActivityCurrent`: the settled list is the server's (exceptions below); nothing the filters keep out |
| `WebAllocation` | two accounts in two currencies, one with holdings, one change, one step back | `AllocationAddsUp`: a group, but that of no institution, is the sum of the accounts it opens on |
| `WebAccounts` | a holding and a debt in two currencies, one change | `MissingIsNamed`: the link beside a missing value leads to what is missing; not said of instruments quoted in a third currency |
| `WebEstate` | one asset and the residue, two beneficiaries, five changes of plan or accounts | `EstateAgrees`: what a page calls covered is so; an up-to-date form takes what the server takes |

`WebTypeOK` joins the types. Why the bounds are enough: a key or a preview is confused
with one other, so two bodies and three requests (first, changed, repeated) show it;
a cached answer is older than a save when there is a version before, at and after
it; 1.5 is an amount one currency can hold and the other cannot; a field is hidden
and shown by at most three changes; a page of one row and two rows make a second page, whose offset a deletion moves.
The forms of `WebFormTable` that keep no key for an attempt behave alike here, so
one stands for all that differ in nothing else, and of these only those are run that show a
submission as pending after they are gone, stay, or cannot be dismissed (`Representatives`); `WebFormTable` and `WebPageTable` list
every form and every section of the client by the facts that tell them apart, and
the runs are over the lists.

**Estate pages** (`WebEstate`). The plan and the accounts arrive in two answers;
the review, the overview and the limits of the share forms come from that view.
`EstateAgrees`: what a page calls covered goes in full to active beneficiaries, as
the rows of the plan it has read say, and the forms of an up-to-date page let through
exactly the shares the server takes, once there is a plan (the form's first request
makes it). The server has no count of its own: `MathematicallyComplete` of a summary
is the constant `true` (`estate_mutations.go:455`).

**Activity** (`WebActivity`). A page is read by the server (`ReadPage`) and answered
(`PageArrives`) in two steps, and changes and other fetches come in between. Deleting
and recording are this reader's; what another client does is not known to the page. The list on
screen is the server's (`ListRefreshed`) except when `old`: more rows were loaded
on to it before it was refreshed, or a change was answered while it was
fetched for the first time or out of view, with rows from before. A loaded list in view has no such excuse when a change is
answered (`ChangeArrives`). Such a list has
no mark and stays until something else fetches it again. Both filters of the run have no search text, so
that typing and deleting are there for the pause only, in which another filter is chosen.

**Accounts** (`WebAccounts`). Freshness is the server's: of prices for accounts with
holdings, of the valuation for accounts tracked by value (not applicable without one).
**Cache** (`WebCache`): a refetch that the library pauses while offline is left out.

**Proved** (`WebWritesProofs` and `WebViewsProofs`): every property of both
runs but `TypeOK` and `Alone` of the lists (`EstateProofs`), for any values of the
constants that satisfy the assumptions of the modules (`WritesAssumption` and
`ViewsAssumption`, which TLC evaluates on the instances): any number of
requests, forms, saves, files, rows and accounts, any finite number of beneficiaries.
`SheetsKeepTypes` and `ViewsKeepTypes` are the types (`WebTypeOK`).

| theorem | says | what the inductive invariants add |
| --- | --- | --- |
| `FormsAlwaysRecord` | `WritesSpec => []FormsRecord` | a key is the number of the first submission that has it, and all that have it say the same; an opening that closes on success has one key per attempt. What is sent of each amount, on its way and when recorded, is the digits shown in the minor unit of the currency sent |
| `RequestsAlwaysWellFormed`, `SettledCashAlwaysKept` | `[]RequestsWellFormed`, `SettledCashKept` | a form nobody touched is what `valuesFromEvent` made of its trade, and a request from it what `toRequest` makes of that, which has the same cash whether the trade kept cash or a rate that agrees (`TradeKeepsCash`, `TradeKeepsRate`); an action on its way is of two different instruments, and has a rate only across currencies |
| `AlwaysDoneAsReviewed` | `[]DoneAsReviewed` | what a step let pass still holds in the later ones; an account under way has the first holdings of its run's draft. A request to convert carries what was typed when it was sent, and a confirmation only of a difference |
| `ImportsAlwaysWhole` | `[]ImportsWhole` | nothing: with the types it is inductive, because the server decides in one transaction |
| `FiguresAlwaysCurrent` | `ViewsSpec => []FiguresCurrent` | from the answer to a save to its notice, each query has been fetched since, is being, or is marked, unless its first fetch was under way (`missed`) |
| `MissingAlwaysShown` | `[]MissingIsNamed` | copies are of accounts that exist; the rest is `missingValueReason` for any two copies, of accounts whose instruments are quoted in the account's or the base currency |
| `AllocationAlwaysAddsUp` | `[]AllocationAddsUp` | what is excluded and opened is of the grouping, in this page and in every one Back leads to; any grouping and scope, any group but that of no institution |
| `EstateAlwaysAgrees` | `[]EstateAgrees` | what is shown is drawn from the view that was read; a save on its way asks for what the server can judge |
| `ActivityAlwaysCurrent` | `[]ActivityCurrent` | while no change waits for its answer, a list at rest that is not `old` has the server's first rows, and a fetch under way that is not has read such rows so far; a list that is looked at is not left invalid unless a fetch failed |

Each page has its own lemma, about its own specification, and the sum a lemma per part
(`FormPart` and so on): a behaviour of that part is one of the page's specification, as
`part` never changes (`PartKept`).

The invariants are of one kind: what is on its way, sent, served or answered, was right
when it left, and says in what it may differ since. `AllocationAddsUp` and
`EstateAgrees` are mostly about algorithms. There sums over any finite set of
accounts or beneficiaries are taken apart by `SumsInParts`, `SumsOfZeros`, `SumsAlike`
and `SumsOfGroups` (`FiniteLemmas`): a group's value is the sum of the accounts it opens
on, groups partition the accounts, and archived beneficiaries add nothing. The
activity's lists are sequences of any length; `NewestFirst` is the one enumeration of a
set in descending order, and a page is a stretch of it, so that an offset is a length.

Beside the mutants of `PROJECT.json`, modules keep others next to the definition they
mutate, where a property has several conjuncts; under each, the run finds the conjunct violated:
`EveryRow`, `KeyForAny`, `ValidAsListed`, `projectedWithOwn`, `InvalidatedActive`,
`ChooseModeOnly`, `StaleNever`, `decimalToMinorCut`.

## Seen while modelling

Disagreements between code and documentation, or between client and server, that no
run states as a finding. The properties above say what holds beside them.

- `TradeSheet.tsx:87-108`: the form of a trade in the account's own currency with an
  explicit settlement leaves "Cash paid" empty, so saving it unchanged changes the
  cash. `SettledCashKept` is about trades across currencies, where it is kept.
- `chart_analytics.go:140` calls accounts without an institution "Unspecified",
  `AllocationPage.tsx:111` looks for "No institution": that group opens on no
  accounts. The mock server uses the client's name.
- `chart_analytics.go:421-447` converts the month's change to the base currency;
  `AccountViews.tsx` and `account-detail/sections.tsx:91` show it with the account's.
- `TransactionForm.tsx:60` and `ValueForms.tsx:33,110` convert the submitted amount for
  the success notice with the account that is chosen by then. Changed while the
  request runs, the notice has the wrong currency or, when the amount does not
  fit it, a recorded request is reported as failed. `NoticeIsTrue` excepts that case.
- `kit.tsx:30-36` with `estate_mutations.go:101-130`: a plan's details are overwritten by
  a save that only meant to make sure there is a plan.
- `useActivityLedger.ts:10-14`: edits and deletes refresh every loaded page "instead of
  leaving stale rows behind". Stale rows do stay, unmarked, when "Load more" ends the refresh, and
  when the change is answered while the list is fetched for the first time or out of view.
  `ActivityCurrent` excepts both.
- `ActivityPage.tsx:331`: "The entries above are still accurate", after "Load more" has
  failed. If it had ended a refresh, they are the entries of before the change.
- `ActivityPage.tsx:83-87`: the search's timer updates the address as it was when the text was typed; a
  filter chosen within the 300 ms is undone (`Paused`).
- `queries.ts:1-4`: keys are scoped to the user "so a previous user's data can never
  flash". The key is of the person shown, the answer of the cookie: between a switch in
  another tab and its notice another person's data may be filed under this one's key, and
  shown; it stays there if the cookie is changed back unnoticed (`strayed`).
- `TradeSheet.tsx:64,574` say that without settlement cash or a rate the saved exchange rate
  is used. The server refuses such a trade before it looks for one
  (`investment_mutations.go:584`; for a reinvestment `corporate_actions.go:380`).
- `TradeSheet.tsx:89`: of a trade stored with cash and a rate the form keeps the rate only,
  while for the server the cash counts (`investment_mutations.go:782`); saved unchanged, the
  cash becomes what the rate makes of it. `SettledCashKept` excepts it.
- `estate_mutations.go:455`: a summary is called mathematically complete whatever it says.
- Conversion accepts a difference that was confirmed although the balance has moved
  since; `DoneAsReviewed` asks that one was on the screen, not which.
- A new account whose holdings fail half-way stays, and a second press of Create opens
  another (`NewAccountPage.tsx:151-188`).
- `InvestmentImport.tsx:532` says of a refused import that the file or the account
  changed; the hash that is compared covers the file only (`imports.go:59`).
- `CorporateActionSheet.tsx:313` lets through a fee of "0" of a transfer in kind, which
  `corporate_actions.go:469` refuses.
- `LinkedGoalsCard`, the advanced sheets and the conversion sheet take a failed query for
  an empty answer; the attention button of the top bar says "Nothing needs attention"
  before it knows.

Hazards of the server that no property covers, because their component is not
modelled: registration prunes clients with live requests (`oauth/service.go:123`); an
allocation is deleted before its UPDATE, which then changes nothing
(`estate_mutations.go:319`); conversion and goal edits lock in opposite orders
(`account_conversion.go:225`); goal creation and the ledger reserve one key in two ways
(`goal_mutations.go:260`); a milestone above a lowered target (`goal_mutations.go:389`);
currencies, rate directions and category orders are checked without locks
(`metadata_mutations.go:105,176,354`); an event's key answers whatever the request
says (`investment_mutations.go:519`); deletion and edit of an event lock in
opposite orders (`661`); the login limiter inside SERIALIZABLE (`auth/rate_limit.go:98`);
two first logins of one identity (`oidc_users.go:48`); session versions
(`auth/service.go:170`); restore beside other writers (`portability.go:282`).

## Not modelled, and limits

- Only what the hazards need is split into statements. `Ledger` is atomic by
  intent; valuations, account creation and conversion are not in `LedgerTx`: they
  replay like transactions.
- `Positions` leaves out exchange rates, reconciliations and the creation and editing
  of instruments; its cash side is a sum, whose rows are `Ledger`'s subject.
- Of the client: fields of forms other than amounts, trades, corporate actions and new
  accounts; amounts that take a sign; charts, layout and formatting; the mock server;
  single sign-on; what a retained summary says. `PROJECT.json` says for each part
  what is left out of it.
- Goals, metadata, portability, identity other than the client's session, the rate
  limiters, the MCP server, the read side (except the answers the client joins),
  operator tools and migrations are not modelled. The first four have hazards, listed above.
- HTTP, cookies' attributes, cryptography and the text of messages are left out;
  requests they reject change nothing.
- PostgreSQL itself (row, advisory and foreign-key locks, isolation levels) is
  modelled from its documented behaviour as far as the code relies on it; those
  definitions are marked external. A crash is `Rollback` of what is in progress:
  the service keeps nothing else.
- Liveness and `ENABLED` are beyond the proof system and model-checked only
  (`RequestsEnd`, `SessionConverges`). Induction over data is done for sets
  (`NaturalsByInduction` in `FiniteLemmas`), since the library's induction theorems
  take an operator. Every other property of a passing run is stated by a theorem.
  That `Estate` runs beside the pages (`MCViews`) and `WebSession` beside `OAuthGrants`
  (`MCAccess`) is of the instances only, and so are the lists of the client's forms and
  sections (`WebFormTable`, `WebPageTable`): the theorems are about any.
- Deadlock checking is off in every configuration: bounds on rows, versions and
  token pairs really stop the models.

## What would come next

In order of weight: goals with conversion (both sides of a link agree after every
interleaving of goal edits, conversion and deletion); identity (no session outlives
the change meant to end it, a user never loses the last login method, one user per
identity); metadata (one direction per currency pair).
