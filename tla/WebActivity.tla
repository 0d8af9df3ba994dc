---------------------------- MODULE WebActivity -----------------------------
(***************************************************************************)
(* The activity page: one ledger for all accounts, newest first, filtered  *)
(* by what the address says, searched, loaded page by page, and changed by *)
(* the person who reads it.  Changes from elsewhere are left out: the page *)
(* cannot know of them.  Of the filters, kind, type and search are kept;   *)
(* account and dates work like the search without its delay.               *)
(* An answer to a change that is lost is like a change from elsewhere.     *)
(*                                                                         *)
(* The list is an infinite query of the library (TanStack Query 5).  How   *)
(* it fetches, cancels, invalidates and keeps previous data is modelled    *)
(* from how useActivityLedger.ts uses it.                                  *)
(***************************************************************************)
EXTENDS Integers, Sequences, FiniteSets, FiniteSetsExt

CONSTANTS
    Rows,        \* what may be recorded, numbered from old to new
    TypeOf,      \* the type of each
    KindOf,      \* the kind of each type
    Found,       \* the rows the search finds
    PageSize,
    Filters      \* bound: the filters that are tried

Types == DOMAIN KindOf
Kinds == {KindOf[t] : t \in Types}

Url == [kind : Kinds \cup {"all"}, type : Types \cup {"all"}, q : BOOLEAN]

\* A type that is not of the kind is dropped.
FiltersOf(u) ==
    [u EXCEPT !.type = IF u.type # "all" /\ u.kind \notin {"all", KindOf[u.type]} THEN "all" ELSE @]

ActivityAssumption ==
    /\ Rows \subseteq Nat /\ IsFiniteSet(Rows)
    /\ TypeOf \in [Rows -> Types] /\ Found \subseteq Rows
    /\ PageSize \in Nat \ {0} /\ Filters \subseteq {FiltersOf(u) : u \in Url}

VARIABLES
    url,       \* the parameters of the address
    waiting,   \* the address that is to follow the search box, or NoUrl
    ledger,    \* the rows on the server
    changed,   \* a change is made, and its answer under way
    cache,     \* for each filters, the list
    fetch,     \* for each filters, the fetch under way
    previous   \* the filters of the list last shown, kept until there is another

activityVars == <<url, waiting, ledger, changed, cache, fetch, previous>>

\* pages:   how many are loaded, none at first; rows are theirs
\* failed:  the last fetch to end failed
\* invalid: to be fetched again as soon as it is shown
\* old:     HISTORY: of a fetch that was old, and not known to be out of date
NoList == [pages |-> 0, rows |-> <<>>, more |-> FALSE, failed |-> FALSE, invalid |-> FALSE,
           old |-> FALSE]
ListType == [pages : Nat, rows : Seq(Rows), more : BOOLEAN, failed : BOOLEAN, invalid : BOOLEAN,
             old : BOOLEAN]

\* to:    how many pages there will be, 0 if nothing is fetched
\* pages: those it has, with their rows: what was loaded before, if it is for the
\*        next page only, and what was answered
\* read:  whether the server has read the page after them, and then: page, what it
\*        answers, and more, whether there are more
\* old:   HISTORY: it has rows from before a change that it was not begun again for
NoFetch == [next |-> FALSE, to |-> 0, pages |-> 0, rows |-> <<>>,
            read |-> FALSE, page |-> <<>>, more |-> FALSE, old |-> FALSE]
FetchType == [next : BOOLEAN, to : Nat, pages : Nat, rows : Seq(Rows),
              read : BOOLEAN, page : Seq(Rows), more : BOOLEAN, old : BOOLEAN]
Idle(f) == fetch[f].to = 0

NoFilters == [kind |-> "none", type |-> "none", q |-> FALSE]
NoUrl     == NoFilters

\* Type invariant: the address, the lists, their fetches and the ledger keep their types.
WebTypeOK ==
    /\ url \in Url
    /\ waiting \in Url \cup {NoUrl}
    /\ ledger \subseteq Rows
    /\ changed \in BOOLEAN
    /\ cache \in [Filters -> ListType] /\ fetch \in [Filters -> FetchType]
    /\ previous \in Filters \cup {NoFilters}

\* What the server lists: the rows the filters let through, newest first.
Lets(f, r) ==
    /\ f.kind \in {"all", KindOf[TypeOf[r]]} /\ f.type \in {"all", TypeOf[r]}
    /\ f.q => r \in Found
NewestFirst(S) ==
    CHOOSE s \in [1..Cardinality(S) -> S] : \A i, j \in DOMAIN s : i < j => s[i] > s[j]

\* Mutant: kind and type are left out of the query.
ListedAnyKind(f) == NewestFirst({r \in ledger : f.q => r \in Found})

Listed(f) == NewestFirst({r \in ledger : Lets(f, r)})

\* The list on the screen, and whether the page says that it is being updated.
Current     == FiltersOf(url)
HasData(f)  == cache[f].pages > 0
Placeholder == ~HasData(Current) /\ ~cache[Current].failed /\ previous # NoFilters
Refreshing  == ~Idle(Current) /\ ~fetch[Current].next /\ HasData(Current)
Updating    == Placeholder \/ Refreshing
Shown       == cache[IF Placeholder THEN previous ELSE Current].rows

\* What is loaded is fetched again, or the first page is fetched.
Refetch(f) == [NoFetch EXCEPT !.to = IF HasData(f) THEN cache[f].pages ELSE 1]

-----------------------------------------------------------------------------
ActivityInit ==
    /\ url \in Filters
    /\ waiting = NoUrl
    /\ ledger \in SUBSET Rows
    /\ changed = FALSE
    /\ cache = [f \in Filters |-> NoList]
    /\ fetch = [f \in Filters |-> IF f = Current THEN [NoFetch EXCEPT !.to = 1] ELSE NoFetch]
    /\ previous = NoFilters

\* Another address: its list is fetched, unless it is cached, and no older than
\* half a minute.
Show(u) ==
    LET f == FiltersOf(u)
    IN  /\ f \in Filters
        /\ url' = u
        /\ previous' = IF HasData(f) THEN f ELSE previous
        /\ \/ /\ f # Current /\ Idle(f)
              /\ fetch' = [fetch EXCEPT ![f] = Refetch(f)]
              /\ cache' = [cache EXCEPT ![f].failed = @ /\ HasData(f)]
           \/ /\ f = Current \/ ~Idle(f) \/ (HasData(f) /\ ~cache[f].invalid)
              /\ UNCHANGED <<fetch, cache>>
        /\ UNCHANGED <<ledger, changed>>

\* A link to the page, or the shortcut for it: the page stays as it is, with its
\* search box.
Follow(u) == u.type = "all" /\ ~u.q /\ Show(u) /\ UNCHANGED waiting

\* The kind buttons drop a type of another kind; the type menu sets the kind.
SelectKind(k) ==
    /\ Show([url EXCEPT !.kind = k,
             !.type = IF Current.type # "all" /\ k \notin {"all", KindOf[Current.type]} THEN "all"
                      ELSE Current.type])
    /\ UNCHANGED waiting

SelectType(t) ==
    /\ Show([url EXCEPT !.type = t, !.kind = IF t = "all" THEN Current.kind ELSE KindOf[t]])
    /\ UNCHANGED waiting

\* Typing, or deleting what was typed: the address of the moment, with the text, is
\* to follow after a pause.
Search(text) ==
    /\ waiting' = [url EXCEPT !.q = text] /\ FiltersOf(waiting') \in Filters
    /\ UNCHANGED <<url, ledger, changed, cache, fetch, previous>>

\* What was chosen in the meantime is undone.
Paused ==
    /\ waiting # NoUrl /\ waiting' = NoUrl
    /\ Show(waiting)

ClearFilters ==
    /\ waiting' = NoUrl
    /\ \/ Show([kind |-> "all", type |-> "all", q |-> FALSE])
       \/ Show([url EXCEPT !.q = FALSE])

-----------------------------------------------------------------------------
\* The server reads the next page of a fetch, which it finds by its offset.
ReadPage(f) ==
    LET list   == Listed(f)
        offset == PageSize * fetch[f].pages
        last   == Min({offset + PageSize, Len(list)})
    IN  /\ ~Idle(f) /\ ~fetch[f].read
        /\ fetch' = [fetch EXCEPT ![f] = [@ EXCEPT
                        !.read = TRUE, !.page = SubSeq(list, offset + 1, last),
                        !.more = Len(list) > offset + PageSize]]
        /\ UNCHANGED <<url, waiting, ledger, changed, cache, previous>>

\* It is answered.  With the last page the list is complete, as far as it goes.
PageArrives(f) ==
    LET n    == fetch[f]
        rows == n.rows \o n.page
        done == n.pages + 1 = n.to \/ ~n.more
    IN  /\ ~Idle(f) /\ n.read
        /\ fetch' = [fetch EXCEPT ![f] =
                        IF done THEN NoFetch
                        ELSE [n EXCEPT !.pages = n.pages + 1, !.rows = rows,
                                       !.read = FALSE, !.page = <<>>, !.more = FALSE]]
        /\ cache' = IF ~done THEN cache
                    ELSE [cache EXCEPT ![f] = [NoList EXCEPT
                             !.pages = n.pages + 1, !.rows = rows, !.more = n.more,
                             !.old = n.old]]
        /\ previous' = IF done /\ f = Current THEN f ELSE previous
        /\ UNCHANGED <<url, waiting, ledger, changed>>

Fails(f) ==
    /\ ~Idle(f)
    /\ fetch' = [fetch EXCEPT ![f] = NoFetch]
    /\ cache' = [cache EXCEPT ![f].failed = TRUE, ![f].invalid = TRUE, ![f].old = FALSE]
    /\ UNCHANGED <<url, waiting, ledger, changed, previous>>

\* "Load 50 more", also after a failure: a refresh under way is given up for it.
LoadMore ==
    LET f == Current
        n == cache[f].pages
        next == [NoFetch EXCEPT !.next = TRUE, !.to = n + 1, !.pages = n, !.rows = cache[f].rows,
                                !.old = cache[f].old \/ cache[f].invalid \/ changed]
    IN  /\ HasData(f) /\ cache[f].more /\ (Idle(f) \/ ~fetch[f].next)
        /\ fetch' = [fetch EXCEPT ![f] = next]
        /\ UNCHANGED <<url, waiting, ledger, changed, cache, previous>>

\* "Try again", when there is no list at all.
Retry ==
    /\ ~HasData(Current) /\ cache[Current].failed /\ Idle(Current)
    /\ fetch' = [fetch EXCEPT ![Current] = Refetch(Current)]
    /\ cache' = [cache EXCEPT ![Current].failed = FALSE]
    /\ UNCHANGED <<url, waiting, ledger, changed, previous>>

-----------------------------------------------------------------------------
\* A row of the list is deleted, or something is recorded.
Change(r) ==
    /\ ~changed /\ changed' = TRUE
    /\ \/ r \notin ledger /\ ledger' = ledger \cup {r}
       \/ (\E i \in DOMAIN Shown : Shown[i] = r) /\ ledger' = ledger \ {r}
    /\ fetch' = [f \in Filters |-> [fetch[f] EXCEPT !.old = @ \/ fetch[f].read \/ fetch[f].pages > 0]]
    /\ UNCHANGED <<url, waiting, cache, previous>>

\* Mutant: a fetch under way is waited for.
InvalidatedJoining(f) ==
    IF f = Current /\ Idle(f)
    THEN Refetch(f) ELSE fetch[f]

\* invalidateQueries: the list on the screen is fetched again, page after page,
\* and a fetch of it that is under way given up; the others when they are shown.
\* (HISTORY: a list in view that was loaded has no excuse to be out of date.)
Invalidated(f) ==
    IF f = Current /\ (Idle(f) \/ HasData(f))
    THEN Refetch(f) ELSE fetch[f]

ChangeArrives ==
    /\ changed /\ changed' = FALSE
    /\ cache' = [f \in Filters |-> [cache[f] EXCEPT !.invalid = HasData(f), !.old = FALSE,
                                   !.failed = @ /\ (HasData(f) \/ f # Current)]]
    /\ fetch' = [f \in Filters |-> [Invalidated(f) EXCEPT !.old = @ /\ (f # Current \/ ~HasData(f))]]
    /\ UNCHANGED <<url, waiting, ledger, previous>>

ActivityNext ==
    \/ \E u \in Url : Follow(u)
    \/ \E k \in Kinds \cup {"all"} : SelectKind(k)
    \/ \E t \in Types \cup {"all"} : SelectType(t)
    \/ \E text \in BOOLEAN : Search(text)
    \/ \E f \in Filters : ReadPage(f) \/ PageArrives(f) \/ Fails(f)
    \/ \E r \in Rows : Change(r)
    \/ Paused \/ ClearFilters \/ LoadMore \/ Retry \/ ChangeArrives

ActivitySpec == ActivityInit /\ [][ActivityNext]_activityVars

-----------------------------------------------------------------------------
\* A list that is not being fetched, changed, or known to be out of date, is as
\* the server has it, as far as it goes, and knows whether it goes on.
Settled(f) == ~changed /\ HasData(f) /\ Idle(f) /\ ~cache[f].failed
Accurate(f) ==
    LET rows == cache[f].rows
        list == Listed(f)
    IN  /\ Len(rows) <= Len(list) /\ rows = SubSeq(list, 1, Len(rows))
        /\ cache[f].more = (Len(list) > Len(rows))

(* Edits and deletes refresh every loaded page instead of leaving stale    *)
(* rows behind, however they overlap with fetches, failures and changes of *)
(* the filters, with these exceptions only: more rows were loaded on to    *)
(* the list before it was refreshed, or a change was answered while the    *)
(* list was being fetched for the first time or out of view, and the fetch *)
(* had rows from before it.  The comment at useActivityLedger.ts 10-14     *)
(* makes none; such a list stays as it is until it is fetched again.       *)
ListRefreshed == Settled(Current) /\ ~cache[Current].old => Accurate(Current)

(* Rows that the filters keep out are on the screen only while the page    *)
(* says that it is updating (ActivityPage.tsx 131, 190-195).               *)
ShownMatch == ~Updating => \A i \in DOMAIN Shown : Lets(Current, Shown[i])

\* The list is the server's, and shows nothing that its filters keep out.
ActivityCurrent == ListRefreshed /\ ShownMatch

=============================================================================
