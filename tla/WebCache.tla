------------------------------ MODULE WebCache ------------------------------
(***************************************************************************)
(* What the web client has cached of a person's data, and the changes that *)
(* are saved from it.  The query cache is modelled by two of the person's  *)
(* queries: their settings, which the client watches for as long as they   *)
(* are signed in, and the query of a page that comes and goes.             *)
(*                                                                         *)
(* Every change the server carries out makes a new version of the data; an *)
(* answer is known by the version it was read from.  A settings panel sends*)
(* all the settings: its own fields, and the others as the cache has them. *)
(* So a save takes back what was saved between the version it is based on  *)
(* and its own.                                                            *)
(*                                                                         *)
(* The cache is the library's (TanStack Query 5): how it fetches, joins,   *)
(* cancels and invalidates is modelled from how lib/queries.ts uses it.    *)
(***************************************************************************)
EXTENDS Naturals, Sequences, WebPageTable

CONSTANTS
    Panels,      \* settings panels, each the set of the settings it sets
    MaxData,     \* bound: versions of the data
    MaxSaves     \* bound: saves from the panels

CacheAssumption == MaxData \in Nat \ {0} /\ MaxSaves \in Nat

VARIABLES
    version,  \* of the data on the server
    query,    \* the cached queries
    mounted,  \* whether the page is open
    saves     \* the saves, in the order they are submitted

cacheVars == <<version, query, mounted, saves>>

QueryNames == {"settings", "page"}
Version    == 1..MaxData

\* data:    the version shown, 0 for none
\* fetch:   0, or the version of the data when the fetch under way was sent
\* failed:  the last fetch to end failed
\* invalid: to be fetched again as soon as it is shown
QueryType == [data : 0..MaxData, fetch : 0..MaxData, failed : BOOLEAN, invalid : BOOLEAN]

\* base:    the version of the settings the fields of other panels come from
\* at:      the version the save made, 0 as long as it has not been carried out
\* state:   what the client makes of it
\* awaits:  the queries whose fetch it waits for
\* missed:  the queries with a fetch under way that its answer did not renew
\* knew:    the saves the person had been told of when they submitted it
SaveType == [panel : Panels, base : Version, at : 0..MaxData,
             state : {"sent", "refetching", "saved", "failed"},
             awaits : SUBSET QueryNames, missed : SUBSET QueryNames,
             knew : SUBSET (1..MaxSaves)]

\* Type invariant: the cached queries, the panels and the saves keep their types.
WebTypeOK ==
    /\ version \in Version
    /\ query \in [QueryNames -> QueryType]
    /\ mounted \in BOOLEAN
    /\ saves \in Seq(SaveType) /\ Len(saves) <= MaxSaves

Saves == 1..Len(saves)
Saved == {i \in Saves : saves[i].state = "saved"}

\* The client watches the query.
Active(k) == k = "settings" \/ mounted

-----------------------------------------------------------------------------
CacheInit ==
    /\ version = 1
    /\ query = [k \in QueryNames |-> [data |-> 0, fetch |-> IF k = "settings" THEN 1 ELSE 0,
                                      failed |-> FALSE, invalid |-> FALSE]]
    /\ mounted = FALSE
    /\ saves = <<>>

\* The page opens: what it shows is fetched unless it is there and still fresh.
OpenPage ==
    /\ ~mounted /\ mounted' = TRUE
    /\ LET q == query["page"]
       IN  \/ /\ q.fetch = 0
              /\ query' = [query EXCEPT !["page"].fetch = version]
           \/ /\ q.fetch # 0 \/ (q.data # 0 /\ ~q.invalid)
              /\ UNCHANGED query
    /\ UNCHANGED <<version, saves>>

\* A fetch under way goes on; its answer is cached.
LeavePage ==
    /\ mounted /\ mounted' = FALSE
    /\ UNCHANGED <<version, query, saves>>

\* What has not been watched for five minutes is dropped.
Collect ==
    /\ ~mounted /\ query["page"].fetch = 0 /\ query["page"].data # 0
    /\ query' = [query EXCEPT !["page"].data = 0, !["page"].failed = FALSE,
                              !["page"].invalid = FALSE]
    /\ UNCHANGED <<version, mounted, saves>>

\* The end of a fetch is the end of waiting for it.
Release(k) ==
    saves' = [i \in Saves |-> [saves[i] EXCEPT !.awaits = @ \ {k}]]

\* The answer was read at some time since the fetch was sent.
FetchArrives(k) ==
    /\ query[k].fetch # 0
    /\ \E v \in query[k].fetch..version :
          query' = [query EXCEPT ![k] = [data |-> v, fetch |-> 0, failed |-> FALSE,
                                         invalid |-> FALSE]]
    /\ Release(k)
    /\ UNCHANGED <<version, mounted>>

\* No answer, or an error, the second time as well.
FetchFails(k) ==
    /\ query[k].fetch # 0
    /\ query' = [query EXCEPT ![k].fetch = 0, ![k].failed = TRUE, ![k].invalid = TRUE]
    /\ Release(k)
    /\ UNCHANGED <<version, mounted>>

\* "Try again".
Retry(k) ==
    /\ Active(k) /\ query[k].failed /\ query[k].fetch = 0
    /\ query' = [query EXCEPT ![k].fetch = version]
    /\ UNCHANGED <<version, mounted, saves>>

-----------------------------------------------------------------------------
\* The panels are shown only with the settings, and not over an error.
PanelsShown == query["settings"].data # 0 /\ ~query["settings"].failed

BaseVersion == query["settings"].data

\* A panel's button waits for the panel's own save.
SubmitPanel(p) ==
    /\ PanelsShown /\ Len(saves) < MaxSaves
    /\ \A i \in Saves : saves[i].panel = p => saves[i].state \in {"saved", "failed"}
    /\ saves' = Append(saves, [panel |-> p, base |-> BaseVersion, at |-> 0, state |-> "sent",
                               awaits |-> {}, missed |-> {}, knew |-> Saved])
    /\ UNCHANGED <<version, query, mounted>>

\* The server carries the save out, although its answer may be given up already.
ServeSave(i) ==
    /\ saves[i].at = 0 /\ version < MaxData
    /\ version' = version + 1
    /\ saves' = [saves EXCEPT ![i].at = version + 1]
    /\ UNCHANGED <<query, mounted>>

\* Mutant: only what is on the screen is to be fetched again.
InvalidatedActive ==
    [k \in QueryNames |-> IF Active(k)
                          THEN [query[k] EXCEPT !.invalid = TRUE, !.fetch = version]
                          ELSE query[k]]

\* invalidateQueries(['u', id]): every query is to be fetched again, the active
\* ones at once.  A fetch under way is given up for a new one, unless the query
\* has nothing to show yet, or is not watched.
Renewed(k) == Active(k) /\ (query[k].fetch = 0 \/ query[k].data # 0)

Invalidated ==
    [k \in QueryNames |-> [query[k] EXCEPT !.invalid = TRUE,
                                           !.fetch = IF Renewed(k) THEN version ELSE @]]

\* Mutant: the notice does not wait.
RefetchingUnawaited(s) ==
    [s EXCEPT !.state = "refetching",
              !.missed = {k \in QueryNames : query[k].fetch # 0 /\ ~(query[k].data # 0)}]

\* The answer to a save: the notice waits until what is on the screen is fetched.
Refetching(s) ==
    [s EXCEPT !.state = "refetching",
              !.awaits = {k \in QueryNames : Active(k)},
              !.missed = {k \in QueryNames : query[k].fetch # 0 /\ ~Renewed(k)}]

SaveArrives(i) ==
    /\ saves[i].state = "sent" /\ saves[i].at # 0
    /\ query' = Invalidated
    /\ saves' = [saves EXCEPT ![i] = Refetching(@)]
    /\ UNCHANGED <<version, mounted>>

\* Refused, or not answered: the panel says so, and nothing is fetched.
SaveFails(i) ==
    /\ saves[i].state = "sent"
    /\ saves' = [saves EXCEPT ![i].state = "failed"]
    /\ UNCHANGED <<version, query, mounted>>

\* "Settings saved".
Notify(i) ==
    /\ saves[i].state = "refetching" /\ saves[i].awaits = {}
    /\ saves' = [saves EXCEPT ![i].state = "saved"]
    /\ UNCHANGED <<version, query, mounted>>

\* The same person on another device.
OtherWrites ==
    /\ version < MaxData
    /\ version' = version + 1
    /\ UNCHANGED <<query, mounted, saves>>

CacheNext ==
    \/ OpenPage \/ LeavePage \/ Collect \/ OtherWrites
    \/ \E k \in QueryNames : FetchArrives(k) \/ FetchFails(k) \/ Retry(k)
    \/ \E p \in Panels : SubmitPanel(p)
    \/ \E i \in Saves : ServeSave(i) \/ SaveArrives(i) \/ SaveFails(i) \/ Notify(i)

CacheSpec == CacheInit /\ [][CacheNext]_cacheVars

-----------------------------------------------------------------------------
\* What a section of the page has on the screen.
Shows(s) ==
    LET q == query["page"]
    IN  IF ~mounted THEN "nothing"
        ELSE IF q.data # 0 /\ ~(q.failed /\ s.failed = "error") THEN "figures"
        ELSE IF ~q.failed THEN s.loading
        ELSE IF s.failed = "keeps" THEN "error" ELSE s.failed

(* Once a person has been told that something is saved, no section of any  *)
(* page goes on showing figures from before it, wherever they went in the  *)
(* meantime and however fetches and saves overlapped.  Excepted are a      *)
(* section that keeps old figures over a fetch that failed, and a query    *)
(* whose fetch the answer did not renew (queries.ts 83-98).                *)
ShownIsSaved ==
    \A i \in Saved : \A s \in ClientSections :
        /\ Shows(s) = "figures" /\ query["page"].fetch = 0
        /\ query["page"].failed => s.failed = "error"
        => "page" \in saves[i].missed \/ query["page"].data >= saves[i].at

(* A panel does not take back what the person had been told was saved in   *)
(* another one: the settings it sends along with its own are at least as   *)
(* new (settings-kit.tsx 111-141, "merging a partial change into the       *)
(* current values").                                                       *)
SavesKept ==
    \A i \in Saves : \A j \in saves[i].knew :
        saves[j].panel # saves[i].panel => saves[i].base >= saves[j].at

(* Figures and settings are those of the saves a person was told of        *)
(* (queries.ts 83-98).                                                     *)
FiguresCurrent == ShownIsSaved /\ SavesKept

=============================================================================
