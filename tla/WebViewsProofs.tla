--------------------------- MODULE WebViewsProofs ---------------------------
(***************************************************************************)
(* Proofs about what the web client shows, for any accounts, figures, rows *)
(* and bounds, and for as long as a page is kept: copies of answers that   *)
(* were read at different times, and what is concluded from them together. *)
(*                                                                         *)
(* A copy was right when it was read.  The invariants say in what it may   *)
(* differ from the server since, and of answers on their way too; the      *)
(* rest is about the algorithms that copies are put through, for accounts, *)
(* plans and lists of any size, where sums are taken over finite sets      *)
(* (FiniteLemmas).                                                         *)
(***************************************************************************)
EXTENDS Integers, Sequences, FiniteSets, SequenceTheorems, WebViews, FiniteLemmas

-----------------------------------------------------------------------------
(* Cached figures and settings (WebCache) *)

Answer(i)   == saves[i].state \in {"refetching", "saved"}
PageQuery   == query["page"]
SettingsOf  == query["settings"]

\* After the answer to a save the page's query is fetched anew, or is about to be.
PageRenewed(i) ==
  \/ "page" \in saves[i].missed
  \/ PageQuery.fetch # 0 /\ PageQuery.fetch >= saves[i].at
  \/ PageQuery.fetch = 0 /\ (PageQuery.invalid \/ PageQuery.data = 0 \/ PageQuery.data >= saves[i].at)

\* The settings, which are always watched, are fetched anew before the notice comes.
SettingsRenewed(i) ==
  /\ SettingsOf.fetch # 0 => SettingsOf.fetch >= saves[i].at
  /\ \/ SettingsOf.failed
     \/ SettingsOf.data >= saves[i].at
     \/ "settings" \in saves[i].awaits /\ SettingsOf.fetch # 0

SaveInv(i) ==
  /\ saves[i].at <= version
  /\ Answer(i) => saves[i].at # 0 /\ PageRenewed(i) /\ SettingsRenewed(i)
  /\ saves[i].state = "saved" => saves[i].awaits = {}
  /\ \A j \in saves[i].knew : /\ j \in C!Saves /\ saves[j].state = "saved"
                              /\ saves[j].at <= saves[i].base

CacheInv ==
  /\ C!WebTypeOK
  /\ C!Saves # {} => SettingsOf.data # 0
  /\ mounted /\ PageQuery.fetch = 0 /\ PageQuery.invalid => PageQuery.failed
  /\ \A i \in C!Saves : SaveInv(i)

LEMMA CacheTyped ==
    ASSUME C!CacheAssumption, CacheInv
    PROVE  /\ version \in 1 .. MaxData /\ MaxData \in Nat
           /\ query \in [C!QueryNames -> C!QueryType]
           /\ PageQuery \in C!QueryType /\ SettingsOf \in C!QueryType
           /\ "page" \in C!QueryNames /\ "settings" \in C!QueryNames
           /\ \A k \in C!QueryNames : k = "page" \/ k = "settings"
           /\ saves \in Seq(C!SaveType) /\ Len(saves) \in Nat /\ C!Saves = 1 .. Len(saves)
           /\ \A i \in C!Saves : saves[i] \in C!SaveType /\ saves[i].at \in Nat
  <1>1. version \in 1 .. MaxData /\ query \in [C!QueryNames -> C!QueryType] /\ MaxData \in Nat
        /\ saves \in Seq(C!SaveType)
    BY DEF C!CacheAssumption, CacheInv, C!WebTypeOK, C!Version
  <1>2. \A i \in C!Saves : saves[i] \in C!SaveType
    BY <1>1 DEF C!Saves
  <1>3. \A i \in C!Saves : saves[i].at \in Nat
    BY <1>2 DEF C!SaveType
  <1> QED BY <1>1, <1>2, <1>3 DEF C!QueryNames, C!Saves, PageQuery, SettingsOf

\* Only the data and their queries change.
LEMMA QueryStep ==
    ASSUME C!CacheAssumption, CacheInv, NEW q \in [C!QueryNames -> C!QueryType], query' = q,
           version' \in 1 .. MaxData, version' >= version, mounted' \in BOOLEAN,
           saves' = saves,
           C!Saves # {} => q["settings"].data # 0,
           mounted' /\ q["page"].fetch = 0 /\ q["page"].invalid => q["page"].failed,
           \A i \in C!Saves : Answer(i) => PageRenewed(i)' /\ SettingsRenewed(i)'
    PROVE  CacheInv'
  <1>1. C!WebTypeOK'
    BY DEF CacheInv, C!WebTypeOK, C!Version
  <1>2. ASSUME NEW i \in C!Saves PROVE SaveInv(i)'
    <2>1. SaveInv(i) /\ saves[i].at \in Nat
      BY CacheTyped DEF CacheInv
    <2>2. saves[i].at <= version'
      BY <2>1, CacheTyped DEF SaveInv
    <2> QED BY <2>1, <2>2 DEF SaveInv, Answer, C!Saves
  <1> QED BY <1>1, <1>2 DEF CacheInv, C!Saves, SettingsOf, PageQuery

\* The page is opened and left, and its query dropped; queries are tried again.
LEMMA CacheRead ==
    ASSUME C!CacheAssumption, CacheInv,
           C!OpenPage \/ C!LeavePage \/ C!Collect \/ C!OtherWrites \/ UNCHANGED C!cacheVars
             \/ \E k \in C!QueryNames : C!Retry(k)
    PROVE  CacheInv'
  <1> DEFINE Renewed == \A i \in C!Saves : Answer(i) => PageRenewed(i) /\ SettingsRenewed(i)
  <1>1. Renewed /\ mounted \in BOOLEAN /\ saves \in Seq(C!SaveType)
    BY DEF CacheInv, SaveInv, C!WebTypeOK
  <1>2. version \in 1 .. MaxData /\ MaxData \in Nat /\ query \in [C!QueryNames -> C!QueryType]
        /\ \A i \in C!Saves : saves[i].at \in Nat /\ saves[i].at <= version
    BY CacheTyped DEF CacheInv, SaveInv
  <1>3. C!Saves # {} => query["settings"].data # 0
    BY DEF CacheInv, SettingsOf
  <1>4. mounted /\ query["page"].fetch = 0 /\ query["page"].invalid => query["page"].failed
    BY DEF CacheInv, PageQuery
  <1>5. query["page"] \in C!QueryType /\ query["settings"] \in C!QueryType
    BY CacheTyped DEF PageQuery, SettingsOf
  <1>6. CASE query' = query /\ saves' = saves /\ version' \in 1 .. MaxData /\ version' >= version
             /\ mounted' \in BOOLEAN
             /\ (mounted' /\ ~mounted => query["page"].fetch # 0 \/ ~query["page"].invalid)
    <2>1. \A i \in C!Saves : Answer(i) => PageRenewed(i)' /\ SettingsRenewed(i)'
      BY <1>1, <1>6 DEF PageRenewed, SettingsRenewed, PageQuery, SettingsOf
    <2>2. mounted' /\ query["page"].fetch = 0 /\ query["page"].invalid => query["page"].failed
      BY <1>4, <1>6
    <2> QED BY <1>2, <1>3, <1>6, <2>1, <2>2, QueryStep
  <1>7. CASE C!LeavePage \/ C!OtherWrites \/ UNCHANGED C!cacheVars
    <2>2. CASE C!LeavePage
      <3>1. mounted' = FALSE /\ UNCHANGED <<version, query, saves>>
        BY <2>2 DEF C!LeavePage
      <3>2. version' \in 1 .. MaxData /\ version' >= version
        BY <1>2, <3>1
      <3>2a. mounted' \in BOOLEAN
        BY <3>1
      <3>3. mounted' /\ ~mounted => query["page"].fetch # 0 \/ ~query["page"].invalid
        BY <3>1
      <3> QED BY <1>6, <3>1, <3>2, <3>2a, <3>3
    <2>3. CASE C!OtherWrites
      <3>1. version' = version + 1 /\ version < MaxData /\ UNCHANGED <<query, mounted, saves>>
        BY <2>3 DEF C!OtherWrites
      <3> QED BY <1>1, <1>2, <1>6, <3>1
    <2>4. CASE UNCHANGED C!cacheVars
      BY <1>1, <1>2, <1>6, <2>4 DEF C!cacheVars
    <2> QED BY <1>7, <2>2, <2>3, <2>4
  <1>8. CASE C!OpenPage
    <2>1. CASE query' = query
      <3>1. query["page"].fetch # 0 \/ ~query["page"].invalid
        <4>1. CASE query["page"].fetch = 0 /\ query' = [query EXCEPT !["page"].fetch = version]
          <5>1. query'["page"].fetch = version
            BY <1>2, <1>5, <4>1 DEF C!QueryType, C!QueryNames
          <5> QED BY <1>2, <2>1, <4>1, <5>1
        <4> QED BY <1>8, <4>1 DEF C!OpenPage
      <3> QED BY <1>1, <1>2, <1>6, <1>8, <2>1, <3>1 DEF C!OpenPage
    <2>2. CASE query' # query
      <3> DEFINE p == [query["page"] EXCEPT !.fetch = version]
                 q == [query EXCEPT !["page"] = p]
      <3>1. query' = q /\ mounted' = TRUE /\ saves' = saves /\ version' = version
        BY <1>2, <1>8, <2>2 DEF C!OpenPage
      <3>2. p \in C!QueryType /\ p.fetch = version
        BY <1>2, <1>5 DEF C!QueryType
      <3>3. q \in [C!QueryNames -> C!QueryType] /\ q["page"] = p /\ q["settings"] = query["settings"]
        BY <1>2, <3>2 DEF C!QueryNames
      <3> HIDE DEF p, q
      <3>4. \A i \in C!Saves : Answer(i) => PageRenewed(i)' /\ SettingsRenewed(i)'
        BY <1>1, <1>2, <3>1, <3>2, <3>3 DEF PageRenewed, SettingsRenewed, PageQuery, SettingsOf
      <3>5. q["page"].fetch # 0
        BY <1>2, <3>2, <3>3
      <3> QED BY <1>2, <1>3, <3>1, <3>3, <3>4, <3>5, QueryStep
    <2> QED BY <2>1, <2>2
  <1>9. CASE C!Collect
    <2> DEFINE p == [query["page"] EXCEPT !.data = 0, !.failed = FALSE, !.invalid = FALSE]
               q == [query EXCEPT !["page"] = p]
    <2>1. query' = q /\ ~mounted /\ UNCHANGED <<version, mounted, saves>> /\ query["page"].fetch = 0
      BY <1>2, <1>9 DEF C!Collect, C!QueryNames
    <2>2. p \in C!QueryType /\ p.fetch = query["page"].fetch /\ p.data = 0
      <3>1. 0 \in 0 .. MaxData /\ query["page"] \in C!QueryType
        BY <1>2, <1>5
      <3> QED BY <3>1 DEF C!QueryType
    <2>3. q \in [C!QueryNames -> C!QueryType] /\ q["page"] = p /\ q["settings"] = query["settings"]
      BY <1>2, <2>2 DEF C!QueryNames
    <2> HIDE DEF p, q
    <2>4. \A i \in C!Saves : Answer(i) => PageRenewed(i)' /\ SettingsRenewed(i)'
      BY <1>1, <1>2, <2>1, <2>2, <2>3 DEF PageRenewed, SettingsRenewed, PageQuery, SettingsOf
    <2> QED BY <1>1, <1>2, <1>3, <2>1, <2>3, <2>4, QueryStep
  <1>10. ASSUME NEW k \in C!QueryNames, C!Retry(k) PROVE CacheInv'
    <2> DEFINE p == [query[k] EXCEPT !.fetch = version]
               q == [query EXCEPT ![k] = p]
    <2>1. query' = q /\ UNCHANGED <<version, mounted, saves>> /\ query[k].failed
      BY <1>2, <1>10 DEF C!Retry
    <2>2. p \in C!QueryType /\ p.fetch = version /\ p.failed = query[k].failed
          /\ p.data = query[k].data /\ p.invalid = query[k].invalid
      BY <1>2, <1>5 DEF C!QueryType
    <2>3. q \in [C!QueryNames -> C!QueryType] /\ q[k] = p
          /\ \A x \in C!QueryNames \ {k} : q[x] = query[x]
      BY <1>2, <2>2
    <2> HIDE DEF p, q
    <2>4. "page" \in C!QueryNames /\ "settings" \in C!QueryNames /\ k \in {"page", "settings"}
      BY DEF C!QueryNames
    <2>5. ASSUME NEW i \in C!Saves, Answer(i) PROVE PageRenewed(i)' /\ SettingsRenewed(i)'
      <3>1. PageRenewed(i) /\ SettingsRenewed(i) /\ version >= saves[i].at /\ version # 0
        BY <1>1, <1>2, <2>5
      <3>2. CASE k = "page"
        <4>1. PageQuery'.fetch = version /\ SettingsOf' = SettingsOf
          BY <2>1, <2>2, <2>3, <2>4, <3>2 DEF PageQuery, SettingsOf
        <4> QED BY <2>1, <3>1, <4>1 DEF PageRenewed, SettingsRenewed
      <3>3. CASE k = "settings"
        <4>1. SettingsOf'.fetch = version /\ SettingsOf'.failed /\ PageQuery' = PageQuery
          BY <2>1, <2>2, <2>3, <2>4, <3>3 DEF PageQuery, SettingsOf
        <4> QED BY <2>1, <3>1, <4>1 DEF PageRenewed, SettingsRenewed
      <3> QED BY <2>4, <3>2, <3>3
    <2>6. C!Saves # {} => q["settings"].data # 0
      BY <1>3, <2>2, <2>3, <2>4
    <2>7. mounted /\ q["page"].fetch = 0 /\ q["page"].invalid => q["page"].failed
      BY <1>2, <1>4, <2>2, <2>3, <2>4
    <2> QED BY <1>1, <1>2, <2>1, <2>3, <2>5, <2>6, <2>7, QueryStep
  <1> QED BY <1>7, <1>8, <1>9, <1>10

\* A fetch ends; whoever waits for it waits no longer.
LEMMA CacheFetched ==
    ASSUME C!CacheAssumption, CacheInv, NEW k \in C!QueryNames, C!FetchArrives(k) \/ C!FetchFails(k)
    PROVE  CacheInv'
  <1>1. version \in 1 .. MaxData /\ MaxData \in Nat /\ query \in [C!QueryNames -> C!QueryType]
        /\ "page" \in C!QueryNames /\ "settings" \in C!QueryNames /\ k \in {"page", "settings"}
        /\ C!Saves = 1 .. Len(saves) /\ Len(saves) \in Nat
        /\ \A i \in C!Saves : saves[i] \in C!SaveType /\ saves[i].at \in Nat
    BY CacheTyped
  <1>2. UNCHANGED <<version, mounted>> /\ query[k].fetch # 0 /\ query[k] \in C!QueryType
        /\ saves' = [i \in C!Saves |-> [saves[i] EXCEPT !.awaits = @ \ {k}]]
    BY <1>1 DEF C!FetchArrives, C!FetchFails, C!Release
  <1>3. PICK p \in C!QueryType : /\ query' = [query EXCEPT ![k] = p] /\ p.fetch = 0
                                 /\ \/ p.data >= query[k].fetch /\ ~p.invalid /\ ~p.failed
                                    \/ p.data = query[k].data /\ p.failed /\ p.invalid
    <2>1. CASE C!FetchArrives(k)
      <3>1. PICK v \in query[k].fetch .. version :
                   query' = [query EXCEPT ![k] = [data |-> v, fetch |-> 0, failed |-> FALSE,
                                                  invalid |-> FALSE]]
        BY <2>1 DEF C!FetchArrives
      <3> DEFINE p == [data |-> v, fetch |-> 0, failed |-> FALSE, invalid |-> FALSE]
      <3>2. v \in 0 .. MaxData /\ v >= query[k].fetch
        BY <1>1, <1>2 DEF C!QueryType
      <3>3. p \in C!QueryType
        BY <1>1, <3>2 DEF C!QueryType
      <3> QED BY <3>1, <3>2, <3>3
    <2>2. CASE C!FetchFails(k)
      <3> DEFINE p == [query[k] EXCEPT !.fetch = 0, !.failed = TRUE, !.invalid = TRUE]
      <3>1. query' = [query EXCEPT ![k] = p]
        BY <1>1, <2>2 DEF C!FetchFails
      <3>2. p \in C!QueryType /\ p.fetch = 0 /\ p.failed /\ p.invalid /\ p.data = query[k].data
        <4>1. 0 \in 0 .. MaxData /\ query[k] \in C!QueryType
          BY <1>1, <1>2
        <4> QED BY <4>1 DEF C!QueryType
      <3> QED BY <3>1, <3>2
    <2> QED BY <2>1, <2>2
  <1>4. query' \in [C!QueryNames -> C!QueryType] /\ query'[k] = p
        /\ \A x \in C!QueryNames \ {k} : query'[x] = query[x]
    BY <1>1, <1>3
  <1>5. ASSUME NEW i \in C!Saves
        PROVE  /\ saves'[i] \in C!SaveType /\ saves'[i].state = saves[i].state
               /\ saves'[i].at = saves[i].at /\ saves'[i].base = saves[i].base
               /\ saves'[i].knew = saves[i].knew /\ saves'[i].missed = saves[i].missed
               /\ saves'[i].awaits = saves[i].awaits \ {k}
    <2> DEFINE e == [saves[i] EXCEPT !.awaits = @ \ {k}]
    <2>1. saves'[i] = e
      BY <1>2
    <2>2. e \in C!SaveType /\ e.state = saves[i].state /\ e.at = saves[i].at /\ e.base = saves[i].base
          /\ e.knew = saves[i].knew /\ e.missed = saves[i].missed /\ e.awaits = saves[i].awaits \ {k}
      BY <1>1 DEF C!SaveType
    <2> QED BY <2>1, <2>2
  <1>6. saves' \in Seq(C!SaveType) /\ Len(saves') = Len(saves) /\ C!Saves' = C!Saves
    <2> DEFINE f == [i \in 1 .. Len(saves) |-> saves'[i]]
    <2>1. saves' = f
      BY <1>1, <1>2
    <2>2. \A i \in 1 .. Len(saves) : f[i] \in C!SaveType
      BY <1>1, <1>5
    <2>3. f \in Seq(C!SaveType) /\ Len(f) = Len(saves)
      BY <1>1, <2>2
    <2> HIDE DEF f
    <2> QED BY <2>1, <2>3 DEF C!Saves
  <1>7. C!WebTypeOK'
    BY <1>2, <1>4, <1>6 DEF CacheInv, C!WebTypeOK
  <1>8. query[k].fetch \in Nat /\ p.data \in Nat /\ query["page"].data \in Nat /\ query["settings"].data \in Nat
    BY <1>1, <1>2 DEF C!QueryType
  <1>9. ASSUME NEW i \in C!Saves PROVE SaveInv(i)'
    <2>1. SaveInv(i)
      BY DEF CacheInv
    <2>2. ASSUME Answer(i) PROVE PageRenewed(i)'
      <3>1. PageRenewed(i)
        BY <2>1, <2>2 DEF SaveInv
      <3>2. CASE k = "page"
        <4>1. PageQuery' = p
          BY <1>4, <3>2 DEF PageQuery
        <4>2. "page" \in saves[i].missed \/ query[k].fetch >= saves[i].at
          BY <1>2, <3>1, <3>2 DEF PageRenewed, PageQuery
        <4>3. query[k].fetch >= saves[i].at => p.invalid \/ p.data >= saves[i].at
          BY <1>1, <1>3, <1>8
        <4> QED BY <1>3, <1>5, <4>1, <4>2, <4>3 DEF PageRenewed
      <3>3. CASE k # "page"
        BY <1>1, <1>4, <1>5, <3>1, <3>3 DEF PageRenewed, PageQuery
      <3> QED BY <3>2, <3>3
    <2>3. ASSUME Answer(i) PROVE SettingsRenewed(i)'
      <3>1. SettingsRenewed(i)
        BY <2>1, <2>3 DEF SaveInv
      <3>2. CASE k = "settings"
        <4>1. SettingsOf' = p
          BY <1>4, <3>2 DEF SettingsOf
        <4>2. query[k].fetch >= saves[i].at
          BY <1>2, <3>1, <3>2 DEF SettingsRenewed, SettingsOf
        <4>3. p.failed \/ p.data >= saves[i].at
          BY <1>1, <1>3, <1>8, <4>2
        <4> QED BY <1>3, <1>5, <4>1, <4>3 DEF SettingsRenewed
      <3>3. CASE k # "settings"
        <4>1. SettingsOf' = SettingsOf
          BY <1>1, <1>4, <3>3 DEF SettingsOf
        <4>2. "settings" \in saves[i].awaits => "settings" \in saves'[i].awaits
          BY <1>5, <3>3
        <4> QED BY <1>5, <3>1, <4>1, <4>2 DEF SettingsRenewed
      <3> QED BY <3>2, <3>3
    <2>4. saves'[i].at <= version' /\ (Answer(i)' <=> Answer(i))
      BY <1>2, <1>5, <2>1 DEF SaveInv, Answer
    <2>5. saves'[i].state = "saved" => saves'[i].awaits = {}
      BY <1>5, <2>1 DEF SaveInv
    <2>6. \A j \in saves[i].knew : /\ j \in C!Saves' /\ saves'[j].state = "saved"
                                   /\ saves'[j].at <= saves'[i].base
      BY <1>5, <1>6, <2>1 DEF SaveInv
    <2> QED BY <1>5, <2>1, <2>2, <2>3, <2>4, <2>5, <2>6 DEF SaveInv
  <1>10. C!Saves # {} => SettingsOf'.data # 0
    <2>1. CASE k = "settings"
      <3>1. SettingsOf' = p
        BY <1>4, <2>1 DEF SettingsOf
      <3>2. p.data # 0 \/ p.data = SettingsOf.data
        BY <1>2, <1>3, <1>8, <2>1 DEF SettingsOf
      <3> QED BY <3>1, <3>2 DEF CacheInv
    <2>2. CASE k # "settings"
      BY <1>1, <1>4, <2>2 DEF CacheInv, SettingsOf
    <2> QED BY <2>1, <2>2
  <1>11. mounted' /\ PageQuery'.fetch = 0 /\ PageQuery'.invalid => PageQuery'.failed
    <2>1. CASE k = "page"
      BY <1>3, <1>4, <2>1 DEF PageQuery
    <2>2. CASE k # "page"
      BY <1>1, <1>2, <1>4, <2>2 DEF CacheInv, PageQuery
    <2> QED BY <2>1, <2>2
  <1> QED BY <1>6, <1>7, <1>9, <1>10, <1>11 DEF CacheInv

\* One save goes on, and the queries stay as they are.
LEMMA SaveStep ==
    ASSUME C!CacheAssumption, CacheInv, NEW i \in C!Saves, NEW e \in C!SaveType,
           saves' = [saves EXCEPT ![i] = e], query' = query, mounted' = mounted,
           version' \in 1 .. MaxData, version' >= version,
           saves[i].state = "saved" => e.state = "saved" /\ e.at = saves[i].at,
           e.knew = saves[i].knew, e.base = saves[i].base, e.at <= version',
           Answer(i)' => e.at # 0 /\ PageRenewed(i)' /\ SettingsRenewed(i)',
           e.state = "saved" => e.awaits = {}
    PROVE  CacheInv'
  <1>1. saves \in Seq(C!SaveType) /\ C!Saves = 1 .. Len(saves) /\ Len(saves) \in Nat
        /\ version \in 1 .. MaxData /\ MaxData \in Nat
        /\ \A j \in C!Saves : saves[j].at \in Nat
    BY CacheTyped
  <1>2. saves' \in Seq(C!SaveType) /\ Len(saves') = Len(saves)
        /\ \A j \in 1 .. Len(saves) : saves'[j] = IF j = i THEN e ELSE saves[j]
    BY <1>1, Replaced
  <1>3. C!Saves' = C!Saves /\ saves'[i] = e /\ \A j \in C!Saves : j # i => saves'[j] = saves[j]
    BY <1>1, <1>2 DEF C!Saves
  <1>4. C!WebTypeOK'
    BY <1>1, <1>2 DEF CacheInv, C!WebTypeOK, C!Version
  <1>5. \A j \in C!Saves : saves[j].state = "saved" => saves'[j].state = "saved" /\ saves'[j].at = saves[j].at
    BY <1>3
  <1>6. ASSUME NEW x \in C!Saves PROVE SaveInv(x)'
    <2>1. SaveInv(x) /\ saves'[x].knew = saves[x].knew /\ saves'[x].base = saves[x].base
      BY <1>3 DEF CacheInv
    <2>2. \A j \in saves'[x].knew : /\ j \in C!Saves' /\ saves'[j].state = "saved"
                                    /\ saves'[j].at <= saves'[x].base
      BY <1>3, <1>5, <2>1 DEF SaveInv
    <2>3. CASE x = i
      BY <1>3, <2>2, <2>3 DEF SaveInv
    <2>4. CASE x # i
      <3>1. saves'[x] = saves[x]
        BY <1>3, <2>4
      <3>2. saves[x].at <= version'
        BY <1>1, <2>1 DEF SaveInv
      <3>3. Answer(x)' => saves'[x].at # 0 /\ PageRenewed(x)' /\ SettingsRenewed(x)'
        BY <2>1, <3>1 DEF SaveInv, Answer, PageRenewed, SettingsRenewed, PageQuery, SettingsOf
      <3> QED BY <2>1, <2>2, <3>1, <3>2, <3>3 DEF SaveInv
    <2> QED BY <2>3, <2>4
  <1> QED BY <1>3, <1>4, <1>6 DEF CacheInv, PageQuery, SettingsOf

LEMMA SaveServed ==
    ASSUME C!CacheAssumption, CacheInv, NEW i \in C!Saves, C!ServeSave(i)
    PROVE  CacheInv'
  <1> DEFINE e == [saves[i] EXCEPT !.at = version + 1]
  <1>1. saves[i] \in C!SaveType /\ saves[i].at = 0 /\ version < MaxData /\ version' = version + 1
        /\ version \in 1 .. MaxData /\ MaxData \in Nat
        /\ saves' = [saves EXCEPT ![i] = e] /\ UNCHANGED <<query, mounted>>
    BY CacheTyped DEF C!ServeSave
  <1>2. version' \in 1 .. MaxData /\ version' >= version /\ version + 1 \in 0 .. MaxData
    BY <1>1
  <1>3. e \in C!SaveType /\ e.at = version' /\ e.state = saves[i].state /\ e.knew = saves[i].knew
        /\ e.base = saves[i].base /\ e.awaits = saves[i].awaits
    BY <1>1, <1>2 DEF C!SaveType
  <1>4. ~Answer(i) /\ saves[i].state # "saved"
    BY <1>1 DEF CacheInv, SaveInv, Answer
  <1> HIDE DEF e
  <1>5. saves'[i] = e
    BY <1>1, <1>3, CacheTyped
  <1>6. ~Answer(i)' /\ e.state # "saved" /\ e.at <= version'
    BY <1>2, <1>3, <1>4, <1>5 DEF Answer
  <1> QED BY <1>1, <1>2, <1>3, <1>4, <1>6, SaveStep

LEMMA SaveEnds ==
    ASSUME C!CacheAssumption, CacheInv, NEW i \in C!Saves, C!SaveFails(i) \/ C!Notify(i)
    PROVE  CacheInv'
  <1>1. PICK t \in {"failed", "saved"} :
          /\ saves' = [saves EXCEPT ![i].state = t]
          /\ t = "saved" => saves[i].state = "refetching" /\ saves[i].awaits = {}
    BY DEF C!SaveFails, C!Notify
  <1> DEFINE e == [saves[i] EXCEPT !.state = t]
  <1>2. saves[i] \in C!SaveType /\ saves[i].state # "saved" /\ saves' = [saves EXCEPT ![i] = e]
        /\ UNCHANGED <<version, query, mounted>> /\ version \in 1 .. MaxData
        /\ MaxData \in Nat
    BY <1>1, CacheTyped DEF C!SaveFails, C!Notify
  <1>3. e \in C!SaveType /\ e.at = saves[i].at /\ e.state = t /\ e.knew = saves[i].knew
        /\ e.base = saves[i].base /\ e.awaits = saves[i].awaits /\ e.missed = saves[i].missed
    BY <1>2 DEF C!SaveType
  <1> HIDE DEF e
  <1>4. saves'[i] = e
    BY <1>2, <1>3, CacheTyped
  <1>5. SaveInv(i)
    BY DEF CacheInv
  <1>6. ASSUME Answer(i)' PROVE e.at # 0 /\ PageRenewed(i)' /\ SettingsRenewed(i)'
    <2>1. Answer(i)
      BY <1>1, <1>3, <1>4, <1>6 DEF Answer
    <2> QED BY <1>2, <1>3, <1>4, <1>5, <2>1
        DEF SaveInv, PageRenewed, SettingsRenewed, PageQuery, SettingsOf
  <1>7. version' \in 1 .. MaxData /\ version' >= version /\ e.at <= version'
    BY <1>2, <1>3, <1>5 DEF SaveInv
  <1>8. e.state = "saved" => e.awaits = {}
    BY <1>1, <1>3
  <1> QED BY <1>2, <1>3, <1>6, <1>7, <1>8, SaveStep

\* The answer to a save has what is watched fetched again.
LEMMA SaveArrives ==
    ASSUME C!CacheAssumption, CacheInv, NEW i \in C!Saves, C!SaveArrives(i)
    PROVE  CacheInv'
  <1> DEFINE Q(k) == [query[k] EXCEPT !.invalid = TRUE,
                                      !.fetch = IF C!Renewed(k) THEN version ELSE @]
             e == C!Refetching(saves[i])
  <1>1. version \in 1 .. MaxData /\ MaxData \in Nat /\ query \in [C!QueryNames -> C!QueryType]
        /\ "page" \in C!QueryNames /\ "settings" \in C!QueryNames
        /\ saves \in Seq(C!SaveType) /\ C!Saves = 1 .. Len(saves) /\ Len(saves) \in Nat
        /\ \A j \in C!Saves : saves[j] \in C!SaveType /\ saves[j].at \in Nat
    BY CacheTyped
  <1>2. saves[i].state = "sent" /\ saves[i].at # 0 /\ UNCHANGED <<version, mounted>>
        /\ query' = [k \in C!QueryNames |-> Q(k)]
    BY <1>1 DEF C!SaveArrives, C!Invalidated
  <1>2a. saves' = [saves EXCEPT ![i] = e]
    BY <1>1 DEF C!SaveArrives
  <1>3. ASSUME NEW k \in C!QueryNames
        PROVE  /\ query'[k] \in C!QueryType /\ query'[k].data = query[k].data /\ query'[k].invalid
               /\ query'[k].failed = query[k].failed
               /\ query'[k].fetch = IF C!Renewed(k) THEN version ELSE query[k].fetch
    <2> DEFINE v == IF C!Renewed(k) THEN version ELSE query[k].fetch
    <2>1. query'[k] = [query[k] EXCEPT !.invalid = TRUE, !.fetch = v] /\ query[k] \in C!QueryType
      BY <1>1, <1>2
    <2>2. v \in 0 .. MaxData
      BY <1>1, <2>1 DEF C!QueryType
    <2> HIDE DEF v
    <2>3. /\ query'[k] \in C!QueryType /\ query'[k].data = query[k].data /\ query'[k].invalid
          /\ query'[k].failed = query[k].failed /\ query'[k].fetch = v
      BY <2>1, <2>2 DEF C!QueryType
    <2> QED BY <2>3 DEF v
  <1>4. query' \in [C!QueryNames -> C!QueryType]
    BY <1>2, <1>3
  <1>5. e \in C!SaveType /\ e.state = "refetching" /\ e.at = saves[i].at /\ e.base = saves[i].base
        /\ e.knew = saves[i].knew
        /\ e.awaits = {k \in C!QueryNames : C!Active(k)}
        /\ e.missed = {k \in C!QueryNames : query[k].fetch # 0 /\ ~C!Renewed(k)}
    BY <1>1 DEF C!Refetching, C!SaveType
  <1> HIDE DEF e
  <1>6. saves' \in Seq(C!SaveType) /\ Len(saves') = Len(saves)
        /\ \A j \in 1 .. Len(saves) : saves'[j] = IF j = i THEN e ELSE saves[j]
    BY <1>1, <1>2a, <1>5, Replaced
  <1>7. C!Saves' = C!Saves /\ saves'[i] = e /\ \A j \in C!Saves : j # i => saves'[j] = saves[j]
    BY <1>1, <1>6 DEF C!Saves
  <1>8. C!WebTypeOK'
    BY <1>2, <1>4, <1>6 DEF CacheInv, C!WebTypeOK
  <1>9. SettingsOf.data # 0 /\ C!Renewed("settings") /\ SettingsOf'.fetch = version
        /\ SettingsOf'.data = SettingsOf.data /\ SettingsOf'.failed = SettingsOf.failed
    <2>1. query["settings"].data # 0
      BY DEF CacheInv, SettingsOf
    <2>2. C!Renewed("settings")
      BY <2>1 DEF C!Renewed, C!Active
    <2> QED BY <1>1, <1>3, <2>1, <2>2 DEF SettingsOf
  <1>10. ASSUME NEW x \in C!Saves PROVE SaveInv(x)'
    <2>1. SaveInv(x) /\ saves[x].at \in Nat /\ saves'[x].at = saves[x].at
          /\ saves'[x].knew = saves[x].knew /\ saves'[x].base = saves[x].base
      BY <1>1, <1>5, <1>7 DEF CacheInv
    <2>2. saves'[x].at <= version' /\ saves[x].at <= version
      BY <1>2, <2>1 DEF SaveInv
    <2>3. \A j \in saves[x].knew : /\ j \in C!Saves /\ saves[j].state = "saved"
                                   /\ saves[j].at <= saves[x].base
      BY <2>1 DEF SaveInv
    <2>4. \A j \in saves'[x].knew : /\ j \in C!Saves' /\ saves'[j].state = "saved"
                                    /\ saves'[j].at <= saves'[x].base
      BY <1>2, <1>7, <2>1, <2>3
    <2>5. CASE x = i
      <3>1. PageRenewed(x)'
        <4>1. CASE C!Renewed("page")
          <5>1. PageQuery'.fetch = version
            BY <1>1, <1>3, <4>1 DEF PageQuery
          <5> QED BY <1>1, <2>1, <2>2, <5>1 DEF PageRenewed
        <4>2. CASE ~C!Renewed("page") /\ query["page"].fetch # 0
          <5>1. "page" \in saves'[x].missed
            BY <1>1, <1>5, <1>7, <2>5, <4>2
          <5> QED BY <5>1 DEF PageRenewed
        <4>3. CASE ~C!Renewed("page") /\ query["page"].fetch = 0
          <5>1. PageQuery'.fetch = 0 /\ PageQuery'.invalid
            BY <1>1, <1>3, <4>3 DEF PageQuery
          <5> QED BY <5>1 DEF PageRenewed
        <4> QED BY <4>1, <4>2, <4>3
      <3>2. SettingsRenewed(x)'
        <4>1. "settings" \in saves'[x].awaits
          BY <1>1, <1>5, <1>7, <2>5 DEF C!Active
        <4>2. SettingsOf'.fetch >= saves'[x].at /\ SettingsOf'.fetch # 0
          BY <1>1, <1>9, <2>1, <2>2
        <4> QED BY <4>1, <4>2 DEF SettingsRenewed
      <3>3. saves'[x].at # 0 /\ saves'[x].state # "saved"
        BY <1>2, <1>5, <1>7, <2>5
      <3> QED BY <2>2, <2>4, <3>1, <3>2, <3>3 DEF SaveInv
    <2>6. CASE x # i
      <3>1. saves'[x] = saves[x]
        BY <1>7, <2>6
      <3>2. ASSUME Answer(x) PROVE PageRenewed(x)' /\ SettingsRenewed(x)'
        <4>1. PageRenewed(x) /\ SettingsRenewed(x)
          BY <2>1, <3>2 DEF SaveInv
        <4>2. PageQuery'.invalid
              /\ PageQuery'.fetch = IF C!Renewed("page") THEN version ELSE PageQuery.fetch
          BY <1>1, <1>3 DEF PageQuery
        <4>3. PageRenewed(x)'
          BY <1>1, <2>1, <2>2, <3>1, <4>1, <4>2 DEF PageRenewed
        <4>4. SettingsRenewed(x)'
          BY <1>1, <1>9, <2>1, <2>2, <3>1, <4>1 DEF SettingsRenewed
        <4> QED BY <4>3, <4>4
      <3>3. Answer(x)' <=> Answer(x)
        BY <3>1 DEF Answer
      <3> QED BY <2>1, <2>2, <2>4, <3>1, <3>2, <3>3 DEF SaveInv
    <2> QED BY <2>5, <2>6
  <1>11. mounted' => PageQuery'.fetch # 0
    <2> SUFFICES ASSUME mounted PROVE PageQuery'.fetch # 0
      BY <1>2
    <2>1. C!Renewed("page") \/ query["page"].fetch # 0
      BY DEF C!Renewed, C!Active
    <2> QED BY <1>1, <1>3, <2>1 DEF PageQuery
  <1> QED BY <1>7, <1>8, <1>9, <1>10, <1>11 DEF CacheInv

\* A save starts from the settings that are shown.
LEMMA SaveSubmitted ==
    ASSUME C!CacheAssumption, CacheInv, NEW p \in Panels, C!SubmitPanel(p)
    PROVE  CacheInv'
  <1>0. PICK n \in Nat : n = Len(saves)
    BY CacheTyped
  <1> DEFINE e == [panel |-> p, base |-> C!BaseVersion, at |-> 0, state |-> "sent", awaits |-> {},
                    missed |-> {}, knew |-> C!Saved]
  <1>1. version \in 1 .. MaxData /\ MaxData \in Nat /\ SettingsOf \in C!QueryType
        /\ saves \in Seq(C!SaveType) /\ C!Saves = 1 .. n /\ n \in Nat
        /\ \A j \in C!Saves : saves[j] \in C!SaveType /\ saves[j].at \in Nat
    BY <1>0, CacheTyped
  <1>2. SettingsOf.data # 0 /\ ~SettingsOf.failed /\ n < MaxSaves /\ saves' = Append(saves, e)
        /\ UNCHANGED <<version, query, mounted>> /\ MaxSaves \in Nat
    BY <1>0 DEF C!SubmitPanel, C!PanelsShown, SettingsOf, C!CacheAssumption
  <1>3. e \in C!SaveType /\ e.base = SettingsOf.data /\ e.at = 0 /\ e.state = "sent" /\ e.knew = C!Saved
    <2>1. C!BaseVersion \in C!Version
      BY <1>1, <1>2 DEF C!BaseVersion, C!Version, SettingsOf, C!QueryType
    <2>2. C!Saved \subseteq 1 .. MaxSaves
      BY <1>1, <1>2 DEF C!Saved
    <2> QED BY <2>1, <2>2, <1>1 DEF C!SaveType, C!BaseVersion, SettingsOf
  <1> HIDE DEF e
  <1>4. /\ saves' \in Seq(C!SaveType) /\ Len(saves') = n + 1 /\ saves'[n + 1] = e
        /\ \A i \in 1 .. n : saves'[i] = saves[i]
    BY <1>0, <1>1, <1>2, <1>3, Appended
  <1>5. C!Saves' = 1 .. (n + 1) /\ \A i \in C!Saves : i \in C!Saves' /\ saves'[i] = saves[i]
    BY <1>1, <1>4 DEF C!Saves
  <1>6. C!WebTypeOK'
    BY <1>1, <1>2, <1>4 DEF CacheInv, C!WebTypeOK
  <1>7. ASSUME NEW x \in C!Saves PROVE SaveInv(x)'
    <2>1. SaveInv(x) /\ saves'[x] = saves[x]
      BY <1>5 DEF CacheInv
    <2> QED BY <1>2, <1>5, <2>1
        DEF SaveInv, Answer, PageRenewed, SettingsRenewed, PageQuery, SettingsOf
  <1>8. SaveInv(n + 1)'
    <2>1. ASSUME NEW j \in C!Saved PROVE j \in C!Saves /\ saves[j].state = "saved" /\ saves[j].at <= SettingsOf.data
      <3>1. j \in C!Saves /\ saves[j].state = "saved"
        BY DEF C!Saved
      <3>2. SettingsRenewed(j) /\ saves[j].awaits = {}
        BY <3>1 DEF CacheInv, SaveInv, Answer
      <3>3. SettingsOf.data >= saves[j].at
        BY <1>2, <3>2 DEF SettingsRenewed
      <3> QED BY <1>1, <3>1, <3>3 DEF C!QueryType
    <2>2. saves'[n + 1].at <= version' /\ ~Answer(n + 1)' /\ saves'[n + 1].state # "saved"
      BY <1>1, <1>2, <1>3, <1>4 DEF Answer
    <2>3. \A j \in saves'[n + 1].knew : /\ j \in C!Saves' /\ saves'[j].state = "saved"
                                        /\ saves'[j].at <= saves'[n + 1].base
      BY <1>3, <1>4, <1>5, <2>1
    <2> QED BY <2>2, <2>3 DEF SaveInv
  <1>9. ASSUME NEW x \in C!Saves' PROVE SaveInv(x)'
    <2>1. x \in C!Saves \/ x = n + 1
      BY <1>1, <1>5
    <2>2. CASE x \in C!Saves
      BY <1>7, <2>2
    <2>3. CASE x = n + 1
      BY <1>8, <2>3
    <2> QED BY <2>1, <2>2, <2>3
  <1> QED BY <1>2, <1>6, <1>9 DEF CacheInv, PageQuery, SettingsOf

LEMMA CacheFirst ==
    ASSUME C!CacheAssumption, C!CacheInit
    PROVE  CacheInv
  <1>1. <<>> \in Seq(C!SaveType) /\ Len(<<>>) = 0
    OBVIOUS
  <1>2. C!Saves = {}
    BY <1>1 DEF C!CacheInit, C!Saves
  <1>3. 1 \in 1 .. MaxData /\ 0 \in 0 .. MaxData /\ 1 \in 0 .. MaxData
    BY DEF C!CacheAssumption
  <1>4. query \in [C!QueryNames -> C!QueryType]
    BY <1>3 DEF C!CacheInit, C!QueryType
  <1>5. C!WebTypeOK
    <2>1. Len(saves) <= MaxSaves
      BY <1>1 DEF C!CacheInit, C!CacheAssumption
    <2> QED BY <1>1, <1>3, <1>4, <2>1 DEF C!CacheInit, C!WebTypeOK, C!Version
  <1> QED BY <1>2, <1>5 DEF C!CacheInit, CacheInv

LEMMA CacheSteps ==
    ASSUME C!CacheAssumption, CacheInv, [C!CacheNext]_(C!cacheVars)
    PROVE  CacheInv'
  <1>1. CASE C!OpenPage \/ C!LeavePage \/ C!Collect \/ C!OtherWrites \/ UNCHANGED C!cacheVars
             \/ \E k \in C!QueryNames : C!Retry(k)
    BY <1>1, CacheRead
  <1>2. CASE \E k \in C!QueryNames : C!FetchArrives(k) \/ C!FetchFails(k)
    BY <1>2, CacheFetched
  <1>3. CASE \E p \in Panels : C!SubmitPanel(p)
    BY <1>3, SaveSubmitted
  <1>4. CASE \E i \in C!Saves : C!ServeSave(i) \/ C!SaveArrives(i) \/ C!SaveFails(i) \/ C!Notify(i)
    BY <1>4, SaveServed, SaveArrives, SaveEnds
  <1> QED BY <1>1, <1>2, <1>3, <1>4 DEF C!CacheNext

\* Every section has a figure on the screen only from an answer it has.
LEMMA SectionsTyped == C!ClientSections \subseteq C!SectionType
  <1>1. {C!Replaced, C!Kept, C!Optional, C!Empty, C!EmptyOnFailure} \subseteq C!SectionType
    BY DEF C!Replaced, C!Kept, C!Optional, C!Empty, C!EmptyOnFailure, C!SectionType
  <1>2. C!ClientSections \subseteq {C!Replaced, C!Kept, C!Optional, C!Empty, C!EmptyOnFailure}
    BY DEF C!ClientSections, C!Replaced, C!Kept, C!Optional, C!Empty, C!EmptyOnFailure,
      C!HomePage, C!HomeActivityPanel, C!AttentionPanel, C!FlowsPanel, C!GoalsPanel,
      C!ReminderPanel, C!AttentionButton, C!AccountsPage, C!FirstAccount, C!ArchivedList,
      C!AccountDetailPage, C!PositionsView, C!ValueView, C!LinkedGoalsCard, C!ActivityFeed,
      C!ValuationHistory, C!RecordedGroups, C!ReconciliationRows, C!AdvancedSheets,
      C!CorporateFields, C!ConversionFields, C!ImportPage, C!ActivityPage, C!InstrumentPage,
      C!GoalsPage, C!GoalDetailPage, C!Milestones, C!LinkedAccountHistory, C!WhatIfPanel,
      C!GoalAlerts, C!AllocationPage, C!HoldingsView, C!LiquiditySection, C!ComparePage,
      C!IncomePage, C!NetWorthPage, C!IncompleteTotals, C!DistributionPage, C!SummaryPage,
      C!BeneficiaryRows, C!SnapshotPage, C!EstateSections, C!CategorySettings,
      C!InstitutionSettings, C!InstrumentSettings, C!ExchangeRates, C!SignInSection,
      C!ConsentPage, C!RecorderAccounts, C!CommandPalette
  <1> QED BY <1>1, <1>2

LEMMA CacheInvariant == ASSUME C!CacheAssumption PROVE C!CacheSpec => []CacheInv
  <1>1. C!CacheInit => CacheInv
    BY CacheFirst
  <1>2. CacheInv /\ [C!CacheNext]_(C!cacheVars) => CacheInv'
    BY CacheSteps
  <1> QED BY <1>1, <1>2, PTL DEF C!CacheSpec

\* Once a person is told of a save, no section shows figures from before it, and no settings
\* panel takes back what another one saved (queries.ts, settings-kit.tsx).
LEMMA FiguresStayCurrent == ASSUME C!CacheAssumption PROVE C!CacheSpec => []C!FiguresCurrent
  <1>1. CacheInv => C!FiguresCurrent
    <2> SUFFICES ASSUME CacheInv PROVE C!ShownIsSaved /\ C!SavesKept
      BY DEF C!FiguresCurrent
    <2>1. C!ShownIsSaved
      <3> SUFFICES ASSUME NEW i \in C!Saved, NEW s \in C!ClientSections, C!Shows(s) = "figures",
                          query["page"].fetch = 0, query["page"].failed => s.failed = "error"
                   PROVE  "page" \in saves[i].missed \/ query["page"].data >= saves[i].at
        BY DEF C!ShownIsSaved
      <3>1. s.loading # "figures" /\ s.failed # "figures"
        BY SectionsTyped DEF C!SectionType
      <3>2. mounted /\ query["page"].data # 0 /\ ~query["page"].failed
        BY <3>1 DEF C!Shows
      <3>3. i \in C!Saves /\ saves[i].state = "saved"
        BY DEF C!Saved
      <3>4. PageRenewed(i) /\ ~query["page"].invalid
        BY <3>2, <3>3 DEF CacheInv, SaveInv, Answer, PageQuery
      <3> QED BY <3>2, <3>4 DEF PageRenewed, PageQuery
    <2>2. C!SavesKept
      <3> SUFFICES ASSUME NEW i \in C!Saves, NEW j \in saves[i].knew PROVE saves[i].base >= saves[j].at
        BY DEF C!SavesKept
      <3>1. saves[j].at <= saves[i].base /\ j \in C!Saves
        BY DEF CacheInv, SaveInv
      <3>2. saves[i] \in C!SaveType /\ saves[j].at \in Nat
        BY <3>1, CacheTyped
      <3> QED BY <3>1, <3>2 DEF C!SaveType, C!Version
    <2> QED BY <2>1, <2>2
  <1> QED BY <1>1, CacheInvariant, PTL

LEMMA CacheKeepsTypes == ASSUME C!CacheAssumption PROVE C!CacheSpec => []C!WebTypeOK
  <1>1. CacheInv => C!WebTypeOK
    BY DEF CacheInv
  <1> QED BY <1>1, CacheInvariant, PTL

-----------------------------------------------------------------------------
(* The list of the accounts (WebAccounts) *)

\* The data of the server and the two answers that are joined are well formed.
AccountsInv == data \in L!World /\ list \in L!World \cup {Nothing} /\ summaries \in L!World \cup {Nothing}

\* What keeps an account from a value in its own currency is one thing at most.
LEMMA OwnMissing ==
    ASSUME NEW w, NEW a
    PROVE  \/ /\ L!chartAccountValue(w, a) = {}
              /\ a \in Holds => w.accounts[a].priced
           \/ /\ L!chartAccountValue(w, a) = {<<"price", a>>}
              /\ a \in Holds /\ ~w.accounts[a].priced
           \/ /\ L!chartAccountValue(w, a) = {<<"currency", QuoteOf[a]>>} /\ a \in Holds
              /\ w.accounts[a].priced /\ ~L!Convertible(w, QuoteOf[a], CurrencyOf[a])
  BY DEF L!chartAccountValue

\* What a set of one missing price, or of one currency, is made of.
LEMMA OnePrice ==
    ASSUME NEW y
    PROVE  /\ {<<"price", y>>} # {} /\ \A z : {<<"price", y>>} # {<<"currency", z>>}
           /\ {m \in {<<"price", y>>} : m[1] = "price"} = {<<"price", y>>}
           /\ {n \in {<<"price", y>>} : n[1] = "currency"} = {}
  <1>1. <<"price", y>>[1] = "price" /\ \A z : <<"currency", z>>[1] = "currency"
    OBVIOUS
  <1>2. "price" # "currency"
    OBVIOUS
  <1> DEFINE e == <<"price", y>>
  <1>3. e[1] = "price" /\ \A z : e # <<"currency", z>>
    BY <1>1, <1>2
  <1> HIDE DEF e
  <1>4. {e} # {} /\ \A z : {e} # {<<"currency", z>>}
    BY <1>3
  <1>5. {m \in {e} : m[1] = "price"} = {e}
    BY <1>3
  <1>6. {n \in {e} : n[1] = "currency"} = {}
    BY <1>2, <1>3
  <1> QED BY <1>4, <1>5, <1>6 DEF e

LEMMA OneCurrency ==
    ASSUME NEW z
    PROVE  /\ {<<"currency", z>>} # {} /\ \A y : {<<"currency", z>>} # {<<"price", y>>}
           /\ {m \in {<<"currency", z>>} : m[1] = "price"} = {}
           /\ {n \in {<<"currency", z>>} : n[1] = "currency"} = {<<"currency", z>>}
           /\ {m[2] : m \in {<<"currency", z>>}} = {z}
  <1> DEFINE e == <<"currency", z>>
  <1>1. e[1] = "currency" /\ e[2] = z /\ "price" # "currency"
    OBVIOUS
  <1> HIDE DEF e
  <1>2. {m \in {e} : m[1] = "price"} = {}
    BY <1>1
  <1>3. {n \in {e} : n[1] = "currency"} = {e}
    BY <1>1
  <1>4. {m[2] : m \in {e}} = {z}
    BY <1>1
  <1>5. \A y : {e} # {<<"price", y>>}
    BY OnePrice DEF e
  <1>6. {e} # {}
    OBVIOUS
  <1> QED BY <1>2, <1>3, <1>4, <1>5, <1>6 DEF e

\* The prices and currencies of a summary, as far as it concerns the account's own value.
LEMMA OwnParts ==
    ASSUME NEW w, NEW a
    PROVE  /\ L!chartAccountValue(w, a) = {} => L!accountSummary(w, a).prices = {}
           /\ L!chartAccountValue(w, a) = {<<"price", a>>} =>
                L!accountSummary(w, a).prices = {<<"price", a>>}
           /\ L!chartAccountValue(w, a) = {<<"currency", QuoteOf[a]>>} =>
                L!accountSummary(w, a).prices = {}
           /\ L!accountSummary(w, a).currencies =
                (IF L!chartAccountValue(w, a) = {<<"currency", QuoteOf[a]>>} THEN {QuoteOf[a]} ELSE {})
                \cup (IF IF L!chartAccountValue(w, a) = {}
                         THEN L!InBase(w, a, w.accounts[a].value) # Nothing
                         ELSE L!Convertible(w, CurrencyOf[a], Base)
                      THEN {} ELSE {CurrencyOf[a]})
           /\ L!accountSummary(w, a).complete <=>
                L!chartAccountValue(w, a) = {} /\ L!InBase(w, a, w.accounts[a].value) # Nothing
           /\ L!accountSummary(w, a).freshness =
                IF w.accounts[a].priced THEN IF w.accounts[a].old THEN "stale" ELSE "fresh"
                ELSE IF a \in Holds THEN "missing" ELSE "not applicable"
           /\ L!accountSummary(w, a) =
                [prices |-> L!accountSummary(w, a).prices,
                 currencies |-> L!accountSummary(w, a).currencies,
                 freshness |-> L!accountSummary(w, a).freshness,
                 complete |-> L!accountSummary(w, a).complete]
  <1> DEFINE own == L!chartAccountValue(w, a)
             baseFound == IF own = {} THEN L!InBase(w, a, w.accounts[a].value) # Nothing
                          ELSE L!Convertible(w, CurrencyOf[a], Base)
             left == IF baseFound THEN {} ELSE {CurrencyOf[a]}
             prices == {m \in own : m[1] = "price"}
             named == {m[2] : m \in {n \in own : n[1] = "currency"}}
             fresh == IF w.accounts[a].priced THEN IF w.accounts[a].old THEN "stale" ELSE "fresh"
                      ELSE IF a \in Holds THEN "missing" ELSE "not applicable"
             whole == own = {} /\ baseFound
             s == L!accountSummary(w, a)
  <1>1. s = [prices |-> prices, currencies |-> named \cup left, freshness |-> fresh,
             complete |-> whole]
    BY DEF L!accountSummary
  <1> HIDE DEF s, prices, named, left, fresh, whole
  <1>2. /\ s.prices = prices /\ s.currencies = named \cup left /\ s.freshness = fresh
        /\ s.complete = whole
    BY <1>1
  <1>3. s = [prices |-> s.prices, currencies |-> s.currencies, freshness |-> s.freshness,
             complete |-> s.complete]
    BY <1>1, <1>2
  <1>4. CASE own = {}
    <2>1. prices = {} /\ named = {}
      BY <1>4 DEF prices, named
    <2>2. own # {<<"price", a>>} /\ own # {<<"currency", QuoteOf[a]>>}
      BY <1>4, OnePrice, OneCurrency
    <2> HIDE DEF own
    <2> QED BY <1>2, <1>3, <1>4, <2>1, <2>2 DEF own, s, left, fresh, whole, baseFound
  <1>5. CASE own = {<<"price", a>>}
    <2>1. prices = {<<"price", a>>} /\ own # {} /\ own # {<<"currency", QuoteOf[a]>>}
      BY <1>5, OnePrice DEF prices
    <2>2. named = {}
      <3>1. {n \in own : n[1] = "currency"} = {}
        BY <1>5, OnePrice
      <3> QED BY <3>1 DEF named
    <2> HIDE DEF own
    <2> QED BY <1>2, <1>3, <1>5, <2>1, <2>2 DEF own, s, left, fresh, whole, baseFound
  <1>6. CASE own = {<<"currency", QuoteOf[a]>>}
    <2>1. prices = {}
      BY <1>6, OneCurrency DEF prices
    <2>3. own # {} /\ own # {<<"price", a>>}
      <3> HIDE DEF own
      <3> QED BY <1>6, OneCurrency
    <2>2. named = {QuoteOf[a]}
      <3>1. {n \in own : n[1] = "currency"} = own
        BY <1>6, OneCurrency
      <3>2. {m[2] : m \in own} = {QuoteOf[a]}
        BY <1>6, OneCurrency
      <3> QED BY <3>1, <3>2 DEF named
    <2> HIDE DEF own
    <2> QED BY <1>2, <1>3, <1>6, <2>1, <2>2, <2>3 DEF own, s, left, fresh, whole, baseFound
  <1> QED BY <1>4, <1>5, <1>6, OwnMissing

LEMMA SummaryTyped ==
    ASSUME L!AccountsAssumption, NEW w, NEW a \in Accounts
    PROVE  /\ L!accountSummary(w, a) \in L!SummaryType /\ L!accountSummary(w, a) # Nothing
           /\ CurrencyOf[a] \in L!Currencies /\ (a \in Holds => QuoteOf[a] \in L!Currencies)
  <1> DEFINE s == L!accountSummary(w, a)
  <1>1. CurrencyOf[a] \in L!Currencies /\ (a \in Holds => QuoteOf[a] \in L!Currencies)
    BY DEF L!Currencies
  <1>2. s.prices \in SUBSET ({"price"} \X Accounts)
    <2>1. s.prices = {} \/ s.prices = {<<"price", a>>}
      <3> DEFINE own == L!chartAccountValue(w, a)
      <3>1. own = {} \/ own = {<<"price", a>>} \/ own = {<<"currency", QuoteOf[a]>>}
        BY OwnMissing
      <3>2. /\ own = {} => s.prices = {}
            /\ own = {<<"price", a>>} => s.prices = {<<"price", a>>}
            /\ own = {<<"currency", QuoteOf[a]>>} => s.prices = {}
        BY OwnParts
      <3> HIDE DEF own, s
      <3> QED BY <3>1, <3>2
    <2> HIDE DEF s
    <2> QED BY <2>1
  <1>3. s.currencies \in SUBSET L!Currencies
    <2> DEFINE own == L!chartAccountValue(w, a)
               first == IF own = {<<"currency", QuoteOf[a]>>} THEN {QuoteOf[a]} ELSE {}
               last == IF IF own = {} THEN L!InBase(w, a, w.accounts[a].value) # Nothing
                          ELSE L!Convertible(w, CurrencyOf[a], Base)
                       THEN {} ELSE {CurrencyOf[a]}
    <2>1. own = {<<"currency", QuoteOf[a]>>} => a \in Holds
      <3> HIDE DEF own
      <3> QED BY OwnMissing, OneCurrency, OnePrice DEF own
    <2>2. s.currencies = first \cup last
      BY OwnParts
    <2> HIDE DEF s, own
    <2>3. first \subseteq L!Currencies
      BY <1>1, <2>1
    <2>4. last \subseteq L!Currencies
      BY <1>1
    <2> QED BY <2>2, <2>3, <2>4
  <1>4. s.freshness \in {"not applicable", "missing", "stale", "fresh"}
    <2> HIDE DEF s
    <2>1. s.freshness =
            IF w.accounts[a].priced THEN IF w.accounts[a].old THEN "stale" ELSE "fresh"
            ELSE IF a \in Holds THEN "missing" ELSE "not applicable"
      BY OwnParts DEF s
    <2> QED BY <2>1
  <1>5. s.complete \in BOOLEAN
    BY DEF L!accountSummary
  <1>6. s = [prices |-> s.prices, currencies |-> s.currencies, freshness |-> s.freshness,
             complete |-> s.complete]
    BY OwnParts
  <1> HIDE DEF s
  <1>7. s \in L!SummaryType
    BY <1>2, <1>3, <1>4, <1>5, <1>6 DEF L!SummaryType
  <1> QED BY <1>1, <1>7 DEF s, L!AccountsAssumption

\* The links of a row lead to a rate between two currencies or the price of an account.
LEMMA FixesTyped ==
    ASSUME L!AccountsAssumption, NEW a \in Accounts, NEW fix \in L!Row(a).fixes
    PROVE  (fix[1] = "rate" /\ fix[2] \in L!Pairs) \/ (fix[1] = "price" /\ fix[2] \in Accounts)
  <1> DEFINE item == L!joinAccounts(a)
             s == L!accountSummary(summaries, a)
  <1>1. item.summary = (IF summaries = Nothing THEN Nothing ELSE s)
        /\ s \in L!SummaryType /\ CurrencyOf[a] \in L!Currencies /\ Base \in L!Currencies
    BY SummaryTyped DEF L!joinAccounts, L!Currencies
  <1>2. fix \in L!BaseValue(item, a) \/ fix \in L!MissingPriceFix(item)
    BY DEF L!Row, L!Card
  <1> HIDE DEF item
  <1>3. CASE fix \in L!BaseValue(item, a)
    <2>1. PICK r \in L!missingValueReason(item, a) : r[1] = "rate" /\ fix = <<"rate", {r[2], Base}>>
      BY <1>3 DEF L!BaseValue, L!rateFix
    <2>2. \A c \in (IF item.summary = Nothing THEN {} ELSE item.summary.currencies) : c \in L!Currencies
      BY <1>1 DEF L!SummaryType
    <2>3. r[2] \in L!Currencies \ {Base}
      <3>1. \/ r = <<"rate", CurrencyOf[a]>> /\ CurrencyOf[a] # Base
            \/ \E c \in L!Currencies \ {Base} : r = <<"rate", c>>
            \/ r = <<"price", a>>
            \/ r = <<"unknown">>
        BY <2>2 DEF L!missingValueReason
      <3>2. r # <<"price", a>> /\ r # <<"unknown">>
        BY <2>1
      <3> QED BY <1>1, <3>1, <3>2
    <2>4. {r[2], Base} \in L!Pairs
      <3>1. {r[2], Base} \in {{c, d} : c, d \in L!Currencies}
        BY <1>1, <2>3
      <3>2. {r[2], Base} \notin {{c} : c \in L!Currencies}
        BY <2>3
      <3> QED BY <3>1, <3>2 DEF L!Pairs
    <2> QED BY <2>1, <2>4
  <1>4. CASE fix \in L!MissingPriceFix(item)
    <2>1. item.summary # Nothing /\ fix \in item.summary.prices
      BY <1>4 DEF L!MissingPriceFix
    <2>2. fix \in {"price"} \X Accounts
      BY <1>1, <2>1 DEF L!SummaryType
    <2> QED BY <2>2
  <1> QED BY <1>2, <1>3, <1>4

\* The data stay well formed, whatever is entered.
LEMMA DataKept ==
    ASSUME L!AccountsAssumption, AccountsInv,
           L!FollowFix \/ L!Restore \/ L!Elsewhere
    PROVE  AccountsInv'
  <1>1. data \in L!World /\ UNCHANGED <<list, summaries>>
    BY DEF L!FollowFix, L!Restore, L!Elsewhere, L!Write, AccountsInv
  <1>2. data.rates \subseteq L!Pairs /\ data.accounts \in [Accounts -> L!AccountType]
        /\ data = [accounts |-> data.accounts, rates |-> data.rates]
    BY <1>1 DEF L!World
  <1>3. ASSUME NEW r \in SUBSET L!Pairs PROVE [data EXCEPT !.rates = r] \in L!World
    BY <1>1, <1>3 DEF L!World
  <1>4. ASSUME NEW a \in Accounts, NEW e \in L!AccountType
        PROVE  [data EXCEPT !.accounts[a] = e] \in L!World
    <2>1. [data.accounts EXCEPT ![a] = e] \in [Accounts -> L!AccountType]
      BY <1>2
    <2> QED BY <1>1, <2>1 DEF L!World
  <1>5. CASE L!FollowFix
    <2>1. PICK a \in Accounts : \E fix \in L!Row(a).fixes :
            \/ fix[1] = "rate" /\ data' = [data EXCEPT !.rates = @ \cup {fix[2]}]
            \/ fix[1] = "price" /\ data' = [data EXCEPT !.accounts[fix[2]].priced = TRUE,
                                                        !.accounts[fix[2]].old = FALSE]
      BY <1>5 DEF L!FollowFix, L!Write, L!Listed
    <2>2. PICK fix \in L!Row(a).fixes :
            \/ fix[1] = "rate" /\ data' = [data EXCEPT !.rates = @ \cup {fix[2]}]
            \/ fix[1] = "price" /\ data' = [data EXCEPT !.accounts[fix[2]].priced = TRUE,
                                                        !.accounts[fix[2]].old = FALSE]
      BY <2>1
    <2>3. (fix[1] = "rate" /\ fix[2] \in L!Pairs) \/ (fix[1] = "price" /\ fix[2] \in Accounts)
      BY FixesTyped
    <2>4. CASE fix[1] = "rate"
      <3>1. data' = [data EXCEPT !.rates = data.rates \cup {fix[2]}]
        BY <1>2, <2>2, <2>4
      <3>2. data.rates \cup {fix[2]} \in SUBSET L!Pairs
        BY <1>2, <2>3, <2>4
      <3> QED BY <1>1, <1>3, <3>1, <3>2 DEF AccountsInv
    <2>5. CASE fix[1] = "price"
      <3> DEFINE e == [data.accounts[fix[2]] EXCEPT !.priced = TRUE, !.old = FALSE]
      <3>1. fix[2] \in Accounts /\ data.accounts[fix[2]] \in L!AccountType
        BY <1>2, <2>3, <2>5
      <3>2. e \in L!AccountType
        BY <3>1 DEF L!AccountType
      <3>3. data' = [data EXCEPT !.accounts[fix[2]] = e]
        BY <1>2, <2>2, <2>5, <3>1
      <3> HIDE DEF e
      <3> QED BY <1>1, <1>4, <3>1, <3>2, <3>3 DEF AccountsInv
    <2> QED BY <2>3, <2>4, <2>5
  <1>6. ASSUME NEW a \in Accounts, data' = [data EXCEPT !.accounts[a].active = TRUE]
               \/ data' = [data EXCEPT !.accounts[a].active = FALSE]
               \/ data' = [data EXCEPT !.accounts[a].priced = FALSE]
               \/ data' = [data EXCEPT !.accounts[a].old = TRUE]
               \/ \E v \in Amounts : data' = [data EXCEPT !.accounts[a].value = v]
               \/ \E u \in Amounts : data' = [data EXCEPT !.accounts[a].value = u,
                                                           !.accounts[a].priced = TRUE,
                                                           !.accounts[a].old = FALSE]
        PROVE  AccountsInv'
    <2> DEFINE x == data.accounts[a]
    <2>1. x \in L!AccountType
      BY <1>2
    <2>2. PICK e \in L!AccountType : data' = [data EXCEPT !.accounts[a] = e]
      <3>1. /\ [x EXCEPT !.active = TRUE] \in L!AccountType /\ [x EXCEPT !.active = FALSE] \in L!AccountType
            /\ [x EXCEPT !.priced = FALSE] \in L!AccountType /\ [x EXCEPT !.old = TRUE] \in L!AccountType
            /\ \A v \in Amounts : [x EXCEPT !.value = v] \in L!AccountType
        BY <2>1 DEF L!AccountType
      <3>2. \A v \in Amounts : [x EXCEPT !.value = v, !.priced = TRUE, !.old = FALSE] \in L!AccountType
        BY <2>1 DEF L!AccountType
      <3>3. CASE \E v \in Amounts : data' = [data EXCEPT !.accounts[a].value = v,
                                                        !.accounts[a].priced = TRUE,
                                                        !.accounts[a].old = FALSE]
        <4>1. PICK v \in Amounts : data' = [data EXCEPT !.accounts[a].value = v,
                                                        !.accounts[a].priced = TRUE,
                                                        !.accounts[a].old = FALSE]
          BY <3>3
        <4> DEFINE e == [x EXCEPT !.value = v, !.priced = TRUE, !.old = FALSE]
        <4>2. data' = [data EXCEPT !.accounts[a] = e] /\ e \in L!AccountType
          BY <1>2, <2>1, <3>2, <4>1
        <4> HIDE DEF e
        <4> QED BY <4>2
      <3> QED BY <1>2, <1>6, <3>1, <3>3
    <2> QED BY <1>1, <1>4, <2>2 DEF AccountsInv
  <1>7. CASE L!Restore
    BY <1>6, <1>7 DEF L!Restore, L!Write
  <1>8. CASE L!Elsewhere
    <2>1. PICK a \in Accounts :
            \/ \E v \in Amounts : data' = [data EXCEPT !.accounts[a].value = v]
            \/ data' = [data EXCEPT !.accounts[a].active = FALSE]
            \/ \E v \in Amounts : data' = [data EXCEPT !.accounts[a].value = v,
                                                        !.accounts[a].priced = TRUE,
                                                        !.accounts[a].old = FALSE]
            \/ data' = [data EXCEPT !.accounts[a].priced = FALSE]
            \/ data' = [data EXCEPT !.accounts[a].old = TRUE]
            \/ \E p \in data.rates : data' = [data EXCEPT !.rates = @ \ {p}]
      BY <1>8 DEF L!Elsewhere, L!Write
    <2>2. ASSUME NEW p \in data.rates, data' = [data EXCEPT !.rates = @ \ {p}] PROVE AccountsInv'
      <3>1. data' = [data EXCEPT !.rates = data.rates \ {p}] /\ data.rates \ {p} \in SUBSET L!Pairs
        BY <1>2, <2>2
      <3> QED BY <1>1, <1>3, <3>1 DEF AccountsInv
    <2> QED BY <1>6, <2>1, <2>2
  <1> QED BY <1>5, <1>7, <1>8

\* Two answers of the same data agree on what is missing.
LEMMA MissingNamed ==
    ASSUME L!AccountsAssumption, AccountsInv, list # Nothing, list = summaries, NEW a \in Accounts,
           a \in Holds => QuoteOf[a] \in {CurrencyOf[a], Base}
    PROVE  /\ L!Row(a).fixes \subseteq L!Missing(list, a)
           /\ (L!Row(a).state = "incomplete") <=> (L!Missing(list, a) # {})
           /\ L!Missing(list, a) # {} => L!Row(a).fixes # {}
           /\ L!DenseRow(a) \subseteq {m[1] : m \in L!Missing(list, a)}
  <1> DEFINE w == list
             own == L!chartAccountValue(w, a)
             amount == w.accounts[a].value
             s == L!accountSummary(w, a)
             value == IF own # {} THEN Nothing ELSE L!InBase(w, a, amount)
             item == L!joinAccounts(a)
             c == CurrencyOf[a]
             toBase == <<"rate", {c, Base}>>
             price == <<"price", a>>
  <1>1. w \in L!World /\ amount \in Nat /\ Rate \in Nat /\ Nothing \notin Nat
    BY DEF AccountsInv, L!World, L!AccountType, L!AccountsAssumption
  <1>2. item.summary = s /\ s # Nothing /\ item.account.value = value
    BY SummaryTyped DEF L!joinAccounts, L!chartAccountListValues
  <1>3. L!InBase(w, a, amount) # Nothing <=> amount = 0 \/ L!Convertible(w, c, Base)
    <2>1. amount * Rate \in Nat
      BY <1>1
    <2> HIDE DEF w, amount
    <2> QED BY <1>1, <2>1 DEF L!InBase, L!Convertible
  <1>4. /\ L!Row(a).fixes = L!BaseValue(item, a) \cup L!MissingPriceFix(item)
        /\ L!Row(a).state = L!dataState(item)
        /\ L!DenseRow(a) = IF L!dataState(item) # "incomplete" THEN {}
                           ELSE {reason[1] : reason \in L!missingValueReason(item, a)}
    BY DEF L!Row, L!Card, L!DenseRow
  <1>5. L!dataState(item) =
          IF value = Nothing THEN "incomplete"
          ELSE IF ~s.complete \/ s.freshness = "missing" THEN "incomplete"
          ELSE IF s.freshness = "stale" THEN "stale" ELSE "complete"
    BY <1>2 DEF L!dataState
  <1>6. L!missingValueReason(item, a) =
          IF value # Nothing THEN {}
          ELSE IF c \in s.currencies /\ c # Base THEN {<<"rate", c>>}
          ELSE IF s.currencies \ {Base} # {} THEN {<<"rate", d>> : d \in s.currencies \ {Base}}
          ELSE IF s.prices # {} THEN {price}
          ELSE IF c # Base THEN {<<"rate", c>>} ELSE {<<"unknown">>}
    BY <1>2 DEF L!missingValueReason
  <1>7. L!MissingPriceFix(item) = IF s.complete THEN {} ELSE s.prices
    BY <1>2 DEF L!MissingPriceFix
  <1>8. L!BaseValue(item, a) =
          {<<"rate", {r[2], Base}>> : r \in {q \in L!missingValueReason(item, a) : q[1] = "rate"}}
    BY DEF L!BaseValue, L!rateFix
  <1>9. L!Missing(w, a) =
          {m \in own : m[1] = "price"}
          \cup {<<"rate", {m[2], c}>> : m \in {n \in own : n[1] = "currency"}}
          \cup (IF ~L!Convertible(w, c, Base) /\ (own # {} \/ amount # 0) THEN {toBase} ELSE {})
    BY DEF L!Missing
  <1>10. L!Convertible(w, c, c) /\ (c = Base => L!Convertible(w, c, Base))
    BY DEF L!Convertible
  <1>11. L!missingValueReason(item, a) = {<<"rate", c>>} => L!BaseValue(item, a) = {toBase}
    BY <1>8
  <1>12. L!missingValueReason(item, a) \in {{}, {price}} => L!BaseValue(item, a) = {}
    BY <1>8
  <1>13. \A r : L!missingValueReason(item, a) = {r} =>
           {reason[1] : reason \in L!missingValueReason(item, a)} = {r[1]}
    OBVIOUS
  <1>14. toBase[1] = "rate" /\ <<"rate", c>>[1] = "rate" /\ price[1] = "price"
    OBVIOUS
  <1>15. toBase \in L!Missing(w, a) => "rate" \in {m[1] : m \in L!Missing(w, a)}
    BY <1>14
  <1>16. price \in L!Missing(w, a) => "price" \in {m[1] : m \in L!Missing(w, a)}
    BY <1>14
  <1> HIDE DEF w, own, amount, s, value, item, c, toBase, price
  \* One rate is named: the one that is missing.
  <1>17. ASSUME L!missingValueReason(item, a) = {<<"rate", c>>}, L!dataState(item) = "incomplete",
                toBase \in L!Missing(w, a), L!MissingPriceFix(item) \subseteq L!Missing(w, a)
         PROVE  /\ L!Row(a).fixes \subseteq L!Missing(w, a)
                /\ (L!Row(a).state = "incomplete") <=> (L!Missing(w, a) # {})
                /\ L!Missing(w, a) # {} => L!Row(a).fixes # {}
                /\ L!DenseRow(a) \subseteq {m[1] : m \in L!Missing(w, a)}
    <2>1. L!Row(a).fixes = {toBase} \cup L!MissingPriceFix(item)
      BY <1>4, <1>11, <1>17
    <2>2. L!DenseRow(a) = {"rate"}
      BY <1>4, <1>13, <1>14, <1>17
    <2>3. L!Row(a).state = "incomplete"
      BY <1>4, <1>17
    <2> QED BY <1>15, <1>17, <2>1, <2>2, <2>3
  <1>18. CASE own = {} /\ (amount = 0 \/ L!Convertible(w, c, Base))
    <2>1. value # Nothing /\ s.complete
      BY <1>3, <1>18, OwnParts DEF value, s, own, amount, w
    <2>2. s.freshness # "missing"
      BY <1>18, OwnMissing, OwnParts DEF s, own, w
    <2>3. L!missingValueReason(item, a) = {} /\ L!MissingPriceFix(item) = {}
          /\ L!dataState(item) # "incomplete"
      BY <1>5, <1>6, <1>7, <2>1, <2>2
    <2>4. L!Missing(w, a) = {}
      BY <1>9, <1>18
    <2>5. L!Row(a).fixes = {} /\ L!DenseRow(a) = {} /\ L!Row(a).state # "incomplete"
      BY <1>4, <1>12, <2>3
    <2> QED BY <2>4, <2>5 DEF w
  <1>19. CASE own = {} /\ ~(amount = 0 \/ L!Convertible(w, c, Base))
    <2>1. value = Nothing /\ s.currencies = {c} /\ s.prices = {} /\ c # Base
      <3>1. own # {<<"currency", QuoteOf[a]>>}
        BY <1>19, OneCurrency
      <3>2. L!InBase(w, a, amount) = Nothing
        BY <1>3, <1>19
      <3>3. value = Nothing
        BY <1>19, <3>2 DEF value
      <3>4. s.currencies = {} \cup {c}
        BY <1>19, <3>1, <3>2, OwnParts DEF s, own, amount, w, c
      <3>5. s.prices = {}
        BY <1>19, OwnParts DEF s, own, w
      <3> QED BY <1>10, <1>19, <3>3, <3>4, <3>5
    <2>2. L!missingValueReason(item, a) = {<<"rate", c>>} /\ L!MissingPriceFix(item) = {}
          /\ L!dataState(item) = "incomplete"
      BY <1>5, <1>6, <1>7, <2>1
    <2>3. L!Missing(w, a) = {toBase}
      BY <1>9, <1>19
    <2> QED BY <1>17, <2>2, <2>3 DEF w
  <1>20. CASE own = {price}
    <2>1. value = Nothing /\ s.prices = {price} /\ ~s.complete /\ own # {}
          /\ s.currencies = (IF L!Convertible(w, c, Base) THEN {} ELSE {c})
      <3>1. own # {} /\ own # {<<"currency", QuoteOf[a]>>}
        BY <1>20, OnePrice DEF price
      <3>2. s.currencies = {} \cup (IF L!Convertible(w, c, Base) THEN {} ELSE {c})
        BY <3>1, OwnParts DEF s, own, w, c
      <3>3. s.prices = {price} /\ ~s.complete
        BY <1>20, <3>1, OwnParts DEF s, own, w, price
      <3>4. value = Nothing
        BY <3>1 DEF value
      <3> QED BY <3>1, <3>2, <3>3, <3>4
    <2>2. L!dataState(item) = "incomplete" /\ L!MissingPriceFix(item) = {price}
      BY <1>5, <1>7, <2>1
    <2>3. L!Missing(w, a) = {price} \cup (IF L!Convertible(w, c, Base) THEN {} ELSE {toBase})
      <3>1. {m \in own : m[1] = "price"} = {price} /\ {n \in own : n[1] = "currency"} = {}
        BY <1>20, OnePrice DEF price
      <3> QED BY <1>9, <2>1, <3>1
    <2>4. CASE L!Convertible(w, c, Base)
      <3>1. L!missingValueReason(item, a) = {price}
        BY <1>6, <2>1, <2>4
      <3>2. L!Row(a).fixes = {price} /\ L!Row(a).state = "incomplete"
        BY <1>4, <1>12, <2>2, <3>1
      <3>3. L!DenseRow(a) = {"price"}
        BY <1>4, <1>13, <1>14, <2>2, <3>1
      <3>4. L!Missing(w, a) = {price}
        BY <2>3, <2>4
      <3> QED BY <1>16, <3>2, <3>3, <3>4 DEF w
    <2>5. CASE ~L!Convertible(w, c, Base)
      <3>1. L!missingValueReason(item, a) = {<<"rate", c>>}
        BY <1>6, <1>10, <2>1, <2>5
      <3>2. toBase \in L!Missing(w, a) /\ L!MissingPriceFix(item) \subseteq L!Missing(w, a)
        BY <2>2, <2>3, <2>5
      <3> QED BY <1>17, <2>2, <3>1, <3>2 DEF w
    <2> QED BY <2>4, <2>5
  <1>21. CASE own = {<<"currency", QuoteOf[a]>>}
    <2>1. QuoteOf[a] = Base /\ c # Base /\ ~L!Convertible(w, c, Base)
      <3>1. a \in Holds /\ ~L!Convertible(w, QuoteOf[a], CurrencyOf[a])
        <4>1. own # {} /\ own # {price}
          BY <1>21, OneCurrency DEF price
        <4> QED BY <4>1, OwnMissing DEF own, w, price
      <3>2. {Base, CurrencyOf[a]} = {CurrencyOf[a], Base}
        OBVIOUS
      <3> QED BY <3>1, <3>2 DEF L!Convertible, c
    <2>2. value = Nothing /\ s.currencies = {Base, c} /\ s.prices = {} /\ own # {}
      <3>1. own # {}
        BY <1>21, OneCurrency
      <3>2. s.currencies = {QuoteOf[a]} \cup {c}
        BY <1>21, <2>1, <3>1, OwnParts DEF s, own, w, c
      <3>3. s.prices = {}
        BY <1>21, OwnParts DEF s, own, w
      <3>4. value = Nothing
        BY <3>1 DEF value
      <3> QED BY <2>1, <3>1, <3>2, <3>3, <3>4
    <2>3. L!missingValueReason(item, a) = {<<"rate", c>>} /\ L!MissingPriceFix(item) = {}
          /\ L!dataState(item) = "incomplete"
      BY <1>5, <1>6, <1>7, <2>1, <2>2
    <2>4. L!Missing(w, a) = {toBase}
      <3>1. {m \in own : m[1] = "price"} = {}
            /\ {n \in own : n[1] = "currency"} = {<<"currency", Base>>}
        BY <1>21, <2>1, OneCurrency
      <3>2. {<<"rate", {m[2], c}>> : m \in {n \in own : n[1] = "currency"}} = {<<"rate", {Base, c}>>}
        <4> DEFINE e == <<"currency", Base>>
        <4>1. e[2] = Base /\ {n \in own : n[1] = "currency"} = {e}
          BY <3>1
        <4> HIDE DEF e
        <4> QED BY <4>1
      <3>3. {Base, c} = {c, Base}
        OBVIOUS
      <3>4. toBase = <<"rate", {c, Base}>>
        BY DEF toBase
      <3>5. L!Missing(w, a) = {} \cup {<<"rate", {Base, c}>>} \cup {toBase}
        BY <1>9, <2>1, <2>2, <3>1, <3>2
      <3> QED BY <3>3, <3>4, <3>5
    <2> QED BY <1>17, <2>3, <2>4 DEF w
  <1> QED BY <1>18, <1>19, <1>20, <1>21, OwnMissing DEF own, w, price

LEMMA AccountsSteps ==
    ASSUME L!AccountsAssumption, AccountsInv, [L!AccountsNext]_(L!accountsVars)
    PROVE  AccountsInv'
  <1>1. CASE UNCHANGED L!accountsVars \/ L!Group \/ L!GroupByState \/ L!Show
    <2>1. UNCHANGED <<data, list, summaries>>
      BY <1>1 DEF L!accountsVars, L!Group, L!GroupByState, L!Show, L!SetParam
    <2> QED BY <2>1 DEF AccountsInv
  <1>2. CASE L!ReadList \/ L!ReadSummaries \/ L!ReadArchived
    BY <1>2 DEF L!ReadList, L!ReadSummaries, L!ReadArchived, AccountsInv
  <1>3. CASE L!FollowFix \/ L!Restore \/ L!Elsewhere
    BY <1>3, DataKept
  <1> QED BY <1>1, <1>2, <1>3 DEF L!AccountsNext

\* An account is shown as incomplete exactly if something is missing, and each link of its row
\* leads to something that is (accounts/model.ts, insights_reads.go).
LEMMA MissingAlwaysNamed == ASSUME L!AccountsAssumption PROVE L!AccountsSpec => []L!MissingIsNamed
  <1>1. L!AccountsInit => AccountsInv
    BY DEF L!AccountsInit, AccountsInv
  <1>2. AccountsInv /\ [L!AccountsNext]_(L!accountsVars) => AccountsInv'
    BY AccountsSteps
  <1>3. AccountsInv => L!MissingIsNamed
    <2> SUFFICES ASSUME AccountsInv, list # Nothing, list = summaries, NEW a \in L!Listed,
                        a \in Holds => QuoteOf[a] \in {CurrencyOf[a], Base}
                 PROVE  /\ L!Row(a).fixes \subseteq L!Missing(list, a)
                        /\ (L!Row(a).state = "incomplete") <=> (L!Missing(list, a) # {})
                        /\ L!Missing(list, a) # {} => L!Row(a).fixes # {}
                        /\ L!DenseRow(a) \subseteq {m[1] : m \in L!Missing(list, a)}
      BY DEF L!MissingIsNamed
    <2>1. a \in Accounts
      BY DEF L!Listed
    <2> QED BY <2>1, MissingNamed
  <1> QED BY <1>1, <1>2, <1>3, PTL DEF L!AccountsSpec

\* The list of those archived, what is shown, and the changes.
AccountsShown ==
  /\ archived \in L!World \cup {Nothing}
  /\ view \in [group : {"currency", "kind", "mode", "state"}, show : {"active", "archived"}]
  /\ changes \in 0 .. MaxChanges

LEMMA AccountsShow ==
    ASSUME L!AccountsAssumption, AccountsInv, AccountsShown, [L!AccountsNext]_(L!accountsVars)
    PROVE  AccountsShown'
  <1>1. CASE UNCHANGED <<archived, view, changes>>
    BY <1>1 DEF AccountsShown, L!World
  <1>2. ASSUME NEW w, L!Write(w) PROVE AccountsShown'
    BY <1>2 DEF L!Write, AccountsShown, L!AccountsAssumption, L!World
  <1>3. CASE L!FollowFix \/ L!Restore \/ L!Elsewhere
    BY <1>2, <1>3, Zenon DEF L!FollowFix, L!Restore, L!Elsewhere
  <1>4. ASSUME NEW v, L!SetParam(v), v \in [group : {"currency", "kind", "mode", "state"}, show : {"active", "archived"}]
        PROVE  AccountsShown'
    BY <1>4 DEF L!SetParam, AccountsShown, L!World
  <1>5. /\ \A g \in {"currency", "kind", "mode", "state"} : [view EXCEPT !.group = g] \in
              [group : {"currency", "kind", "mode", "state"}, show : {"active", "archived"}]
        /\ \A s \in {"active", "archived"} : [view EXCEPT !.show = s] \in
              [group : {"currency", "kind", "mode", "state"}, show : {"active", "archived"}]
    BY DEF AccountsShown
  <1>6. CASE L!Group \/ L!GroupByState \/ L!Show
    <2>1. \/ \E g \in {"currency", "kind", "mode", "state"} : L!SetParam([view EXCEPT !.group = g])
          \/ \E s \in {"active", "archived"} : L!SetParam([view EXCEPT !.show = s])
      BY <1>6 DEF L!Group, L!GroupByState, L!Show
    <2> QED BY <1>4, <1>5, <2>1, Zenon
  <1>7. CASE L!ReadArchived
    BY <1>7 DEF L!ReadArchived, AccountsShown, AccountsInv, L!World
  <1>8. CASE L!ReadList \/ L!ReadSummaries \/ UNCHANGED L!accountsVars
    BY <1>1, <1>8 DEF L!ReadList, L!ReadSummaries, L!accountsVars
  <1> QED BY <1>3, <1>6, <1>7, <1>8 DEF L!AccountsNext

LEMMA AccountsKeepTypes == ASSUME L!AccountsAssumption PROVE L!AccountsSpec => []L!WebTypeOK
  <1>1. L!AccountsInit => AccountsInv /\ AccountsShown
    BY DEF L!AccountsInit, AccountsInv, AccountsShown, L!AccountsAssumption
  <1>2. AccountsInv /\ AccountsShown /\ [L!AccountsNext]_(L!accountsVars) => (AccountsInv /\ AccountsShown)'
    BY AccountsSteps, AccountsShow
  <1>3. AccountsInv /\ AccountsShown => L!WebTypeOK
    BY DEF AccountsInv, AccountsShown, L!WebTypeOK
  <1> QED BY <1>1, <1>2, <1>3, PTL DEF L!AccountsSpec

-----------------------------------------------------------------------------
(* The allocation (WebAllocation) *)

\* The page's own sum is the same one.
LEMMA AllocationSum == ASSUME NEW f, NEW S PROVE G!SumFunctionOnSet(f, S) = SumFunctionOnSet(f, S)
  BY Zenon DEF SumFunctionOnSet, FoldFunctionOnSet, MapThenFoldSet,
               G!SumFunctionOnSet, G!FoldFunctionOnSet, G!MapThenFoldSet

LEMMA AllocationFinite == ASSUME NEW S PROVE G!IsFiniteSet(S) <=> IsFiniteSet(S)
  BY DEF G!IsFiniteSet, IsFiniteSet

-----------------------------------------------------------------------------
(* The pages and the addresses *)

\* A page of the history: what is left out is named by its grouping, and no instrument is opened.
ReachedPages ==
    {p \in G!Pages : /\ p.by = "instrument" => p.drill = Nothing
                     /\ p.by # "category" => p.scope = "total"
                     /\ \A n \in p.excluded : n[1] = p.by}

\* The invariant of the allocation.
AllocationInv ==
    /\ accounts \in G!Copies
    /\ report \in G!Copies \cup {Nothing} /\ summary \in G!Copies \cup {Nothing}
    /\ list \in G!Copies \cup {Nothing}
    /\ page \in ReachedPages /\ history \in Seq(ReachedPages)

\* The name of the group of an account, as the server gives it.
GroupName(c, by, a) ==
    CASE by = "category"    -> <<by, c[a].category>>
      [] by = "institution" -> IF c[a].institution = Nothing THEN G!ServerNone
                               ELSE <<by, c[a].institution>>
      [] by = "currency"    -> <<by, CurrencyOf[a]>>
      [] by = "instrument"  -> <<by, a>>

LEMMA GroupNamed ==
    ASSUME NEW c \in G!Copies, NEW by \in G!Groupings, NEW a \in Accounts,
           by = "instrument" => a \in Holds
    PROVE  GroupName(c, by, a) \in G!Names /\ GroupName(c, by, a)[1] = by
  <1>1. c[a].category \in Categories /\ c[a].institution \in Institutions \cup {Nothing}
    BY DEF G!Copies, G!AccountType
  <1>2. CASE by = "category"
    <2>1. GroupName(c, by, a) = <<by, c[a].category>>
      BY <1>2 DEF GroupName
    <2> QED BY <1>1, <1>2, <2>1 DEF G!Names
  <1>3. CASE by = "institution"
    <2>1. GroupName(c, by, a) = IF c[a].institution = Nothing THEN G!ServerNone
                                ELSE <<by, c[a].institution>>
      BY <1>3 DEF GroupName
    <2>2. CASE c[a].institution = Nothing
      BY <1>3, <2>1, <2>2 DEF G!Names, G!ServerNone
    <2>3. CASE c[a].institution # Nothing
      BY <1>1, <1>3, <2>1, <2>3 DEF G!Names
    <2> QED BY <2>2, <2>3
  <1>4. CASE by = "currency"
    <2>1. GroupName(c, by, a) = <<by, CurrencyOf[a]>>
      BY <1>4 DEF GroupName
    <2> QED BY <1>4, <2>1 DEF G!Names
  <1>5. CASE by = "instrument"
    <2>1. GroupName(c, by, a) = <<by, a>>
      BY <1>5 DEF GroupName
    <2> QED BY <1>5, <2>1 DEF G!Names
  <1> QED BY <1>2, <1>3, <1>4, <1>5 DEF G!Groupings

\* The accounts that are grouped, and the groups.
Grouped(c, by, scope) ==
    {a \in G!Valued(c) : /\ scope = "investible" => c[a].category \in Investible
                         /\ by = "instrument" => a \in Holds}

LEMMA GroupsNamed ==
    ASSUME NEW c \in G!Copies, NEW by \in G!Groupings, NEW scope
    PROVE  DOMAIN G!chartAllocations(c, by, scope) = {GroupName(c, by, a) : a \in Grouped(c, by, scope)}
  BY Zenon DEF G!chartAllocations, GroupName, Grouped

LEMMA GroupIsNamed ==
    ASSUME NEW c \in G!Copies, NEW by \in G!Groupings, NEW scope,
           NEW n, n \in DOMAIN G!chartAllocations(c, by, scope)
    PROVE  n \in G!Names /\ n[1] = by
  <1>1. PICK a \in Grouped(c, by, scope) : n = GroupName(c, by, a)
    <2>1. n \in {GroupName(c, by, a) : a \in Grouped(c, by, scope)}
      BY GroupsNamed
    <2> QED BY <2>1
  <1>2. a \in Accounts /\ (by = "instrument" => a \in Holds)
    BY DEF Grouped, G!Valued
  <1> QED BY <1>1, <1>2, GroupNamed

LEMMA GroupValued ==
    ASSUME NEW c \in G!Copies, NEW by \in G!Groupings, by # "instrument", NEW scope,
           NEW n, n \in DOMAIN G!chartAllocations(c, by, scope)
    PROVE  G!chartAllocations(c, by, scope)[n]
             = SumFunctionOnSet(G!Value, {a \in Grouped(c, by, scope) : GroupName(c, by, a) = n})
  <1>1. G!chartAllocations(c, by, scope)
          = [m \in {GroupName(c, by, a) : a \in Grouped(c, by, scope)} |->
               SumFunctionOnSet(IF by = "instrument" THEN Worth ELSE G!Value,
                 {a \in Grouped(c, by, scope) : GroupName(c, by, a) = m})]
    BY AllocationSum, Zenon DEF G!chartAllocations, GroupName, Grouped
  <1>2. n \in {GroupName(c, by, a) : a \in Grouped(c, by, scope)}
    BY GroupsNamed
  <1>3. (IF by = "instrument" THEN Worth ELSE G!Value) = G!Value
    OBVIOUS
  <1> QED BY <1>1, <1>2, <1>3

\* What a figure of the report is, as a sum over accounts.
LEMMA ValueType ==
    ASSUME G!AllocationAssumption
    PROVE  G!Value \in [Accounts -> Int] /\ Worth \in [Accounts -> Int] /\ IsFiniteSet(Accounts)
  <1>1. \A a \in Accounts : Worth[a] \in Nat /\ Cash[a] \in Nat
    BY DEF G!AllocationAssumption
  <1>2. G!Value \in [Accounts -> Int]
    BY <1>1 DEF G!Value
  <1>3. Worth \in [Accounts -> Nat] /\ IsFiniteSet(Accounts)
    BY AllocationFinite DEF G!AllocationAssumption
  <1> QED BY <1>2, <1>3

\* The groups of a picture add up to what is grouped.
LEMMA GroupsAddUp ==
    ASSUME G!AllocationAssumption, NEW c \in G!Copies, NEW by \in G!Groupings, NEW scope \in G!Scopes,
           by # "instrument"
    PROVE  SumFunction(G!chartAllocations(c, by, scope))
             = G!chartPointAt(c)[IF scope = "total" THEN "total" ELSE "investible"]
  <1> DEFINE S == Grouped(c, by, scope)
             name == [a \in Accounts |-> GroupName(c, by, a)]
             items == G!chartAllocations(c, by, scope)
  <1>1. S \in SUBSET Accounts
    BY DEF Grouped, G!Valued
  <1>2. \A a \in S : name[a] = GroupName(c, by, a)
    BY <1>1
  <1>3. DOMAIN items = {name[a] : a \in S}
        /\ items = [n \in DOMAIN items |-> items[n]]
        /\ \A n \in DOMAIN items : items[n] = SumFunctionOnSet(G!Value, {a \in S : name[a] = n})
    <2>1. DOMAIN items = {GroupName(c, by, a) : a \in S}
      BY GroupsNamed
    <2>5. ASSUME NEW n \in DOMAIN items
          PROVE  items[n] = SumFunctionOnSet(G!Value, {a \in S : GroupName(c, by, a) = n})
      BY GroupValued
    <2>2. \A n : {a \in S : GroupName(c, by, a) = n} = {a \in S : name[a] = n}
      BY <1>2
    <2>3. {GroupName(c, by, a) : a \in S} = {name[a] : a \in S}
      BY <1>2
    <2>4. items = [n \in DOMAIN items |-> items[n]]
      BY DEF G!chartAllocations
    <2> HIDE DEF S, name, items
    <2> QED BY <2>1, <2>2, <2>3, <2>4, <2>5
  <1> HIDE DEF S, name, items
  <1>4. items = [n \in {name[a] : a \in S} |-> SumFunctionOnSet(G!Value, {a \in S : name[a] = n})]
    BY <1>3
  <1>5. SumFunction(items) = SumFunctionOnSet(G!Value, S)
    BY <1>1, <1>4, ValueType, SumsOfGroups
  <1>6. CASE scope = "total"
    <2>1. S = G!Valued(c)
      BY <1>6 DEF S, Grouped
    <2> QED BY <1>5, <1>6, <2>1, AllocationSum DEF G!chartPointAt, items
  <1>7. CASE scope # "total"
    <2>1. S = {a \in G!Valued(c) : c[a].category \in Investible}
      BY <1>7 DEF S, Grouped, G!Scopes
    <2> QED BY <1>5, <1>7, <2>1, AllocationSum DEF G!chartPointAt, items
  <1> QED BY <1>6, <1>7

\* The accounts that a group opens on are its own, and what has no known value adds nothing.
LEMMA GroupOpened ==
    ASSUME G!AllocationAssumption, NEW c \in G!Copies, NEW by \in G!Groupings, by # "instrument",
           NEW scope \in G!Scopes, by # "category" => scope = "total",
           NEW n \in DOMAIN G!chartAllocations(c, by, scope), n \notin {G!ServerNone, G!ClientNone},
           NEW D, D = {a \in Accounts : /\ c[a].active /\ c[a].category \notin Debts /\ c[a].included
                                        /\ n = GroupName(c, by, a)},
           NEW figure, figure = [a \in Accounts |-> IF c[a].whole THEN G!Value[a] ELSE 0]
    PROVE  G!chartAllocations(c, by, scope)[n] = SumFunctionOnSet(figure, D)
  <1> DEFINE S == {a \in Grouped(c, by, scope) : GroupName(c, by, a) = n}
             Rest == {a \in D : ~c[a].whole}
  <1>1. \A a \in Accounts : c[a].active \in BOOLEAN /\ c[a].included \in BOOLEAN /\ c[a].whole \in BOOLEAN
    BY DEF G!Copies, G!AccountType
  <1>2. S \in SUBSET Accounts /\ D \in SUBSET Accounts /\ Rest \in SUBSET Accounts
    BY DEF Grouped, G!Valued
  <1>3. InParts(D, S, Rest)
    <2>1. scope = "investible" => \A a \in D : c[a].category \in Investible
      <3> SUFFICES ASSUME scope = "investible", NEW a \in D PROVE c[a].category \in Investible
        OBVIOUS
      <3>1. by = "category"
        OBVIOUS
      <3>2. PICK b \in Grouped(c, by, scope) : n = GroupName(c, by, b)
        <4>1. n \in {GroupName(c, by, b) : b \in Grouped(c, by, scope)}
          BY GroupsNamed
        <4> QED BY <4>1
      <3>3. n = <<by, c[a].category>> /\ n = <<by, c[b].category>>
        BY <3>1, <3>2 DEF GroupName
      <3>4. c[b].category \in Investible
        BY <3>2 DEF Grouped
      <3> QED BY <3>3, <3>4
    <2> QED BY <2>1 DEF InParts, Grouped, G!Valued
  <1>4. \A a \in S : figure[a] = G!Value[a]
    BY <1>2 DEF Grouped, G!Valued
  <1>5. \A a \in Rest : figure[a] = 0
    BY <1>2
  <1>6. figure \in [Accounts -> Int]
    <2>1. \A a \in Accounts : G!Value[a] \in Int
      BY ValueType
    <2> QED BY <2>1
  <1>7. G!chartAllocations(c, by, scope)[n] = SumFunctionOnSet(G!Value, S)
    BY GroupValued
  <1> HIDE DEF S, Rest
  <1>8. PICK g : Sums(g, figure, Accounts) /\ \A R \in SUBSET Accounts : SumFunctionOnSet(figure, R) = g[R]
    <2>1. IsFiniteSet(Accounts)
      BY ValueType
    <2> QED BY ONLY <1>6, <2>1, SetSums, Zenon
  <1>10. g[D] = g[S] + g[Rest] /\ g[S] \in Int
    <2>1. Sums(g, figure, Accounts) /\ IsFiniteSet(Accounts)
      BY <1>8, ValueType
    <2> QED BY ONLY <1>2, <1>3, <1>6, <2>1, SumsInParts
  <1>11. g[Rest] = 0
    <2>1. Sums(g, figure, Accounts) /\ IsFiniteSet(Accounts)
      BY <1>8, ValueType
    <2> QED BY ONLY <1>2, <1>5, <1>6, <2>1, SumsOfZeros
  <1>9. SumFunctionOnSet(figure, S) = SumFunctionOnSet(G!Value, S)
    <2>1. IsFiniteSet(Accounts) /\ G!Value \in [Accounts -> Int]
      BY ValueType
    <2> QED BY ONLY <1>2, <1>4, <1>6, <2>1, SumsAlike
  <1> QED BY <1>2, <1>7, <1>8, <1>9, <1>10, <1>11

\* The page compares names as the server gives them, but for the name of none.
LEMMA NamesCompared ==
    ASSUME NEW c \in G!Copies, list = c, NEW p, p.by \in G!Groupings, p.by # "instrument",
           p.drill \notin {G!ServerNone, G!ClientNone}, NEW a \in Accounts
    PROVE  G!accountMatches(a, p) <=>
             c[a].category \notin Debts /\ c[a].included /\ p.drill = GroupName(c, p.by, a)
  <1>1. c[a].included \in BOOLEAN
    BY DEF G!Copies, G!AccountType
  <1>2. CASE p.by = "category"
    BY <1>1, <1>2 DEF G!accountMatches, GroupName
  <1>3. CASE p.by = "institution"
    <2>1. CASE c[a].institution = Nothing
      BY <1>1, <1>3, <2>1 DEF G!accountMatches, GroupName
    <2>2. CASE c[a].institution # Nothing
      BY <1>1, <1>3, <2>2 DEF G!accountMatches, GroupName
    <2> QED BY <2>1, <2>2
  <1>4. CASE p.by = "currency"
    BY <1>1, <1>4 DEF G!accountMatches, GroupName
  <1> QED BY <1>2, <1>3, <1>4 DEF G!Groupings

LEMMA GroupsMatch == ASSUME G!AllocationAssumption, AllocationInv PROVE G!GroupMatchesAccounts
  <1> DEFINE opened == G!AccountsView(page)
             figure == [a \in Accounts |-> IF list[a].whole THEN G!Value[a] ELSE 0]
             items == G!chartAllocations(list, page.by, page.scope)
             D == {a \in Accounts : /\ list[a].active /\ list[a].category \notin Debts
                                    /\ list[a].included /\ page.drill = GroupName(list, page.by, a)}
  <1> SUFFICES ASSUME G!Level(page) = "accounts", report = list,
                      page.drill \notin {G!ServerNone, G!ClientNone}, opened.value # Nothing
               PROVE  opened.value = G!SumFunctionOnSet(figure, opened.accounts)
    BY DEF G!GroupMatchesAccounts
  <1>1. /\ list \in G!Copies /\ page.by \in G!Groupings /\ page.by # "instrument"
        /\ page.scope \in G!Scopes /\ (page.by # "category" => page.scope = "total")
    <2>1. list # Nothing /\ page.drill # Nothing
      BY DEF G!Level
    <2> QED BY <2>1 DEF AllocationInv, ReachedPages, G!Pages
  <1>2. opened.accounts = D
    <2>1. \A a \in Accounts : list[a].active \in BOOLEAN
      BY <1>1 DEF G!Copies, G!AccountType
    <2>2. opened.accounts = {a \in Accounts : list[a].active /\ G!accountMatches(a, page)}
      BY DEF G!AccountsView
    <2>3. \A a \in Accounts : G!accountMatches(a, page) <=>
            list[a].category \notin Debts /\ list[a].included /\ page.drill = GroupName(list, page.by, a)
      BY <1>1, NamesCompared
    <2> HIDE DEF opened
    <2> QED BY <2>1, <2>2, <2>3
  <1>3. opened.value = IF page.drill \in DOMAIN items THEN items[page.drill] ELSE Nothing
    BY DEF G!AccountsView, G!itemsFor
  <1>4. page.drill \in DOMAIN items /\ opened.value = items[page.drill]
    <2> HIDE DEF items, opened
    <2> QED BY <1>3
  <1>5. items[page.drill] = SumFunctionOnSet(figure, D)
    BY <1>1, <1>4, GroupOpened
  <1> HIDE DEF opened, figure, items, D
  <1> QED BY <1>2, <1>4, <1>5, AllocationSum

LEMMA TotalsMatch == ASSUME G!AllocationAssumption, AllocationInv PROVE G!TotalIsSum
  <1> DEFINE items == G!itemsFor(page)
             sum == G!SumFunction(items)
             point == G!chartPointAt(summary)
             center == G!Overview(page).center
             bar == G!LiquiditySection(page)
  <1> SUFFICES ASSUME G!Level(page) = "overview", report = summary
               PROVE  /\ center # Nothing => center = sum
                      /\ page.by # "instrument" =>
                           sum = IF page.scope = "total" THEN bar.whole ELSE bar.part
    BY DEF G!TotalIsSum
  <1>1. summary \in G!Copies /\ summary # Nothing /\ page.drill = Nothing
        /\ page.by \in G!Groupings /\ page.scope \in G!Scopes
    <2>1. report # Nothing /\ page.drill = Nothing
      BY DEF G!Level
    <2> QED BY <2>1 DEF AllocationInv, ReachedPages, G!Pages
  <1>2. page.by # "instrument" => sum = point[page.scope]
    <2> SUFFICES ASSUME page.by # "instrument" PROVE sum = point[page.scope]
      OBVIOUS
    <2>1. items = G!chartAllocations(summary, page.by, page.scope)
      BY DEF G!itemsFor
    <2>2. SumFunction(G!chartAllocations(summary, page.by, page.scope))
            = point[IF page.scope = "total" THEN "total" ELSE "investible"]
      BY <1>1, GroupsAddUp
    <2>3. (IF page.scope = "total" THEN "total" ELSE "investible") = page.scope
      BY <1>1 DEF G!Scopes
    <2>4. sum = SumFunction(items)
      BY AllocationSum DEF SumFunction, G!SumFunction
    <2> HIDE DEF items, sum, point
    <2> QED BY <2>1, <2>2, <2>3, <2>4
  <1>3. center = IF page.by = "instrument" \/ summary = Nothing
                    \/ DOMAIN items \cap page.excluded # {} THEN Nothing
                 ELSE point[page.scope]
    BY DEF G!Overview
  <1>4. bar = [part |-> point.investible, whole |-> point.total]
    BY <1>1 DEF G!LiquiditySection
  <1>5. bar.whole = point.total /\ bar.part = point.investible
    BY <1>4
  <1> HIDE DEF sum, point, center, bar, items
  <1> QED BY <1>1, <1>2, <1>3, <1>5 DEF G!Scopes

\* Where a page leads.
LEMMA PageReached ==
    ASSUME NEW p \in ReachedPages
    PROVE  /\ \A by \in G!Groupings, scope \in G!Scopes : (by # "category" => scope = "total") =>
                [p EXCEPT !.by = by, !.excluded = {}, !.drill = Nothing, !.account = Nothing,
                          !.scope = scope] \in ReachedPages
           /\ \A scope \in G!Scopes : p.by = "category" =>
                [p EXCEPT !.scope = scope, !.excluded = {}, !.drill = Nothing, !.account = Nothing]
                  \in ReachedPages
           /\ \A S \in SUBSET G!Names : (\A n \in S : n[1] = p.by) =>
                [p EXCEPT !.excluded = S] \in ReachedPages
           /\ \A n \in G!Names : p.by # "instrument" => [p EXCEPT !.drill = n] \in ReachedPages
           /\ \A a \in Holds : [p EXCEPT !.account = a] \in ReachedPages
           /\ [p EXCEPT !.drill = Nothing, !.account = Nothing] \in ReachedPages
           /\ [p EXCEPT !.account = Nothing] \in ReachedPages
  <1> USE DEF ReachedPages, G!Pages
  <1>1. ASSUME NEW by \in G!Groupings, NEW scope \in G!Scopes, by # "category" => scope = "total"
        PROVE  [p EXCEPT !.by = by, !.excluded = {}, !.drill = Nothing, !.account = Nothing,
                         !.scope = scope] \in ReachedPages
    BY <1>1
  <1>2. ASSUME NEW scope \in G!Scopes, p.by = "category"
        PROVE  [p EXCEPT !.scope = scope, !.excluded = {}, !.drill = Nothing, !.account = Nothing]
                 \in ReachedPages
    BY <1>2
  <1>3. ASSUME NEW S \in SUBSET G!Names, \A n \in S : n[1] = p.by
        PROVE  [p EXCEPT !.excluded = S] \in ReachedPages
    BY <1>3
  <1>4. ASSUME NEW n \in G!Names, p.by # "instrument" PROVE [p EXCEPT !.drill = n] \in ReachedPages
    BY <1>4
  <1>5. ASSUME NEW a \in Holds PROVE [p EXCEPT !.account = a] \in ReachedPages
    OBVIOUS
  <1>6. /\ [p EXCEPT !.drill = Nothing, !.account = Nothing] \in ReachedPages
        /\ [p EXCEPT !.account = Nothing] \in ReachedPages
    OBVIOUS
  <1> HIDE DEF ReachedPages, G!Pages
  <1> QED BY <1>1, <1>2, <1>3, <1>4, <1>5, <1>6, Zenon

LEMMA HomeReached ==
    /\ G!Home \in ReachedPages /\ G!Elsewhere \in ReachedPages
    /\ [G!Home EXCEPT !.at = "allocation"] \in ReachedPages
    /\ \A n \in G!Names : [G!Home EXCEPT !.at = "allocation", !.drill = n] \in ReachedPages
  <1> USE DEF ReachedPages, G!Pages, G!Home, G!Groupings, G!Scopes
  <1>1. G!Home \in ReachedPages
    OBVIOUS
  <1>2. G!Elsewhere \in ReachedPages
    BY DEF G!Elsewhere
  <1>3. [G!Home EXCEPT !.at = "allocation"] \in ReachedPages
    OBVIOUS
  <1>4. ASSUME NEW n \in G!Names
        PROVE  [G!Home EXCEPT !.at = "allocation", !.drill = n] \in ReachedPages
    OBVIOUS
  <1> QED BY <1>1, <1>2, <1>3, <1>4

LEMMA ReplaceReached ==
    ASSUME AllocationInv, NEW p \in ReachedPages, G!Replace(p) PROVE AllocationInv'
  BY DEF AllocationInv, G!Replace, ReachedPages, G!Pages, G!Copies

LEMMA PushReached ==
    ASSUME AllocationInv, NEW p \in ReachedPages, G!Push(p) PROVE AllocationInv'
  <1>1. history' \in Seq(ReachedPages)
    BY Appended DEF G!Push, AllocationInv
  <1> QED BY <1>1 DEF AllocationInv, G!Push

\* The groups that the report has.
LEMMA ListedGroups ==
    ASSUME AllocationInv, report # Nothing, NEW by \in G!Groupings, NEW scope,
           NEW n \in DOMAIN G!chartAllocations(report, by, scope)
    PROVE  n \in G!Names /\ n[1] = by
  <1>1. report \in G!Copies
    BY DEF AllocationInv
  <1> QED BY <1>1, GroupIsNamed

LEMMA AllocationSteps ==
    ASSUME AllocationInv, [G!AllocationNext]_(G!allocationVars)
    PROVE  AllocationInv'
  <1>1. page \in ReachedPages /\ page.by \in G!Groupings /\ page.scope \in G!Scopes
        /\ page.excluded \in SUBSET G!Names /\ \A n \in page.excluded : n[1] = page.by
    BY DEF AllocationInv, ReachedPages, G!Pages
  <1>2. CASE UNCHANGED G!allocationVars
    BY <1>2 DEF AllocationInv, G!allocationVars
  <1>3. CASE G!DrillFromHome
    <2>1. report # Nothing
      BY <1>3 DEF G!DrillFromHome
    <2>2. PICK n \in DOMAIN G!chartAllocations(report, "category", "total") :
            G!Push([G!Home EXCEPT !.at = "allocation", !.drill = n])
      BY <1>3 DEF G!DrillFromHome
    <2>3. n \in G!Names
      BY <2>1, ListedGroups DEF G!Groupings
    <2> QED BY <2>2, <2>3, HomeReached, PushReached
  <1>4. CASE G!Explore
    BY <1>4, HomeReached, PushReached DEF G!Explore
  <1>5. CASE G!SetBy
    <2>1. PICK by \in G!Groupings :
            G!Replace([page EXCEPT !.by = by, !.excluded = {}, !.drill = Nothing, !.account = Nothing,
                                   !.scope = IF by = "category" THEN @ ELSE "total"])
      BY <1>5 DEF G!SetBy
    <2>2. PICK scope \in G!Scopes : scope = IF by = "category" THEN page.scope ELSE "total"
      BY <1>1 DEF G!Scopes
    <2>3. [page EXCEPT !.by = by, !.excluded = {}, !.drill = Nothing, !.account = Nothing,
                       !.scope = IF by = "category" THEN @ ELSE "total"] \in ReachedPages
      BY <1>1, <2>2, PageReached
    <2> QED BY <2>1, <2>3, ReplaceReached
  <1>6. CASE G!SetScope
    <2>1. PICK scope \in G!Scopes :
            G!Replace([page EXCEPT !.scope = scope, !.excluded = {}, !.drill = Nothing,
                                   !.account = Nothing])
      BY <1>6 DEF G!SetScope
    <2>2. page.by = "category"
      BY <1>6 DEF G!SetScope
    <2> QED BY <1>1, <2>1, <2>2, PageReached, ReplaceReached
  <1>7. CASE G!ToggleExcluded
    <2>1. report # Nothing
      BY <1>7 DEF G!ToggleExcluded, G!Level
    <2>2. PICK n \in DOMAIN G!chartAllocations(report, page.by, page.scope) :
            G!Replace([page EXCEPT !.excluded = IF n \in @ THEN @ \ {n} ELSE @ \cup {n}])
      BY <1>7 DEF G!ToggleExcluded, G!Overview, G!itemsFor
    <2>3. n \in G!Names /\ n[1] = page.by
      BY <1>1, <2>1, ListedGroups
    <2> DEFINE S == IF n \in page.excluded THEN page.excluded \ {n} ELSE page.excluded \cup {n}
    <2>4. S \in SUBSET G!Names /\ \A m \in S : m[1] = page.by
      BY <1>1, <2>3
    <2>5. G!Replace([page EXCEPT !.excluded = S])
      BY <1>1, <2>2 DEF ReachedPages, G!Pages
    <2> HIDE DEF S
    <2> QED BY <1>1, <2>4, <2>5, PageReached, ReplaceReached
  <1>8. CASE G!ClearExcluded
    <2>1. G!Replace([page EXCEPT !.excluded = {}])
      BY <1>8 DEF G!ClearExcluded
    <2>2. [page EXCEPT !.excluded = {}] \in ReachedPages
      BY <1>1, PageReached
    <2> QED BY <2>1, <2>2, ReplaceReached
  <1>9. CASE G!SetDrill
    <2>1. report # Nothing /\ page.by # "instrument"
      BY <1>9 DEF G!SetDrill, G!Level
    <2>2. PICK n \in DOMAIN G!chartAllocations(report, page.by, page.scope) :
            G!Push([page EXCEPT !.drill = n])
      BY <1>9 DEF G!SetDrill, G!Overview, G!itemsFor
    <2>3. n \in G!Names
      BY <1>1, <2>1, ListedGroups
    <2> QED BY <1>1, <2>1, <2>2, <2>3, PageReached, PushReached
  <1>10. CASE G!SetAccount
    <2>1. PICK a : G!Push(IF a \in Holds THEN [page EXCEPT !.account = a] ELSE G!Elsewhere)
      BY <1>10 DEF G!SetAccount
    <2>2. (IF a \in Holds THEN [page EXCEPT !.account = a] ELSE G!Elsewhere) \in ReachedPages
      BY <1>1, PageReached, HomeReached
    <2> QED BY <2>1, <2>2, PushReached
  <1>11. CASE G!Crumbs
    <2>1. G!Push([page EXCEPT !.drill = Nothing, !.account = Nothing])
          \/ G!Push([page EXCEPT !.account = Nothing])
      BY <1>11 DEF G!Crumbs
    <2> QED BY <1>1, <2>1, PageReached, PushReached
  <1>12. CASE G!OpenAccount
    BY <1>12, HomeReached, PushReached DEF G!OpenAccount
  <1>13. CASE G!Back
    <2> USE DEF AllocationInv
    <2>1. history \in Seq(ReachedPages) /\ Len(history) \in Nat /\ Len(history) > 0
      BY <1>13 DEF G!Back
    <2>2. page' = history[Len(history)] /\ history' = SubSeq(history, 1, Len(history) - 1)
          /\ UNCHANGED <<accounts, report, summary, list>>
      BY <1>13 DEF G!Back
    <2>3. page' \in ReachedPages /\ history' \in Seq(ReachedPages)
      BY <2>1, <2>2
    <2> QED BY <2>2, <2>3
  <1>14. CASE G!Change
    <2>1. accounts' \in G!Copies
      <3>1. accounts \in [Accounts -> G!AccountType]
        BY DEF AllocationInv, G!Copies
      <3>2. ASSUME NEW a \in Accounts, NEW e \in G!AccountType
            PROVE  [accounts EXCEPT ![a] = e] \in G!Copies
        BY <3>1 DEF G!Copies
      <3>3. PICK a \in Accounts :
              \/ \E c \in Categories : accounts' = [accounts EXCEPT ![a].category = c]
              \/ \E i \in Institutions \cup {Nothing} :
                   accounts' = [accounts EXCEPT ![a].institution = i]
              \/ accounts' = [accounts EXCEPT ![a].included = ~@]
              \/ accounts' = [accounts EXCEPT ![a].active = ~@]
              \/ accounts' = [accounts EXCEPT ![a].whole = ~@]
        BY <1>14 DEF G!Change
      <3> DEFINE x == accounts[a]
      <3>4. x \in G!AccountType
        BY <3>1
      <3>5. /\ \A c \in Categories : [x EXCEPT !.category = c] \in G!AccountType
            /\ \A i \in Institutions \cup {Nothing} : [x EXCEPT !.institution = i] \in G!AccountType
            /\ [x EXCEPT !.included = ~x.included] \in G!AccountType
            /\ [x EXCEPT !.active = ~x.active] \in G!AccountType
            /\ [x EXCEPT !.whole = ~x.whole] \in G!AccountType
        BY <3>4 DEF G!AccountType
      <3>6. PICK e \in G!AccountType : accounts' = [accounts EXCEPT ![a] = e]
        BY <3>1, <3>3, <3>4, <3>5 DEF G!AccountType
      <3> QED BY <3>2, <3>6
    <2>2. UNCHANGED <<report, summary, list, page, history>>
      BY <1>14 DEF G!Change
    <2> QED BY <2>1, <2>2 DEF AllocationInv
  <1>15. CASE G!ReadReport
    BY <1>15 DEF G!ReadReport, AllocationInv
  <1>16. CASE G!ReadSummary
    BY <1>16 DEF G!ReadSummary, AllocationInv
  <1>17. CASE G!ReadList
    BY <1>17 DEF G!ReadList, AllocationInv
  <1> QED BY <1>2, <1>3, <1>4, <1>5, <1>6, <1>7, <1>8, <1>9, <1>10, <1>11, <1>12, <1>13, <1>14,
             <1>15, <1>16, <1>17 DEF G!AllocationNext

LEMMA AllocationInvariant == ASSUME G!AllocationAssumption PROVE G!AllocationSpec => []AllocationInv
  <1>1. G!AllocationInit => AllocationInv
    <2>1. <<>> \in Seq(ReachedPages)
      OBVIOUS
    <2> QED BY <2>1, HomeReached DEF G!AllocationInit, AllocationInv
  <1>2. AllocationInv /\ [G!AllocationNext]_(G!allocationVars) => AllocationInv'
    BY AllocationSteps
  <1> QED BY <1>1, <1>2, PTL DEF G!AllocationSpec

\* The accounts that a group opens on are those its value is made of, what is left out of a picture
\* is named by its grouping, and the groups add up to the total in the middle and to the bar below
\* (AllocationPage.tsx, chart_analytics.go).
LEMMA AllocationSums == ASSUME G!AllocationAssumption PROVE G!AllocationSpec => []G!AllocationAddsUp
  <1>1. AllocationInv => G!ExcludedOfGrouping
    <2> SUFFICES ASSUME AllocationInv, NEW p \in {page} \cup {history[i] : i \in DOMAIN history}
                 PROVE  \A n \in p.excluded : n[1] = p.by
      BY DEF G!ExcludedOfGrouping
    <2>1. p \in ReachedPages
      BY DEF AllocationInv
    <2> QED BY <2>1 DEF ReachedPages
  <1>2. AllocationInv => G!AllocationAddsUp
    BY <1>1, GroupsMatch, TotalsMatch DEF G!AllocationAddsUp
  <1> QED BY <1>2, AllocationInvariant, PTL

\* The bounds on the history and on the changes.
Bounded == Len(history) <= MaxBack /\ changes \in 0 .. MaxChanges

LEMMA BoundsKept ==
    ASSUME G!AllocationAssumption, AllocationInv, Bounded, [G!AllocationNext]_(G!allocationVars)
    PROVE  Bounded'
  <1>1. history \in Seq(ReachedPages) /\ Len(history) \in Nat
    BY DEF AllocationInv
  <1>2. CASE UNCHANGED <<history, changes>>
    BY <1>2 DEF Bounded
  <1>3. ASSUME NEW p, G!Replace(p) PROVE Bounded'
    BY <1>2, <1>3 DEF G!Replace
  <1>4. ASSUME NEW p, G!Push(p) PROVE Bounded'
    <2>1. history' = Append(history, page) /\ Len(history) < MaxBack /\ changes' = changes
      BY <1>4 DEF G!Push
    <2>2. Len(history') = Len(history) + 1
      BY <1>1, <2>1
    <2> QED BY <1>1, <2>1, <2>2 DEF Bounded, G!AllocationAssumption
  <1>5. CASE G!DrillFromHome \/ G!Explore \/ G!SetDrill \/ G!SetAccount \/ G!Crumbs \/ G!OpenAccount
    BY <1>4, <1>5, Zenon DEF G!DrillFromHome, G!Explore, G!SetDrill, G!SetAccount, G!Crumbs, G!OpenAccount
  <1>6. CASE G!SetBy \/ G!SetScope \/ G!ToggleExcluded \/ G!ClearExcluded
    BY <1>3, <1>6, Zenon DEF G!SetBy, G!SetScope, G!ToggleExcluded, G!ClearExcluded
  <1>7. CASE G!Back
    <2>1. history # <<>> /\ history' = SubSeq(history, 1, Len(history) - 1) /\ changes' = changes
      BY <1>7 DEF G!Back
    <2>2. Len(history) - 1 \in Nat /\ Len(history) - 1 <= Len(history)
      BY <1>1, <2>1
    <2> DEFINE n == Len(history) - 1
    <2>3. Len(history') = Len(history) - 1
      <3>1. n \in 0 .. Len(history) /\ history' = SubSeq(history, 1, n)
        BY <1>1, <2>1, <2>2
      <3> HIDE DEF n
      <3>2. Len(SubSeq(history, 1, n)) = n
        BY <1>1, <3>1
      <3> QED BY <3>1, <3>2 DEF n
    <2> QED BY <1>1, <2>1, <2>3 DEF Bounded, G!AllocationAssumption
  <1>8. CASE G!Change
    BY <1>8 DEF G!Change, Bounded, G!AllocationAssumption
  <1>9. CASE G!ReadReport \/ G!ReadSummary \/ G!ReadList \/ UNCHANGED G!allocationVars
    BY <1>2, <1>9 DEF G!ReadReport, G!ReadSummary, G!ReadList, G!allocationVars
  <1> QED BY <1>5, <1>6, <1>7, <1>8, <1>9 DEF G!AllocationNext

LEMMA AllocationKeepsTypes == ASSUME G!AllocationAssumption PROVE G!AllocationSpec => []G!WebTypeOK
  <1>1. G!AllocationInit => Bounded
    BY DEF G!AllocationInit, Bounded, G!AllocationAssumption
  <1>2. AllocationInv /\ Bounded /\ [G!AllocationNext]_(G!allocationVars) => Bounded'
    BY BoundsKept
  <1>3. AllocationInv /\ Bounded => G!WebTypeOK
    BY DEF AllocationInv, Bounded, ReachedPages, G!WebTypeOK
  <1> QED BY <1>1, <1>2, <1>3, AllocationInvariant, PTL DEF G!AllocationSpec

-----------------------------------------------------------------------------
(* The estate plan (WebEstate) *)

\* The sum of a page is the library's.
LEMMA PlanSum == ASSUME NEW f, NEW S PROVE W!SumFunctionOnSet(f, S) = SumFunctionOnSet(f, S)
  BY Zenon DEF SumFunctionOnSet, FoldFunctionOnSet, MapThenFoldSet,
               W!SumFunctionOnSet, W!FoldFunctionOnSet, W!MapThenFoldSet

LEMMA PlanFinite == ASSUME W!EstateViewAssumption PROVE IsFiniteSet(Beneficiaries) /\ Full \in Nat
  BY DEF W!EstateViewAssumption, W!IsFiniteSet, IsFiniteSet

Shares == [W!FormRows -> 0 .. Full]
Within(share) == \A l \in Assets \cup {Residue}, t \in W!PlanTiers :
                    W!given(share, l, t, Beneficiaries) <= Full

\* What of a tier is given to whom, as a function.
SharedOut(share, l, t) == [b \in Beneficiaries |-> share[<<l, b, t>>]]

LEMMA SharedOutType ==
    ASSUME W!EstateViewAssumption, NEW share \in Shares, NEW l \in Assets \cup {Residue}, NEW t \in W!PlanTiers
    PROVE  /\ SharedOut(share, l, t) \in [Beneficiaries -> Int]
           /\ \A b \in Beneficiaries : SharedOut(share, l, t)[b] = share[<<l, b, t>>]
                                       /\ SharedOut(share, l, t)[b] \in 0 .. Full
           /\ \A B : W!given(share, l, t, B) = SumFunctionOnSet(SharedOut(share, l, t), B)
  <1>1. \A b \in Beneficiaries : share[<<l, b, t>>] \in 0 .. Full
    BY DEF Shares, W!FormRows
  <1>2. \A b \in Beneficiaries : SharedOut(share, l, t)[b] = share[<<l, b, t>>]
    BY DEF SharedOut
  <1>3. SharedOut(share, l, t) \in [Beneficiaries -> Int]
    BY <1>1, PlanFinite DEF SharedOut
  <1>4. \A B : W!given(share, l, t, B) = SumFunctionOnSet(SharedOut(share, l, t), B)
    BY PlanSum, Zenon DEF W!given, SharedOut
  <1> QED BY <1>1, <1>2, <1>3, <1>4

\* One beneficiary's share, and what the others are given.
LEMMA SharedWith ==
    ASSUME W!EstateViewAssumption, NEW share \in Shares, NEW l \in Assets \cup {Residue}, NEW t \in W!PlanTiers,
           NEW b \in Beneficiaries
    PROVE  /\ W!given(share, l, t, Beneficiaries)
                = share[<<l, b, t>>] + W!given(share, l, t, Beneficiaries \ {b})
           /\ W!given(share, l, t, Beneficiaries \ {b}) \in Int
  <1> DEFINE f == SharedOut(share, l, t)
  <1>1. IsFiniteSet(Beneficiaries) /\ f \in [Beneficiaries -> Int] /\ f[b] = share[<<l, b, t>>]
    BY PlanFinite, SharedOutType
  <1>2. \A B : W!given(share, l, t, B) = SumFunctionOnSet(f, B)
    BY SharedOutType
  <1> HIDE DEF f
  <1>3. PICK g : Sums(g, f, Beneficiaries) /\ \A B \in SUBSET Beneficiaries : SumFunctionOnSet(f, B) = g[B]
    BY <1>1, SetSums
  <1>4. g[Beneficiaries] = f[b] + g[Beneficiaries \ {b}] /\ g[Beneficiaries \ {b}] \in Int
    BY <1>3 DEF Sums
  <1> QED BY <1>1, <1>2, <1>3, <1>4

\* A share that leaves room for the others keeps its tier within the whole, and the other tiers as
\* they are.
LEMMA ShareWithin ==
    ASSUME W!EstateViewAssumption, NEW share \in Shares, Within(share), NEW r \in W!FormRows, NEW x \in 0 .. Full,
           W!given(share, r[1], r[3], Beneficiaries \ {r[2]}) + x <= Full
    PROVE  [share EXCEPT ![r] = x] \in Shares /\ Within([share EXCEPT ![r] = x])
  <1> DEFINE new == [share EXCEPT ![r] = x]
  <1>1. r[1] \in Assets \cup {Residue} /\ r[2] \in Beneficiaries /\ r[3] \in W!PlanTiers
        /\ r = <<r[1], r[2], r[3]>>
    BY DEF W!FormRows
  <1>2. new \in Shares /\ \A s \in W!FormRows : new[s] = IF s = r THEN x ELSE share[s]
    BY DEF Shares
  <1> HIDE DEF new
  <1>3. ASSUME NEW l \in Assets \cup {Residue}, NEW t \in W!PlanTiers
        PROVE  W!given(new, l, t, Beneficiaries) <= Full
    <2>1. \A b \in Beneficiaries : <<l, b, t>> \in W!FormRows
      BY DEF W!FormRows
    <2>2. CASE l = r[1] /\ t = r[3]
      <3>1. W!given(new, l, t, Beneficiaries)
              = new[<<l, r[2], t>>] + W!given(new, l, t, Beneficiaries \ {r[2]})
        BY <1>1, <1>2, SharedWith
      <3>2. new[<<l, r[2], t>>] = x
        BY <1>1, <1>2, <2>1, <2>2
      <3>3. W!given(new, l, t, Beneficiaries \ {r[2]}) = W!given(share, l, t, Beneficiaries \ {r[2]})
        <4> DEFINE e == SharedOut(new, l, t)
                   f == SharedOut(share, l, t)
        <4>1. e \in [Beneficiaries -> Int] /\ f \in [Beneficiaries -> Int] /\ IsFiniteSet(Beneficiaries)
          BY <1>2, SharedOutType, PlanFinite
        <4>2. \A b \in Beneficiaries \ {r[2]} : e[b] = f[b]
          <5> TAKE b \in Beneficiaries \ {r[2]}
          <5>1. <<l, b, t>> # r
            BY <1>1
          <5>2. e[b] = new[<<l, b, t>>] /\ f[b] = share[<<l, b, t>>]
            BY <1>2, SharedOutType
          <5> QED BY <1>2, <2>1, <5>1, <5>2
        <4>3. Beneficiaries \ {r[2]} \in SUBSET Beneficiaries
          OBVIOUS
        <4>4. /\ W!given(new, l, t, Beneficiaries \ {r[2]}) = SumFunctionOnSet(e, Beneficiaries \ {r[2]})
              /\ W!given(share, l, t, Beneficiaries \ {r[2]}) = SumFunctionOnSet(f, Beneficiaries \ {r[2]})
          BY <1>2, SharedOutType
        <4> HIDE DEF e, f
        <4> QED BY <4>1, <4>2, <4>3, <4>4, SumsAlike
      <3>4. W!given(share, l, t, Beneficiaries \ {r[2]}) \in Int /\ x \in Int /\ Full \in Int
        <4>1. W!given(share, l, t, Beneficiaries \ {r[2]}) \in Int
          BY <1>1, SharedWith
        <4>2. x \in Int /\ Full \in Int
          BY PlanFinite
        <4> QED BY <4>1, <4>2
      <3> QED BY <2>2, <3>1, <3>2, <3>3, <3>4
    <2>3. CASE ~(l = r[1] /\ t = r[3])
      <3>1. \A b \in Beneficiaries : new[<<l, b, t>>] = share[<<l, b, t>>]
        BY <1>1, <1>2, <2>1, <2>3
      <3>2. SharedOut(new, l, t) = SharedOut(share, l, t)
        BY <3>1 DEF SharedOut
      <3>3. W!given(new, l, t, Beneficiaries) = W!given(share, l, t, Beneficiaries)
        BY <1>2, <3>2, SharedOutType
      <3> QED BY <3>3 DEF Within
    <2> QED BY <2>2, <2>3
  <1> QED BY <1>2, <1>3 DEF Within, new

\* What goes to some goes to all, if the others are given nothing.
LEMMA GivenToNamed ==
    ASSUME W!EstateViewAssumption, NEW share \in Shares, NEW l \in Assets \cup {Residue}, NEW t \in W!PlanTiers,
           NEW B \in SUBSET Beneficiaries, \A b \in Beneficiaries \ B : share[<<l, b, t>>] = 0
    PROVE  W!given(share, l, t, B) = W!given(share, l, t, Beneficiaries)
  <1> DEFINE f == SharedOut(share, l, t)
             Rest == Beneficiaries \ B
  <1>1. IsFiniteSet(Beneficiaries) /\ f \in [Beneficiaries -> Int]
    BY PlanFinite, SharedOutType
  <1>2. \A S : W!given(share, l, t, S) = SumFunctionOnSet(f, S)
    BY SharedOutType
  <1>3. ASSUME NEW b \in Rest PROVE f[b] = 0
    <2>1. f[b] = share[<<l, b, t>>]
      BY SharedOutType
    <2> QED BY <2>1
  <1>4. InParts(Beneficiaries, B, Rest) /\ Rest \in SUBSET Beneficiaries
        /\ Beneficiaries \in SUBSET Beneficiaries
    BY DEF InParts
  <1> HIDE DEF f, Rest
  <1>5. PICK g : Sums(g, f, Beneficiaries) /\ \A S \in SUBSET Beneficiaries : SumFunctionOnSet(f, S) = g[S]
    BY <1>1, SetSums
  <1>6. g[Beneficiaries] = g[B] + g[Rest] /\ g[B] \in Int
    <2>1. Sums(g, f, Beneficiaries)
      BY <1>5
    <2> QED BY <1>1, <1>4, <2>1, SumsInParts
  <1>7. g[Rest] = 0
    <2>1. Sums(g, f, Beneficiaries)
      BY <1>5
    <2> QED BY <1>1, <1>3, <1>4, <2>1, SumsOfZeros
  <1> QED BY <1>2, <1>4, <1>5, <1>6, <1>7

-----------------------------------------------------------------------------
(* The estate pages *)

\* The page is drawn from its view alone, and the two pages never disagree.
PlanInv == W!PlanTypeOK /\ page = W!Rendered(view) /\ disagree = FALSE

LEMMA PlanTyped ==
    ASSUME PlanInv
    PROVE  /\ estate \in W!EstateType /\ estate.share \in Shares /\ Within(estate.share)
           /\ view.estate \in W!EstateType /\ view.estate.share \in Shares
           /\ W!Now = [accounts |-> accounts, estate |-> estate]
  <1>1. W!Now = [accounts |-> accounts, estate |-> estate] /\ W!Now.estate.share = estate.share
    BY DEF W!Now
  <1>2. estate \in W!EstateType /\ view.estate \in W!EstateType
    BY DEF PlanInv, W!PlanTypeOK
  <1>3. Within(estate.share)
    BY <1>1 DEF PlanInv, W!PlanTypeOK, W!tierTotal, Within
  <1> QED BY <1>1, <1>2, <1>3 DEF W!EstateType, Shares

LEMMA PlanWritten ==
    ASSUME PlanInv, NEW e \in W!EstateType, Within(e.share), W!Write(e), disagree' = FALSE,
           saving' \in {W!NoCall} \cup W!DirectiveCalls \cup W!ShareCalls,
           W!EstateViewAssumption
    PROVE  PlanInv'
  <1>1. estate' = e /\ UNCHANGED <<accounts, view, page>>
    BY DEF W!Write
  <1>2. changes' \in 0 .. MaxWrites
    BY DEF W!Write, PlanInv, W!PlanTypeOK, W!EstateViewAssumption
  <1>3. \A l \in Assets \cup {Residue}, t \in W!PlanTiers : (W!tierTotal(W!Now, l, t) <= Full)'
    <2>1. (W!Now)' = [accounts |-> accounts', estate |-> estate']
      BY DEF W!Now
    <2>2. (W!Now)'.estate.share = e.share
      BY <1>1, <2>1
    <2>3. \A l, t : W!tierTotal(W!Now, l, t)' = W!given(e.share, l, t, Beneficiaries)
      BY <2>2 DEF W!tierTotal
    <2> QED BY <2>3 DEF Within
  <1>4. accounts' \in W!AccountsType /\ view' \in [accounts : W!AccountsType, estate : W!EstateType]
    BY <1>1 DEF PlanInv, W!PlanTypeOK
  <1>5. W!PlanTypeOK'
    BY <1>1, <1>2, <1>3, <1>4 DEF W!PlanTypeOK
  <1>6. page' = W!Rendered(view')
    BY <1>1 DEF PlanInv
  <1> QED BY <1>5, <1>6 DEF PlanInv

\* What a request makes of the plan is a plan, with every tier within the whole.
LEMMA ServeKeeps ==
    ASSUME W!EstateViewAssumption, PlanInv, NEW call \in W!DirectiveCalls \cup W!ShareCalls, W!Serve(call)
    PROVE  \E e \in W!EstateType : Within(e.share) /\ W!Write(e)
  <1>1. estate \in W!EstateType /\ estate.share \in Shares /\ Within(estate.share)
    BY PlanTyped
  <1>2. W!planOf(estate) \in {"none", "default", "details"}
    BY <1>1 DEF W!planOf, W!EstateType
  <1>3. CASE call \in W!ShareCalls
    <2>1. call.op = "share" /\ call.row \in W!FormRows /\ call.bps \in 1 .. Full
      BY <1>3 DEF W!ShareCalls
    <2>2. W!ServeShare(call.row, call.bps)
      BY <2>1 DEF W!Serve
    <2>3. CASE W!Accepted(call.row, call.bps)
      <3> DEFINE e == [estate EXCEPT !.share[call.row] = call.bps]
                 new == [estate.share EXCEPT ![call.row] = call.bps]
      <3>1. call.bps \in 0 .. Full
        BY <2>1, PlanFinite
      <3>2. new \in Shares /\ Within(new)
        BY <1>1, <2>1, <2>3, <3>1, ShareWithin DEF W!Accepted
      <3>3. e = [estate EXCEPT !.share = new]
        BY <1>1 DEF W!EstateType
      <3>4. e \in W!EstateType /\ e.share = new
        <4> HIDE DEF new, e
        <4> QED BY <1>1, <3>2, <3>3 DEF W!EstateType, Shares
      <3>5. W!Write(e)
        BY <2>2, <2>3 DEF W!ServeShare
      <3> HIDE DEF new, e
      <3> QED BY <3>2, <3>4, <3>5
    <2>4. CASE ~W!Accepted(call.row, call.bps)
      BY <1>1, <2>2, <2>4 DEF W!ServeShare
    <2> QED BY <2>3, <2>4
  <1>4. CASE call \in W!DirectiveCalls
    <2>1. PICK a \in Assets : call.row = <<a>> /\ call.op \in {"included", "excluded"}
      BY <1>4 DEF W!DirectiveCalls
    <2>2. W!ServeDirective(a, call.op)
      BY <2>1 DEF W!Serve
    <2>3. CASE accounts[a] = "archived"
      <3> DEFINE e == [estate EXCEPT !.plan = W!planOf(estate)]
      <3>1. e \in W!EstateType /\ e.share = estate.share
        BY <1>1, <1>2 DEF W!EstateType
      <3>2. W!Write(e)
        BY <2>2, <2>3 DEF W!ServeDirective
      <3> HIDE DEF e
      <3> QED BY <1>1, <3>1, <3>2
    <2>4. CASE accounts[a] # "archived"
      <3> DEFINE e == [estate EXCEPT !.plan = W!planOf(estate), !.directive[a] = call.op]
      <3>1. e \in W!EstateType /\ e.share = estate.share
        <4>1. [estate.directive EXCEPT ![a] = call.op] \in [Assets -> {"none", "included", "excluded"}]
          BY <1>1, <2>1 DEF W!EstateType
        <4>2. e = [estate EXCEPT !.plan = W!planOf(estate),
                                 !.directive = [estate.directive EXCEPT ![a] = call.op]]
          BY <1>1 DEF W!EstateType
        <4> HIDE DEF e
        <4> QED BY <1>1, <1>2, <4>1, <4>2 DEF W!EstateType
      <3>2. W!Write(e)
        BY <2>2, <2>4 DEF W!ServeDirective
      <3> HIDE DEF e
      <3> QED BY <1>1, <3>1, <3>2
    <2> QED BY <2>3, <2>4
  <1> QED BY <1>3, <1>4

LEMMA ServePlanKeeps ==
    ASSUME PlanInv, NEW plan \in {"default", "details"}, W!ServePlan(plan)
    PROVE  \E e \in W!EstateType : Within(e.share) /\ W!Write(e)
  <1> DEFINE e == [estate EXCEPT !.plan = plan]
  <1>1. e \in W!EstateType /\ e.share = estate.share
    BY PlanTyped DEF W!EstateType
  <1>2. W!Write(e)
    BY DEF W!ServePlan
  <1> HIDE DEF e
  <1> QED BY <1>1, <1>2, PlanTyped

LEMMA SaveKeeps ==
    ASSUME W!EstateViewAssumption, PlanInv, NEW call \in W!DirectiveCalls \cup W!ShareCalls, W!Save(call),
           disagree' = FALSE
    PROVE  PlanInv'
  <1>1. saving \in {W!NoCall} \cup W!DirectiveCalls \cup W!ShareCalls
    BY DEF PlanInv, W!PlanTypeOK
  <1>2. saving' \in {W!NoCall} \cup W!DirectiveCalls \cup W!ShareCalls
    BY <1>1 DEF W!Save
  <1>3. W!ServePlan("default") \/ W!Serve(call)
    BY DEF W!Save
  <1>4. PICK e \in W!EstateType : Within(e.share) /\ W!Write(e)
    BY <1>3, ServeKeeps, ServePlanKeeps
  <1> QED BY <1>2, <1>4, PlanWritten

\* The form lets a share through exactly if the server takes it.
LEMMA FormMatches ==
    ASSUME NEW r \in W!FormRows, NEW bps \in 1 .. Full, W!InForm(view, r), view = W!Now, estate.plan # "none"
    PROVE  (bps \in W!Offered(view, r)) <=> W!Accepted(r, bps)
  <1>1. view.estate = estate
    BY DEF W!Now
  <1>2. bps \in W!Offered(view, r) <=>
          W!given(estate.share, r[1], r[3], Beneficiaries \ {r[2]}) + bps <= Full
    BY <1>1 DEF W!Offered, W!projectedTierTotal
  <1>3. estate.beneficiary[r[2]] = "active"
    BY <1>1 DEF W!InForm, W!activeBeneficiaries
  <1>4. r[1] # Residue => estate.directive[r[1]] = "included"
    BY <1>1 DEF W!InForm, W!Editable, W!included, W!AssetRow
  <1> QED BY <1>2, <1>3, <1>4 DEF W!Accepted

LEMMA PlanSteps ==
    ASSUME W!EstateViewAssumption, PlanInv, [W!EstateNext]_(W!estateVars)
    PROVE  PlanInv'
  <1>1. /\ accounts \in W!AccountsType /\ view \in [accounts : W!AccountsType, estate : W!EstateType]
        /\ saving \in {W!NoCall} \cup W!DirectiveCalls \cup W!ShareCalls /\ disagree = FALSE
        /\ estate \in W!EstateType /\ Within(estate.share) /\ estate.share \in Shares
        /\ changes \in 0 .. MaxWrites
    BY PlanTyped DEF PlanInv, W!PlanTypeOK
  \* What leaves the plan alone.
  <1>2. ASSUME UNCHANGED estate, disagree' = FALSE, page' = W!Rendered(view'),
               accounts' \in W!AccountsType,
               view' \in [accounts : W!AccountsType, estate : W!EstateType],
               saving' \in {W!NoCall} \cup W!DirectiveCalls \cup W!ShareCalls,
               changes' \in 0 .. MaxWrites
        PROVE  PlanInv'
    <2>1. \A l \in Assets \cup {Residue}, t \in W!PlanTiers : (W!tierTotal(W!Now, l, t) <= Full)'
      <3>1. (W!Now)' = [accounts |-> accounts', estate |-> estate']
        BY DEF W!Now
      <3>2. (W!Now)'.estate.share = estate.share
        BY <1>2, <3>1
      <3>3. \A l, t : W!tierTotal(W!Now, l, t)' = W!given(estate.share, l, t, Beneficiaries)
        BY <3>2 DEF W!tierTotal
      <3> QED BY <1>1, <3>3 DEF Within
    <2> QED BY <1>1, <1>2, <2>1 DEF PlanInv, W!PlanTypeOK
  <1>3. CASE UNCHANGED W!estateVars
    BY <1>1, <1>2, <1>3 DEF W!estateVars, PlanInv
  <1>4. CASE W!FetchEstate
    <2>1. [view EXCEPT !.estate = estate] \in [accounts : W!AccountsType, estate : W!EstateType]
      BY <1>1
    <2> QED BY <1>1, <1>2, <1>4, <2>1 DEF W!FetchEstate
  <1>5. CASE W!FetchAccounts
    <2>1. [view EXCEPT !.accounts = accounts] \in [accounts : W!AccountsType, estate : W!EstateType]
      BY <1>1
    <2> QED BY <1>1, <1>2, <1>5, <2>1 DEF W!FetchAccounts
  <1>6. CASE W!PlanDetailsForm
    <2>1. W!ServePlan("details") /\ saving' = saving /\ disagree' = disagree
      BY <1>6 DEF W!PlanDetailsForm
    <2>2. PICK e \in W!EstateType : Within(e.share) /\ W!Write(e)
      BY <2>1, ServePlanKeeps
    <2> QED BY <1>1, <2>1, <2>2, PlanWritten
  <1>7. CASE W!SaveRest
    <2>1. saving \in W!DirectiveCalls \cup W!ShareCalls /\ W!Serve(saving) /\ saving' = W!NoCall
          /\ disagree' = FALSE
      BY <1>1, <1>7 DEF W!SaveRest
    <2>2. PICK e \in W!EstateType : Within(e.share) /\ W!Write(e)
      BY <2>1, ServeKeeps
    <2> QED BY <2>1, <2>2, PlanWritten
  <1>8. CASE W!SaveFails
    BY <1>1, <1>2, <1>8 DEF W!SaveFails, PlanInv
  <1>9. CASE W!Elsewhere
    <2>1. PICK call \in W!DirectiveCalls \cup W!ShareCalls : W!Serve(call)
      BY <1>9 DEF W!Elsewhere
    <2>2. saving' = saving /\ disagree' = FALSE
      BY <1>1, <1>9 DEF W!Elsewhere
    <2>3. PICK e \in W!EstateType : Within(e.share) /\ W!Write(e)
      BY <2>1, ServeKeeps
    <2> QED BY <1>1, <2>2, <2>3, PlanWritten
  <1>10. ASSUME NEW a \in Assets, NEW inclusion \in {"included", "excluded"}, W!DirectiveForm(a, inclusion)
         PROVE  PlanInv'
    <2> DEFINE call == [op |-> inclusion, row |-> <<a>>, bps |-> 0]
    <2>1. call \in W!DirectiveCalls
      BY DEF W!DirectiveCalls
    <2>2. W!Save(call) /\ disagree' = FALSE
      BY <1>1, <1>10 DEF W!DirectiveForm
    <2> HIDE DEF call
    <2> QED BY <2>1, <2>2, SaveKeeps
  <1>11. ASSUME NEW r \in W!FormRows, NEW bps \in 1 .. Full, W!AllocationForm(r, bps) PROVE PlanInv'
    <2> DEFINE call == [op |-> "share", row |-> r, bps |-> bps]
    <2>1. call \in W!ShareCalls
      BY DEF W!ShareCalls
    <2>2. disagree' = FALSE
      <3>1. view = W!Now /\ estate.plan # "none" => ((bps \in W!Offered(view, r)) <=> W!Accepted(r, bps))
        BY <1>11, FormMatches DEF W!AllocationForm
      <3>2. disagree' = (view = W!Now /\ estate.plan # "none"
                         /\ (bps \in W!Offered(view, r)) # W!Accepted(r, bps))
        BY <1>11 DEF W!AllocationForm
      <3>3. CASE W!Accepted(r, bps)
        <4>1. view = W!Now /\ estate.plan # "none" => (bps \in W!Offered(view, r)) = TRUE
          BY <3>1, <3>3
        <4>2. W!Accepted(r, bps) = TRUE
          BY <3>3 DEF W!Accepted
        <4> QED BY ONLY <3>2, <4>1, <4>2, Zenon
      <3>4. CASE ~W!Accepted(r, bps)
        <4>1. view = W!Now /\ estate.plan # "none" => (bps \in W!Offered(view, r)) = FALSE
          BY <3>1, <3>4
        <4>2. W!Accepted(r, bps) = FALSE
          BY <3>4 DEF W!Accepted
        <4> QED BY ONLY <3>2, <4>1, <4>2, Zenon
      <3> QED BY <3>3, <3>4
    <2>3. CASE bps \in W!Offered(view, r)
      <3>1. W!Save(call)
        BY <1>11, <2>3 DEF W!AllocationForm
      <3> HIDE DEF call
      <3> QED BY <2>1, <2>2, <3>1, SaveKeeps
    <2>4. CASE bps \notin W!Offered(view, r)
      BY <1>1, <1>2, <1>11, <2>2, <2>4 DEF W!AllocationForm, PlanInv
    <2> QED BY <2>3, <2>4
  <1>12. ASSUME NEW r \in W!FormRows, W!RemoveShare(r) PROVE PlanInv'
    <2> DEFINE new == [estate.share EXCEPT ![r] = 0]
               e == [estate EXCEPT !.share[r] = 0]
    <2>1. r[1] \in Assets \cup {Residue} /\ r[2] \in Beneficiaries /\ r[3] \in W!PlanTiers
          /\ r = <<r[1], r[2], r[3]>>
      BY DEF W!FormRows
    <2>2. W!given(estate.share, r[1], r[3], Beneficiaries \ {r[2]}) + 0 <= Full
      <3>1. W!given(estate.share, r[1], r[3], Beneficiaries)
              = estate.share[<<r[1], r[2], r[3]>>]
                + W!given(estate.share, r[1], r[3], Beneficiaries \ {r[2]})
        BY <1>1, <2>1, SharedWith
      <3>2. W!given(estate.share, r[1], r[3], Beneficiaries \ {r[2]}) \in Int
        BY <1>1, <2>1, SharedWith
      <3>3. estate.share[<<r[1], r[2], r[3]>>] \in 0 .. Full
        BY <1>1, <2>1 DEF Shares
      <3>4. W!given(estate.share, r[1], r[3], Beneficiaries) <= Full
        BY <1>1, <2>1 DEF Within
      <3>5. Full \in Nat
        BY PlanFinite
      <3> QED BY <3>1, <3>2, <3>3, <3>4, <3>5
    <2>3. 0 \in 0 .. Full
      BY PlanFinite
    <2>4. new \in Shares /\ Within(new)
      BY <1>1, <2>2, <2>3, ShareWithin
    <2>5. e = [estate EXCEPT !.share = new]
      BY <1>1 DEF W!EstateType
    <2>6. e \in W!EstateType /\ e.share = new
      <3> HIDE DEF new, e
      <3> QED BY <1>1, <2>4, <2>5 DEF W!EstateType, Shares
    <2>7. W!Write(e) /\ saving' = saving /\ disagree' = FALSE
      BY <1>1, <1>12 DEF W!RemoveShare
    <2> HIDE DEF new, e
    <2> QED BY <1>1, <2>4, <2>6, <2>7, PlanWritten
  <1>13. ASSUME NEW b \in Beneficiaries, NEW status \in {"active", "archived"}, W!SetBeneficiary(b, status)
         PROVE  PlanInv'
    <2> DEFINE who == [estate.beneficiary EXCEPT ![b] = status]
               e == [estate EXCEPT !.beneficiary[b] = status]
    <2>1. who \in [Beneficiaries -> {"none", "active", "archived"}]
      BY <1>1 DEF W!EstateType
    <2>2. e = [estate EXCEPT !.beneficiary = who]
      BY <1>1 DEF W!EstateType
    <2>3. e \in W!EstateType /\ e.share = estate.share
      <3> HIDE DEF who, e
      <3> QED BY <1>1, <2>1, <2>2 DEF W!EstateType
    <2>4. W!Write(e) /\ saving' = saving /\ disagree' = FALSE
      BY <1>1, <1>13 DEF W!SetBeneficiary
    <2> HIDE DEF who, e
    <2> QED BY <1>1, <2>3, <2>4, PlanWritten
  <1>14. ASSUME NEW a \in Assets, NEW status \in {"counted", "uncounted", "archived"},
                W!EditAccount(a, status)
         PROVE  PlanInv'
    <2>1. accounts' \in W!AccountsType
      BY <1>1, <1>14 DEF W!EditAccount, W!AccountsType
    <2>2. changes' \in 0 .. MaxWrites
      BY <1>1, <1>14 DEF W!EditAccount, W!EstateViewAssumption
    <2> QED BY <1>1, <1>2, <1>14, <2>1, <2>2 DEF W!EditAccount, PlanInv
  <1> QED BY <1>3, <1>4, <1>5, <1>6, <1>7, <1>8, <1>9, <1>10, <1>11, <1>12, <1>13, <1>14
          DEF W!EstateNext

-----------------------------------------------------------------------------
(* What a page says of its view *)

\* What the two pages show.
Pages == [accounts : W!AccountsType, estate : W!EstateType]

\* Who is named has a share, of one of the tiers.
LEMMA UnnamedHaveNothing ==
    ASSUME NEW v \in Pages, NEW l \in Assets \cup {Residue}, NEW t \in W!PlanTiers,
           NEW B, W!Named(v, l) \subseteq B, NEW b \in Beneficiaries \ B
    PROVE  v.estate.share[<<l, b, t>>] = 0
  <1>1. <<l, b, t>> \in W!FormRows
    BY DEF W!FormRows
  <1>2. v.estate.share[<<l, b, t>>] \in 0 .. Full
    BY <1>1 DEF Pages, W!EstateType
  <1>3. ~ (v.estate.share[<<l, b, t>>] > 0)
    BY DEF W!Named
  <1> QED BY <1>2, <1>3

\* What names active beneficiaries only goes to them whole.
LEMMA GoesToActive ==
    ASSUME W!EstateViewAssumption, NEW v \in Pages, NEW l \in Assets \cup {Residue},
           W!Named(v, l) \subseteq W!activeBeneficiaries(v)
    PROVE  W!given(v.estate.share, l, "primary", W!activeBeneficiaries(v)) = W!tierTotal(v, l, "primary")
  <1> DEFINE B == W!activeBeneficiaries(v)
  <1>1. B \in SUBSET Beneficiaries
    BY DEF W!activeBeneficiaries
  <1>2. v.estate.share \in Shares /\ "primary" \in W!PlanTiers
    BY DEF Pages, W!EstateType, Shares, W!PlanTiers
  <1>3. \A b \in Beneficiaries \ B : v.estate.share[<<l, b, "primary">>] = 0
    BY <1>2, UnnamedHaveNothing
  <1> HIDE DEF B
  <1>4. W!given(v.estate.share, l, "primary", B) = W!given(v.estate.share, l, "primary", Beneficiaries)
    BY <1>1, <1>2, <1>3, GivenToNamed
  <1> QED BY <1>4 DEF W!tierTotal, B

\* The total of a tier is an integer.
LEMMA TierTotalType ==
    ASSUME W!EstateViewAssumption, NEW v \in Pages, NEW l \in Assets \cup {Residue}
    PROVE  W!tierTotal(v, l, "primary") \in Int
  <1> DEFINE f == SharedOut(v.estate.share, l, "primary")
  <1>1. v.estate.share \in Shares /\ "primary" \in W!PlanTiers
    BY DEF Pages, W!EstateType, Shares, W!PlanTiers
  <1>2. /\ IsFiniteSet(Beneficiaries) /\ f \in [Beneficiaries -> Int]
        /\ W!tierTotal(v, l, "primary") = SumFunctionOnSet(f, Beneficiaries)
    <2>1. IsFiniteSet(Beneficiaries)
      BY PlanFinite
    <2>2. f \in [Beneficiaries -> Int]
      BY <1>1, SharedOutType
    <2>3. \A B : W!given(v.estate.share, l, "primary", B) = SumFunctionOnSet(f, B)
      BY <1>1, SharedOutType
    <2> QED BY <2>1, <2>2, <2>3 DEF W!tierTotal
  <1> HIDE DEF f
  <1>3. PICK g : Sums(g, f, Beneficiaries) /\ \A S \in SUBSET Beneficiaries : SumFunctionOnSet(f, S) = g[S]
    BY <1>2, SetSums
  <1> QED BY <1>2, <1>3 DEF Sums

\* A page without review items: every check of the plan and of each included asset holds.
LEMMA NothingToReview ==
    ASSUME NEW v, W!reviewItems(v) = {}
    PROVE  /\ W!Named(v, Residue) \subseteq W!activeBeneficiaries(v)
           /\ \A a \in W!included(v) :
                 LET row == W!AssetRow(v, a)
                 IN  /\ row.directive # "none"
                     /\ row.primary < Full => W!tierTotal(v, Residue, "primary") = Full
                     /\ ~ (row.primary > Full)
                     /\ row.contingent \in {0, Full}
                     /\ W!Named(v, a) \subseteq W!activeBeneficiaries(v)
  <1>1. W!planItems(v) = {}
    <2>1. ASSUME NEW code \in W!planItems(v) PROVE FALSE
      <3>1. <<code, "plan">> \in W!planItems(v) \X {"plan"}
        OBVIOUS
      <3> QED BY <3>1 DEF W!reviewItems
    <2> QED BY <2>1
  <1>2. ASSUME NEW a \in W!included(v) PROVE W!assetItems(v, a) = {}
    <2>1. ASSUME NEW code \in W!assetItems(v, a) PROVE FALSE
      <3>1. <<code, a>> \in W!assetItems(v, a) \X {a}
        OBVIOUS
      <3>2. <<code, a>> \in W!reviewItems(v)
        BY <3>1 DEF W!reviewItems
      <3> QED BY <3>2
    <2> QED BY <2>1
  <1>3. W!Named(v, Residue) \subseteq W!activeBeneficiaries(v)
    <2> DEFINE checks ==
                 [noBeneficiaries |-> W!activeBeneficiaries(v) = {},
                  archivedResidual |-> ~ W!Named(v, Residue) \subseteq W!activeBeneficiaries(v),
                  residueIncomplete |-> W!tierTotal(v, Residue, "primary") \notin {0, Full},
                  residueContingentIncomplete |-> W!tierTotal(v, Residue, "contingent") \notin {0, Full}]
    <2>1. W!Raised(checks) = {}
      BY <1>1 DEF W!planItems
    <2>2. "archivedResidual" \in DOMAIN checks
      OBVIOUS
    <2>3. ~checks.archivedResidual
      <3> HIDE DEF checks
      <3> QED BY <2>1, <2>2 DEF W!Raised
    <2> QED BY <2>3
  <1>4. ASSUME NEW a \in W!included(v)
        PROVE  LET row == W!AssetRow(v, a)
               IN  /\ row.directive # "none"
                   /\ row.primary < Full => W!tierTotal(v, Residue, "primary") = Full
                   /\ ~ (row.primary > Full)
                   /\ row.contingent \in {0, Full}
                   /\ W!Named(v, a) \subseteq W!activeBeneficiaries(v)
    <2> DEFINE row == W!AssetRow(v, a)
               none == row.directive = "none"
               checks == [unconfigured |-> none,
                          allocationIncomplete |->
                            ~none /\ row.primary < Full /\ W!tierTotal(v, Residue, "primary") # Full,
                          allocationOver |-> row.primary > Full,
                          contingentIncomplete |-> row.contingent \notin {0, Full},
                          archivedBeneficiary |->
                            ~none /\ ~ W!Named(v, a) \subseteq W!activeBeneficiaries(v)]
    <2>1. W!Raised(checks) = {}
      BY <1>4, <1>2 DEF W!assetItems
    <2>2. \A code \in DOMAIN checks : ~checks[code]
      <3> HIDE DEF checks
      <3> QED BY <2>1 DEF W!Raised
    <2> HIDE DEF row
    <2>3. ~checks.unconfigured /\ ~checks.allocationIncomplete /\ ~checks.allocationOver
          /\ ~checks.contingentIncomplete /\ ~checks.archivedBeneficiary
      <3>1. {"unconfigured", "allocationIncomplete", "allocationOver", "contingentIncomplete",
             "archivedBeneficiary"} \subseteq DOMAIN checks
        OBVIOUS
      <3> HIDE DEF checks
      <3> QED BY <2>2, <3>1
    <2>4. ~none /\ (row.primary < Full => W!tierTotal(v, Residue, "primary") = Full)
          /\ ~ (row.primary > Full) /\ row.contingent \in {0, Full}
          /\ W!Named(v, a) \subseteq W!activeBeneficiaries(v)
      BY <2>3
    <2> QED BY <2>4 DEF row
  <1> QED BY <1>3, <1>4

\* The summary page calls covered what reaches active beneficiaries, and the overview agrees.
LEMMA CoveredHolds ==
    ASSUME W!EstateViewAssumption, PlanInv
    PROVE  W!CoveredIsCovered
  <1>1. view \in Pages /\ page = W!Rendered(view)
    BY DEF PlanInv, W!PlanTypeOK, Pages
  <1>2. Full \in Nat
    BY PlanFinite
  <1> SUFFICES ASSUME page.covered PROVE W!CoveredIsCovered
    BY DEF W!CoveredIsCovered
  <1>3. W!reviewItems(view) = {}
    BY <1>1 DEF W!Rendered
  <1>4. ASSUME NEW a \in W!included(view)
        PROVE  /\ W!Reaches(view, a) /\ W!Named(view, a) \subseteq W!activeBeneficiaries(view)
               /\ W!assetStatus(view, a) \in {"complete", "covered"}
    <2> DEFINE row == W!AssetRow(view, a)
    <2>1. /\ row.directive # "none" /\ row.contingent \in {0, Full}
          /\ row.primary < Full => W!tierTotal(view, Residue, "primary") = Full
      BY <1>3, <1>4, NothingToReview
    <2>2. ~ (row.primary > Full)
      BY <1>3, <1>4, NothingToReview
    <2>3. /\ W!Named(view, a) \subseteq W!activeBeneficiaries(view)
          /\ W!Named(view, Residue) \subseteq W!activeBeneficiaries(view)
      BY <1>3, <1>4, NothingToReview
    <2>4. a \in Assets /\ row.isIncluded
      BY <1>4 DEF W!included, W!assets
    <2>5. row.primary = W!tierTotal(view, a, "primary") /\ row.primary \in Int
      <3>1. row.primary = W!tierTotal(view, a, "primary")
        BY <2>1 DEF W!AssetRow
      <3>2. W!tierTotal(view, a, "primary") \in Int
        BY <1>1, <2>4, TierTotalType
      <3> QED BY <3>1, <3>2
    <2>6. W!given(view.estate.share, a, "primary", W!activeBeneficiaries(view))
             = W!tierTotal(view, a, "primary")
      BY <1>1, <2>3, <2>4, GoesToActive
    <2>7. W!given(view.estate.share, Residue, "primary", W!activeBeneficiaries(view))
             = W!tierTotal(view, Residue, "primary")
      BY <1>1, <2>3, GoesToActive
    <2>8. CASE row.primary = Full
      <3>1. W!Reaches(view, a)
        BY <2>5, <2>6, <2>8 DEF W!Reaches
      <3>2. W!assetStatus(view, a) = "complete"
        BY <2>1, <2>4, <2>8 DEF W!assetStatus
      <3> QED BY <2>3, <3>1, <3>2
    <2>9. CASE row.primary # Full
      <3>1. row.primary < Full
        BY <1>2, <2>2, <2>5, <2>9
      <3>2. W!Reaches(view, a)
        BY <2>1, <2>7, <3>1 DEF W!Reaches
      <3>3. W!assetStatus(view, a) = "covered"
        BY <2>1, <2>4, <2>9, <3>1 DEF W!assetStatus
      <3> QED BY <2>3, <3>2, <3>3
    <2> QED BY <2>8, <2>9
  <1>5. ASSUME W!included(view) # {} PROVE page.done
    <2>1. W!settled(view) = W!included(view)
      BY <1>4 DEF W!settled
    <2>2. W!DistributionDone(view)
      BY <1>3, <1>5, <2>1 DEF W!DistributionDone, W!isMathematicallyComplete
    <2> QED BY <1>1, <2>2 DEF W!Rendered
  <1> QED BY <1>4, <1>5 DEF W!CoveredIsCovered

\* Nothing is shared out at first.
LEMMA PlanInit ==
    ASSUME W!EstateViewAssumption, W!EstateInit
    PROVE  PlanInv
  <1>1. Full \in Nat /\ MaxWrites \in Nat
    BY DEF W!EstateViewAssumption
  <1>2. estate \in W!EstateType /\ accounts \in W!AccountsType
    BY <1>1 DEF W!EstateInit, W!EstateType, W!AccountsType
  <1>3. W!Now = [accounts |-> accounts, estate |-> estate]
    BY DEF W!Now
  <1>4. ASSUME NEW l \in Assets \cup {Residue}, NEW t \in W!PlanTiers
        PROVE  W!tierTotal(W!Now, l, t) <= Full
    <2> DEFINE f == SharedOut(estate.share, l, t)
    <2>1. estate.share \in Shares
      BY <1>2 DEF W!EstateType, Shares
    <2>2. IsFiniteSet(Beneficiaries) /\ f \in [Beneficiaries -> Int]
          /\ \A B : W!given(estate.share, l, t, B) = SumFunctionOnSet(f, B)
      BY <2>1, PlanFinite, SharedOutType
    <2>3. \A b \in Beneficiaries : f[b] = 0
      <3> TAKE b \in Beneficiaries
      <3>1. <<l, b, t>> \in W!FormRows
        BY DEF W!FormRows
      <3>2. estate.share[<<l, b, t>>] = 0
        BY <3>1 DEF W!EstateInit
      <3>3. f[b] = estate.share[<<l, b, t>>]
        BY <2>1, SharedOutType
      <3> QED BY <3>2, <3>3
    <2> HIDE DEF f
    <2>4. PICK g : Sums(g, f, Beneficiaries) /\ \A S \in SUBSET Beneficiaries : SumFunctionOnSet(f, S) = g[S]
      BY <2>2, SetSums
    <2>5. g[Beneficiaries] = 0
      <3>1. Sums(g, f, Beneficiaries) /\ Beneficiaries \in SUBSET Beneficiaries
        BY <2>4
      <3> QED BY <2>2, <2>3, <3>1, SumsOfZeros
    <2>6. W!given(estate.share, l, t, Beneficiaries) = 0
      BY <2>2, <2>4, <2>5
    <2> QED BY <1>1, <1>3, <2>6 DEF W!tierTotal
  <1>5. view \in [accounts : W!AccountsType, estate : W!EstateType]
    BY <1>2, <1>3 DEF W!EstateInit
  <1>6. page = W!Rendered(view) /\ saving = W!NoCall /\ disagree = FALSE /\ changes \in 0 .. MaxWrites
    BY <1>1 DEF W!EstateInit
  <1> QED BY <1>2, <1>4, <1>5, <1>6 DEF PlanInv, W!PlanTypeOK

\* The plan, the view and the request of a save under way have their types, and no tier of an asset or
\* of the residue is ever given away more than once, whatever this tab and others send.
LEMMA PlansStayWithin == ASSUME W!EstateViewAssumption PROVE W!EstateSpec => []W!PlanTypeOK
  <1>1. W!EstateInit => PlanInv
    BY PlanInit
  <1>2. PlanInv /\ [W!EstateNext]_(W!estateVars) => PlanInv'
    BY PlanSteps
  <1>3. PlanInv => W!PlanTypeOK
    BY DEF PlanInv
  <1> QED BY <1>1, <1>2, <1>3, PTL DEF W!EstateSpec

\* What the summary page calls covered reaches active beneficiaries and is ticked off on the overview,
\* and a form of an up-to-date page lets a share through exactly if the server takes it.
LEMMA EstatePagesAgree == ASSUME W!EstateViewAssumption PROVE W!EstateSpec => []W!EstateAgrees
  <1>1. W!EstateInit => PlanInv
    BY PlanInit
  <1>2. PlanInv /\ [W!EstateNext]_(W!estateVars) => PlanInv'
    BY PlanSteps
  <1>3. PlanInv => W!EstateAgrees
    <2> SUFFICES ASSUME PlanInv PROVE W!EstateAgrees
      OBVIOUS
    <2>1. W!CoveredIsCovered
      BY CoveredHolds
    <2>2. W!FormMatchesServer
      BY DEF W!FormMatchesServer, PlanInv
    <2> QED BY <2>1, <2>2 DEF W!EstateAgrees
  <1> QED BY <1>1, <1>2, <1>3, PTL DEF W!EstateSpec

-----------------------------------------------------------------------------
(* The list of the activity (WebActivity) *)

\* A set of rows has an order, newest first.
LEMMA NewestFirstType ==
    ASSUME NEW S \in SUBSET Nat, IsFiniteSet(S)
    PROVE  A!NewestFirst(S) \in Seq(S)
  <1> DEFINE Orders(R, s) == \A i, j \in DOMAIN s : i < j => s[i] > s[j]
             Ordered(R) == \E s \in [1 .. Cardinality(R) -> R] : Orders(R, s)
             K == {n \in Nat : \A R \in SUBSET S : Cardinality(R) = n => Ordered(R)}
  <1>1. 0 \in K
    <2> SUFFICES ASSUME NEW R \in SUBSET S, Cardinality(R) = 0 PROVE Ordered(R)
      OBVIOUS
    <2>1. [i \in 1 .. 0 |-> i] \in [1 .. Cardinality(R) -> R] /\ Orders(R, [i \in 1 .. 0 |-> i])
      OBVIOUS
    <2> HIDE DEF Orders
    <2> QED BY <2>1
  <1>2. ASSUME NEW n \in Nat, n \in K PROVE n + 1 \in K
    <2> SUFFICES ASSUME NEW R \in SUBSET S, Cardinality(R) = n + 1 PROVE Ordered(R)
      OBVIOUS
    <2>1. IsFiniteSet(R) /\ R # {} /\ R \in SUBSET Int
      <3>1. IsFiniteSet(R)
        BY FS_Subset
      <3>2. R # {}
        BY FS_EmptySet
      <3> QED BY <3>1, <3>2
    <2>2. PICK m \in R : \A x \in R : m >= x
      BY <2>1, FiniteHasMax
    <2> DEFINE U == R \ {m}
    <2>3. Cardinality(U) = n /\ U \in SUBSET S
      <3>1. Cardinality(U) = Cardinality(R) - 1
        BY <2>1, FS_RemoveElement
      <3> QED BY <3>1
    <2>4. Ordered(U)
      BY <1>2, <2>3
    <2>5. PICK s \in [1 .. n -> U] : Orders(U, s)
      BY <2>3, <2>4
    <2> DEFINE new == [i \in 1 .. (n + 1) |-> IF i = 1 THEN m ELSE s[i - 1]]
    <2>6. new \in [1 .. Cardinality(R) -> R]
      BY <2>5
    <2>7. ASSUME NEW i \in 1 .. (n + 1), NEW j \in 1 .. (n + 1), i < j PROVE new[i] > new[j]
      <3>1. j - 1 \in 1 .. n /\ new[j] = s[j - 1] /\ s[j - 1] \in U
        BY <2>5, <2>7
      <3>2. CASE i = 1
        <4>1. m >= s[j - 1] /\ m # s[j - 1] /\ m \in Int /\ s[j - 1] \in Int
          BY <2>1, <2>2, <3>1
        <4> QED BY <3>1, <3>2, <4>1
      <3>3. CASE i # 1
        <4>1. i - 1 \in 1 .. n /\ i - 1 < j - 1 /\ new[i] = s[i - 1]
          BY <2>7, <3>3
        <4> QED BY <2>5, <3>1, <4>1
      <3> QED BY <3>2, <3>3
    <2>8. Orders(R, new)
      <3>1. DOMAIN new = 1 .. (n + 1)
        OBVIOUS
      <3> HIDE DEF new
      <3> QED BY <2>7, <3>1
    <2> HIDE DEF new, Orders
    <2> QED BY <2>6, <2>8
  <1> HIDE DEF K
  <1>3. Nat \subseteq K
    BY <1>1, <1>2, NaturalsByInduction
  <1>4. Cardinality(S) \in K /\ Cardinality(S) \in Nat
    BY <1>3, FS_CardinalityType
  <1>5. \E s \in [1 .. Cardinality(S) -> S] : Orders(S, s)
    BY <1>4 DEF K
  <1>6. A!NewestFirst(S) \in [1 .. Cardinality(S) -> S]
    <2>1. A!Cardinality(S) = Cardinality(S)
      BY DEF A!Cardinality, Cardinality, A!IsFiniteSet, IsFiniteSet
    <2> QED BY <1>5, <2>1, Zenon DEF A!NewestFirst
  <1> QED BY <1>4, <1>6

\* The filters let every one of the rows through.
RowsLet(f, rows) == \A i \in DOMAIN rows : A!Lets(f, rows[i])

LEMMA LargerType ==
    ASSUME NEW R, NEW S \in SUBSET R, NEW s \in Seq(S)
    PROVE  s \in Seq(R) /\ \A i \in DOMAIN s : s[i] \in S
  OBVIOUS

\* What the server lists.
LEMMA ListedType ==
    ASSUME A!ActivityAssumption, NEW Q, Q \in SUBSET Rows, NEW f
    PROVE  /\ A!NewestFirst({r \in Q : A!Lets(f, r)}) \in Seq(Rows)
           /\ RowsLet(f, A!NewestFirst({r \in Q : A!Lets(f, r)}))
  <1> DEFINE S == {r \in Q : A!Lets(f, r)}
  <1>1. S \in SUBSET Nat /\ S \in SUBSET Rows
    BY DEF A!ActivityAssumption
  <1>2. IsFiniteSet(S)
    <2>1. IsFiniteSet(Rows)
      BY DEF A!ActivityAssumption, A!IsFiniteSet, IsFiniteSet
    <2> QED BY <1>1, <2>1, FS_Subset
  <1>3. \A r \in S : A!Lets(f, r)
    OBVIOUS
  <1> HIDE DEF S
  <1>4. A!NewestFirst(S) \in Seq(S)
    BY <1>1, <1>2, NewestFirstType
  <1>5. A!NewestFirst(S) \in Seq(Rows) /\ \A i \in DOMAIN A!NewestFirst(S) : A!NewestFirst(S)[i] \in S
    <2> DEFINE s == A!NewestFirst(S)
    <2> HIDE DEF s
    <2>1. s \in Seq(S)
      BY <1>4 DEF s
    <2>2. s \in Seq(Rows) /\ \A i \in DOMAIN s : s[i] \in S
      BY <1>1, <2>1, LargerType
    <2> QED BY <2>2 DEF s
  <1> QED BY <1>3, <1>5 DEF RowsLet, S

-----------------------------------------------------------------------------
(* The activity page *)

\* A list and the fetch of it: types and what is between the two.
Sound(f, c, n) ==
  /\ c \in A!ListType /\ n \in A!FetchType
  /\ c.pages = 0 /\ n.to # 0 => n.to = 1 /\ n.pages = 0
  /\ RowsLet(f, c.rows) /\ RowsLet(f, n.rows) /\ RowsLet(f, n.page)

\* What was read is as the server has it.
UpTo(Q, rows) == Len(rows) <= Len(Q) /\ rows = SubSeq(Q, 1, Len(rows))
PageAfter(Q, k) == SubSeq(Q, k + 1, A!Min({k + PageSize, Len(Q)}))
ListGood(Q, c) ==
  /\ UpTo(Q, c.rows) /\ (c.more <=> Len(Q) > Len(c.rows))
  /\ c.more => Len(c.rows) = PageSize * c.pages
FetchGood(Q, n) ==
  /\ UpTo(Q, n.rows) /\ Len(n.rows) = PageSize * n.pages
  /\ n.read => /\ n.page = PageAfter(Q, PageSize * n.pages)
               /\ n.more <=> Len(Q) > PageSize * n.pages + PageSize

\* made: whether a change is made that is still to be answered.
Good(Q, c, n, made) ==
  /\ ~made /\ c.pages > 0 /\ ~c.invalid /\ ~c.old => ListGood(Q, c)
  /\ n.to # 0 /\ ~n.old => FetchGood(Q, n)

\* A list that is shown and known to be out of date is being fetched, or has failed.
Looked(c, n) == c.pages > 0 /\ n.to = 0 /\ c.invalid => c.failed

ActivityInv ==
  /\ url \in A!Url /\ A!Current \in Filters
  /\ waiting \in A!Url \cup {A!NoUrl} /\ changed \in BOOLEAN
  /\ ledger \in SUBSET Rows /\ previous \in Filters \cup {A!NoFilters}
  /\ cache \in [Filters -> A!ListType] /\ fetch \in [Filters -> A!FetchType]
  /\ \A f \in Filters : Sound(f, cache[f], fetch[f])
  /\ \A f \in Filters : Good(A!Listed(f), cache[f], fetch[f], changed)
  /\ Looked(cache[A!Current], fetch[A!Current])

\* A fetch that has read nothing yet.
LEMMA NothingRead ==
    ASSUME NEW Q \in Seq(Rows), NEW n \in A!FetchType, n.pages = 0, n.rows = <<>>, ~n.read,
           A!ActivityAssumption
    PROVE  FetchGood(Q, n)
  <1>1. SubSeq(Q, 1, 0) = <<>>
    BY SubSeqEmpty
  <1>2. Len(n.rows) = 0 /\ Len(Q) \in Nat /\ PageSize * n.pages = 0
    BY DEF A!ActivityAssumption
  <1> QED BY <1>1, <1>2 DEF FetchGood, UpTo

\* Records of a fetch, field by field.
LEMMA BegunFetch ==
    ASSUME NEW n, NEW to, n = [A!NoFetch EXCEPT !.to = to]
    PROVE  n = [next |-> FALSE, to |-> to, pages |-> 0, rows |-> <<>>,
                read |-> FALSE, page |-> <<>>, more |-> FALSE, old |-> FALSE]
  BY DEF A!NoFetch

\* What a refetch begins with.
LEMMA RefetchSound ==
    ASSUME A!ActivityAssumption, NEW f \in Filters, NEW c \in A!ListType, RowsLet(f, c.rows),
           cache[f].pages = c.pages
    PROVE  /\ A!Refetch(f) \in A!FetchType /\ A!Refetch(f).to # 0
           /\ A!Refetch(f).pages = 0 /\ A!Refetch(f).rows = <<>> /\ ~A!Refetch(f).read
           /\ Sound(f, c, A!Refetch(f))
  <1> DEFINE to == IF A!HasData(f) THEN cache[f].pages ELSE 1
             n == [next |-> FALSE, to |-> to, pages |-> 0, rows |-> <<>>,
                   read |-> FALSE, page |-> <<>>, more |-> FALSE, old |-> FALSE]
  <1>1. A!Refetch(f) = n
    <2>1. A!Refetch(f) = [A!NoFetch EXCEPT !.to = to]
      BY Zenon DEF A!Refetch
    <2> HIDE DEF to
    <2> QED BY <2>1 DEF A!NoFetch
  <1>2. to \in Nat /\ to # 0 /\ (c.pages = 0 => to = 1)
    BY DEF A!HasData, A!ListType
  <1> HIDE DEF to
  <1>3. n \in A!FetchType /\ RowsLet(f, n.rows) /\ RowsLet(f, n.page)
    BY <1>2 DEF A!FetchType, RowsLet
  <1>4. c.pages = 0 /\ n.to # 0 => n.to = 1 /\ n.pages = 0
    BY <1>2
  <1>5. n.to # 0 /\ n.pages = 0 /\ n.rows = <<>> /\ ~n.read
    BY <1>2
  <1>6. Sound(f, c, n)
    <2> HIDE DEF n
    <2> QED BY <1>3, <1>4 DEF Sound
  <1> HIDE DEF n
  <1> QED BY <1>1, <1>3, <1>5, <1>6

\* A step that concerns one list, while the others, the server and the address stay as they are.
LEMMA OneList ==
    ASSUME A!ActivityAssumption, ActivityInv, NEW f \in Filters,
           NEW c \in A!ListType, NEW n \in A!FetchType, Sound(f, c, n),
           cache' = [cache EXCEPT ![f] = c], fetch' = [fetch EXCEPT ![f] = n],
           ledger' = ledger, changed' = changed,
           Good(A!Listed(f), c, n, changed),
           url' \in A!Url, A!FiltersOf(url') \in Filters, waiting' \in A!Url \cup {A!NoUrl},
           previous' \in Filters \cup {A!NoFilters},
           Looked(cache[A!FiltersOf(url')], fetch[A!FiltersOf(url')]) \/ A!FiltersOf(url') = f,
           A!FiltersOf(url') = f => Looked(c, n)
    PROVE  ActivityInv'
  <1>1. /\ cache' \in [Filters -> A!ListType] /\ fetch' \in [Filters -> A!FetchType]
        /\ cache'[f] = c /\ fetch'[f] = n
        /\ \A g \in Filters \ {f} : cache'[g] = cache[g] /\ fetch'[g] = fetch[g]
    BY DEF ActivityInv
  <1>2. \A g : A!Listed(g)' = A!Listed(g)
    BY DEF A!Listed
  <1>3. \A g \in Filters : Sound(g, cache'[g], fetch'[g])
    BY <1>1 DEF ActivityInv
  <1>4. ASSUME NEW g \in Filters PROVE Good(A!Listed(g)', cache'[g], fetch'[g], changed')
    BY <1>1, <1>2 DEF ActivityInv
  <1>5. A!Current' = A!FiltersOf(url')
    BY DEF A!Current
  <1>6. Looked(cache'[A!FiltersOf(url')], fetch'[A!FiltersOf(url')])
    BY <1>1
  <1>7. changed' \in BOOLEAN /\ ledger' \in SUBSET Rows
    BY DEF ActivityInv
  <1> QED BY <1>1, <1>3, <1>4, <1>5, <1>6, <1>7 DEF ActivityInv

\* Less of two.
LEMMA MinOfTwo ==
    ASSUME NEW a \in Int, NEW b \in Int
    PROVE  A!Min({a, b}) = IF a <= b THEN a ELSE b
  <1>1. \E x \in {a, b} : \A y \in {a, b} : x <= y
    OBVIOUS
  <1>2. A!Min({a, b}) \in {a, b} /\ \A y \in {a, b} : A!Min({a, b}) <= y
    BY <1>1 DEF A!Min
  <1> QED BY <1>2

\* A page of what the server lists.
LEMMA PageLet ==
    ASSUME A!ActivityAssumption, NEW f, NEW Q \in Seq(Rows), RowsLet(f, Q), NEW m \in Nat
    PROVE  /\ PageAfter(Q, m) \in Seq(Rows) /\ RowsLet(f, PageAfter(Q, m))
           /\ m <= Len(Q) => /\ Len(PageAfter(Q, m)) = A!Min({m + PageSize, Len(Q)}) - m
                             /\ SubSeq(Q, 1, m) \o PageAfter(Q, m)
                                  = SubSeq(Q, 1, A!Min({m + PageSize, Len(Q)}))
  <1> DEFINE e == A!Min({m + PageSize, Len(Q)})
             p == SubSeq(Q, m + 1, e)
  <1>1. PageSize \in Nat /\ PageSize > 0 /\ Len(Q) \in Nat
    BY DEF A!ActivityAssumption
  <1>2. e = IF m + PageSize <= Len(Q) THEN m + PageSize ELSE Len(Q)
    BY <1>1, MinOfTwo
  <1>3. e \in Int /\ e <= Len(Q) /\ e \in Nat
    BY <1>1, <1>2
  <1>0. p = PageAfter(Q, m)
    BY DEF PageAfter
  <1> HIDE DEF e
  <1>4. \A i \in (m + 1) .. e : i \in DOMAIN Q /\ Q[i] \in Rows
    BY <1>1, <1>3
  <1>5. /\ p \in Seq(Rows) /\ Len(p) = IF m + 1 <= e THEN e - (m + 1) + 1 ELSE 0
        /\ \A i \in 1 .. e - (m + 1) + 1 : p[i] = Q[(m + 1) + i - 1]
    BY <1>1, <1>3, <1>4, SubSeqProperties
  <1>6. m <= Len(Q) => SubSeq(Q, 1, m) \o p = SubSeq(Q, 1, e)
    <2> SUFFICES ASSUME m <= Len(Q) PROVE SubSeq(Q, 1, m) \o SubSeq(Q, m + 1, e) = SubSeq(Q, 1, e)
      OBVIOUS
    <2>1. e \in m .. Len(Q) /\ m \in 0 .. Len(Q)
      BY <1>1, <1>2, <1>3
    <2> QED BY <1>1, <2>1, ConcatAdjacentSubSeq
  <1> HIDE DEF p
  <1>7. RowsLet(f, p)
    <2> SUFFICES ASSUME NEW i \in DOMAIN p PROVE A!Lets(f, p[i])
      BY DEF RowsLet
    <2>1. i \in 1 .. Len(p)
      BY <1>5
    <2>2. i \in 1 .. e - (m + 1) + 1 /\ (m + 1) + i - 1 \in (m + 1) .. e
      <3>1. Len(p) = IF m + 1 <= e THEN e - (m + 1) + 1 ELSE 0
        BY <1>5
      <3> QED BY <1>1, <1>3, <2>1, <3>1
    <2>3. p[i] = Q[(m + 1) + i - 1] /\ (m + 1) + i - 1 \in DOMAIN Q
      BY <1>4, <1>5, <2>2
    <2> QED BY <2>3 DEF RowsLet
  <1>8. m <= Len(Q) => Len(p) = e - m
    <2>1. Len(p) = IF m + 1 <= e THEN e - (m + 1) + 1 ELSE 0
      BY <1>5
    <2>2. m <= Len(Q) => m <= e
      BY <1>1, <1>2
    <2> QED BY <1>3, <2>1, <2>2
  <1> QED BY <1>0, <1>5, <1>6, <1>7, <1>8 DEF e

\* Rows joined to others that are let through as well.
LEMMA JoinLet ==
    ASSUME NEW f, NEW s \in Seq(Rows), NEW p \in Seq(Rows), RowsLet(f, s), RowsLet(f, p)
    PROVE  s \o p \in Seq(Rows) /\ RowsLet(f, s \o p)
  <1>1. /\ s \o p \in Seq(Rows) /\ Len(s \o p) = Len(s) + Len(p)
        /\ \A i \in 1 .. Len(s) + Len(p) : (s \o p)[i] = IF i <= Len(s) THEN s[i] ELSE p[i - Len(s)]
    BY ConcatProperties, Zenon
  <1> DEFINE rows == s \o p
  <1>2. Len(s) \in Nat /\ Len(p) \in Nat /\ DOMAIN s = 1 .. Len(s) /\ DOMAIN p = 1 .. Len(p)
        /\ rows \in Seq(Rows) /\ Len(rows) = Len(s) + Len(p)
    BY <1>1
  <1> HIDE DEF rows
  <1>3. ASSUME NEW i \in DOMAIN rows PROVE A!Lets(f, rows[i])
    <2>1. i \in 1 .. Len(s) + Len(p)
      BY <1>2
    <2>2. rows[i] = IF i <= Len(s) THEN s[i] ELSE p[i - Len(s)]
      BY <1>1, <2>1 DEF rows
    <2>3. CASE i <= Len(s)
      <3>1. i \in DOMAIN s
        BY <1>2, <2>1, <2>3
      <3> QED BY <2>2, <2>3, <3>1 DEF RowsLet
    <2>4. CASE ~(i <= Len(s))
      <3>1. i - Len(s) \in DOMAIN p
        BY <1>2, <2>1, <2>4
      <3> QED BY <2>2, <2>4, <3>1 DEF RowsLet
    <2> QED BY <2>3, <2>4
  <1> QED BY <1>2, <1>3 DEF RowsLet, rows

\* A page is answered: what was up to date goes on where it ended.
LEMMA PageRead ==
    ASSUME A!ActivityAssumption, NEW f, NEW Q \in Seq(Rows), RowsLet(f, Q),
           NEW n \in A!FetchType, n.read, FetchGood(Q, n)
    PROVE  LET rows == n.rows \o n.page
           IN  /\ UpTo(Q, rows) /\ (n.more <=> Len(Q) > Len(rows))
               /\ n.more => Len(rows) = PageSize * (n.pages + 1)
  <1> DEFINE m == PageSize * n.pages
             e == A!Min({m + PageSize, Len(Q)})
             rows == n.rows \o n.page
  <1>1. m \in Nat /\ PageSize \in Nat /\ PageSize > 0 /\ Len(Q) \in Nat
        /\ PageSize * (n.pages + 1) = m + PageSize
    BY DEF A!ActivityAssumption, A!FetchType
  <1>2. /\ Len(n.rows) <= Len(Q) /\ n.rows = SubSeq(Q, 1, m) /\ Len(n.rows) = m
        /\ n.page = PageAfter(Q, m) /\ (n.more <=> Len(Q) > m + PageSize)
    BY DEF FetchGood, UpTo
  <1> HIDE DEF m
  <1>3. e = IF m + PageSize <= Len(Q) THEN m + PageSize ELSE Len(Q)
    BY <1>1, MinOfTwo
  <1>4. /\ PageAfter(Q, m) \in Seq(Rows) /\ Len(PageAfter(Q, m)) = e - m
        /\ SubSeq(Q, 1, m) \o PageAfter(Q, m) = SubSeq(Q, 1, e)
    BY <1>1, <1>2, PageLet
  <1> HIDE DEF e
  <1>5. rows = SubSeq(Q, 1, e)
    BY <1>2, <1>4
  <1>6. Len(rows) = e
    <2>1. e \in Nat /\ e <= Len(Q)
      BY <1>1, <1>3
    <2>2. Len(SubSeq(Q, 1, e)) = IF 1 <= e THEN e - 1 + 1 ELSE 0
      <3>1. \A i \in 1 .. e : Q[i] \in Rows
        BY <2>1, <1>1
      <3> QED BY <2>1, <3>1, SubSeqProperties
    <2> QED BY <1>5, <2>1, <2>2
  <1> HIDE DEF rows
  <1>7. UpTo(Q, rows)
    BY <1>1, <1>3, <1>5, <1>6 DEF UpTo
  <1>8. /\ n.more <=> Len(Q) > Len(rows)
        /\ n.more => Len(rows) = m + PageSize
    BY <1>1, <1>2, <1>3, <1>6
  <1> QED BY <1>1, <1>7, <1>8 DEF rows

LEMMA ActivityTyped ==
    ASSUME ActivityInv, NEW f \in Filters
    PROVE  /\ cache[f] \in A!ListType /\ fetch[f] \in A!FetchType
           /\ Sound(f, cache[f], fetch[f])
           /\ Good(A!Listed(f), cache[f], fetch[f], changed)
           /\ RowsLet(f, cache[f].rows) /\ RowsLet(f, fetch[f].rows) /\ RowsLet(f, fetch[f].page)
  BY DEF ActivityInv, Sound

LEMMA ListedTyped ==
    ASSUME A!ActivityAssumption, ActivityInv, NEW f
    PROVE  A!Listed(f) \in Seq(Rows) /\ RowsLet(f, A!Listed(f))
  <1>1. ledger \in SUBSET Rows
    BY DEF ActivityInv
  <1> QED BY <1>1, ListedType DEF A!Listed

\* Another address.
LEMMA ShowSteps ==
    ASSUME A!ActivityAssumption, ActivityInv, NEW u \in A!Url, A!Show(u),
           waiting' \in A!Url \cup {A!NoUrl}
    PROVE  ActivityInv'
  <1> DEFINE f == A!FiltersOf(u)
  <1>1. /\ url' = u /\ f \in Filters /\ ledger' = ledger /\ changed' = changed
        /\ previous' = IF A!HasData(f) THEN f ELSE previous
    BY DEF A!Show
  <1>2. previous' \in Filters \cup {A!NoFilters}
    BY <1>1 DEF ActivityInv
  <1>3. \/ /\ f # A!Current /\ A!Idle(f)
           /\ fetch' = [fetch EXCEPT ![f] = A!Refetch(f)]
           /\ cache' = [cache EXCEPT ![f].failed = cache[f].failed /\ A!HasData(f)]
        \/ /\ f = A!Current \/ ~A!Idle(f) \/ (A!HasData(f) /\ ~cache[f].invalid)
           /\ UNCHANGED <<fetch, cache>>
    BY DEF A!Show
  <1> HIDE DEF f
  <1>5. /\ cache[f] \in A!ListType /\ fetch[f] \in A!FetchType /\ RowsLet(f, cache[f].rows)
        /\ Good(A!Listed(f), cache[f], fetch[f], changed)
    BY <1>1, ActivityTyped
  <1>6. CASE /\ f # A!Current /\ A!Idle(f)
             /\ fetch' = [fetch EXCEPT ![f] = A!Refetch(f)]
             /\ cache' = [cache EXCEPT ![f].failed = cache[f].failed /\ A!HasData(f)]
    <2> DEFINE lost == cache[f].failed /\ A!HasData(f)
               c == [cache[f] EXCEPT !.failed = lost]
               n == A!Refetch(f)
    <2>1. lost \in BOOLEAN
      BY <1>5 DEF A!ListType
    <2>2. cache' = [cache EXCEPT ![f] = c]
      BY <1>6
    <2> HIDE DEF lost
    <2>3. /\ c \in A!ListType /\ c.pages = cache[f].pages /\ c.rows = cache[f].rows
          /\ c.more = cache[f].more /\ c.invalid = cache[f].invalid /\ c.old = cache[f].old
      BY <1>5, <2>1 DEF A!ListType
    <2> HIDE DEF c
    <2>4. /\ n \in A!FetchType /\ n.to # 0 /\ n.pages = 0 /\ n.rows = <<>> /\ ~n.read
          /\ Sound(f, c, n)
      BY <1>1, <1>5, <2>3, RefetchSound
    <2>5. FetchGood(A!Listed(f), n)
      BY <2>4, ListedTyped, NothingRead
    <2>6. Good(A!Listed(f), c, n, changed) /\ Looked(c, n)
      BY <1>5, <2>3, <2>4, <2>5 DEF Good, ListGood, Looked
    <2>7. fetch' = [fetch EXCEPT ![f] = n]
      BY <1>6
    <2> HIDE DEF n
    <2> QED BY <1>1, <1>2, <2>2, <2>3, <2>4, <2>6, <2>7, OneList DEF f
  <1>7. CASE /\ f = A!Current \/ ~A!Idle(f) \/ (A!HasData(f) /\ ~cache[f].invalid)
             /\ UNCHANGED <<fetch, cache>>
    <2>1. A!Current' = f
      BY <1>1 DEF A!Current, f
    <2>2. Looked(cache[f], fetch[f])
      BY <1>5, <1>7 DEF Looked, ActivityInv, A!Idle, A!HasData, A!FetchType
    <2>3. \A g : A!Listed(g)' = A!Listed(g)
      BY <1>1 DEF A!Listed
    <2> QED BY <1>1, <1>2, <1>7, <2>1, <2>2, <2>3 DEF ActivityInv
  <1> QED BY <1>3, <1>6, <1>7

\* The server reads the next page of a fetch.
LEMMA ReadSteps ==
    ASSUME A!ActivityAssumption, ActivityInv, NEW f \in Filters, A!ReadPage(f)
    PROVE  ActivityInv'
  <1> DEFINE m == fetch[f]
             Q == A!Listed(f)
             got == PageAfter(Q, PageSize * m.pages)
             more == Len(Q) > PageSize * m.pages + PageSize
             n == [m EXCEPT !.read = TRUE, !.page = got, !.more = more]
  <1>1. /\ ~A!Idle(f)
        /\ fetch' = [fetch EXCEPT ![f] = n]
        /\ UNCHANGED <<url, waiting, ledger, changed, cache, previous>>
    BY Zenon DEF A!ReadPage, PageAfter
  <1>2. Q \in Seq(Rows) /\ RowsLet(f, Q)
    BY ListedTyped
  <1>3. m \in A!FetchType /\ RowsLet(f, m.rows) /\ cache[f] \in A!ListType /\ m.to # 0
        /\ Sound(f, cache[f], m) /\ Good(Q, cache[f], m, changed)
    BY <1>1, ActivityTyped DEF A!Idle
  <1> HIDE DEF m, Q
  <1>4. got \in Seq(Rows) /\ RowsLet(f, got)
    <2>1. PageSize * m.pages \in Nat
      BY <1>3 DEF A!ActivityAssumption, A!FetchType
    <2> QED BY <1>2, <2>1, PageLet
  <1>5. more \in BOOLEAN
    OBVIOUS
  <1> HIDE DEF got, more
  <1>6. /\ n \in A!FetchType /\ n.pages = m.pages /\ n.rows = m.rows /\ n.to = m.to
        /\ n.page = got /\ (n.more <=> more) /\ n.read /\ (n.old <=> m.old)
    BY <1>3, <1>4, <1>5 DEF A!FetchType
  <1> HIDE DEF n
  <1>7. Sound(f, cache[f], n)
    BY <1>3, <1>4, <1>6 DEF Sound
  <1>8. Good(Q, cache[f], n, changed)
    BY <1>3, <1>6 DEF Good, FetchGood, got, more
  <1>9. Looked(cache[f], n)
    BY <1>3, <1>6 DEF Looked
  <1>10. /\ url \in A!Url /\ A!FiltersOf(url) \in Filters /\ waiting \in A!Url \cup {A!NoUrl}
         /\ previous \in Filters \cup {A!NoFilters}
         /\ Looked(cache[A!FiltersOf(url)], fetch[A!FiltersOf(url)])
         /\ cache' = [cache EXCEPT ![f] = cache[f]]
    BY <1>1 DEF ActivityInv, A!Current
  <1> QED BY <1>1, <1>3, <1>6, <1>7, <1>8, <1>9, <1>10, OneList DEF Q

\* The next got of a fetch is answered.
LEMMA PageSteps ==
    ASSUME A!ActivityAssumption, ActivityInv, NEW f \in Filters, A!PageArrives(f)
    PROVE  ActivityInv'
  <1> DEFINE m == fetch[f]
             Q == A!Listed(f)
             rows == m.rows \o m.page
             done == m.pages + 1 = m.to \/ ~m.more
             c == [A!NoList EXCEPT !.pages = m.pages + 1, !.rows = rows, !.more = m.more,
                                   !.old = m.old]
             n == [m EXCEPT !.pages = m.pages + 1, !.rows = rows,
                            !.read = FALSE, !.page = <<>>, !.more = FALSE]
  <1>1. /\ ~A!Idle(f) /\ m.read
        /\ fetch' = [fetch EXCEPT ![f] = IF done THEN A!NoFetch ELSE n]
        /\ cache' = IF ~done THEN cache ELSE [cache EXCEPT ![f] = c]
        /\ previous' \in {f, previous}
        /\ UNCHANGED <<url, waiting, ledger, changed>>
    BY Zenon DEF A!PageArrives
  <1>2. Q \in Seq(Rows) /\ RowsLet(f, Q)
    BY ListedTyped
  <1>3. /\ m \in A!FetchType /\ RowsLet(f, m.rows) /\ RowsLet(f, m.page)
        /\ cache[f] \in A!ListType /\ m.to # 0
        /\ Sound(f, cache[f], m) /\ Good(Q, cache[f], m, changed)
    BY <1>1, ActivityTyped DEF A!Idle
  <1> HIDE DEF m, Q
  <1>4. rows \in Seq(Rows) /\ RowsLet(f, rows)
    <2>1. m.rows \in Seq(Rows) /\ m.page \in Seq(Rows)
      BY <1>3 DEF A!FetchType
    <2> QED BY <1>3, <2>1, JoinLet
  <1>5. m.more \in BOOLEAN /\ m.old \in BOOLEAN /\ m.pages + 1 \in Nat /\ m.pages + 1 > 0
    BY <1>3 DEF A!FetchType
  <1>6. /\ url \in A!Url /\ A!FiltersOf(url) \in Filters /\ waiting \in A!Url \cup {A!NoUrl}
        /\ previous' \in Filters \cup {A!NoFilters}
        /\ Looked(cache[A!FiltersOf(url)], fetch[A!FiltersOf(url)])
        /\ cache \in [Filters -> A!ListType]
    BY <1>1 DEF ActivityInv, A!Current
  <1>7. ~m.old => /\ UpTo(Q, rows) /\ (m.more <=> Len(Q) > Len(rows))
                  /\ m.more => Len(rows) = PageSize * (m.pages + 1)
    <2> SUFFICES ASSUME ~m.old
                 PROVE  /\ UpTo(Q, rows) /\ (m.more <=> Len(Q) > Len(rows))
                        /\ m.more => Len(rows) = PageSize * (m.pages + 1)
      OBVIOUS
    <2>1. FetchGood(Q, m)
      BY <1>3 DEF Good
    <2> QED BY <1>1, <1>2, <1>3, <2>1, PageRead
  <1> HIDE DEF rows
  <1>8. CASE done
    <2>1. A!NoFetch \in A!FetchType /\ A!NoFetch.to = 0 /\ RowsLet(f, A!NoFetch.rows)
          /\ RowsLet(f, A!NoFetch.page)
      BY DEF A!NoFetch, A!FetchType, RowsLet
    <2>2. A!NoList \in A!ListType /\ ~A!NoList.invalid
      BY DEF A!NoList, A!ListType
    <2>3. c \in A!ListType
      BY <1>4, <1>5, <2>2 DEF A!ListType
    <2>4. cache' = [cache EXCEPT ![f] = c] /\ fetch' = [fetch EXCEPT ![f] = A!NoFetch]
      BY <1>1, <1>8
    <2>5. /\ c.pages # 0 /\ c.rows = rows /\ ~c.invalid /\ c.pages = m.pages + 1
          /\ (c.more <=> m.more) /\ (c.old <=> m.old)
      BY <1>4, <1>5, <2>2 DEF A!ListType
    <2> HIDE DEF c
    <2>6. Sound(f, c, A!NoFetch)
      BY <1>4, <2>1, <2>3, <2>5 DEF Sound
    <2>7. Good(Q, c, A!NoFetch, changed)
      BY <1>7, <2>1, <2>5 DEF Good, ListGood
    <2>8. Looked(c, A!NoFetch)
      BY <2>5 DEF Looked
    <2> QED BY <1>1, <1>6, <2>1, <2>3, <2>4, <2>6, <2>7, <2>8, OneList DEF Q
  <1>9. CASE ~done
    <2>1. /\ n \in A!FetchType /\ n.pages = m.pages + 1 /\ n.rows = rows /\ n.to = m.to
          /\ ~n.read /\ n.page = <<>> /\ (n.old <=> m.old)
      <3>1. n = [m EXCEPT !.pages = m.pages + 1, !.rows = rows,
                          !.read = FALSE, !.page = <<>>, !.more = FALSE]
        BY Zenon
      <3> HIDE DEF n
      <3> DEFINE r == [next |-> m.next, to |-> m.to, pages |-> m.pages + 1, rows |-> rows,
                       read |-> FALSE, page |-> <<>>, more |-> FALSE, old |-> m.old]
      <3>2. n = r
        BY <1>3, <3>1 DEF A!FetchType
      <3>3. r \in A!FetchType
        BY <1>3, <1>4, <1>5 DEF A!FetchType
      <3> QED BY ONLY <3>2, <3>3
    <2>2. m.pages + 1 # m.to /\ m.more
      BY <1>9
    <2>3. cache' = [cache EXCEPT ![f] = cache[f]] /\ fetch' = [fetch EXCEPT ![f] = n]
      BY <1>1, <1>6, <1>9
    <2> HIDE DEF n, done
    <2>4. cache[f].pages # 0
      BY <1>3, <2>2 DEF Sound
    <2>5. RowsLet(f, n.page)
      BY <2>1 DEF RowsLet
    <2>6. Sound(f, cache[f], n)
      BY <1>3, <1>4, <2>1, <2>4, <2>5 DEF Sound
    <2>7. Good(Q, cache[f], n, changed)
      BY <1>3, <1>7, <2>1, <2>2 DEF Good, FetchGood
    <2>8. Looked(cache[f], n)
      BY <1>3, <2>1 DEF Looked
    <2> QED BY <1>1, <1>3, <1>6, <2>1, <2>3, <2>6, <2>7, <2>8, OneList DEF Q
  <1> QED BY <1>8, <1>9

\* A page fetch fails.
LEMMA FailSteps ==
    ASSUME A!ActivityAssumption, ActivityInv, NEW f \in Filters, A!Fails(f)
    PROVE  ActivityInv'
  <1> DEFINE c == [cache[f] EXCEPT !.failed = TRUE, !.invalid = TRUE, !.old = FALSE]
             n == A!NoFetch
  <1>1. /\ cache' = [cache EXCEPT ![f].failed = TRUE, ![f].invalid = TRUE, ![f].old = FALSE]
        /\ fetch' = [fetch EXCEPT ![f] = n]
        /\ UNCHANGED <<url, waiting, ledger, changed, previous>>
    BY DEF A!Fails
  <1>2. cache[f] \in A!ListType /\ RowsLet(f, cache[f].rows)
    BY ActivityTyped
  <1>3. /\ url \in A!Url /\ A!FiltersOf(url) \in Filters /\ waiting \in A!Url \cup {A!NoUrl}
        /\ previous \in Filters \cup {A!NoFilters}
        /\ Looked(cache[A!FiltersOf(url)], fetch[A!FiltersOf(url)])
        /\ cache \in [Filters -> A!ListType]
    BY DEF ActivityInv, A!Current
  <1>4. cache' = [cache EXCEPT ![f] = c]
    BY <1>1, <1>3
  <1>5. c \in A!ListType /\ c.rows = cache[f].rows /\ c.failed /\ c.invalid
    BY <1>2 DEF A!ListType
  <1> HIDE DEF c
  <1>6. n \in A!FetchType /\ n.to = 0 /\ RowsLet(f, n.rows) /\ RowsLet(f, n.page)
    BY DEF A!NoFetch, A!FetchType, RowsLet
  <1> HIDE DEF n
  <1>7. Sound(f, c, n) /\ Good(A!Listed(f), c, n, changed) /\ Looked(c, n)
    BY <1>2, <1>5, <1>6 DEF Sound, Good, Looked
  <1> QED BY <1>1, <1>3, <1>4, <1>5, <1>6, <1>7, OneList

\* "Load 50 more".
LEMMA MoreSteps ==
    ASSUME A!ActivityAssumption, ActivityInv, A!LoadMore
    PROVE  ActivityInv'
  <1> DEFINE f == A!Current
             c == cache[f]
             p == c.pages
             b == c.old \/ c.invalid \/ changed
             n == [A!NoFetch EXCEPT !.next = TRUE, !.to = p + 1, !.pages = p, !.rows = c.rows,
                                    !.old = b]
  <1>1. /\ A!HasData(f) /\ c.more /\ fetch' = [fetch EXCEPT ![f] = n]
        /\ UNCHANGED <<url, waiting, ledger, changed, cache, previous>>
    BY DEF A!LoadMore
  <1>2. /\ url \in A!Url /\ f = A!FiltersOf(url) /\ f \in Filters
        /\ waiting \in A!Url \cup {A!NoUrl} /\ changed \in BOOLEAN
        /\ previous \in Filters \cup {A!NoFilters}
        /\ cache \in [Filters -> A!ListType]
    BY DEF ActivityInv, A!Current
  <1> HIDE DEF f
  <1>3. c \in A!ListType /\ RowsLet(f, c.rows) /\ p > 0
        /\ Good(A!Listed(f), c, fetch[f], changed)
    BY <1>1, <1>2, ActivityTyped DEF A!HasData
  <1>4. cache' = [cache EXCEPT ![f] = c]
    BY <1>1, <1>2
  <1> HIDE DEF c
  <1>5. b \in BOOLEAN /\ p \in Nat /\ c.rows \in Seq(Rows)
    BY <1>3 DEF A!ListType
  <1> HIDE DEF p, b
  <1>6. /\ n \in A!FetchType /\ n.to = p + 1 /\ n.rows = c.rows /\ n.pages = p /\ n.page = <<>>
        /\ ~n.read /\ (n.old <=> b)
    <2>1. p + 1 \in Nat
      BY <1>5
    <2>2. n = [A!NoFetch EXCEPT !.next = TRUE, !.to = p + 1, !.pages = p, !.rows = c.rows,
                                !.old = b]
      BY Zenon
    <2> HIDE DEF n
    <2> DEFINE r == [next |-> TRUE, to |-> p + 1, pages |-> p, rows |-> c.rows,
                     read |-> FALSE, page |-> <<>>, more |-> FALSE, old |-> b]
    <2>3. n = r
      BY <2>2 DEF A!NoFetch
    <2>4. r \in A!FetchType
      BY <1>5, <2>1 DEF A!FetchType
    <2> QED BY ONLY <2>3, <2>4
  <1> HIDE DEF n
  <1>7. Sound(f, c, n)
    <2>1. RowsLet(f, n.page)
      BY <1>6 DEF RowsLet
    <2>2. c.pages # 0
      BY <1>3 DEF p
    <2> QED BY <1>3, <1>6, <2>1, <2>2 DEF Sound
  <1>8. Good(A!Listed(f), c, n, changed)
    <2>1. ASSUME ~n.old PROVE FetchGood(A!Listed(f), n)
      <3>1. ListGood(A!Listed(f), c)
        BY <1>3, <1>6, <2>1 DEF Good, b, p
      <3> QED BY <1>1, <1>6, <3>1 DEF ListGood, FetchGood, p
    <2> QED BY <1>3, <2>1 DEF Good
  <1>9. Looked(c, n)
    BY <1>5, <1>6 DEF Looked
  <1> QED BY <1>1, <1>2, <1>3, <1>4, <1>6, <1>7, <1>8, <1>9, OneList

\* "Try again".
LEMMA RetrySteps ==
    ASSUME A!ActivityAssumption, ActivityInv, A!Retry
    PROVE  ActivityInv'
  <1> DEFINE f == A!Current
             c == [cache[f] EXCEPT !.failed = FALSE]
             n == A!Refetch(f)
  <1>1. /\ fetch' = [fetch EXCEPT ![f] = n] /\ cache' = [cache EXCEPT ![f].failed = FALSE]
        /\ UNCHANGED <<url, waiting, ledger, changed, previous>>
    BY DEF A!Retry
  <1>2. /\ url \in A!Url /\ f = A!FiltersOf(url) /\ f \in Filters
        /\ waiting \in A!Url \cup {A!NoUrl}
        /\ previous \in Filters \cup {A!NoFilters}
        /\ cache \in [Filters -> A!ListType]
    BY DEF ActivityInv, A!Current
  <1> HIDE DEF f
  <1>3. /\ cache[f] \in A!ListType /\ RowsLet(f, cache[f].rows)
        /\ Good(A!Listed(f), cache[f], fetch[f], changed)
    BY <1>2, ActivityTyped
  <1>4. cache' = [cache EXCEPT ![f] = c]
    BY <1>1, <1>2
  <1>5. /\ c \in A!ListType /\ c.pages = cache[f].pages /\ c.rows = cache[f].rows
        /\ c.more = cache[f].more /\ c.invalid = cache[f].invalid /\ c.old = cache[f].old
    BY <1>3 DEF A!ListType
  <1> HIDE DEF c
  <1>6. /\ n \in A!FetchType /\ n.to # 0 /\ n.pages = 0 /\ n.rows = <<>> /\ ~n.read
        /\ Sound(f, c, n)
    BY <1>2, <1>3, <1>5, RefetchSound
  <1> HIDE DEF n
  <1>7. FetchGood(A!Listed(f), n)
    BY <1>6, ListedTyped, NothingRead
  <1>8. Good(A!Listed(f), c, n, changed) /\ Looked(c, n)
    BY <1>3, <1>5, <1>6, <1>7 DEF Good, ListGood, Looked
  <1> QED BY <1>1, <1>2, <1>4, <1>5, <1>6, <1>8, OneList

\* The answer to a change: the list on the screen is fetched again, the others when they are shown.
LEMMA ArriveSteps ==
    ASSUME A!ActivityAssumption, ActivityInv, A!ChangeArrives
    PROVE  ActivityInv'
  <1> DEFINE cur == A!Current
             lost(f) == cache[f].failed /\ (A!HasData(f) \/ f # cur)
             c(f) == [cache[f] EXCEPT !.invalid = A!HasData(f), !.old = FALSE, !.failed = lost(f)]
             kept(f) == f # cur \/ ~A!HasData(f)
             n(f) == [A!Invalidated(f) EXCEPT !.old = @ /\ kept(f)]
  <1>1. /\ changed' = FALSE /\ fetch' = [f \in Filters |-> n(f)]
        /\ cache' = [f \in Filters |-> c(f)]
        /\ UNCHANGED <<url, waiting, ledger, previous>>
    BY DEF A!ChangeArrives
  <1>2. cur \in Filters /\ cur = A!FiltersOf(url)
    BY DEF ActivityInv, A!Current
  <1>3. ASSUME NEW f \in Filters
        PROVE  /\ c(f) \in A!ListType /\ n(f) \in A!FetchType /\ Sound(f, c(f), n(f))
               /\ Good(A!Listed(f), c(f), n(f), FALSE)
               /\ f = cur => Looked(c(f), n(f))
    <2>1. /\ cache[f] \in A!ListType /\ fetch[f] \in A!FetchType /\ Sound(f, cache[f], fetch[f])
          /\ Good(A!Listed(f), cache[f], fetch[f], changed)
      BY ActivityTyped
    <2>2. A!HasData(f) \in BOOLEAN /\ lost(f) \in BOOLEAN
      BY <2>1 DEF A!HasData, A!ListType
    <2>3. A!HasData(f) <=> cache[f].pages > 0
      BY DEF A!HasData
    <2>4. A!Listed(f) \in Seq(Rows)
      BY ListedTyped
    <2> HIDE DEF lost, cur
    <2>5. /\ c(f) \in A!ListType /\ c(f).pages = cache[f].pages /\ c(f).rows = cache[f].rows
          /\ c(f).invalid <=> c(f).pages > 0
      <3> DEFINE b == A!HasData(f)
                 d == [cache[f] EXCEPT !.invalid = b, !.old = FALSE, !.failed = lost(f)]
      <3>1. b \in BOOLEAN /\ (b <=> cache[f].pages > 0)
        BY <2>2, <2>3
      <3> HIDE DEF b
      <3>2. /\ d \in A!ListType /\ d.pages = cache[f].pages /\ d.rows = cache[f].rows
            /\ d.invalid = b
        BY <2>1, <2>2, <3>1 DEF A!ListType
      <3>3. d = c(f)
        BY DEF b
      <3> HIDE DEF d, c
      <3> QED BY <3>1, <3>2, <3>3
    <2> HIDE DEF c
    <2>6. CASE f = cur /\ (A!Idle(f) \/ A!HasData(f))
      <3>1. n(f) = A!Refetch(f)
        <4>1. A!Invalidated(f) = A!Refetch(f)
          BY <2>6 DEF A!Invalidated, cur
        <4>2. A!Refetch(f) = [A!Refetch(f) EXCEPT !.old = @ /\ kept(f)]
          <5> DEFINE r == A!Refetch(f)
          <5>1. r \in A!FetchType /\ r.old = FALSE
            <6>1. r.old = FALSE
              BY DEF A!Refetch, A!NoFetch
            <6>2. r \in A!FetchType
              <7> HIDE DEF r
              <7>1. RowsLet(f, cache[f].rows)
                BY <2>1 DEF Sound
              <7> QED BY <2>1, <7>1, RefetchSound DEF r
            <6> QED BY <6>1, <6>2
          <5> HIDE DEF r
          <5>2. r = [r EXCEPT !.old = @ /\ kept(f)]
            BY <5>1 DEF A!FetchType
          <5> QED BY <5>2 DEF r
        <4> QED BY <4>1, <4>2
      <3> HIDE DEF n
      <3>2. /\ n(f) \in A!FetchType /\ n(f).to # 0 /\ n(f).pages = 0 /\ n(f).rows = <<>>
            /\ ~n(f).read /\ Sound(f, c(f), n(f))
        BY <2>1, <2>5, <3>1, RefetchSound DEF Sound
      <3>3. FetchGood(A!Listed(f), n(f))
        BY <2>4, <3>2, NothingRead
      <3> QED BY <2>5, <3>2, <3>3 DEF Good, Looked
    <2>7. CASE ~(f = cur /\ (A!Idle(f) \/ A!HasData(f)))
      <3>1. n(f) = fetch[f]
        <4>1. A!Invalidated(f) = fetch[f] /\ kept(f)
          BY <2>7 DEF A!Invalidated, cur
        <4> QED BY <2>1, <4>1 DEF A!FetchType
      <3> HIDE DEF n
      <3>2. Sound(f, c(f), n(f))
        BY <2>1, <2>5, <3>1 DEF Sound
      <3>3. n(f).to # 0 /\ ~n(f).old => FetchGood(A!Listed(f), n(f))
        BY <2>1, <3>1 DEF Good
      <3>4. Good(A!Listed(f), c(f), n(f), FALSE)
        BY <2>1, <2>5, <3>3 DEF Good, A!ListType
      <3>5. f = cur => Looked(c(f), n(f))
        <4> SUFFICES ASSUME f = cur PROVE Looked(c(f), n(f))
          OBVIOUS
        <4>1. cache[f].pages = 0
          BY <2>1, <2>3, <2>7 DEF A!ListType
        <4> QED BY <2>5, <4>1 DEF Looked
      <3> QED BY <2>1, <2>5, <3>1, <3>2, <3>4, <3>5
    <2> QED BY <2>6, <2>7
  <1>4. /\ cache' \in [Filters -> A!ListType] /\ fetch' \in [Filters -> A!FetchType]
        /\ \A f \in Filters : cache'[f] = c(f) /\ fetch'[f] = n(f)
    <2> HIDE DEF c, n
    <2> QED BY <1>1, <1>3
  <1>5. \A g : A!Listed(g)' = A!Listed(g)
    BY <1>1 DEF A!Listed
  <1>6. A!Current' = cur
    BY <1>1 DEF A!Current
  <1> HIDE DEF c, n, cur, lost, kept
  <1>8. \A f \in Filters : Sound(f, cache'[f], fetch'[f])
    BY <1>3, <1>4
  <1>9. \A f \in Filters : Good(A!Listed(f)', cache'[f], fetch'[f], changed')
    BY <1>1, <1>3, <1>4, <1>5
  <1>10. Looked(cache'[cur], fetch'[cur])
    BY <1>2, <1>3, <1>4
  <1>11. /\ url' \in A!Url /\ waiting' \in A!Url \cup {A!NoUrl} /\ changed' \in BOOLEAN
         /\ ledger' \in SUBSET Rows /\ previous' \in Filters \cup {A!NoFilters}
    BY <1>1 DEF ActivityInv
  <1> QED BY <1>2, <1>4, <1>6, <1>8, <1>9, <1>10, <1>11 DEF ActivityInv

\* The filters of an address are filters, and their own.
LEMMA FiltersOfType ==
    ASSUME NEW u \in A!Url
    PROVE  A!FiltersOf(u) \in A!Url /\ A!FiltersOf(A!FiltersOf(u)) = A!FiltersOf(u)
  <1> DEFINE drop == u.type # "all" /\ u.kind \notin {"all", KindOf[u.type]}
             t == IF drop THEN "all" ELSE u.type
             v == [u EXCEPT !.type = t]
  <1>1. A!FiltersOf(u) = v
    BY DEF A!FiltersOf
  <1>2. t \in A!Types \cup {"all"} /\ (t # "all" => t = u.type /\ u.kind \in {"all", KindOf[u.type]})
    BY DEF A!Url
  <1> HIDE DEF t
  <1>3. v \in A!Url /\ v.type = t /\ v.kind = u.kind
    BY <1>2 DEF A!Url
  <1> HIDE DEF v
  <1>4. A!FiltersOf(v) = [v EXCEPT !.type = v.type]
    BY <1>2, <1>3 DEF A!FiltersOf
  <1>5. [v EXCEPT !.type = v.type] = v
    BY <1>3 DEF A!Url
  <1> QED BY <1>1, <1>3, <1>4, <1>5

LEMMA ActivitySteps ==
    ASSUME A!ActivityAssumption, ActivityInv, [A!ActivityNext]_(A!activityVars)
    PROVE  ActivityInv'
  <1>1. /\ url \in A!Url /\ A!Current \in Filters /\ waiting \in A!Url \cup {A!NoUrl}
        /\ A!Current \in A!Url /\ A!Current = A!FiltersOf(url)
    <2>1. url \in A!Url /\ A!Current = A!FiltersOf(url) /\ A!Current \in Filters
          /\ waiting \in A!Url \cup {A!NoUrl}
      BY DEF ActivityInv, A!Current
    <2>2. A!Current \in A!Url
      BY <2>1, FiltersOfType
    <2> QED BY <2>1, <2>2
  \* The lists, and what the server has, stay as they are.
  <1>2. ASSUME UNCHANGED <<url, ledger, changed, cache, fetch, previous>>,
               waiting' \in A!Url \cup {A!NoUrl}
        PROVE  ActivityInv'
    <2>1. A!Current' = A!Current
      BY <1>2 DEF A!Current
    <2>2. \A g : A!Listed(g)' = A!Listed(g)
      BY <1>2 DEF A!Listed
    <2> QED BY <1>2, <2>1, <2>2 DEF ActivityInv
  <1>3. CASE UNCHANGED A!activityVars
    BY <1>1, <1>2, <1>3 DEF A!activityVars
  <1>4. ASSUME NEW u \in A!Url, A!Follow(u) PROVE ActivityInv'
    BY <1>1, <1>4, ShowSteps DEF A!Follow
  <1>5. ASSUME NEW k \in A!Kinds \cup {"all"}, A!SelectKind(k) PROVE ActivityInv'
    <2> DEFINE t == IF A!Current.type # "all" /\ k \notin {"all", KindOf[A!Current.type]} THEN "all"
                    ELSE A!Current.type
               u == [url EXCEPT !.kind = k, !.type = t]
    <2>1. t \in A!Types \cup {"all"}
      BY <1>1 DEF A!Url
    <2>2. A!Show(u) /\ UNCHANGED waiting
      BY <1>5 DEF A!SelectKind
    <2> HIDE DEF t
    <2>3. u \in A!Url
      BY <1>1, <2>1 DEF A!Url
    <2> HIDE DEF u
    <2> QED BY <1>1, <2>2, <2>3, ShowSteps
  <1>6. ASSUME NEW t \in A!Types \cup {"all"}, A!SelectType(t) PROVE ActivityInv'
    <2> DEFINE k == IF t = "all" THEN A!Current.kind ELSE KindOf[t]
               u == [url EXCEPT !.type = t, !.kind = k]
    <2>1. k \in A!Kinds \cup {"all"}
      BY <1>1 DEF A!Url, A!Kinds
    <2>2. A!Show(u) /\ UNCHANGED waiting
      BY <1>6 DEF A!SelectType
    <2> HIDE DEF k
    <2>3. u \in A!Url
      BY <1>1, <2>1 DEF A!Url
    <2> HIDE DEF u
    <2> QED BY <1>1, <2>2, <2>3, ShowSteps
  <1>7. ASSUME NEW word \in BOOLEAN, A!Search(word) PROVE ActivityInv'
    <2>1. waiting' \in A!Url
      BY <1>1, <1>7 DEF A!Search, A!Url
    <2> QED BY <1>2, <1>7, <2>1 DEF A!Search
  <1>8. ASSUME NEW f \in Filters, A!ReadPage(f) \/ A!PageArrives(f) \/ A!Fails(f)
        PROVE  ActivityInv'
    BY <1>8, ReadSteps, PageSteps, FailSteps
  <1>9. ASSUME NEW r \in Rows, A!Change(r) PROVE ActivityInv'
    <2> DEFINE b(f) == fetch[f].old \/ fetch[f].read \/ fetch[f].pages > 0
               n(f) == [fetch[f] EXCEPT !.old = b(f)]
    <2>1. /\ changed' = TRUE /\ ledger' \in SUBSET Rows
          /\ fetch' = [f \in Filters |-> n(f)]
          /\ UNCHANGED <<url, waiting, cache, previous>>
      BY <1>9 DEF A!Change, ActivityInv
    <2>2. A!Current' = A!Current
      BY <2>1 DEF A!Current
    <2>3. ASSUME NEW f \in Filters
          PROVE  /\ n(f) \in A!FetchType /\ n(f).to = fetch[f].to
                 /\ Sound(f, cache[f], n(f)) /\ Good(A!Listed(f)', cache[f], n(f), TRUE)
      <3>1. /\ fetch[f] \in A!FetchType /\ Sound(f, cache[f], fetch[f])
            /\ Good(A!Listed(f), cache[f], fetch[f], changed)
        BY ActivityTyped
      <3>2. b(f) \in BOOLEAN /\ A!Listed(f) \in Seq(Rows)
        BY <3>1, ListedTyped DEF A!FetchType
      <3>3. A!Listed(f)' \in Seq(Rows)
        BY <2>1, ListedType DEF A!Listed
      <3> HIDE DEF b
      <3>4. /\ n(f) \in A!FetchType /\ n(f).to = fetch[f].to /\ n(f).pages = fetch[f].pages
            /\ n(f).rows = fetch[f].rows /\ n(f).page = fetch[f].page
            /\ n(f).read = fetch[f].read /\ n(f).old = b(f)
        BY <3>1, <3>2 DEF A!FetchType
      <3> HIDE DEF n
      <3>5. Sound(f, cache[f], n(f))
        BY <3>1, <3>4 DEF Sound
      <3>6. ASSUME n(f).to # 0, ~n(f).old PROVE FetchGood(A!Listed(f)', n(f))
        <4>1. ~fetch[f].old /\ ~fetch[f].read /\ fetch[f].pages = 0
          BY <3>1, <3>4, <3>6 DEF b, A!FetchType
        <4>2. UpTo(A!Listed(f), fetch[f].rows) /\ Len(fetch[f].rows) = PageSize * 0
          BY <3>1, <3>4, <3>6, <4>1 DEF Good, FetchGood
        <4>3. Len(fetch[f].rows) = 0
          BY <4>2 DEF A!ActivityAssumption
        <4>4. fetch[f].rows = <<>>
          BY <3>1, <4>3 DEF A!FetchType
        <4> QED BY <3>3, <3>4, <4>1, <4>4, NothingRead
      <3> QED BY <3>4, <3>5, <3>6 DEF Good
    <2>4. /\ fetch' \in [Filters -> A!FetchType]
          /\ \A f \in Filters : fetch'[f] = n(f)
      <3> HIDE DEF n
      <3> QED BY <2>1, <2>3
    <2>5. Looked(cache'[A!Current], fetch'[A!Current])
      <3>1. fetch'[A!Current].to = fetch[A!Current].to
        BY <1>1, <2>3, <2>4
      <3> QED BY <2>1, <3>1 DEF ActivityInv, Looked
    <2> HIDE DEF n
    <2>6. \A f \in Filters : Sound(f, cache'[f], fetch'[f])
      BY <2>1, <2>3, <2>4
    <2>7. \A f \in Filters : Good(A!Listed(f)', cache'[f], fetch'[f], changed')
      BY <2>1, <2>3, <2>4
    <2>8. /\ url' \in A!Url /\ waiting' \in A!Url \cup {A!NoUrl} /\ changed' \in BOOLEAN
          /\ previous' \in Filters \cup {A!NoFilters} /\ cache' \in [Filters -> A!ListType]
      BY <2>1 DEF ActivityInv
    <2> QED BY <1>1, <2>1, <2>2, <2>4, <2>5, <2>6, <2>7, <2>8 DEF ActivityInv
  <1>10. CASE A!Paused
    <2>1. waiting \in A!Url /\ A!Show(waiting) /\ waiting' = A!NoUrl
      BY <1>1, <1>10 DEF A!Paused
    <2> QED BY <2>1, ShowSteps
  <1>11. CASE A!ClearFilters
    <2>1. PICK u \in A!Url : A!Show(u) /\ waiting' = A!NoUrl
      <3>1. [kind |-> "all", type |-> "all", q |-> FALSE] \in A!Url
        BY DEF A!Url
      <3>2. [url EXCEPT !.q = FALSE] \in A!Url
        BY <1>1 DEF A!Url
      <3> QED BY <1>11, <3>1, <3>2 DEF A!ClearFilters
    <2> QED BY <2>1, ShowSteps
  <1>12. CASE A!LoadMore \/ A!Retry \/ A!ChangeArrives
    BY <1>12, MoreSteps, RetrySteps, ArriveSteps
  <1> QED BY <1>3, <1>4, <1>5, <1>6, <1>7, <1>8, <1>9, <1>10, <1>11, <1>12 DEF A!ActivityNext

LEMMA ActivityBegins ==
    ASSUME A!ActivityAssumption, A!ActivityInit
    PROVE  ActivityInv
  <1>1. url \in A!Url /\ A!Current = url /\ url \in Filters
    <2>1. PICK u \in A!Url : url = A!FiltersOf(u)
      BY DEF A!ActivityAssumption, A!ActivityInit
    <2> QED BY <2>1, FiltersOfType DEF A!Current, A!ActivityInit
  <1> DEFINE One == [next |-> FALSE, to |-> 1, pages |-> 0, rows |-> <<>>,
                     read |-> FALSE, page |-> <<>>, more |-> FALSE, old |-> FALSE]
  <1>3. /\ A!NoList \in A!ListType /\ A!NoList.pages = 0 /\ A!NoList.rows = <<>>
        /\ A!NoFetch \in A!FetchType /\ A!NoFetch.to = 0 /\ A!NoFetch.rows = <<>>
        /\ A!NoFetch.page = <<>>
        /\ [A!NoFetch EXCEPT !.to = 1] = One
    <2>1. A!NoList \in A!ListType /\ A!NoList.pages = 0 /\ A!NoList.rows = <<>>
      BY DEF A!NoList, A!ListType
    <2>2. A!NoFetch \in A!FetchType /\ A!NoFetch.to = 0 /\ A!NoFetch.rows = <<>>
        /\ A!NoFetch.page = <<>>
      BY DEF A!NoFetch, A!FetchType
    <2>3. [A!NoFetch EXCEPT !.to = 1] = One
      BY BegunFetch, Zenon
    <2> QED BY <2>1, <2>2, <2>3
  <1>4. One \in A!FetchType /\ One.rows = <<>> /\ One.pages = 0 /\ One.page = <<>> /\ One.to = 1
        /\ ~One.read
    BY DEF A!FetchType
  <1>5. ASSUME NEW f \in Filters
        PROVE  /\ cache[f] = A!NoList /\ fetch[f] = IF f = url THEN One ELSE A!NoFetch
               /\ fetch[f] \in A!FetchType
               /\ Sound(f, cache[f], fetch[f]) /\ Good(A!Listed(f), cache[f], fetch[f], changed)
               /\ Looked(cache[f], fetch[f])
    <2>1. cache[f] = A!NoList /\ fetch[f] = IF f = url THEN One ELSE A!NoFetch
      BY <1>1, <1>3 DEF A!ActivityInit
    <2> HIDE DEF One
    <2>2. A!Listed(f) \in Seq(Rows)
      BY ListedType DEF A!Listed, A!ActivityInit
    <2>3. \A e : RowsLet(e, <<>>)
      BY DEF RowsLet
    <2>4. Sound(f, cache[f], fetch[f])
      BY <1>3, <1>4, <2>1, <2>3 DEF Sound, One
    <2>5. fetch[f].to # 0 => FetchGood(A!Listed(f), fetch[f])
      BY <1>3, <1>4, <2>1, <2>2, NothingRead
    <2>6. Good(A!Listed(f), cache[f], fetch[f], changed) /\ Looked(cache[f], fetch[f])
      BY <1>3, <2>1, <2>5 DEF Good, Looked
    <2> QED BY <1>3, <1>4, <2>1, <2>4, <2>6
  <1>6. cache \in [Filters -> A!ListType] /\ fetch \in [Filters -> A!FetchType]
    <2>1. DOMAIN cache = Filters /\ DOMAIN fetch = Filters
          /\ cache = [f \in Filters |-> cache[f]] /\ fetch = [f \in Filters |-> fetch[f]]
      BY DEF A!ActivityInit
    <2>2. \A f \in Filters : cache[f] \in A!ListType /\ fetch[f] \in A!FetchType
      BY <1>3, <1>5
    <2> QED BY <2>1, <2>2
  <1>7. /\ ledger \in SUBSET Rows /\ waiting = A!NoUrl /\ changed = FALSE /\ previous = A!NoFilters
    BY DEF A!ActivityInit
  <1> QED BY <1>1, <1>5, <1>6, <1>7 DEF ActivityInv

\* A list that is settled is the server's, and every row of it is let through by its filters.
LEMMA ActivityHolds ==
    ASSUME A!ActivityAssumption, ActivityInv
    PROVE  A!ActivityCurrent
  <1> DEFINE f == A!Current
             c == cache[f]
             Q == A!Listed(f)
  <1>1. f \in Filters /\ Looked(c, fetch[f])
    BY DEF ActivityInv
  <1>2. c \in A!ListType /\ RowsLet(f, c.rows) /\ fetch[f] \in A!FetchType
        /\ Good(Q, c, fetch[f], changed)
    BY <1>1, ActivityTyped
  <1>3. Q \in Seq(Rows)
    BY ListedTyped
  <1>4. ASSUME A!Settled(f), ~c.old PROVE A!Accurate(f)
    <2>1. ~changed /\ c.pages > 0 /\ fetch[f].to = 0 /\ ~c.failed
      BY <1>4 DEF A!Settled, A!HasData, A!Idle
    <2>2. ListGood(Q, c)
      BY <1>1, <1>2, <1>4, <2>1 DEF Good, Looked
    <2>3. UpTo(Q, c.rows) /\ (c.more <=> Len(Q) > Len(c.rows)) /\ c.more \in BOOLEAN
      BY <1>2, <2>2 DEF ListGood, A!ListType
    <2> HIDE DEF Q, c, f
    <2>4. c.more = (Len(Q) > Len(c.rows))
      BY <2>3
    <2> QED BY <2>3, <2>4 DEF A!Accurate, UpTo, Q, c
  <1>5. ASSUME ~A!Updating, NEW i \in DOMAIN A!Shown PROVE A!Lets(f, A!Shown[i])
    <2>1. A!Shown = c.rows
      BY <1>5 DEF A!Updating, A!Shown
    <2> QED BY <1>2, <1>5, <2>1 DEF RowsLet
  <1> QED BY <1>4, <1>5 DEF A!ActivityCurrent, A!ListRefreshed, A!ShownMatch

LEMMA ActivityInvariant == ASSUME A!ActivityAssumption PROVE A!ActivitySpec => []ActivityInv
  <1>1. A!ActivityInit => ActivityInv
    BY ActivityBegins
  <1>2. ActivityInv /\ [A!ActivityNext]_(A!activityVars) => ActivityInv'
    BY ActivitySteps
  <1> QED BY <1>1, <1>2, PTL DEF A!ActivitySpec

\* A settled list of the activity is the server's, after every change and whatever is still under way,
\* and shows nothing its filters keep out.
LEMMA ActivityStaysCurrent ==
    ASSUME A!ActivityAssumption PROVE A!ActivitySpec => []A!ActivityCurrent
  <1>1. ActivityInv => A!ActivityCurrent
    BY ActivityHolds
  <1> QED BY <1>1, ActivityInvariant, PTL

LEMMA ActivityKeepsTypes == ASSUME A!ActivityAssumption PROVE A!ActivitySpec => []A!WebTypeOK
  <1>1. ActivityInv => A!WebTypeOK
    BY DEF ActivityInv, A!WebTypeOK
  <1> QED BY <1>1, ActivityInvariant, PTL

-----------------------------------------------------------------------------
(* The pages together *)

\* A behaviour is that of one page, and stays it.
LEMMA PartKept == ASSUME NEW p PROVE part # p /\ [ViewsNext]_viewsVars => (part # p)'
  BY DEF ViewsNext, viewsVars

\* What holds of a page by itself holds of it here.
LEMMA CachePart == ViewsSpec => [](part = "cache" => C!WebTypeOK /\ C!FiguresCurrent)
  <1>1. ViewsInit /\ part = "cache" => C!CacheInit
    BY DEF ViewsInit
  <1>2. part = "cache" /\ [ViewsNext]_viewsVars => (part = "cache")' /\ [C!CacheNext]_(C!cacheVars)
    BY DEF ViewsNext, viewsVars, C!cacheVars, ofCache
  <1>3. C!CacheSpec => []C!WebTypeOK /\ []C!FiguresCurrent
    BY ViewsAssumption, CacheKeepsTypes, FiguresStayCurrent
  <1>4. ~(part = "cache") /\ [ViewsNext]_viewsVars => (~(part = "cache"))'
    BY PartKept
  <1> QED BY <1>1, <1>2, <1>3, <1>4, PTL DEF ViewsSpec, C!CacheSpec

LEMMA AccountsPart == ViewsSpec => [](part = "accounts" => L!WebTypeOK /\ L!MissingIsNamed)
  <1>1. ViewsInit /\ part = "accounts" => L!AccountsInit
    BY DEF ViewsInit
  <1>2. part = "accounts" /\ [ViewsNext]_viewsVars => (part = "accounts")' /\ [L!AccountsNext]_(L!accountsVars)
    BY DEF ViewsNext, viewsVars, L!accountsVars, ofAccounts
  <1>3. L!AccountsSpec => []L!WebTypeOK /\ []L!MissingIsNamed
    BY ViewsAssumption, AccountsKeepTypes, MissingAlwaysNamed
  <1>4. ~(part = "accounts") /\ [ViewsNext]_viewsVars => (~(part = "accounts"))'
    BY PartKept
  <1> QED BY <1>1, <1>2, <1>3, <1>4, PTL DEF ViewsSpec, L!AccountsSpec

LEMMA AllocationPart == ViewsSpec => [](part = "allocation" => G!WebTypeOK /\ G!AllocationAddsUp)
  <1>1. ViewsInit /\ part = "allocation" => G!AllocationInit
    BY DEF ViewsInit
  <1>2. part = "allocation" /\ [ViewsNext]_viewsVars => (part = "allocation")' /\ [G!AllocationNext]_(G!allocationVars)
    BY DEF ViewsNext, viewsVars, G!allocationVars, ofAllocation
  <1>3. G!AllocationSpec => []G!WebTypeOK /\ []G!AllocationAddsUp
    BY ViewsAssumption, AllocationKeepsTypes, AllocationSums
  <1>4. ~(part = "allocation") /\ [ViewsNext]_viewsVars => (~(part = "allocation"))'
    BY PartKept
  <1> QED BY <1>1, <1>2, <1>3, <1>4, PTL DEF ViewsSpec, G!AllocationSpec

LEMMA EstatePart == ViewsSpec => [](part = "estate" => W!PlanTypeOK /\ W!EstateAgrees)
  <1>1. ViewsInit /\ part = "estate" => W!EstateInit
    BY DEF ViewsInit
  <1>2. part = "estate" /\ [ViewsNext]_viewsVars => (part = "estate")' /\ [W!EstateNext]_(W!estateVars)
    BY DEF ViewsNext, viewsVars, W!estateVars, ofEstate
  <1>3. W!EstateSpec => []W!PlanTypeOK /\ []W!EstateAgrees
    BY ViewsAssumption, PlansStayWithin, EstatePagesAgree
  <1>4. ~(part = "estate") /\ [ViewsNext]_viewsVars => (~(part = "estate"))'
    BY PartKept
  <1> QED BY <1>1, <1>2, <1>3, <1>4, PTL DEF ViewsSpec, W!EstateSpec

LEMMA ActivityPart == ViewsSpec => [](part = "activity" => A!WebTypeOK /\ A!ActivityCurrent)
  <1>1. ViewsInit /\ part = "activity" => A!ActivityInit
    BY DEF ViewsInit
  <1>2. part = "activity" /\ [ViewsNext]_viewsVars => (part = "activity")' /\ [A!ActivityNext]_(A!activityVars)
    BY DEF ViewsNext, viewsVars, A!activityVars, ofActivity
  <1>3. A!ActivitySpec => []A!WebTypeOK /\ []A!ActivityCurrent
    BY ViewsAssumption, ActivityKeepsTypes, ActivityStaysCurrent
  <1>4. ~(part = "activity") /\ [ViewsNext]_viewsVars => (~(part = "activity"))'
    BY PartKept
  <1> QED BY <1>1, <1>2, <1>3, <1>4, PTL DEF ViewsSpec, A!ActivitySpec

\* Whatever is read, chosen and changed, what a page keeps stays in the type it was given: no copy is
\* malformed, no choice in the address names what does not exist, no tier exceeds the whole.
THEOREM ViewsKeepTypes == ViewsSpec => []WebTypeOK
  BY CachePart, AccountsPart, AllocationPart, EstatePart, ActivityPart, PTL DEF WebTypeOK

\* Once a person is told of a save, no section shows figures from before it, and no settings of
\* another panel are put back (lib/queries.ts, settings-kit.tsx).
THEOREM FiguresAlwaysCurrent == ViewsSpec => []FiguresCurrent
  BY CachePart, PTL DEF FiguresCurrent

\* An account whose value is incomplete is named with what is missing, and the link leads to where
\* it is entered, if what the account holds is quoted in its own currency or the base currency
\* (AccountsPage.tsx, accounts/model.ts).
THEOREM MissingAlwaysShown == ViewsSpec => []MissingIsNamed
  BY AccountsPart, PTL DEF MissingIsNamed

\* Every group of the allocation is the sum of the accounts that it opens on, for any
\* accounts, with any groups left out; the group of the accounts without an institution, which
\* opens on none of them, is excepted (AllocationPage.tsx).
THEOREM AllocationAlwaysAddsUp == ViewsSpec => []AllocationAddsUp
  BY AllocationPart, PTL DEF AllocationAddsUp

\* The pages of a plan call covered only what reaches active beneficiaries of the plan, and an
\* up-to-date form lets through the shares the server takes, once there is a plan
\* (EstateOverviewPage.tsx, TierEditor.tsx).
THEOREM EstateAlwaysAgrees == ViewsSpec => []EstateAgrees
  BY EstatePart, PTL DEF EstateAgrees

\* A settled list of the activity is the server's after every change, and shows nothing its filters
\* keep out.  Excepted is a list with rows from before a change that no fetch was begun again for:
\* more was loaded on to it before its refresh ended, or its fetch was its first or out of view when
\* the change was answered (useActivityLedger.ts).
THEOREM ActivityAlwaysCurrent == ViewsSpec => []ActivityCurrent
  BY ActivityPart, PTL DEF ActivityCurrent

=============================================================================
