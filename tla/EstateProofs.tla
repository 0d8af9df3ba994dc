---------------------------- MODULE EstateProofs ----------------------------
(***************************************************************************)
(* What a request that overlaps no other may rely on, proved for every set *)
(* of workers, lists, beneficiaries and tiers.  EstateInv adds to the type *)
(* invariant:                                                              *)
(*   - TxOK, the shape of the transactions, so that a commit knows what it *)
(*     was asked for;                                                      *)
(*   - AloneOK, that a request which has overlapped no other is the only   *)
(*     one in progress, and that all it has read is still so: of the       *)
(*     beneficiary, the asset, the row it replaces, what the others of the *)
(*     tier are given, the highest version;                                *)
(*   - Numbered, that a version given out, and the summaries that are about*)
(*     to get it, make no more than the workers: no request that begins    *)
(*     later can get a version that is kept.  It bounds the column of      *)
(*     TypeOK, which alone is not inductive.                               *)
(* The total of a tier is a fold over the beneficiaries: GivenAdd takes one*)
(* of them out of it, by the sums of FiniteLemmas.                         *)
(***************************************************************************)
EXTENDS Estate, FiniteLemmas

TxType ==
  [op: {"none", "upsert", "snapshot"},
   pc: {"idle", "included", "existing", "total", "write", "lock", "commit"},
   row: ShareRows \cup {<<>>}, bps: 0 .. Full, found: {"none", "row", "gone"},
   held: ShareRows \cup {Plan, <<>>}, last: 0 .. MaxVersion, seen: 0 .. MaxEdits]

\* Which statements a handler has, and what it was asked for.
TxShape(t) ==
  /\ t.pc \in {"included", "existing", "total", "write"} => t.op = "upsert"
  /\ t.pc = "lock" => t.op = "snapshot"
  /\ t.pc = "commit" => t.op # "none"
  /\ t.op = "upsert" => t.row \in ShareRows /\ t.bps > 0

TxOK ==
  /\ tx \in [Workers -> TxType] /\ edits \in 0 .. MaxEdits
  /\ \A w \in Workers : TxShape(tx[w])

\* The summaries in progress that will get version v.
Numbering(v) == {w \in Workers : tx[w].op = "snapshot" /\ tx[w].last + 1 = v}

\* A version is given out again only by requests that began before it was.
Numbered ==
  \A v \in 1 .. MaxVersion : snapshots[v] + Cardinality(Numbering(v)) <= Cardinality(Workers)

\* What a request has read is still so.
StillSo(t, B, D, S, last) ==
  /\ t.op = "upsert" =>
       /\ B[t.row[2]] = "active"
       /\ t.pc # "included" /\ t.row[1] # Residue => D[t.row[1]] = "included"
       /\ t.pc \in {"total", "write", "commit"} =>
            t.found = IF S[t.row] > 0 THEN "row" ELSE "none"
       /\ t.pc \in {"write", "commit"} =>
            Given(S, t.row[1], t.row[3], Beneficiaries \ {t.row[2]}) + t.bps <= Full
  /\ t.op = "snapshot" => t.last = last

\* A request that has overlapped no other is the only one, and rightly decided.
AloneOK ==
  \A w \in alone :
    /\ w \in Workers /\ \A v \in Workers \ {w} : tx[v].pc = "idle"
    /\ StillSo(tx[w], beneficiary, directive, share, LastVersion)

EstateInv == TypeOK /\ TxOK /\ Numbered /\ AloneOK

-----------------------------------------------------------------------------
(* Shares of a tier *)

\* What is given in a tier is a sum over its beneficiaries.
LEMMA GivenSum ==
    ASSUME NEW S \in [ShareRows -> 0 .. Full], NEW l \in Lists, NEW t \in Tiers,
           NEW B \in SUBSET Beneficiaries
    PROVE  \E g : Sums(g, [b \in B |-> S[<<l, b, t>>]], B) /\ Given(S, l, t, B) = g[B]
  <1> DEFINE f == [b \in B |-> S[<<l, b, t>>]]
             G(h) == [T \in SUBSET B |-> IF T = {} THEN 0
                        ELSE S[<<l, CHOOSE x \in T : TRUE, t>>] + h[T \ {CHOOSE x \in T : TRUE}]]
  <1>1. f \in [B -> Int]
    BY EstateAssumption DEF ShareRows
  <1>2. \A T \in SUBSET B : T # {} => f[CHOOSE x \in T : TRUE] = S[<<l, CHOOSE x \in T : TRUE, t>>]
    OBVIOUS
  <1>3. IsFiniteSet(B)
    BY EstateAssumption, FS_Subset
  <1> HIDE DEF f
  <1>4. PICK g : Sums(g, f, B) /\ \A h : Chosen(h, f, B) <=> h = g
    BY <1>1, <1>3, FiniteSum
  <1>5. ASSUME NEW h PROVE Chosen(h, f, B) <=> h = G(h)
    <2>1. G(h) = [T \in SUBSET B |-> IF T = {} THEN 0
                    ELSE f[CHOOSE x \in T : TRUE] + h[T \ {CHOOSE x \in T : TRUE}]]
      BY <1>2
    <2> QED BY <2>1, Zenon DEF Chosen
  <1>6. Given(S, l, t, B) = (CHOOSE h : h = G(h))[B]
    BY Zenon DEF Given, MapThenSumSet, MapThenFoldSet
  <1> HIDE DEF G
  <1>7. (CHOOSE h : h = G(h)) = g
    BY <1>4, <1>5, Zenon
  <1> QED BY <1>4, <1>6, <1>7, Zenon DEF f

\* One beneficiary's share, and what the others are given.
LEMMA GivenAdd ==
    ASSUME NEW S \in [ShareRows -> 0 .. Full], NEW l \in Lists, NEW t \in Tiers, NEW b \in Beneficiaries
    PROVE  /\ Given(S, l, t, Beneficiaries)
                = S[<<l, b, t>>] + Given(S, l, t, Beneficiaries \ {b})
           /\ Given(S, l, t, Beneficiaries \ {b}) \in Int
           /\ S[<<l, b, t>>] \in Int
  <1> DEFINE B == Beneficiaries
             C == B \ {b}
             f == [x \in B |-> S[<<l, x, t>>]]
             e == [x \in C |-> S[<<l, x, t>>]]
  <1>1. IsFiniteSet(B) /\ B \in SUBSET Beneficiaries /\ C \in SUBSET B
    BY EstateAssumption
  <1>2. PICK g : Sums(g, f, B) /\ Given(S, l, t, B) = g[B]
    BY GivenSum
  <1>3. PICK h : Sums(h, e, C) /\ Given(S, l, t, C) = h[C]
    BY GivenSum
  <1>4. AgreeOn(e, f, C)
    BY DEF AgreeOn
  <1>5. f[b] = S[<<l, b, t>>] /\ S[<<l, b, t>>] \in Int
    BY EstateAssumption DEF ShareRows
  <1> HIDE DEF f, e, B, C
  <1>6. h[C] = g[C]
    BY <1>1, <1>2, <1>3, <1>4, SumsAgree
  <1>7. g[B] = f[b] + g[C]
    BY <1>2, Zenon DEF Sums, B, C
  <1>8. h[C] \in Int
    BY <1>3 DEF Sums
  <1> QED BY <1>2, <1>3, <1>5, <1>6, <1>7, <1>8 DEF B, C

\* The others are given the same when only one share is written.
LEMMA GivenSame ==
    ASSUME NEW S \in [ShareRows -> 0 .. Full], NEW R \in [ShareRows -> 0 .. Full],
           NEW l \in Lists, NEW t \in Tiers, NEW b \in Beneficiaries,
           \A r \in ShareRows : r # <<l, b, t>> => R[r] = S[r]
    PROVE  Given(R, l, t, Beneficiaries \ {b}) = Given(S, l, t, Beneficiaries \ {b})
  <1> DEFINE C == Beneficiaries \ {b}
             f == [x \in C |-> S[<<l, x, t>>]]
             e == [x \in C |-> R[<<l, x, t>>]]
  <1>1. C \in SUBSET Beneficiaries /\ IsFiniteSet(C)
    BY EstateAssumption, FS_Subset
  <1>2. PICK g : Sums(g, f, C) /\ Given(S, l, t, C) = g[C]
    BY <1>1, GivenSum
  <1>3. PICK h : Sums(h, e, C) /\ Given(R, l, t, C) = h[C]
    BY <1>1, GivenSum
  <1>4. AgreeOn(e, f, C) /\ C \in SUBSET C
    <2>1. \A x \in C : <<l, x, t>> \in ShareRows /\ <<l, x, t>> # <<l, b, t>>
      BY DEF ShareRows
    <2> QED BY <2>1 DEF AgreeOn
  <1> HIDE DEF f, e, C
  <1>5. h[C] = g[C]
    BY <1>1, <1>2, <1>3, <1>4, SumsAgree
  <1> QED BY <1>2, <1>3, <1>5 DEF C

-----------------------------------------------------------------------------
(* Versions and transactions *)

\* The highest version kept.
LEMMA LastVersionIs ==
    ASSUME TypeOK
    PROVE  /\ LastVersion \in 0 .. MaxVersion
           /\ LastVersion = 0 \/ snapshots[LastVersion] > 0
           /\ \A v \in 1 .. MaxVersion : v > LastVersion => snapshots[v] = 0
  <1> DEFINE kept == {v \in 1 .. MaxVersion : snapshots[v] > 0}
             S == {0} \cup kept
  <1>0. snapshots \in [1 .. MaxVersion -> Nat] /\ MaxVersion \in Nat
    BY EstateAssumption, FS_CardinalityType DEF TypeOK
  <1>1. S \in SUBSET Int /\ S # {} /\ IsFiniteSet(S)
    <2>1. IsFiniteSet(0 .. MaxVersion) /\ S \in SUBSET (0 .. MaxVersion)
      BY <1>0, FS_Interval
    <2>2. IsFiniteSet(S)
      BY <2>1, FS_Subset
    <2> QED BY <2>1, <2>2
  <1>2. LastVersion = Max(S)
    BY <1>0 DEF LastVersion
  <1>3. LastVersion \in S /\ \A v \in S : LastVersion >= v
    <2> HIDE DEF S
    <2> QED BY <1>1, <1>2, MaxOfFinite
  <1> QED BY <1>0, <1>3

\* The transaction of one worker moves on.
OneMoves(w, u) ==
  /\ tx' = [tx EXCEPT ![w] = u]
  /\ u \in TxType /\ TxShape(u) /\ edits' \in 0 .. MaxEdits
  /\ u.held = <<>> \/ Free(w, u.held)

LEMMA OneTransaction ==
    ASSUME TypeOK, TxOK, NEW w \in Workers, NEW u, OneMoves(w, u)
    PROVE  /\ TxOK'
           /\ tx'[w] = u /\ \A v \in Workers \ {w} : tx'[v] = tx[v]
           /\ \A v \in Workers : tx'[v].held = <<>> \/ \A x \in Workers \ {v} : tx'[x].held # tx'[v].held
  <1> USE DEF OneMoves
  <1>1. tx'[w] = u /\ \A v \in Workers \ {w} : tx'[v] = tx[v]
    BY DEF TxOK
  <1>2. tx' \in [Workers -> TxType]
    BY DEF TxOK
  <1>3. \A v \in Workers : TxShape(tx'[v])
    BY <1>1 DEF TxOK
  <1>4. ASSUME NEW v \in Workers, tx'[v].held # <<>>, NEW x \in Workers \ {v} PROVE tx'[x].held # tx'[v].held
    BY <1>1, <1>4 DEF TypeOK, Free
  <1> QED BY <1>1, <1>2, <1>3, <1>4 DEF TxOK

\* No more requests than before are about to give out a version.
LEMMA FewerNumbering ==
    ASSUME TypeOK, TxOK, NEW v, Numbering(v)' \in SUBSET Numbering(v)
    PROVE  /\ Cardinality(Numbering(v)') <= Cardinality(Numbering(v))
           /\ Cardinality(Numbering(v)) \in Nat /\ Cardinality(Numbering(v)') \in Nat
  <1>1. IsFiniteSet(Numbering(v))
    BY EstateAssumption, FS_Subset DEF Numbering
  <1> HIDE DEF Numbering
  <1>2. IsFiniteSet(Numbering(v)')
    BY <1>1, FS_Subset
  <1> QED BY <1>1, <1>2, FS_Subset, FS_CardinalityType

\* A worker that waits for nothing and has read nothing.
LEMMA IdleIs == Idle \in TxType /\ TxShape(Idle) /\ Idle.held = <<>> /\ Idle.op = "none" /\ Idle.pc = "idle"
  BY EstateAssumption DEF Idle, TxType, TxShape

\* A statement that writes nothing keeps the invariant, if what it decides is so.
LEMMA PrivateKeeps ==
    ASSUME EstateInv, NEW w \in Workers, NEW u, ~At(w, "idle"), OneMoves(w, u),
           UNCHANGED <<tables, alone>>,
           u.op = "snapshot" => tx[w].op = "snapshot" /\ u.last = tx[w].last,
           w \in alone => StillSo(u, beneficiary, directive, share, LastVersion)
    PROVE  EstateInv'
  <1>1. /\ TxOK' /\ tx'[w] = u /\ \A v \in Workers \ {w} : tx'[v] = tx[v]
        /\ \A v \in Workers : tx'[v].held = <<>> \/ \A x \in Workers \ {v} : tx'[x].held # tx'[v].held
    BY OneTransaction DEF EstateInv
  <1>2. TypeOK'
    BY <1>1 DEF EstateInv, TypeOK, tables, Free
  <1>3. Numbered'
    <2> SUFFICES ASSUME NEW v \in 1 .. MaxVersion
                 PROVE  snapshots'[v] + Cardinality(Numbering(v)') <= Cardinality(Workers)
      BY DEF Numbered
    <2>1. Numbering(v)' \in SUBSET Numbering(v)
      BY <1>1 DEF Numbering
    <2>2. /\ Cardinality(Numbering(v)') <= Cardinality(Numbering(v))
          /\ Cardinality(Numbering(v)) \in Nat /\ Cardinality(Numbering(v)') \in Nat
      BY <2>1, FewerNumbering DEF EstateInv
    <2>3. snapshots'[v] = snapshots[v] /\ snapshots[v] \in Nat /\ Cardinality(Workers) \in Nat
      BY EstateAssumption, FS_CardinalityType DEF EstateInv, TypeOK, tables
    <2>4. snapshots[v] + Cardinality(Numbering(v)) <= Cardinality(Workers)
      BY DEF EstateInv, Numbered
    <2> QED BY <2>2, <2>3, <2>4
  <1>4. AloneOK'
    <2> SUFFICES ASSUME NEW x \in alone'
                 PROVE  /\ x \in Workers /\ \A v \in Workers \ {x} : tx'[v].pc = "idle"
                        /\ StillSo(tx'[x], beneficiary', directive', share', LastVersion')
      BY DEF AloneOK
    <2>1. /\ x \in Workers /\ \A v \in Workers \ {x} : tx[v].pc = "idle"
          /\ StillSo(tx[x], beneficiary, directive, share, LastVersion) /\ x \in alone
      BY DEF EstateInv, AloneOK
    <2>2. LastVersion' = LastVersion
      BY DEF LastVersion, tables
    <2>3. x = w
      BY <2>1 DEF At
    <2>4. StillSo(u, beneficiary, directive, share, LastVersion)
      BY <2>1, <2>3
    <2> QED BY <1>1, <2>1, <2>2, <2>3, <2>4 DEF tables
  <1> QED BY <1>1, <1>2, <1>3, <1>4 DEF EstateInv

-----------------------------------------------------------------------------
(* Every step keeps the invariant *)

\* A step of a request that writes nothing has nothing to do with the rules.
LEMMA NothingWritten ==
    ASSUME UNCHANGED <<share, snapshots>>
    PROVE  WithinTierStep /\ NextVersionStep
  BY DEF WithinTierStep, NextVersionStep

LEMMA FinishKeeps ==
    ASSUME EstateInv, NEW w \in Workers, ~At(w, "idle"), Finish(w), UNCHANGED <<tables, alone>>
    PROVE  EstateInv'
  <1>1. OneMoves(w, Idle)
    BY IdleIs DEF OneMoves, Finish, EstateInv, TxOK, tables
  <1>2. StillSo(Idle, beneficiary, directive, share, LastVersion)
    BY IdleIs DEF StillSo
  <1> QED BY <1>1, <1>2, IdleIs, PrivateKeeps

\* The statements of an upsert before its commit go on to the next one.
Advances(t, u) ==
  /\ u \in TxType /\ u.op = "upsert" /\ u.row = t.row /\ u.bps = t.bps
  /\ u.pc \in {"existing", "total", "write", "commit"}

LEMMA UpsertStep ==
    ASSUME EstateInv, NEW w \in Workers, tx[w].op = "upsert", tx[w].pc # "idle",
           NEW u, Advances(tx[w], u), tx' = [tx EXCEPT ![w] = u],
           u.held = <<>> \/ Free(w, u.held), UNCHANGED <<tables, alone>>,
           w \in alone => StillSo(u, beneficiary, directive, share, LastVersion)
    PROVE  EstateInv'
  <1>1. TxShape(tx[w])
    BY DEF EstateInv, TxOK
  <1>2. TxShape(u)
    BY <1>1 DEF TxShape, Advances
  <1>3. edits' \in 0 .. MaxEdits
    BY DEF EstateInv, TxOK, tables
  <1>4. OneMoves(w, u) /\ u.op # "snapshot"
    BY <1>2, <1>3 DEF OneMoves, Advances
  <1> QED BY <1>4, PrivateKeeps DEF At

\* What is known of a transaction in progress.
LEMMA InProgress ==
    ASSUME EstateInv, NEW w \in Workers
    PROVE  /\ tx[w] \in TxType /\ TxShape(tx[w]) /\ tx \in [Workers -> TxType]
           /\ w \in alone => StillSo(tx[w], beneficiary, directive, share, LastVersion)
           /\ share \in [ShareRows -> 0 .. Full] /\ LastVersion \in 0 .. MaxVersion
           /\ tx[w].held = <<>> \/ Free(w, tx[w].held)
  BY LastVersionIs DEF EstateInv, TypeOK, TxOK, AloneOK

LEMMA checkIncludedKeeps ==
    ASSUME EstateInv, NEW w \in Workers, checkIncluded(w)
    PROVE  EstateInv' /\ WithinTierStep /\ NextVersionStep
  <1> DEFINE u == [tx[w] EXCEPT !.pc = "existing"]
  <1>1. tx[w].pc = "included" /\ UNCHANGED <<tables, alone>> /\ UNCHANGED <<share, snapshots>>
    BY DEF checkIncluded, At, Private, tables
  <1>2. CASE Finish(w)
    BY <1>1, <1>2, FinishKeeps, NothingWritten DEF At
  <1>3. CASE ~Finish(w)
    <2>1. /\ tx[w].row[1] = Residue \/ directive[tx[w].row[1]] = "included"
          /\ tx' = [tx EXCEPT ![w].pc = "existing"]
      BY <1>3 DEF checkIncluded
    <2>2. /\ tx[w].op = "upsert" /\ Advances(tx[w], u) /\ u.held = tx[w].held /\ u.pc = "existing"
          /\ tx' = [tx EXCEPT ![w] = u]
      BY <1>1, <2>1, InProgress DEF TxType, TxShape, Advances
    <2>3. w \in alone => StillSo(u, beneficiary, directive, share, LastVersion)
      BY <2>1, <2>2, InProgress DEF StillSo, Advances
    <2> HIDE DEF u
    <2>4. EstateInv'
      BY <1>1, <2>2, <2>3, InProgress, UpsertStep
    <2> QED BY <1>1, <2>4, NothingWritten
  <1> QED BY <1>2, <1>3

LEMMA findExistingKeeps ==
    ASSUME EstateInv, NEW w \in Workers, findExisting(w)
    PROVE  EstateInv' /\ WithinTierStep /\ NextVersionStep
  <1> DEFINE f == IF share[tx[w].row] > 0 THEN "row" ELSE "none"
             u == [tx[w] EXCEPT !.pc = "total", !.found = f]
  <1>1. /\ tx[w].pc = "existing" /\ UNCHANGED <<tables, alone>> /\ UNCHANGED <<share, snapshots>>
        /\ tx' = [tx EXCEPT ![w].pc = "total", ![w].found = f]
    BY DEF findExisting, At, Private, tables
  <1>2. /\ tx[w].op = "upsert" /\ Advances(tx[w], u) /\ u.held = tx[w].held /\ u.pc = "total"
        /\ u.found = f /\ tx' = [tx EXCEPT ![w] = u]
    BY <1>1, InProgress DEF TxType, TxShape, Advances
  <1> HIDE DEF u
  <1>3. ASSUME w \in alone PROVE StillSo(u, beneficiary, directive, share, LastVersion)
    <2>1. StillSo(tx[w], beneficiary, directive, share, LastVersion)
      BY <1>3, InProgress
    <2>2. u.op = "upsert" /\ u.row = tx[w].row
      BY <1>2 DEF Advances
    <2> QED BY <1>1, <1>2, <2>1, <2>2 DEF StillSo
  <1> HIDE DEF f
  <1>4. EstateInv'
    BY <1>1, <1>2, <1>3, InProgress, UpsertStep
  <1> QED BY <1>1, <1>4, NothingWritten

\* What a tier gives to the others of a request's beneficiary.
Others(t) == Given(share, t.row[1], t.row[3], Beneficiaries \ {t.row[2]})

\* The total that is checked is what the others are given, when it is fresh.
LEMMA OtherTotalIs ==
    ASSUME EstateInv, NEW w \in Workers, tx[w].row \in ShareRows,
           tx[w].found = IF share[tx[w].row] > 0 THEN "row" ELSE "none"
    PROVE  otherTotal(w) = Others(tx[w])
  <1> DEFINE r == tx[w].row
  <1>1. /\ r[1] \in Lists /\ r[2] \in Beneficiaries /\ r[3] \in Tiers
        /\ r = <<r[1], r[2], r[3]>>
    BY DEF ShareRows
  <1>2. /\ Given(share, r[1], r[3], Beneficiaries)
             = share[<<r[1], r[2], r[3]>>] + Given(share, r[1], r[3], Beneficiaries \ {r[2]})
        /\ Given(share, r[1], r[3], Beneficiaries \ {r[2]}) \in Int
    BY <1>1, InProgress, GivenAdd
  <1>3. share[r] \in 0 .. Full
    BY InProgress
  <1>4. CASE share[r] > 0
    BY <1>4 DEF otherTotal, Others
  <1>5. CASE share[r] = 0
    <2>1. Given(share, r[1], r[3], Beneficiaries) = Given(share, r[1], r[3], Beneficiaries \ {r[2]})
      BY <1>1, <1>2, <1>5
    <2> QED BY <1>5, <2>1 DEF otherTotal, Others
  <1> QED BY <1>3, <1>4, <1>5, EstateAssumption

LEMMA checkTotalKeeps ==
    ASSUME EstateInv, NEW w \in Workers, checkTotal(w)
    PROVE  EstateInv' /\ WithinTierStep /\ NextVersionStep
  <1> DEFINE u == [tx[w] EXCEPT !.pc = "write"]
  <1>1. tx[w].pc = "total" /\ UNCHANGED <<tables, alone>> /\ UNCHANGED <<share, snapshots>>
    BY DEF checkTotal, At, Private, tables
  <1>2. CASE Finish(w)
    BY <1>1, <1>2, FinishKeeps, NothingWritten DEF At
  <1>3. CASE ~Finish(w)
    <2>1. /\ otherTotal(w) + tx[w].bps <= Full
          /\ tx' = [tx EXCEPT ![w].pc = "write"]
      BY <1>3 DEF checkTotal
    <2>2. /\ tx[w].op = "upsert" /\ Advances(tx[w], u) /\ u.held = tx[w].held /\ u.pc = "write"
          /\ u.found = tx[w].found /\ tx' = [tx EXCEPT ![w] = u] /\ tx[w].row \in ShareRows
      BY <1>1, <2>1, InProgress DEF TxType, TxShape, Advances
    <2>3. ASSUME w \in alone PROVE StillSo(u, beneficiary, directive, share, LastVersion)
      <3>1. StillSo(tx[w], beneficiary, directive, share, LastVersion)
        BY <2>3, InProgress
      <3>2. Others(tx[w]) + tx[w].bps <= Full
        BY <1>1, <2>1, <2>2, <3>1, OtherTotalIs DEF StillSo
      <3> HIDE DEF u
      <3> QED BY <1>1, <2>2, <3>1, <3>2 DEF StillSo, Advances, Others
    <2> HIDE DEF u
    <2>4. EstateInv'
      BY <1>1, <2>2, <2>3, InProgress, UpsertStep
    <2> QED BY <1>1, <2>4, NothingWritten
  <1> QED BY <1>2, <1>3

LEMMA saveAllocationKeeps ==
    ASSUME EstateInv, NEW w \in Workers, saveAllocation(w)
    PROVE  EstateInv' /\ WithinTierStep /\ NextVersionStep
  <1> DEFINE h == IF tx[w].found = "gone" THEN <<>> ELSE tx[w].row
             u == [tx[w] EXCEPT !.pc = "commit", !.held = h]
  <1>1. tx[w].pc = "write" /\ UNCHANGED <<tables, alone>> /\ UNCHANGED <<share, snapshots>>
    BY DEF saveAllocation, At, Private, tables
  <1>2. CASE Finish(w)
    BY <1>1, <1>2, FinishKeeps, NothingWritten DEF At
  <1>3. CASE ~Finish(w)
    <2>1. /\ tx' = [tx EXCEPT ![w].pc = "commit", ![w].held = h]
          /\ h = <<>> \/ Free(w, h)
      BY <1>3 DEF saveAllocation
    <2>2. tx[w].op = "upsert" /\ tx[w].row \in ShareRows /\ h \in ShareRows \cup {Plan, <<>>}
      BY <1>1, InProgress DEF TxShape
    <2> HIDE DEF h
    <2>3. /\ Advances(tx[w], u) /\ u.held = h /\ u.pc = "commit"
          /\ u.found = tx[w].found /\ tx' = [tx EXCEPT ![w] = u]
      BY <2>1, <2>2, InProgress DEF TxType, Advances
    <2> HIDE DEF u
    <2>4. ASSUME w \in alone PROVE StillSo(u, beneficiary, directive, share, LastVersion)
      <3>1. StillSo(tx[w], beneficiary, directive, share, LastVersion)
        BY <2>4, InProgress
      <3>2. /\ u.op = "upsert" /\ u.pc = "commit" /\ tx[w].op = "upsert" /\ tx[w].pc = "write"
            /\ u.row = tx[w].row /\ u.bps = tx[w].bps /\ u.found = tx[w].found
        BY <1>1, <2>2, <2>3 DEF Advances
      <3> QED BY <3>1, <3>2, Zenon DEF StillSo
    <2>5. EstateInv'
      BY <1>1, <2>1, <2>2, <2>3, <2>4, UpsertStep
    <2> QED BY <1>1, <2>5, NothingWritten
  <1> QED BY <1>2, <1>3

LEMMA lockPlanKeeps ==
    ASSUME EstateInv, NEW w \in Workers, lockPlan(w)
    PROVE  EstateInv' /\ WithinTierStep /\ NextVersionStep
  <1> DEFINE u == [tx[w] EXCEPT !.pc = "commit", !.held = Plan]
  <1>1. tx[w].pc = "lock" /\ UNCHANGED <<tables, alone>> /\ UNCHANGED <<share, snapshots>>
    BY DEF lockPlan, At, Private, tables
  <1>2. CASE Finish(w)
    BY <1>1, <1>2, FinishKeeps, NothingWritten DEF At
  <1>3. CASE ~Finish(w)
    <2>1. tx' = [tx EXCEPT ![w].pc = "commit", ![w].held = Plan] /\ Free(w, Plan)
      BY <1>3 DEF lockPlan
    <2>2. /\ tx[w].op = "snapshot" /\ u \in TxType /\ u.op = "snapshot" /\ u.last = tx[w].last
          /\ u.held = Plan /\ tx' = [tx EXCEPT ![w] = u] /\ TxShape(u)
      BY <1>1, <2>1, InProgress DEF TxType, TxShape
    <2>3. w \in alone => StillSo(u, beneficiary, directive, share, LastVersion)
      BY <2>2, InProgress DEF StillSo
    <2>4. edits' \in 0 .. MaxEdits
      BY <1>1 DEF EstateInv, TxOK, tables
    <2> HIDE DEF u
    <2>5. OneMoves(w, u)
      BY <2>1, <2>2, <2>4 DEF OneMoves
    <2>6. EstateInv'
      BY <1>1, <2>2, <2>3, <2>5, PrivateKeeps DEF At
    <2> QED BY <1>1, <2>6, NothingWritten
  <1> QED BY <1>2, <1>3

\* When a request begins it overlaps no other, or nobody is alone any more.
BeginsWith(w, u) ==
  /\ u \in TxType /\ TxShape(u) /\ u.held = <<>> /\ u.pc # "idle"
  /\ u.op = "snapshot" => u.last = LastVersion
  /\ StillSo(u, beneficiary, directive, share, LastVersion)

LEMMA BeginKeeps ==
    ASSUME EstateInv, NEW w \in Workers, NEW u, Begin(w, u), BeginsWith(w, u)
    PROVE  EstateInv' /\ WithinTierStep /\ NextVersionStep
  <1>1. /\ tx[w].pc = "idle" /\ tx' = [tx EXCEPT ![w] = u] /\ UNCHANGED tables
        /\ UNCHANGED <<share, snapshots>>
        /\ alone' = IF \A v \in Workers : tx[v].pc = "idle" THEN {w} ELSE {}
    BY DEF Begin, At, tables
  <1>2. OneMoves(w, u)
    BY <1>1 DEF OneMoves, BeginsWith, EstateInv, TxOK, tables
  <1>3. /\ TxOK' /\ tx'[w] = u /\ \A v \in Workers \ {w} : tx'[v] = tx[v]
        /\ \A v \in Workers : tx'[v].held = <<>> \/ \A x \in Workers \ {v} : tx'[x].held # tx'[v].held
    BY <1>2, OneTransaction DEF EstateInv
  <1>4. TypeOK'
    BY <1>1, <1>3 DEF EstateInv, TypeOK, tables, Free
  <1>5. Numbered'
    <2> SUFFICES ASSUME NEW v \in 1 .. MaxVersion
                 PROVE  snapshots'[v] + Cardinality(Numbering(v)') <= Cardinality(Workers)
      BY DEF Numbered
    <2>1. snapshots'[v] = snapshots[v] /\ snapshots[v] \in Nat /\ Cardinality(Workers) \in Nat
      BY <1>1, EstateAssumption, FS_CardinalityType DEF EstateInv, TypeOK
    <2>2. snapshots[v] + Cardinality(Numbering(v)) <= Cardinality(Workers)
      BY DEF EstateInv, Numbered
    <2>3. CASE u.op = "snapshot" /\ u.last + 1 = v
      <3>1. snapshots[v] = 0
        <4>1. v > LastVersion
          BY <2>3, InProgress, EstateAssumption DEF BeginsWith
        <4> QED BY <4>1, LastVersionIs DEF EstateInv
      <3>2. Numbering(v)' \in SUBSET Workers
        BY DEF Numbering
      <3>3. Cardinality(Numbering(v)') <= Cardinality(Workers) /\ Cardinality(Numbering(v)') \in Nat
        <4> HIDE DEF Numbering
        <4> QED BY <3>2, EstateAssumption, FS_Subset, FS_CardinalityType
      <3> QED BY <2>1, <3>1, <3>3
    <2>4. CASE ~(u.op = "snapshot" /\ u.last + 1 = v)
      <3>1. Numbering(v)' \in SUBSET Numbering(v)
        BY <1>3, <2>4 DEF Numbering
      <3>2. /\ Cardinality(Numbering(v)') <= Cardinality(Numbering(v))
            /\ Cardinality(Numbering(v)) \in Nat /\ Cardinality(Numbering(v)') \in Nat
        BY <3>1, FewerNumbering DEF EstateInv
      <3> QED BY <2>1, <2>2, <3>2
    <2> QED BY <2>3, <2>4
  <1>6. AloneOK'
    <2> SUFFICES ASSUME NEW x \in alone'
                 PROVE  /\ x \in Workers /\ \A v \in Workers \ {x} : tx'[v].pc = "idle"
                        /\ StillSo(tx'[x], beneficiary', directive', share', LastVersion')
      BY DEF AloneOK
    <2>1. x = w /\ \A v \in Workers : tx[v].pc = "idle"
      BY <1>1
    <2>2. LastVersion' = LastVersion
      BY <1>1 DEF LastVersion, tables
    <2> QED BY <1>1, <1>3, <2>1, <2>2 DEF tables, BeginsWith
  <1> QED BY <1>1, <1>3, <1>4, <1>5, <1>6, NothingWritten DEF EstateInv

LEMMA checkBeneficiaryKeeps ==
    ASSUME EstateInv, NEW w \in Workers, NEW r \in ShareRows, NEW bps \in 1 .. Full,
           checkBeneficiary(w, r, bps)
    PROVE  EstateInv' /\ WithinTierStep /\ NextVersionStep
  <1> DEFINE u == [Idle EXCEPT !.op = "upsert", !.pc = "included", !.row = r, !.bps = bps]
  <1>1. /\ u \in TxType /\ u.op = "upsert" /\ u.pc = "included" /\ u.row = r /\ u.bps = bps
        /\ u.held = <<>>
    <2>1. bps \in 0 .. Full
      BY EstateAssumption
    <2> QED BY <2>1, IdleIs DEF TxType
  <1>2. beneficiary[r[2]] = "active" /\ Begin(w, u)
    BY DEF checkBeneficiary
  <1> HIDE DEF u
  <1>3. BeginsWith(w, u)
    BY <1>1, <1>2, EstateAssumption DEF BeginsWith, TxShape, StillSo
  <1> QED BY <1>2, <1>3, BeginKeeps

LEMMA beginSnapshotKeeps ==
    ASSUME EstateInv, NEW w \in Workers, beginSnapshot(w)
    PROVE  EstateInv' /\ WithinTierStep /\ NextVersionStep
  <1> DEFINE u == [Idle EXCEPT !.op = "snapshot", !.pc = "lock", !.last = LastVersion, !.seen = edits]
  <1>1. /\ u \in TxType /\ u.op = "snapshot" /\ u.pc = "lock" /\ u.last = LastVersion
        /\ u.held = <<>>
    <2>1. LastVersion \in 0 .. MaxVersion /\ edits \in 0 .. MaxEdits
      BY InProgress DEF EstateInv, TxOK
    <2> QED BY <2>1, IdleIs DEF TxType
  <1>2. Begin(w, u)
    BY DEF beginSnapshot
  <1> HIDE DEF u
  <1>3. BeginsWith(w, u)
    BY <1>1, <1>2 DEF BeginsWith, TxShape, StillSo
  <1> QED BY <1>2, <1>3, BeginKeeps

-----------------------------------------------------------------------------
(* Commits *)

\* The end of a transaction leaves nobody with stale knowledge.
LEMMA CommitEnds ==
    ASSUME EstateInv, NEW w \in Workers, ~At(w, "idle"), Finish(w), UNCHANGED <<edits, alone>>
    PROVE  /\ TxOK' /\ AloneOK'
           /\ tx'[w] = Idle /\ \A v \in Workers \ {w} : tx'[v] = tx[v]
           /\ \A v \in Workers : tx'[v].held = <<>> \/ \A x \in Workers \ {v} : tx'[x].held # tx'[v].held
           /\ \A x \in alone : At(x, "commit") => x = w
  <1>1. OneMoves(w, Idle)
    BY IdleIs DEF OneMoves, Finish, EstateInv, TxOK
  <1>2. /\ TxOK' /\ tx'[w] = Idle /\ \A v \in Workers \ {w} : tx'[v] = tx[v]
        /\ \A v \in Workers : tx'[v].held = <<>> \/ \A x \in Workers \ {v} : tx'[x].held # tx'[v].held
    BY <1>1, OneTransaction DEF EstateInv
  <1>3. \A x \in alone : x = w /\ \A v \in Workers \ {w} : tx[v].pc = "idle"
    BY DEF EstateInv, AloneOK, At
  <1>4. AloneOK'
    <2> SUFFICES ASSUME NEW x \in alone'
                 PROVE  /\ x \in Workers /\ \A v \in Workers \ {x} : tx'[v].pc = "idle"
                        /\ StillSo(tx'[x], beneficiary', directive', share', LastVersion')
      BY DEF AloneOK
    <2>1. x = w /\ \A v \in Workers \ {w} : tx'[v].pc = "idle"
      BY <1>2, <1>3
    <2>2. StillSo(tx'[w], beneficiary', directive', share', LastVersion')
      BY <1>2, IdleIs DEF StillSo
    <2> QED BY <2>1, <2>2
  <1> QED BY <1>2, <1>3, <1>4

LEMMA CommitAllocationKeeps ==
    ASSUME EstateInv, NEW w \in Workers, CommitAllocation(w)
    PROVE  EstateInv' /\ WithinTierStep /\ NextVersionStep
  <1> DEFINE r == tx[w].row
  <1>1. /\ tx[w].pc = "commit" /\ tx[w].op = "upsert" /\ Finish(w)
        /\ UNCHANGED <<beneficiary, directive, edits, snapshots, alone>>
        /\ share' = IF tx[w].found = "gone" THEN share ELSE [share EXCEPT ![r] = tx[w].bps]
    BY DEF CommitAllocation, At
  <1>2. /\ TxOK' /\ AloneOK'
        /\ tx'[w] = Idle /\ \A v \in Workers \ {w} : tx'[v] = tx[v]
        /\ \A v \in Workers : tx'[v].held = <<>> \/ \A x \in Workers \ {v} : tx'[x].held # tx'[v].held
        /\ \A x \in alone : At(x, "commit") => x = w
    BY <1>1, CommitEnds DEF At
  <1>3. /\ r \in ShareRows /\ tx[w].bps \in 0 .. Full /\ share \in [ShareRows -> 0 .. Full]
    BY <1>1, InProgress DEF TxShape, TxType
  <1>4. share' \in [ShareRows -> 0 .. Full]
    BY <1>1, <1>3
  <1>5. TypeOK'
    BY <1>1, <1>2, <1>4 DEF EstateInv, TypeOK, Free
  <1>6. Numbered'
    <2> SUFFICES ASSUME NEW v \in 1 .. MaxVersion
                 PROVE  snapshots'[v] + Cardinality(Numbering(v)') <= Cardinality(Workers)
      BY DEF Numbered
    <2>1. Numbering(v)' \in SUBSET Numbering(v)
      BY <1>2, IdleIs DEF Numbering
    <2>2. /\ Cardinality(Numbering(v)') <= Cardinality(Numbering(v))
          /\ Cardinality(Numbering(v)) \in Nat /\ Cardinality(Numbering(v)') \in Nat
      BY <2>1, FewerNumbering DEF EstateInv
    <2>3. snapshots'[v] = snapshots[v] /\ snapshots[v] \in Nat /\ Cardinality(Workers) \in Nat
      BY <1>1, EstateAssumption, FS_CardinalityType DEF EstateInv, TypeOK
    <2>4. snapshots[v] + Cardinality(Numbering(v)) <= Cardinality(Workers)
      BY DEF EstateInv, Numbered
    <2> QED BY <2>2, <2>3, <2>4
  <1>7. WithinTierStep
    <2> SUFFICES ASSUME w \in alone
                 PROVE  /\ beneficiary[r[2]] = "active"
                        /\ r[1] # Residue => directive[r[1]] = "included"
                        /\ Given(share', r[1], r[3], Beneficiaries) <= Full
      BY <1>2 DEF WithinTierStep
    <2>1. StillSo(tx[w], beneficiary, directive, share, LastVersion)
      BY InProgress
    <2>2. /\ beneficiary[r[2]] = "active"
          /\ r[1] # Residue => directive[r[1]] = "included"
          /\ tx[w].found # "gone"
          /\ Given(share, r[1], r[3], Beneficiaries \ {r[2]}) + tx[w].bps <= Full
      BY <1>1, <2>1 DEF StillSo
    <2>3. /\ r[1] \in Lists /\ r[2] \in Beneficiaries /\ r[3] \in Tiers
          /\ r = <<r[1], r[2], r[3]>>
      BY <1>3 DEF ShareRows
    <2>4. share'[r] = tx[w].bps /\ \A x \in ShareRows : x # r => share'[x] = share[x]
      BY <1>1, <1>3, <2>2
    <2> HIDE DEF r
    <2>5. /\ Given(share', r[1], r[3], Beneficiaries)
                = share'[<<r[1], r[2], r[3]>>] + Given(share', r[1], r[3], Beneficiaries \ {r[2]})
          /\ Given(share', r[1], r[3], Beneficiaries \ {r[2]}) \in Int
      BY <1>4, <2>3, GivenAdd
    <2>6. \A x \in ShareRows : x # <<r[1], r[2], r[3]>> => share'[x] = share[x]
      BY <2>3, <2>4
    <2>7. Given(share', r[1], r[3], Beneficiaries \ {r[2]}) = Given(share, r[1], r[3], Beneficiaries \ {r[2]})
      BY <1>3, <1>4, <2>3, <2>6, GivenSame
    <2>8. share'[<<r[1], r[2], r[3]>>] = tx[w].bps
      BY <2>3, <2>4
    <2> QED BY <1>3, <2>2, <2>5, <2>7, <2>8, EstateAssumption
  <1>8. NextVersionStep
    BY <1>1 DEF NextVersionStep
  <1> QED BY <1>2, <1>5, <1>6, <1>7, <1>8 DEF EstateInv

LEMMA CommitSnapshotKeeps ==
    ASSUME EstateInv, NEW w \in Workers, CommitSnapshot(w)
    PROVE  EstateInv' /\ WithinTierStep /\ NextVersionStep
  <1> DEFINE n == tx[w].last + 1
  <1>1. /\ tx[w].pc = "commit" /\ tx[w].op = "snapshot" /\ Finish(w) /\ tx[w].last < MaxVersion
        /\ UNCHANGED <<beneficiary, directive, share, edits, alone>>
        /\ snapshots' = [snapshots EXCEPT ![n] = @ + 1]
    BY DEF CommitSnapshot, At
  <1>2. /\ TxOK' /\ AloneOK'
        /\ tx'[w] = Idle /\ \A v \in Workers \ {w} : tx'[v] = tx[v]
        /\ \A v \in Workers : tx'[v].held = <<>> \/ \A x \in Workers \ {v} : tx'[x].held # tx'[v].held
        /\ \A x \in alone : At(x, "commit") => x = w
    BY <1>1, CommitEnds DEF At
  <1>3. tx[w].last \in 0 .. MaxVersion /\ n \in 1 .. MaxVersion /\ MaxVersion \in Nat
    BY <1>1, InProgress, EstateAssumption DEF TxType
  <1>4. Cardinality(Workers) \in Nat /\ snapshots \in [1 .. MaxVersion -> 0 .. Cardinality(Workers)]
    BY EstateAssumption, FS_CardinalityType DEF EstateInv, TypeOK
  <1> HIDE DEF n
  <1>5. \A v \in 1 .. MaxVersion : snapshots'[v] = IF v = n THEN snapshots[v] + 1 ELSE snapshots[v]
    BY <1>1, <1>3, <1>4
  <1>6. ASSUME NEW v \in 1 .. MaxVersion
        PROVE  /\ snapshots'[v] + Cardinality(Numbering(v)') <= Cardinality(Workers)
               /\ Cardinality(Numbering(v)') \in Nat
    <2>1. Numbering(v)' \in SUBSET Numbering(v)
      BY <1>2, IdleIs DEF Numbering
    <2>2. /\ Cardinality(Numbering(v)') <= Cardinality(Numbering(v))
          /\ Cardinality(Numbering(v)) \in Nat /\ Cardinality(Numbering(v)') \in Nat
      BY <2>1, FewerNumbering DEF EstateInv
    <2>3. snapshots[v] + Cardinality(Numbering(v)) <= Cardinality(Workers) /\ snapshots[v] \in Nat
      BY <1>4 DEF EstateInv, Numbered
    <2>4. CASE v = n
      <3>1. w \in Numbering(v) /\ Numbering(v)' = Numbering(v) \ {w} /\ IsFiniteSet(Numbering(v))
        <4>1. w \in Numbering(v) /\ w \notin Numbering(v)'
          BY <1>1, <1>2, <2>4, IdleIs DEF Numbering, n
        <4>2. \A x \in Numbering(v) : x # w => x \in Numbering(v)'
          BY <1>2 DEF Numbering
        <4>3. IsFiniteSet(Numbering(v))
          BY EstateAssumption, FS_Subset DEF Numbering
        <4> HIDE DEF Numbering
        <4> QED BY <2>1, <4>1, <4>2, <4>3
      <3>2. Cardinality(Numbering(v)') = Cardinality(Numbering(v)) - 1
        BY <3>1, FS_RemoveElement
      <3> QED BY <1>4, <1>5, <2>2, <2>3, <2>4, <3>2
    <2>5. CASE v # n
      BY <1>4, <1>5, <2>2, <2>3, <2>5
    <2> QED BY <2>4, <2>5
  <1>7. Numbered'
    BY <1>6 DEF Numbered
  <1>8. snapshots' \in [1 .. MaxVersion -> 0 .. Cardinality(Workers)]
    <2>1. \A v \in 1 .. MaxVersion : snapshots'[v] \in 0 .. Cardinality(Workers)
      <3> SUFFICES ASSUME NEW v \in 1 .. MaxVersion PROVE snapshots'[v] \in 0 .. Cardinality(Workers)
        OBVIOUS
      <3>1. snapshots[v] \in 0 .. Cardinality(Workers)
        BY <1>4
      <3>2. snapshots'[v] \in Nat
        BY <1>4, <1>5, <3>1
      <3> QED BY <1>4, <1>6, <3>2
    <2>2. DOMAIN snapshots' = 1 .. MaxVersion /\ snapshots' = [v \in 1 .. MaxVersion |-> snapshots'[v]]
      BY <1>1, <1>4
    <2> QED BY <2>1, <2>2
  <1>9. TypeOK'
    BY <1>1, <1>2, <1>8 DEF EstateInv, TypeOK, Free
  <1>10. WithinTierStep
    BY <1>1 DEF WithinTierStep
  <1>11. NextVersionStep
    <2> SUFFICES ASSUME w \in alone
                 PROVE  \E v \in 1 .. MaxVersion :
                          /\ snapshots' = [snapshots EXCEPT ![v] = 1]
                          /\ v = 1 \/ snapshots[v - 1] > 0
                          /\ \A u \in v .. MaxVersion : snapshots[u] = 0
      BY <1>2 DEF NextVersionStep
    <2>1. tx[w].last = LastVersion
      BY <1>1, InProgress DEF StillSo
    <2>2. /\ LastVersion = 0 \/ snapshots[LastVersion] > 0
          /\ \A v \in 1 .. MaxVersion : v > LastVersion => snapshots[v] = 0
      BY LastVersionIs DEF EstateInv
    <2>3. \A u \in n .. MaxVersion : u \in 1 .. MaxVersion /\ u > LastVersion
      BY <1>3, <2>1 DEF n
    <2>4. snapshots[n] = 0 /\ n \in n .. MaxVersion
      BY <1>3, <2>2, <2>3
    <2>5. snapshots' = [snapshots EXCEPT ![n] = 1]
      BY <1>1, <2>4
    <2>6. n = 1 \/ snapshots[n - 1] > 0
      BY <1>3, <2>1, <2>2 DEF n
    <2> QED BY <1>3, <2>2, <2>3, <2>5, <2>6
  <1> QED BY <1>2, <1>7, <1>9, <1>10, <1>11 DEF EstateInv

-----------------------------------------------------------------------------
(* Requests of one statement *)

\* The transactions go on as they were, but for what one has found.
GoOn ==
  /\ TxOK' /\ alone' = {}
  /\ \A v \in Workers :
       /\ tx'[v].op = tx[v].op /\ tx'[v].pc = tx[v].pc
       /\ tx'[v].last = tx[v].last /\ tx'[v].held = tx[v].held

NoNewVersion ==
  /\ snapshots' \in [1 .. MaxVersion -> 0 .. Cardinality(Workers)]
  /\ \A v \in 1 .. MaxVersion : snapshots'[v] <= snapshots[v]

LEMMA StatementKeeps ==
    ASSUME EstateInv, GoOn, NoNewVersion,
           beneficiary' \in [Beneficiaries -> {"active", "archived"}],
           directive' \in [Directives -> {"none", "included", "excluded"}],
           share' \in [ShareRows -> 0 .. Full]
    PROVE  EstateInv' /\ WithinTierStep /\ NextVersionStep
  <1>1. \A w \in alone : ~(At(w, "commit") /\ At(w, "idle")')
    BY DEF GoOn, At, EstateInv, AloneOK
  <1>2. WithinTierStep /\ NextVersionStep
    BY <1>1 DEF WithinTierStep, NextVersionStep
  <1>3. TypeOK'
    <2>1. \A w \in Workers : tx'[w].held = tx[w].held
      BY Zenon DEF GoOn
    <2>2. \A w \in Workers : tx[w].held = <<>> \/ Free(w, tx[w].held)
      BY Zenon DEF EstateInv, TypeOK
    <2>3. \A w \in Workers : tx'[w].held = <<>> \/ \A v \in Workers \ {w} : tx'[v].held # tx'[w].held
      BY <2>1, <2>2 DEF Free
    <2> QED BY <2>3, Zenon DEF TypeOK, NoNewVersion, Free
  <1>4. Numbered'
    <2> SUFFICES ASSUME NEW v \in 1 .. MaxVersion
                 PROVE  snapshots'[v] + Cardinality(Numbering(v)') <= Cardinality(Workers)
      BY DEF Numbered
    <2>1. Numbering(v)' \in SUBSET Numbering(v)
      BY DEF Numbering, GoOn
    <2>2. /\ Cardinality(Numbering(v)') <= Cardinality(Numbering(v))
          /\ Cardinality(Numbering(v)) \in Nat /\ Cardinality(Numbering(v)') \in Nat
      BY <2>1, FewerNumbering DEF EstateInv
    <2>3. snapshots'[v] <= snapshots[v] /\ snapshots[v] \in Int /\ snapshots'[v] \in Int
      BY EstateAssumption, FS_CardinalityType DEF EstateInv, TypeOK, NoNewVersion
    <2>4. snapshots[v] + Cardinality(Numbering(v)) <= Cardinality(Workers) /\ Cardinality(Workers) \in Nat
      BY EstateAssumption, FS_CardinalityType DEF EstateInv, Numbered
    <2> QED BY <2>2, <2>3, <2>4
  <1>5. AloneOK'
    BY DEF AloneOK, GoOn
  <1> QED BY <1>2, <1>3, <1>4, <1>5, Zenon DEF EstateInv, GoOn

\* What such a request leaves as it is.
LEMMA StatementIs ==
    ASSUME EstateInv
    PROVE  /\ UNCHANGED <<tx>> /\ edits' \in 0 .. MaxEdits /\ alone' = {} => GoOn
           /\ UNCHANGED snapshots => NoNewVersion
  <1>1. ASSUME UNCHANGED tx, edits' \in 0 .. MaxEdits, alone' = {} PROVE GoOn
    BY <1>1 DEF GoOn, EstateInv, TxOK
  <1>2. ASSUME UNCHANGED snapshots PROVE NoNewVersion
    <2>1. \A v \in 1 .. MaxVersion : snapshots[v] \in Int
      BY EstateAssumption, FS_CardinalityType DEF EstateInv, TypeOK
    <2> QED BY <1>2, <2>1 DEF NoNewVersion, EstateInv, TypeOK
  <1> QED BY <1>1, <1>2

LEMMA DeleteAllocationKeeps ==
    ASSUME EstateInv, NEW r \in ShareRows, DeleteAllocation(r)
    PROVE  EstateInv' /\ WithinTierStep /\ NextVersionStep
  <1> DEFINE gone(w) == [tx[w] EXCEPT !.found = "gone"]
  <1>1. /\ tx' = [w \in Workers |-> IF tx[w].found = "row" /\ tx[w].row = r THEN gone(w) ELSE tx[w]]
        /\ alone' = {} /\ UNCHANGED <<beneficiary, directive, edits, snapshots>>
        /\ share' = [share EXCEPT ![r] = 0]
    BY DEF DeleteAllocation
  <1>2. ASSUME NEW w \in Workers
        PROVE  /\ gone(w) \in TxType /\ TxShape(gone(w))
               /\ gone(w).op = tx[w].op /\ gone(w).pc = tx[w].pc
               /\ gone(w).last = tx[w].last /\ gone(w).held = tx[w].held
    BY InProgress DEF TxType, TxShape
  <1> HIDE DEF gone
  <1>3. \A w \in Workers : tx[w] \in TxType /\ TxShape(tx[w])
    BY InProgress
  <1>4. tx' \in [Workers -> TxType] /\ \A w \in Workers : TxShape(tx'[w])
    BY <1>1, <1>2, <1>3
  <1>5. GoOn
    BY <1>1, <1>2, <1>4 DEF GoOn, TxOK, EstateInv
  <1>6. share' \in [ShareRows -> 0 .. Full]
    BY <1>1, EstateAssumption DEF EstateInv, TypeOK
  <1> QED BY <1>1, <1>5, <1>6, StatementIs, StatementKeeps DEF EstateInv, TypeOK

LEMMA SetBeneficiaryArchivedKeeps ==
    ASSUME EstateInv, NEW b \in Beneficiaries, NEW status \in {"active", "archived"},
           SetBeneficiaryArchived(b, status)
    PROVE  EstateInv' /\ WithinTierStep /\ NextVersionStep
  <1>1. /\ UNCHANGED <<tx>> /\ alone' = {} /\ UNCHANGED <<directive, share, edits, snapshots>>
        /\ beneficiary' = [beneficiary EXCEPT ![b] = status]
    BY DEF SetBeneficiaryArchived, Statement
  <1>2. GoOn /\ NoNewVersion
    BY <1>1, StatementIs DEF EstateInv, TxOK
  <1> QED BY <1>1, <1>2, StatementKeeps DEF EstateInv, TypeOK

LEMMA UpsertDirectiveKeeps ==
    ASSUME EstateInv, NEW d \in Directives, NEW inclusion \in {"included", "excluded"},
           UpsertDirective(d, inclusion)
    PROVE  EstateInv' /\ WithinTierStep /\ NextVersionStep
  <1>1. /\ UNCHANGED <<tx>> /\ alone' = {} /\ UNCHANGED <<beneficiary, share, edits, snapshots>>
        /\ directive' = [directive EXCEPT ![d] = inclusion]
    BY DEF UpsertDirective, Statement
  <1>2. GoOn /\ NoNewVersion
    BY <1>1, StatementIs DEF EstateInv, TxOK
  <1> QED BY <1>1, <1>2, StatementKeeps DEF EstateInv, TypeOK

LEMMA DeleteSnapshotKeeps ==
    ASSUME EstateInv, NEW n \in 1 .. MaxVersion, DeleteSnapshot(n)
    PROVE  EstateInv' /\ WithinTierStep /\ NextVersionStep
  <1>1. /\ UNCHANGED <<tx>> /\ alone' = {} /\ UNCHANGED <<beneficiary, directive, share, edits>>
        /\ snapshots' = [snapshots EXCEPT ![n] = @ - 1] /\ snapshots[n] > 0
    BY DEF DeleteSnapshot, Statement
  <1>2. Cardinality(Workers) \in Nat /\ snapshots \in [1 .. MaxVersion -> 0 .. Cardinality(Workers)]
    BY EstateAssumption, FS_CardinalityType DEF EstateInv, TypeOK
  <1>3. snapshots[n] - 1 \in 0 .. Cardinality(Workers) /\ snapshots[n] - 1 <= snapshots[n]
    BY <1>1, <1>2
  <1>4. NoNewVersion
    BY <1>1, <1>2, <1>3 DEF NoNewVersion
  <1>5. GoOn
    BY <1>1, StatementIs DEF EstateInv, TxOK
  <1> QED BY <1>1, <1>4, <1>5, StatementKeeps DEF EstateInv, TypeOK

LEMMA UpdatePlanKeeps ==
    ASSUME EstateInv, UpdatePlan
    PROVE  EstateInv' /\ WithinTierStep /\ NextVersionStep
  <1>1. /\ UNCHANGED <<tx>> /\ alone' = {} /\ UNCHANGED <<beneficiary, directive, share, snapshots>>
        /\ edits' \in 0 .. MaxEdits
    BY EstateAssumption DEF UpdatePlan, Statement, EstateInv, TxOK
  <1>2. GoOn /\ NoNewVersion
    BY <1>1, StatementIs
  <1> QED BY <1>1, <1>2, StatementKeeps DEF EstateInv, TypeOK

-----------------------------------------------------------------------------
(* The invariant *)

LEMMA EstateInit ==
    ASSUME Init
    PROVE  EstateInv
  <1>1. Cardinality(Workers) \in Nat /\ {Full, MaxVersion, MaxEdits} \subseteq Nat
    BY EstateAssumption, FS_CardinalityType
  <1>2. TypeOK
    BY <1>1, IdleIs DEF TypeOK, Init
  <1>3. TxOK
    BY <1>1, IdleIs DEF TxOK, Init
  <1>4. Numbered
    <2>1. ASSUME NEW v \in 1 .. MaxVersion PROVE Numbering(v) = {}
      BY IdleIs DEF Numbering, Init
    <2>2. ASSUME NEW v \in 1 .. MaxVersion PROVE snapshots[v] = 0
      BY DEF Init
    <2> HIDE DEF Numbering
    <2> QED BY <1>1, <2>1, <2>2, FS_EmptySet DEF Numbered
  <1>5. AloneOK
    BY DEF AloneOK, Init
  <1> QED BY <1>2, <1>3, <1>4, <1>5 DEF EstateInv

LEMMA EstateNext ==
    ASSUME EstateInv, Next
    PROVE  EstateInv' /\ WithinTierStep /\ NextVersionStep
  <1>1. ASSUME NEW w \in Workers, Step(w)
        PROVE  EstateInv' /\ WithinTierStep /\ NextVersionStep
    <2>1. ASSUME Rollback(w) PROVE EstateInv' /\ WithinTierStep /\ NextVersionStep
      <3>1. ~At(w, "idle") /\ Finish(w) /\ UNCHANGED <<tables, alone>> /\ UNCHANGED <<share, snapshots>>
        BY <2>1 DEF Rollback, Private, tables
      <3> QED BY <3>1, FinishKeeps, NothingWritten
    <2> QED BY <1>1, <2>1, checkBeneficiaryKeeps, checkIncludedKeeps, findExistingKeeps,
              checkTotalKeeps, saveAllocationKeeps, CommitAllocationKeeps,
              beginSnapshotKeeps, lockPlanKeeps, CommitSnapshotKeeps DEF Step
  <1> QED BY <1>1, DeleteAllocationKeeps, SetBeneficiaryArchivedKeeps, UpsertDirectiveKeeps,
            DeleteSnapshotKeeps, UpdatePlanKeeps DEF Next

LEMMA EstateStutter ==
    ASSUME EstateInv, UNCHANGED vars
    PROVE  EstateInv' /\ WithinTierStep /\ NextVersionStep
  <1>1. UNCHANGED <<beneficiary, directive, share, edits, snapshots, tx, alone>>
    BY DEF vars
  <1>2. \A v : Numbering(v)' = Numbering(v)
    BY <1>1 DEF Numbering
  <1>3. LastVersion' = LastVersion
    BY <1>1 DEF LastVersion
  <1>4. TypeOK' /\ TxOK'
    BY <1>1 DEF EstateInv, TypeOK, TxOK, Free
  <1>5. Numbered'
    BY <1>1, <1>2 DEF EstateInv, Numbered
  <1>6. AloneOK'
    BY <1>1, <1>3 DEF EstateInv, AloneOK
  <1> QED BY <1>1, <1>4, <1>5, <1>6, NothingWritten DEF EstateInv

\* The inductive invariant of the estate plan holds in every reachable state.
THEOREM EstateInvariant == Spec => []EstateInv
  <1>1. EstateInv /\ [Next]_vars => EstateInv'
    BY EstateNext, EstateStutter
  <1> QED BY EstateInit, <1>1, PTL DEF Spec

\* The columns keep their ranges, no row is locked twice, and a version of the
\* summary is given out at most once for each request that can be in progress.
THEOREM EstateTypeCorrect == Spec => []TypeOK
  <1>1. EstateInv => TypeOK
    BY DEF EstateInv
  <1> QED BY <1>1, EstateInvariant, PTL

\* A request that overlaps no other gives a share only to an active beneficiary
\* of an included asset and within the whole of the tier, and gives its summary
\* the version after the highest kept: whatever earlier overlapping requests
\* have left behind.
THEOREM AloneIsSafe == Spec => Alone
  <1>1. EstateInv /\ [Next]_vars => [WithinTierStep /\ NextVersionStep]_vars
    BY EstateNext, EstateStutter
  <1> QED BY <1>1, EstateInvariant, PTL DEF Spec, Alone

=============================================================================
