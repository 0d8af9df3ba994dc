---------------------------- MODULE FiniteLemmas ----------------------------
(***************************************************************************)
(* Facts about finite sets that the proofs about histories need: a finite  *)
(* set has a last element, and a function may be defined by taking the     *)
(* elements of a finite set one at a time.                                 *)
(*                                                                         *)
(* The library states induction for a predicate passed as an operator.     *)
(* Here it is stated for a set, so that the provers can apply it, and a    *)
(* recursion is stated for a step that is a function.  A fold over a set,  *)
(* which takes its elements in an order of its own, is the same in every   *)
(* order when the step allows it (FiniteFold), a sum among them.           *)
(***************************************************************************)
EXTENDS Integers, Sequences, FiniteSets, FiniteSetsExt, FiniteSetTheorems, WellFoundedInduction, TLAPS

\* Induction over the natural numbers.
LEMMA NaturalsByInduction ==
    ASSUME NEW N, 0 \in N, \A n \in Nat : n \in N => n + 1 \in N
    PROVE  Nat \subseteq N
  <1> DEFINE Out == Nat \ N
  <1> SUFFICES ASSUME Out # {} PROVE FALSE
    OBVIOUS
  <1>1. PICK m \in Out : \A n \in Out : ~(<<n, m>> \in OpToRel(<, Nat))
    BY WFMin, NatLessThanWellFounded
  <1>2. m # 0 /\ m - 1 \in Nat
    OBVIOUS
  <1>3. <<m - 1, m>> \in OpToRel(<, Nat)
    BY <1>2 DEF OpToRel
  <1>4. m - 1 \in N
    BY <1>1, <1>2, <1>3
  <1>5. (m - 1) + 1 \in N
    BY <1>2, <1>4
  <1> QED BY <1>5

\* A nonempty finite set has an element that nothing in it comes after.
LEMMA FiniteHasLast ==
    ASSUME NEW S, IsFiniteSet(S), S # {},
           NEW R,
           \A x \in S : <<x, x>> \notin R,
           \A x, y, z \in S : <<x, y>> \in R /\ <<y, z>> \in R => <<x, z>> \in R
    PROVE  \E m \in S : \A x \in S : <<m, x>> \notin R
  <1> DEFINE HasLast(T) == \E m \in T : \A x \in T : <<m, x>> \notin R
             N == {n \in Nat : \A T \in SUBSET S : Cardinality(T) = n /\ T # {} => HasLast(T)}
  <1>1. 0 \in N
    BY FS_Subset, FS_EmptySet
  <1>2. ASSUME NEW n \in Nat, n \in N PROVE n + 1 \in N
    <2> SUFFICES ASSUME NEW T \in SUBSET S, Cardinality(T) = n + 1 PROVE HasLast(T)
      OBVIOUS
    <2>1. IsFiniteSet(T)
      BY FS_Subset
    <2>2. PICK x \in T : TRUE
      BY <2>1, FS_EmptySet
    <2> DEFINE U == T \ {x}
    <2>3. Cardinality(U) = n
      <3>1. Cardinality(U) = Cardinality(T) - 1
        BY <2>1, FS_RemoveElement
      <3> QED BY <3>1
    <2>4. CASE U = {}
      BY <2>4
    <2>5. CASE U # {}
      <3>1. PICK m \in U : \A y \in U : <<m, y>> \notin R
        BY <1>2, <2>3, <2>5
      <3>2. CASE <<m, x>> \in R
        <4>1. \A y \in U : <<x, y>> \notin R
          BY <3>1, <3>2
        <4> QED BY <4>1
      <3>3. CASE <<m, x>> \notin R
        BY <3>1, <3>3
      <3> QED BY <3>2, <3>3
    <2> QED BY <2>4, <2>5
  <1> HIDE DEF N
  <1>3. Nat \subseteq N
    BY <1>1, <1>2, NaturalsByInduction
  <1>4. Cardinality(S) \in N
    BY <1>3, FS_CardinalityType
  <1> QED BY <1>4 DEF N

\* A nonempty finite set of integers has a largest element.
LEMMA FiniteHasMax ==
    ASSUME NEW S \in SUBSET Int, IsFiniteSet(S), S # {}
    PROVE  \E m \in S : \A x \in S : m >= x
  <1> DEFINE R == {p \in Int \X Int : p[1] < p[2]}
  <1>1. /\ \A x \in S : <<x, x>> \notin R
        /\ \A x, y, z \in S : <<x, y>> \in R /\ <<y, z>> \in R => <<x, z>> \in R
    OBVIOUS
  <1>2. \A x, y \in S : <<x, y>> \notin R => x >= y
    OBVIOUS
  <1> HIDE DEF R
  <1>3. PICK m \in S : \A x \in S : <<m, x>> \notin R
    BY <1>1, FiniteHasLast
  <1> QED BY <1>2, <1>3

\* Max is the largest element of a finite set of integers.
LEMMA MaxOfFinite ==
    ASSUME NEW S \in SUBSET Int, IsFiniteSet(S), S # {}
    PROVE  Max(S) \in S /\ \A x \in S : Max(S) >= x
  <1>1. \E m \in S : \A x \in S : m >= x
    BY FiniteHasMax
  <1> QED BY <1>1 DEF Max

\* What a function gives on a finite set is finite.
LEMMA FiniteImage ==
    ASSUME NEW S, IsFiniteSet(S), NEW f
    PROVE  IsFiniteSet({f[x] : x \in S})
  <1> DEFINE g == [x \in S |-> f[x]]
             T == {f[x] : x \in S}
  <1>1. g \in Surjection(S, T)
    BY DEF Surjection
  <1> HIDE DEF g, T
  <1>2. IsFiniteSet(T)
    BY <1>1, FS_Surjection
  <1> QED BY <1>2 DEF T

\* pick chooses an element of every nonempty subset of U.
Picks(pick, U) ==
  /\ pick \in [(SUBSET U) \ {{}} -> U]
  /\ \A S \in SUBSET U : S # {} => pick[S] \in S

\* f is base at the empty set, and elsewhere a step from the rest.
Recurses(f, U, V, base, pick, step) ==
  /\ f \in [SUBSET U -> V]
  /\ f[{}] = base
  /\ \A S \in SUBSET U : S # {} => f[S] = step[<<pick[S], f[S \ {pick[S]}]>>]

\* A recursion over a finite set has a solution.
LEMMA FiniteRecursion ==
    ASSUME NEW U, IsFiniteSet(U), NEW V, NEW base \in V, NEW pick, Picks(pick, U),
           NEW step \in [U \X V -> V]
    PROVE  \E f : Recurses(f, U, V, base, pick, step)
  <1> USE DEF Picks
  <1> DEFINE Small(n) == {S \in SUBSET U : Cardinality(S) <= n}
             Solves(f, n) == \A S \in Small(n) :
                 f[S] = IF S = {} THEN base ELSE step[<<pick[S], f[S \ {pick[S]}]>>]
             N == {n \in Nat : \E f \in [SUBSET U -> V] : Solves(f, n)}
  <1>0. \A S \in SUBSET U : IsFiniteSet(S) /\ Cardinality(S) \in Nat /\ (Cardinality(S) = 0 <=> S = {})
    BY FS_Subset, FS_EmptySet, FS_CardinalityType
  <1>1. 0 \in N
    <2> DEFINE f == [S \in SUBSET U |-> base]
    <2>1. f \in [SUBSET U -> V]
      OBVIOUS
    <2>2. Solves(f, 0)
      BY <1>0
    <2> QED BY <2>1, <2>2
  <1>2. ASSUME NEW n \in Nat, n \in N PROVE n + 1 \in N
    <2>1. PICK f \in [SUBSET U -> V] : Solves(f, n)
      BY <1>2
    <2> DEFINE g == [S \in SUBSET U |-> IF S = {} THEN base ELSE step[<<pick[S], f[S \ {pick[S]}]>>]]
    <2>2. g \in [SUBSET U -> V]
      OBVIOUS
    <2>3. \A S \in Small(n) : g[S] = f[S]
      BY <2>1
    <2>4. \A S \in Small(n + 1) : S # {} => S \ {pick[S]} \in Small(n)
      <3> SUFFICES ASSUME NEW S \in Small(n + 1), S # {} PROVE S \ {pick[S]} \in Small(n)
        OBVIOUS
      <3>1. Cardinality(S \ {pick[S]}) = Cardinality(S) - 1
        BY <1>0, FS_RemoveElement
      <3> QED BY <1>0, <3>1
    <2>5. Solves(g, n + 1)
      BY <2>3, <2>4
    <2> HIDE DEF g, Solves
    <2> QED BY <2>2, <2>5
  <1> HIDE DEF N
  <1>3. Cardinality(U) \in N
    BY <1>1, <1>2, NaturalsByInduction, FS_CardinalityType
  <1>4. PICK f \in [SUBSET U -> V] : Solves(f, Cardinality(U))
    BY <1>3 DEF N
  <1>5. Small(Cardinality(U)) = SUBSET U
    BY FS_Subset
  <1> QED BY <1>4, <1>5 DEF Recurses

\* f and g agree at the empty set, and on a set whenever on the rest of it.
AgreeByRest(f, g, U, pick) ==
  /\ f[{}] = g[{}]
  /\ \A S \in SUBSET U : S # {} /\ f[S \ {pick[S]}] = g[S \ {pick[S]}] => f[S] = g[S]

\* Then they agree everywhere: the solution is the only one.
LEMMA FiniteRecursionUnique ==
    ASSUME NEW U, IsFiniteSet(U), NEW pick, Picks(pick, U), NEW f, NEW g, AgreeByRest(f, g, U, pick)
    PROVE  \A S \in SUBSET U : f[S] = g[S]
  <1> USE DEF Picks, AgreeByRest
  <1> DEFINE N == {n \in Nat : \A S \in SUBSET U : Cardinality(S) = n => f[S] = g[S]}
  <1>0. \A S \in SUBSET U : IsFiniteSet(S) /\ Cardinality(S) \in Nat /\ (Cardinality(S) = 0 <=> S = {})
    BY FS_Subset, FS_EmptySet, FS_CardinalityType, Zenon
  <1>1. 0 \in N
    BY <1>0, Zenon
  <1>2. ASSUME NEW n \in Nat, n \in N PROVE n + 1 \in N
    <2>1. ASSUME NEW S \in SUBSET U, Cardinality(S) = n + 1 PROVE f[S] = g[S]
      <3>1. S # {} /\ S \ {pick[S]} \in SUBSET U
        BY <1>0, <2>1, 0 # n + 1, Zenon
      <3>2. Cardinality(S \ {pick[S]}) = Cardinality(S) - 1
        BY <1>0, <3>1, FS_RemoveElement
      <3>3. Cardinality(S \ {pick[S]}) = n
        BY <2>1, <3>2
      <3>4. f[S \ {pick[S]}] = g[S \ {pick[S]}]
        BY <1>2, <3>1, <3>3, Zenon
      <3> QED BY <3>1, <3>4, Zenon
    <2>2. n + 1 \in Nat
      OBVIOUS
    <2> QED BY <2>1, <2>2, Zenon
  <1> HIDE DEF N
  <1>3. Nat \subseteq N
    BY <1>1, <1>2, NaturalsByInduction
  <1> QED BY <1>0, <1>3, Zenon DEF N

\* op adds a value of A to a result in V, and two of them in either order.
Combines(op, A, V) ==
  /\ op \in [A \X V -> V]
  /\ \A x, y \in A, v \in V : op[<<x, op[<<y, v>>]>>] = op[<<y, op[<<x, v>>]>>]

\* g combines what f gives of every subset of U, taking elements in any order.
Totals(g, f, U, V, base, op) ==
  /\ g \in [SUBSET U -> V] /\ g[{}] = base
  /\ \A S \in SUBSET U : \A x \in S : g[S] = op[<<f[x], g[S \ {x}]>>]

\* g combines it in the order in which CHOOSE takes them, as a fold is defined.
Taken(g, f, U, base, op) ==
  g = [S \in SUBSET U |-> IF S = {} THEN base
                          ELSE op[<<f[CHOOSE x \in S : TRUE], g[S \ {CHOOSE x \in S : TRUE}]>>]]

\* The order makes no difference.
LEMMA FiniteFold ==
    ASSUME NEW U, IsFiniteSet(U), NEW A, NEW f \in [U -> A], NEW V, NEW base \in V,
           NEW op, Combines(op, A, V)
    PROVE  \E g : Totals(g, f, U, V, base, op) /\ \A h : Taken(h, f, U, base, op) <=> h = g
  <1> DEFINE pick == [S \in (SUBSET U) \ {{}} |-> CHOOSE x \in S : TRUE]
             step == [p \in U \X V |-> op[<<f[p[1]], p[2]>>]]
  <1>1. \A S \in SUBSET U : S # {} => pick[S] = (CHOOSE x \in S : TRUE) /\ pick[S] \in S
    OBVIOUS
  <1>2. Picks(pick, U)
    BY <1>1 DEF Picks
  <1>3. step \in [U \X V -> V]
    BY DEF Combines
  <1>4. \A x \in U, v \in V : step[<<x, v>>] = op[<<f[x], v>>]
    OBVIOUS
  <1> HIDE DEF pick, step
  <1>5. PICK g : Recurses(g, U, V, base, pick, step)
    BY <1>2, <1>3, FiniteRecursion
  <1>6. ASSUME NEW S \in SUBSET U, S # {}
        PROVE  /\ pick[S] \in S /\ g[S \ {pick[S]}] \in V /\ f[pick[S]] \in A
               /\ g[S] = op[<<f[pick[S]], g[S \ {pick[S]}]>>]
    <2>1. pick[S] \in S /\ g[S \ {pick[S]}] \in V
      BY <1>1, <1>5, <1>6 DEF Recurses
    <2>2. g[S] = step[<<pick[S], g[S \ {pick[S]}]>>]
      BY <1>5, <1>6, Zenon DEF Recurses
    <2> QED BY <1>4, <2>1, <2>2
  <1>7. Taken(g, f, U, base, op)
    <2>1. g = [S \in SUBSET U |-> g[S]] /\ g[{}] = base
      BY <1>5 DEF Recurses
    <2>2. ASSUME NEW S \in SUBSET U, S # {}
          PROVE  g[S] = op[<<f[CHOOSE x \in S : TRUE], g[S \ {CHOOSE x \in S : TRUE}]>>]
      BY <1>1, <1>6, <2>2, Zenon
    <2> QED BY <2>1, <2>2, Zenon DEF Taken
  <1>8. ASSUME NEW h, Taken(h, f, U, base, op) PROVE h = g
    <2>1. h = [S \in SUBSET U |-> h[S]] /\ g = [S \in SUBSET U |-> g[S]]
      BY <1>7, <1>8, Zenon DEF Taken
    <2>2. h[{}] = g[{}]
      BY <1>7, <1>8, Zenon DEF Taken
    <2>3. \A S \in SUBSET U : S # {} => h[S] = op[<<f[pick[S]], h[S \ {pick[S]}]>>]
      BY <1>1, <1>8, Zenon DEF Taken
    <2>4. AgreeByRest(g, h, U, pick)
      BY <1>6, <2>2, <2>3, ZenonT(30) DEF AgreeByRest
    <2>5. \A S \in SUBSET U : g[S] = h[S]
      BY <1>2, <2>4, FiniteRecursionUnique
    <2> QED BY <2>1, <2>5, Zenon
  <1> DEFINE Any(S) == \A x \in S : g[S] = op[<<f[x], g[S \ {x}]>>]
             N == {n \in Nat : \A S \in SUBSET U : Cardinality(S) = n => Any(S)}
  <1>9. \A S \in SUBSET U : IsFiniteSet(S) /\ Cardinality(S) \in Nat /\ (Cardinality(S) = 0 <=> S = {})
    BY FS_Subset, FS_EmptySet, FS_CardinalityType, Zenon
  <1>10. 0 \in N
    BY <1>9
  <1>11. ASSUME NEW n \in Nat, n \in N PROVE n + 1 \in N
    <2> SUFFICES ASSUME NEW S \in SUBSET U, Cardinality(S) = n + 1, NEW x \in S
                 PROVE  g[S] = op[<<f[x], g[S \ {x}]>>]
      OBVIOUS
    <2> DEFINE c == pick[S]
    <2>1. c \in S /\ f[c] \in A /\ f[x] \in A /\ g[S] = op[<<f[c], g[S \ {c}]>>]
      BY <1>6
    <2> HIDE DEF c
    <2>2. CASE c = x
      BY <2>1, <2>2
    <2>3. CASE c # x
      <3>1. Cardinality(S \ {c}) = n /\ Cardinality(S \ {x}) = n
        <4>1. Cardinality(S \ {c}) = Cardinality(S) - 1 /\ Cardinality(S \ {x}) = Cardinality(S) - 1
          BY <1>9, <2>1, FS_RemoveElement
        <4> QED BY <4>1
      <3>2. Any(S \ {c}) /\ Any(S \ {x})
        BY <1>11, <3>1
      <3>3. (S \ {c}) \ {x} = (S \ {x}) \ {c} /\ x \in S \ {c} /\ c \in S \ {x}
        BY <2>1, <2>3
      <3> DEFINE v == g[(S \ {c}) \ {x}]
      <3>4. v \in V
        BY <1>5 DEF Recurses
      <3>5. g[S \ {c}] = op[<<f[x], v>>] /\ g[S \ {x}] = op[<<f[c], v>>]
        <4>1. g[S \ {c}] = op[<<f[x], g[(S \ {c}) \ {x}]>>]
          BY <3>2, <3>3, Zenon
        <4>2. g[S \ {x}] = op[<<f[c], g[(S \ {x}) \ {c}]>>]
          BY <3>2, <3>3, Zenon
        <4> QED BY <3>3, <4>1, <4>2, Zenon
      <3> HIDE DEF v
      <3>6. op[<<f[c], op[<<f[x], v>>]>>] = op[<<f[x], op[<<f[c], v>>]>>]
        BY <2>1, <3>4, Zenon DEF Combines
      <3> QED BY <2>1, <3>5, <3>6, Zenon
    <2> QED BY <2>2, <2>3
  <1> HIDE DEF N
  <1>12. Nat \subseteq N
    BY <1>10, <1>11, NaturalsByInduction
  <1>13. \A S \in SUBSET U : Any(S)
    BY <1>9, <1>12, Zenon DEF N
  <1>14. Totals(g, f, U, V, base, op)
    BY <1>5, <1>13, Zenon DEF Totals, Recurses
  <1> QED BY <1>7, <1>8, <1>14, Zenon

AgreeOn(e, f, W) == \A x \in W : e[x] = f[x]

\* There is one total, and it does not depend on what else could be combined.
LEMMA TotalsAgree ==
    ASSUME NEW U, IsFiniteSet(U), NEW V, NEW base, NEW op, NEW f, NEW g, Totals(g, f, U, V, base, op),
           NEW W \in SUBSET U, NEW e, AgreeOn(e, f, W), NEW h, Totals(h, e, W, V, base, op)
    PROVE  h[W] = g[W]
  <1> DEFINE pick == [S \in (SUBSET W) \ {{}} |-> CHOOSE x \in S : TRUE]
  <1>1. \A S \in SUBSET W : S # {} => pick[S] \in S
    OBVIOUS
  <1>2. Picks(pick, W)
    BY <1>1 DEF Picks
  <1> HIDE DEF pick
  <1>3. ASSUME NEW S \in SUBSET W, S # {}, g[S \ {pick[S]}] = h[S \ {pick[S]}]
        PROVE  g[S] = h[S]
    <2>1. pick[S] \in S /\ e[pick[S]] = f[pick[S]]
      BY <1>1, <1>3 DEF AgreeOn
    <2>2. S \in SUBSET U
      OBVIOUS
    <2>3. g[S] = op[<<f[pick[S]], g[S \ {pick[S]}]>>]
      BY <2>1, <2>2, Zenon DEF Totals
    <2>4. h[S] = op[<<e[pick[S]], h[S \ {pick[S]}]>>]
      BY <2>1, Zenon DEF Totals
    <2> QED BY <1>3, <2>1, <2>3, <2>4, Zenon
  <1>4. AgreeByRest(g, h, W, pick)
    BY <1>3, Zenon DEF AgreeByRest, Totals
  <1>5. IsFiniteSet(W)
    BY FS_Subset
  <1>6. \A S \in SUBSET W : g[S] = h[S]
    BY <1>2, <1>4, <1>5, FiniteRecursionUnique
  <1> QED BY <1>6

-----------------------------------------------------------------------------
(* Sums of integers *)

plus == [p \in Int \X Int |-> p[1] + p[2]]

\* g adds up f over every subset of U, taking elements in any order.
Sums(g, f, U) ==
  /\ g \in [SUBSET U -> Int] /\ g[{}] = 0
  /\ \A S \in SUBSET U : \A x \in S : g[S] = f[x] + g[S \ {x}]

\* g adds them up in the order in which CHOOSE takes them, as a sum is defined.
Chosen(g, f, U) ==
  g = [S \in SUBSET U |-> IF S = {} THEN 0
                          ELSE f[CHOOSE x \in S : TRUE] + g[S \ {CHOOSE x \in S : TRUE}]]

LEMMA SumsAreTotals ==
    ASSUME NEW U, NEW f \in [U -> Int], NEW g
    PROVE  Sums(g, f, U) <=> Totals(g, f, U, Int, 0, plus)
  <1>1. \A m, n \in Int : plus[<<m, n>>] = m + n
    BY DEF plus
  <1>2. ASSUME g \in [SUBSET U -> Int]
        PROVE  \A S \in SUBSET U : \A x \in S : plus[<<f[x], g[S \ {x}]>>] = f[x] + g[S \ {x}]
    BY <1>1, <1>2
  <1> QED BY <1>2, Zenon DEF Sums, Totals

\* Any order gives the sum.
LEMMA FiniteSum ==
    ASSUME NEW U, IsFiniteSet(U), NEW f \in [U -> Int]
    PROVE  \E g : Sums(g, f, U) /\ \A h : Chosen(h, f, U) <=> h = g
  <1>1. Combines(plus, Int, Int)
    BY DEF Combines, plus
  <1>2. PICK g : Totals(g, f, U, Int, 0, plus) /\ \A h : Taken(h, f, U, 0, plus) <=> h = g
    BY <1>1, FiniteFold
  <1>3. Sums(g, f, U)
    BY <1>2, SumsAreTotals
  <1> DEFINE c(S) == CHOOSE x \in S : TRUE
             pick == [S \in (SUBSET U) \ {{}} |-> c(S)]
  <1>4. \A S \in SUBSET U : S # {} => pick[S] = c(S) /\ c(S) \in S
    OBVIOUS
  <1>5. Picks(pick, U)
    BY <1>4 DEF Picks
  <1> HIDE DEF pick
  <1>6. Chosen(g, f, U)
    <2>1. g = [S \in SUBSET U |-> g[S]] /\ g[{}] = 0
      BY <1>2, Zenon DEF Taken, Totals
    <2>2. \A S \in SUBSET U : S # {} => g[S] = f[c(S)] + g[S \ {c(S)}]
      BY <1>3, <1>4, Zenon DEF Sums
    <2> QED BY <2>1, <2>2, Zenon DEF Chosen
  <1>7. ASSUME NEW h, Chosen(h, f, U) PROVE h = g
    <2>1. h = [S \in SUBSET U |-> h[S]] /\ g = [S \in SUBSET U |-> g[S]]
      BY <1>6, <1>7, Zenon DEF Chosen
    <2>2. h[{}] = 0 /\ g[{}] = 0
      BY <1>6, <1>7, Zenon DEF Chosen
    <2>3. \A S \in SUBSET U : S # {} => h[S] = f[c(S)] + h[S \ {c(S)}]
      BY <1>7, Zenon DEF Chosen
    <2>4. \A S \in SUBSET U : S # {} => g[S] = f[c(S)] + g[S \ {c(S)}]
      BY <1>6, Zenon DEF Chosen
    <2>5. AgreeByRest(g, h, U, pick)
      <3>1. ASSUME NEW S \in SUBSET U, S # {}, g[S \ {pick[S]}] = h[S \ {pick[S]}]
            PROVE  g[S] = h[S]
        <4>1. g[S \ {c(S)}] = h[S \ {c(S)}]
          BY <1>4, <3>1, Zenon
        <4>2. h[S] = f[c(S)] + h[S \ {c(S)}] /\ g[S] = f[c(S)] + g[S \ {c(S)}]
          BY <2>3, <2>4, <3>1, Zenon
        <4> QED BY <4>1, <4>2, Zenon
      <3> QED BY <2>2, <3>1, Zenon DEF AgreeByRest
    <2>6. \A S \in SUBSET U : g[S] = h[S]
      BY <1>5, <2>5, FiniteRecursionUnique
    <2> QED BY <2>1, <2>6, Zenon
  <1> QED BY <1>3, <1>6, <1>7, Zenon

\* There is one sum, and it does not depend on what else could be added up.
LEMMA SumsAgree ==
    ASSUME NEW U, IsFiniteSet(U), NEW f, NEW g, Sums(g, f, U),
           NEW W \in SUBSET U, NEW e, AgreeOn(e, f, W), NEW h, Sums(h, e, W)
    PROVE  h[W] = g[W]
  <1> DEFINE pick == [S \in (SUBSET W) \ {{}} |-> CHOOSE x \in S : TRUE]
  <1>1. \A S \in SUBSET W : S # {} => pick[S] \in S
    OBVIOUS
  <1>2. Picks(pick, W)
    BY <1>1 DEF Picks
  <1> HIDE DEF pick
  <1>3. ASSUME NEW S \in SUBSET W, S # {}, g[S \ {pick[S]}] = h[S \ {pick[S]}]
        PROVE  g[S] = h[S]
    <2>1. pick[S] \in S /\ e[pick[S]] = f[pick[S]]
      BY <1>1, <1>3 DEF AgreeOn
    <2>2. S \in SUBSET U
      OBVIOUS
    <2>3. g[S] = f[pick[S]] + g[S \ {pick[S]}]
      BY <2>1, <2>2, Zenon DEF Sums
    <2>4. h[S] = e[pick[S]] + h[S \ {pick[S]}]
      BY <2>1, Zenon DEF Sums
    <2> QED BY <1>3, <2>1, <2>3, <2>4, Zenon
  <1>4. AgreeByRest(g, h, W, pick)
    BY <1>3, Zenon DEF AgreeByRest, Sums
  <1>5. IsFiniteSet(W)
    BY FS_Subset
  <1>6. \A S \in SUBSET W : g[S] = h[S]
    BY <1>2, <1>4, <1>5, FiniteRecursionUnique
  <1> QED BY <1>6

\* Sums of a function, over a set that is finite.
LEMMA SetSums ==
    ASSUME NEW U, IsFiniteSet(U), NEW f \in [U -> Int]
    PROVE  \E g : Sums(g, f, U) /\ \A S \in SUBSET U : SumFunctionOnSet(f, S) = g[S]
  <1>1. PICK g : Sums(g, f, U)
    BY FiniteSum
  <1>2. ASSUME NEW S \in SUBSET U PROVE SumFunctionOnSet(f, S) = g[S]
    <2> DEFINE e == [x \in S |-> f[x]]
               F(h) == [T \in SUBSET S |-> IF T = {} THEN 0
                          ELSE f[CHOOSE x \in T : TRUE] + h[T \ {CHOOSE x \in T : TRUE}]]
    <2>1. e \in [S -> Int] /\ AgreeOn(e, f, S)
      BY DEF AgreeOn
    <2>2. IsFiniteSet(S)
      BY FS_Subset
    <2>3. \A T \in SUBSET S : T # {} => e[CHOOSE x \in T : TRUE] = f[CHOOSE x \in T : TRUE]
      OBVIOUS
    <2> HIDE DEF e
    <2>4. PICK h : Sums(h, e, S) /\ \A k : Chosen(k, e, S) <=> k = h
      BY <2>1, <2>2, FiniteSum
    <2>5. ASSUME NEW k PROVE Chosen(k, e, S) <=> k = F(k)
      <3>1. F(k) = [T \in SUBSET S |-> IF T = {} THEN 0
                      ELSE e[CHOOSE x \in T : TRUE] + k[T \ {CHOOSE x \in T : TRUE}]]
        BY <2>3
      <3> QED BY <3>1, Zenon DEF Chosen
    <2>6. SumFunctionOnSet(f, S) = (CHOOSE k : k = F(k))[S]
      BY Zenon DEF SumFunctionOnSet, FoldFunctionOnSet, MapThenFoldSet
    <2> HIDE DEF F
    <2>7. (CHOOSE k : k = F(k)) = h
      BY <2>4, <2>5, Zenon
    <2>8. h[S] = g[S]
      BY <1>1, <2>1, <2>4, SumsAgree
    <2> QED BY <2>6, <2>7, <2>8
  <1> QED BY <1>1, <1>2

\* A sum over two parts is the sum of theirs.
InParts(S, P, Q) == S = P \cup Q /\ P \cap Q = {}

LEMMA SumsInParts ==
    ASSUME NEW U, IsFiniteSet(U), NEW f \in [U -> Int], NEW g, Sums(g, f, U),
           NEW S \in SUBSET U, NEW P, NEW Q, InParts(S, P, Q)
    PROVE  g[S] = g[P] + g[Q] /\ g[P] \in Int /\ g[Q] \in Int
  <1> DEFINE h == [T \in SUBSET S |-> g[T \cap P] + g[T \ P]]
  <1>1. g \in [SUBSET U -> Int] /\ g[{}] = 0
    BY DEF Sums
  <1>2. \A T \in SUBSET U : \A x \in T : g[T] = f[x] + g[T \ {x}]
    BY DEF Sums
  <1>3. \A T \in SUBSET S : T \cap P \in SUBSET U /\ T \ P \in SUBSET U
    OBVIOUS
  <1>4. \A T \in SUBSET S : h[T] = g[T \cap P] + g[T \ P] /\ g[T \cap P] \in Int /\ g[T \ P] \in Int
    BY <1>1, <1>3
  <1>5. h \in [SUBSET S -> Int]
    BY <1>1, <1>3
  <1>6. h[{}] = 0
    <2>1. {} \cap P = {} /\ {} \ P = {} /\ {} \in SUBSET S
      OBVIOUS
    <2>2. h[{}] = g[{} \cap P] + g[{} \ P]
      BY <1>4, <2>1
    <2> HIDE DEF h
    <2> QED BY <1>1, <2>1, <2>2
  <1> HIDE DEF h
  <1>7. ASSUME NEW T \in SUBSET S, NEW x \in T PROVE h[T] = f[x] + h[T \ {x}]
    <2>1. T \ {x} \in SUBSET S /\ f[x] \in Int
      OBVIOUS
    <2>2. CASE x \in P
      <3>1. (T \ {x}) \cap P = (T \cap P) \ {x} /\ (T \ {x}) \ P = T \ P /\ x \in T \cap P
        BY <2>2
      <3>2. g[T \cap P] = f[x] + g[(T \cap P) \ {x}]
        BY <1>2, <1>3, <3>1
      <3>3. h[T] = g[T \cap P] + g[T \ P] /\ h[T \ {x}] = g[(T \cap P) \ {x}] + g[T \ P]
            /\ g[(T \cap P) \ {x}] \in Int /\ g[T \ P] \in Int
        BY <1>4, <2>1, <3>1
      <3> QED BY <2>1, <3>2, <3>3
    <2>3. CASE x \notin P
      <3>1. (T \ {x}) \ P = (T \ P) \ {x} /\ (T \ {x}) \cap P = T \cap P /\ x \in T \ P
        BY <2>3
      <3>2. g[T \ P] = f[x] + g[(T \ P) \ {x}]
        BY <1>2, <1>3, <3>1
      <3>3. h[T] = g[T \cap P] + g[T \ P] /\ h[T \ {x}] = g[T \cap P] + g[(T \ P) \ {x}]
            /\ g[(T \ P) \ {x}] \in Int /\ g[T \cap P] \in Int
        BY <1>4, <2>1, <3>1
      <3> QED BY <2>1, <3>2, <3>3
    <2> QED BY <2>2, <2>3
  <1>8. Sums(h, f, S)
    BY <1>5, <1>6, <1>7 DEF Sums
  <1>9. AgreeOn(f, f, S)
    BY DEF AgreeOn
  <1>10. h[S] = g[S]
    BY <1>8, <1>9, SumsAgree
  <1>11. S \cap P = P /\ S \ P = Q /\ P \in SUBSET U /\ Q \in SUBSET U
    BY DEF InParts
  <1> QED BY <1>1, <1>4, <1>10, <1>11

\* What adds nothing may be left out.
LEMMA SumsOfZeros ==
    ASSUME NEW U, IsFiniteSet(U), NEW f \in [U -> Int], NEW g, Sums(g, f, U),
           NEW S \in SUBSET U, \A x \in S : f[x] = 0
    PROVE  g[S] = 0
  <1> DEFINE h == [T \in SUBSET S |-> 0]
  <1>1. Sums(h, f, S)
    BY DEF Sums
  <1> HIDE DEF h
  <1>2. AgreeOn(f, f, S)
    BY DEF AgreeOn
  <1>3. h[S] = g[S]
    BY <1>1, <1>2, SumsAgree
  <1> QED BY <1>3 DEF h

\* Functions that agree on a set have the same sum over it.
LEMMA SumsAlike ==
    ASSUME NEW U, IsFiniteSet(U), NEW f \in [U -> Int], NEW e \in [U -> Int], NEW S \in SUBSET U,
           \A x \in S : e[x] = f[x]
    PROVE  SumFunctionOnSet(e, S) = SumFunctionOnSet(f, S)
  <1>1. PICK g : Sums(g, e, U) /\ \A T \in SUBSET U : SumFunctionOnSet(e, T) = g[T]
    BY SetSums
  <1>2. PICK h : Sums(h, f, U) /\ \A T \in SUBSET U : SumFunctionOnSet(f, T) = h[T]
    BY SetSums
  <1> DEFINE r == [T \in SUBSET S |-> g[T]]
  <1>3. g \in [SUBSET U -> Int] /\ g[{}] = 0
        /\ \A T \in SUBSET U : \A x \in T : g[T] = e[x] + g[T \ {x}]
    BY <1>1 DEF Sums
  <1>4. Sums(r, e, S)
    <2>1. \A T \in SUBSET S : T \in SUBSET U /\ \A x \in T : T \ {x} \in SUBSET S
      OBVIOUS
    <2>2. \A T \in SUBSET S : \A x \in T : r[T] = e[x] + r[T \ {x}]
      BY <1>3, <2>1
    <2>3. r \in [SUBSET S -> Int] /\ r[{}] = 0
      BY <1>3, <2>1
    <2> HIDE DEF r
    <2> QED BY <2>2, <2>3 DEF Sums
  <1>5. AgreeOn(e, f, S)
    BY DEF AgreeOn
  <1>6. r[S] = g[S]
    OBVIOUS
  <1> HIDE DEF r
  <1>7. r[S] = h[S]
    BY <1>2, <1>4, <1>5, SumsAgree
  <1> QED BY <1>1, <1>2, <1>6, <1>7

\* The groups of a set add up to the set.
LEMMA SumsOfGroups ==
    ASSUME NEW U, IsFiniteSet(U), NEW f \in [U -> Int], NEW S \in SUBSET U, NEW name,
           NEW items, items = [n \in {name[x] : x \in S} |->
                                 SumFunctionOnSet(f, {x \in S : name[x] = n})]
    PROVE  SumFunction(items) = SumFunctionOnSet(f, S)
  <1>1. PICK g : Sums(g, f, U) /\ \A T \in SUBSET U : SumFunctionOnSet(f, T) = g[T]
    BY SetSums
  <1> DEFINE N == {name[x] : x \in S}
             Of(M) == {x \in S : name[x] \in M}
             h == [M \in SUBSET N |-> g[Of(M)]]
  <1>2. \A M : Of(M) \in SUBSET U /\ Of(M) \in SUBSET S
    OBVIOUS
  <1>3. Of({}) = {} /\ Of(N) = S
    OBVIOUS
  <1>4. IsFiniteSet(S)
    BY FS_Subset
  <1>5. IsFiniteSet(N)
    BY <1>4, FiniteImage
  <1>6. g \in [SUBSET U -> Int] /\ g[{}] = 0
    BY <1>1 DEF Sums
  <1>7. \A n \in N : {x \in S : name[x] = n} \in SUBSET U
    OBVIOUS
  <1>8. \A n \in N : items[n] = g[{x \in S : name[x] = n}]
    <2> TAKE n \in N
    <2>1. items[n] = SumFunctionOnSet(f, {x \in S : name[x] = n})
      OBVIOUS
    <2> QED BY <1>1, <1>7, <2>1
  <1>9. DOMAIN items = N /\ items \in [N -> Int]
    <2>1. DOMAIN items = N /\ items = [n \in N |-> items[n]]
      OBVIOUS
    <2>2. \A n \in N : items[n] \in Int
      BY <1>6, <1>7, <1>8
    <2> QED BY <2>1, <2>2
  <1> HIDE DEF N, Of
  <1>10. Sums(h, items, N)
    <2>1. h \in [SUBSET N -> Int] /\ h[{}] = 0
      BY <1>2, <1>3, <1>6
    <2>2. ASSUME NEW M \in SUBSET N, NEW n \in M PROVE h[M] = items[n] + h[M \ {n}]
      <3> DEFINE P == {x \in S : name[x] = n}
      <3>1. InParts(Of(M), P, Of(M \ {n}))
        BY <2>2 DEF Of, InParts
      <3>2. g[Of(M)] = g[P] + g[Of(M \ {n})]
        <4>1. Sums(g, f, U) /\ Of(M) \in SUBSET U
          BY <1>1, <1>2
        <4> HIDE DEF h, P
        <4> QED BY <3>1, <4>1, SumsInParts
      <3>3. items[n] = g[P] /\ n \in N
        BY <1>8, <2>2
      <3>4. h[M] = g[Of(M)] /\ h[M \ {n}] = g[Of(M \ {n})]
        BY <2>2
      <3> HIDE DEF P, h
      <3> QED BY <3>2, <3>3, <3>4
    <2> QED BY <2>1, <2>2 DEF Sums
  <1>11. PICK k : Sums(k, items, N) /\ \A T \in SUBSET N : SumFunctionOnSet(items, T) = k[T]
    <2> HIDE DEF h
    <2>1. items \in [N -> Int]
      BY <1>9
    <2> QED BY ONLY <1>5, <2>1, SetSums
  <1>12. AgreeOn(items, items, N)
    BY DEF AgreeOn
  <1>13. k[N] = h[N]
    <2> HIDE DEF h
    <2> QED BY <1>5, <1>10, <1>11, <1>12, SumsAgree
  <1>14. SumFunction(items) = k[N]
    BY <1>9, <1>11 DEF SumFunction
  <1>15. h[N] = g[S]
    BY <1>3
  <1> QED BY <1>1, <1>13, <1>14, <1>15

-----------------------------------------------------------------------------
(* Sequences *)

\* A sequence that is appended to.
LEMMA Appended ==
    ASSUME NEW S, NEW s \in Seq(S), NEW e \in S
    PROVE  /\ Append(s, e) \in Seq(S) /\ Len(Append(s, e)) = Len(s) + 1
           /\ \A i \in 1 .. Len(s) : Append(s, e)[i] = s[i]
           /\ Append(s, e)[Len(s) + 1] = e
  OBVIOUS

\* A sequence one of whose elements is replaced.
LEMMA Replaced ==
    ASSUME NEW S, NEW s \in Seq(S), NEW i \in 1 .. Len(s), NEW e \in S
    PROVE  /\ [s EXCEPT ![i] = e] \in Seq(S) /\ Len([s EXCEPT ![i] = e]) = Len(s)
           /\ \A j \in 1 .. Len(s) : [s EXCEPT ![i] = e][j] = IF j = i THEN e ELSE s[j]
  OBVIOUS

=============================================================================
