--------------------------- MODULE EquityLedger_proof ---------------------------
(***************************************************************************)
(* Proofs about B20Quantities and EquityLedger, for every value of their   *)
(* constants: what the floors can cost, that balances stay within the      *)
(* supply cap, that both routes to a value agree on every balance, that a  *)
(* query about the past is fixed, and that a settled ledger has the        *)
(* chain's balances, conserves raw units and values a position whole or    *)
(* not at all.                                                             *)
(*                                                                         *)
(* 10^18 and the caps stay constants.                                      *)
(***************************************************************************)
EXTENDS EquityLedger, FiniteSetTheorems, WellFoundedInduction, TLAPS

\* Division is the floor, as in the code's bigint arithmetic.
LEMMA Euclid ==
    ASSUME NEW a \in Nat, NEW b \in Nat \ {0}
    PROVE  /\ a \div b \in Nat /\ a % b \in 0..b - 1
           /\ a = b * (a \div b) + (a % b)
OBVIOUS

\* A product grows with its factors
LEMMA ProductMonotone ==
    ASSUME NEW a \in Nat, NEW b \in Nat, NEW c \in Nat, a <= b
    PROVE  a * c <= b * c
OBVIOUS

\* and stays a natural number.
LEMMA ProductNat ==
    ASSUME NEW a \in Nat, NEW b \in Nat
    PROVE  a * b \in Nat
OBVIOUS

\* A common positive factor can be taken out of a comparison.
LEMMA Cancel ==
    ASSUME NEW a \in Int, NEW b \in Int, NEW k \in Nat \ {0}, a * k < b * k
    PROVE  a < b
OBVIOUS

-----------------------------------------------------------------------------

\* RoundTripIsBounded.  Converting to shares and back never gains a unit, and
\* what it loses is worth less than one share and one raw unit together
\* (rawToShares, sharesToRaw).  It is more than one raw unit when the multiplier
\* is below one.
THEOREM RoundTripIsBounded ==
    ASSUME NEW raw \in Nat, NEW m \in Nat \ {0}
    PROVE  LET back == Raw(Shares(raw, m), m)
           IN  back <= raw /\ m * (raw - back) < Wad + m
<1> USE Scales
<1> DEFINE s == Shares(raw, m)
           back == Raw(s, m)
           r1 == (raw * m) % Wad
           r2 == (s * Wad) % m
<1>1. raw * m \in Nat
    BY ProductNat
<1>2. s \in Nat /\ r1 \in 0..Wad - 1 /\ raw * m = Wad * s + r1
    BY <1>1, Euclid DEF Shares
<1>3. s * Wad \in Nat
    BY <1>2, ProductNat
<1>4. back \in Nat /\ r2 \in 0..m - 1 /\ s * Wad = m * back + r2
    BY <1>3, Euclid DEF Raw
<1> HIDE DEF s, back, r1, r2
<1>5. raw * m = m * back + r2 + r1
    BY <1>2, <1>4
<1>6. m * (raw - back) = r1 + r2
    BY <1>5, <1>4, <1>2
<1>7. m * (raw - back) < Wad + m
    BY <1>6, <1>2, <1>4
<1>8. back <= raw
  <2>1. SUFFICES ASSUME back > raw PROVE FALSE
      BY <1>4
  <2>2. raw - back <= -1
      BY <2>1, <1>4
  <2>3. m * (raw - back) < 0
      BY <2>2, <1>4
  <2> QED
      BY <2>3, <1>6, <1>2, <1>4
<1> QED
    BY <1>7, <1>8 DEF back, s

\* SharesAddUp.  Two amounts converted apart lose at most one share against the
\* sum converted at once: what a position's shares can drift for each entry
\* (rawToShares).
THEOREM SharesAddUp ==
    ASSUME NEW a \in Nat, NEW b \in Nat, NEW m \in Nat \ {0}
    PROVE  Shares(a + b, m) - (Shares(a, m) + Shares(b, m)) \in {0, 1}
<1> USE Scales
<1> DEFINE sa == Shares(a, m)
           sb == Shares(b, m)
           sc == Shares(a + b, m)
           ra == (a * m) % Wad
           rb == (b * m) % Wad
           rc == ((a + b) * m) % Wad
<1>1. a * m \in Nat /\ b * m \in Nat /\ (a + b) * m \in Nat
    BY ProductNat
<1>2. sa \in Nat /\ ra \in 0..Wad - 1 /\ a * m = Wad * sa + ra
    BY <1>1, Euclid DEF Shares
<1>3. sb \in Nat /\ rb \in 0..Wad - 1 /\ b * m = Wad * sb + rb
    BY <1>1, Euclid DEF Shares
<1>4. sc \in Nat /\ rc \in 0..Wad - 1 /\ (a + b) * m = Wad * sc + rc
    BY <1>1, Euclid DEF Shares
<1> HIDE DEF sa, sb, sc, ra, rb, rc
<1>5. (a + b) * m = a * m + b * m
    OBVIOUS
<1>6. Wad * (sc - (sa + sb)) = ra + rb - rc
    BY <1>2, <1>3, <1>4, <1>5
<1> DEFINE d == sc - (sa + sb)
<1>7. d \in Int /\ Wad * d = ra + rb - rc
    BY <1>2, <1>3, <1>4, <1>6
<1>8. Wad * d < 2 * Wad /\ -Wad < Wad * d
    BY <1>7, <1>2, <1>3, <1>4
<1> HIDE DEF d
<1>9. d < 2 /\ -1 < d
    BY <1>7, <1>8, Cancel
<1> QED
    BY <1>7, <1>9 DEF d, sa, sb, sc

-----------------------------------------------------------------------------
\* The two routes to a value.

\* What two floors leave over is less than a unit of either side.
LEMMA Remainders ==
    ASSUME NEW s \in Nat, NEW u \in Nat, NEW w \in Nat \ {0}, NEW m \in Nat \ {0},
           NEW r1 \in 0..w - 1, NEW r2 \in 0..m - 1
    PROVE  /\ 0 <= (s * w) * r2 + (u * m) * r1 + r1 * r2
           /\ (s * w) * r2 + (u * m) * r1 + r1 * r2 < (s + u + 1) * (w * m)
<1>1. s * w \in Nat /\ u * m \in Nat
    BY ProductNat
<1>2. (s * w) * r2 \in Nat /\ (u * m) * r1 \in Nat /\ r1 * r2 \in Nat
    BY <1>1, ProductNat
<1>3. (s * w) * r2 <= (s * w) * m
    BY <1>1, ProductMonotone
<1>4. (u * m) * r1 <= (u * m) * w
    BY <1>1, ProductMonotone
<1>5. r1 * r2 < w * m
  <2>1. r1 * r2 <= r1 * m
      BY ProductMonotone
  <2>2. r1 * m < w * m
      OBVIOUS
  <2>3. r1 * m \in Nat /\ w * m \in Nat
      BY ProductNat
  <2> QED
      BY <1>2, <2>1, <2>2, <2>3
<1>6. (s + u + 1) * (w * m) = (s * w) * m + (u * m) * w + w * m
    OBVIOUS
<1>7. (s * w) * m \in Nat /\ (u * m) * w \in Nat /\ w * m \in Nat
    BY <1>1, ProductNat
<1> QED
    BY <1>2, <1>3, <1>4, <1>5, <1>6, <1>7

\* RoutesAgreeUpToFloors.  The raw amount at the total-return price is worth at
\* least its shares at the derived underlying price, and more by less than the
\* tolerance the code grants: the gap is two floors and never a multiplier
\* (rawToShares, compareValuationRoutes).
THEOREM RoutesAgreeUpToFloors ==
    ASSUME NEW raw \in Nat, NEW m \in Nat \ {0}, NEW price \in Nat
    PROVE  LET s == Shares(raw, m)
               u == (price * Wad) \div m
           IN  0 <= raw * price - s * u /\ raw * price - s * u < s + u + 1
<1> USE Scales
<1> DEFINE s == Shares(raw, m)
           u == (price * Wad) \div m
           r1 == (raw * m) % Wad
           r2 == (price * Wad) % m
           gap == raw * price - s * u
           lost == (s * Wad) * r2 + (u * m) * r1 + r1 * r2
<1>1. raw * m \in Nat /\ price * Wad \in Nat
    BY ProductNat
<1>2. s \in Nat /\ r1 \in 0..Wad - 1 /\ raw * m = Wad * s + r1
    BY <1>1, Euclid DEF Shares
<1>3. u \in Nat /\ r2 \in 0..m - 1 /\ price * Wad = m * u + r2
    BY <1>1, Euclid
<1> HIDE DEF s, u, r1, r2
<1>4. (raw * m) * (price * Wad) = (Wad * s + r1) * (m * u + r2)
    BY <1>2, <1>3
<1>5. (Wad * s + r1) * (m * u + r2) = (s * u) * (Wad * m) + lost
    BY <1>2, <1>3
<1>6. (raw * m) * (price * Wad) = (raw * price) * (Wad * m)
    OBVIOUS
<1>7. gap \in Int
    BY <1>2, <1>3
<1>8. gap * (Wad * m) = (raw * price) * (Wad * m) - (s * u) * (Wad * m)
    BY <1>2, <1>3
<1>9. lost \in Int
    BY <1>2, <1>3
<1>10. 0 <= lost /\ lost < (s + u + 1) * (Wad * m)
    BY <1>2, <1>3, Remainders
<1> HIDE DEF gap, lost
<1>11. gap * (Wad * m) = lost
    BY <1>4, <1>5, <1>6, <1>8, <1>9, <1>2, <1>3
<1>12. Wad * m \in Nat \ {0}
    BY ProductNat
<1>13. gap < s + u + 1
    BY <1>7, <1>10, <1>11, <1>12, <1>2, <1>3, Cancel
<1>14. -1 * (Wad * m) < gap * (Wad * m)
    BY <1>10, <1>11, <1>12, <1>9
<1>15. -1 < gap
    BY <1>7, <1>12, <1>14, Cancel
<1> QED
    BY <1>7, <1>13, <1>15 DEF gap, s, u

Price == [basis : {TotalReturn, Underlying}, value : Nat, decimals : Nat,
          traced : BOOLEAN,
          freshness : {"FRESH", "EXPECTED_HOLD", "STALE", "ISSUER_PAUSED",
                       "SEQUENCER_UNAVAILABLE", "INVALID_ROUND"}]

\* RoutesAgree.  The same of the two valuations themselves: when both routes are
\* open, what they say differs by no more than the code's tolerance.  They have
\* one scale, because the derived price keeps the decimals of the other.
THEOREM RoutesAgree ==
    ASSUME NEW raw \in Nat, NEW m \in Nat \ {0}, NEW decimals \in Nat, NEW total \in Price
    PROVE  LET a == ValueRawWithTotalReturnPrice(raw, decimals, total)
               b == ValueSharesWithUnderlyingPrice(Shares(raw, m), decimals,
                                                   DerivedUnderlying(total, m))
           IN  Ok(a) /\ Ok(b) => /\ a.scale = b.scale
                                 /\ Abs(a.value - b.value) <= Tolerance(b)
<1> DEFINE derived == DerivedUnderlying(total, m)
           s == Shares(raw, m)
           a == ValueRawWithTotalReturnPrice(raw, decimals, total)
           b == ValueSharesWithUnderlyingPrice(s, decimals, derived)
<1> SUFFICES ASSUME Ok(a), Ok(b)
             PROVE  a.scale = b.scale /\ Abs(a.value - b.value) <= Tolerance(b)
    OBVIOUS
<1>1. a = Valuation(raw, decimals, total)
    BY DEF Ok, ValueRawWithTotalReturnPrice, Refused
<1>2. b = Valuation(s, decimals, derived)
    BY DEF Ok, ValueSharesWithUnderlyingPrice, Refused
<1>3. derived.value = (total.value * Wad) \div m /\ derived.decimals = total.decimals
    BY DEF DerivedUnderlying, Price
<1>4. total.value \in Nat /\ total.decimals \in Nat
    BY DEF Price
<1>5. s \in Nat /\ derived.value \in Nat
  <2>1. raw * m \in Nat /\ total.value * Wad \in Nat
      BY <1>4, ProductNat, Scales
  <2> QED
      BY <2>1, <1>3, Euclid, Scales DEF Shares
<1>6. /\ 0 <= raw * total.value - s * derived.value
      /\ raw * total.value - s * derived.value < s + derived.value + 1
    BY <1>3, <1>4, RoutesAgreeUpToFloors
<1> HIDE DEF derived, s, a, b
<1>7. /\ a.value = raw * total.value /\ b.value = s * derived.value
      /\ b.quantity = s /\ b.price = derived.value
      /\ a.scale = decimals + total.decimals /\ b.scale = decimals + derived.decimals
    BY <1>1, <1>2 DEF Valuation
<1>8. raw * total.value \in Nat /\ s * derived.value \in Nat
    BY <1>4, <1>5, ProductNat
<1> QED
    BY <1>3, <1>5, <1>6, <1>7, <1>8 DEF Abs, Tolerance

-----------------------------------------------------------------------------
\* Sums over a finite set.

\* The member the library's folds take first.
Pick(s) == CHOOSE x \in s : TRUE

\* iter is the recursive function the library defines a sum over S by.
Solves(iter, f, S) ==
    iter = [s \in SUBSET S |->
               IF s = {} THEN 0 ELSE f[Pick(s)] + iter[s \ {Pick(s)}]]

IterOf(f, S) == CHOOSE iter : Solves(iter, f, S)

SumOver(f, S) == IterOf(f, S)[S]

\* LeastSubset.  A non-empty collection of subsets of a finite set has one that
\* contains no other: the induction of every proof below, as a statement about
\* sets.
LEMMA LeastSubset ==
    ASSUME NEW S, IsFiniteSet(S), NEW T, T \subseteq SUBSET S, T # {}
    PROVE  \E x \in T : \A y \in T : y \subseteq x => y = x
<1>1. IsWellFoundedOn(StrictSubsetOrdering(S), SUBSET S)
  BY FS_StrictSubsetOrderingWellFounded, FS_FiniteSubsetsOfFinite
<1>2. PICK x \in T : \A y \in T : <<y, x>> \notin StrictSubsetOrdering(S)
  <2> DEFINE R == StrictSubsetOrdering(S)
  <2>1. IsWellFoundedOn(R, SUBSET S)
    BY <1>1
  <2> HIDE DEF R
  <2>2. \E x \in T : \A y \in T : ~(<<y, x>> \in R)
    BY <2>1, WFMin
  <2> QED BY <2>2 DEF R
<1>3. ASSUME NEW y \in T, y \subseteq x PROVE y = x
  BY <1>2, <1>3 DEF StrictSubsetOrdering
<1> QED BY <1>2, <1>3

\* Two solutions of the recursion agree wherever both are defined.
LEMMA SolutionsAgree ==
    ASSUME NEW f, NEW S, IsFiniteSet(S), NEW T \in SUBSET S,
           NEW g, NEW h, Solves(g, f, S), Solves(h, f, T)
    PROVE  \A s \in SUBSET T : g[s] = h[s]
<1> DEFINE D == {s \in SUBSET T : g[s] # h[s]}
<1> SUFFICES ASSUME D # {} PROVE FALSE
  OBVIOUS
<1>1. D \subseteq SUBSET S
  OBVIOUS
<1>2. PICK s \in D : \A y \in D : y \subseteq s => y = s
  <2> HIDE DEF D
  <2> QED BY <1>1, LeastSubset
<1>3. CASE s = {}
  BY <1>2, <1>3 DEF Solves
<1>4. CASE s # {}
  <2>1. Pick(s) \in s
    BY <1>4 DEF Pick
  <2>2. s \ {Pick(s)} \notin D
    BY <1>2, <2>1
  <2>3. g[s \ {Pick(s)}] = h[s \ {Pick(s)}]
    BY <2>2
  <2> DEFINE p == Pick(s)
  <2>4. g[s] = f[p] + g[s \ {p}]
    BY <1>4 DEF Solves
  <2>5. h[s] = f[p] + h[s \ {p}]
    BY <1>4 DEF Solves
  <2> QED BY <2>3, <2>4, <2>5
<1> QED BY <1>3, <1>4

\* The recursion has a solution, so IterOf is one: a least set without one would
\* have the solutions of its own subsets to build on.
LEMMA SolutionExists ==
    ASSUME NEW f, NEW S, IsFiniteSet(S)
    PROVE  Solves(IterOf(f, S), f, S)
<1> DEFINE Without == {T \in SUBSET S : ~ \E g : Solves(g, f, T)}
<1>1. Without = {}
  <2> SUFFICES ASSUME Without # {} PROVE FALSE
    OBVIOUS
  <2>1. Without \subseteq SUBSET S
    OBVIOUS
  <2>2. PICK T \in Without : \A y \in Without : y \subseteq T => y = T
    <3> HIDE DEF Without
    <3> QED BY <2>1, LeastSubset
  <2>3. ASSUME NEW s \in SUBSET T, s # T PROVE Solves(IterOf(f, s), f, s)
    <3>1. \E g : Solves(g, f, s)
      BY <2>2, <2>3
    <3> QED BY <3>1 DEF IterOf
  <2> DEFINE p(s) == Pick(s)
             rest(s) == s \ {Pick(s)}
             own(s) == IterOf(f, s)[s]
             g == [s \in SUBSET T |-> IF s = {} THEN 0 ELSE f[Pick(s)] + own(rest(s))]
  <2>4. ASSUME NEW s \in SUBSET T, s # {} PROVE rest(s) \in SUBSET T /\ rest(s) # T /\ rest(s) # s /\ rest(s) \subseteq s
    BY <2>4 DEF Pick
  <2>5. ASSUME NEW s \in SUBSET T, s # T PROVE own(s) = g[s]
    <3>1. Solves(IterOf(f, s), f, s)
      BY <2>3, <2>5
    <3>2. CASE s = {}
      BY <3>1, <3>2 DEF Solves
    <3>3. CASE s # {}
      <4>1. IterOf(f, s)[s] = f[Pick(s)] + IterOf(f, s)[rest(s)]
        BY <3>1, <3>3 DEF Solves
      <4>2. Solves(IterOf(f, rest(s)), f, rest(s))
        BY <2>3, <2>4, <3>3
      <4>3. IsFiniteSet(s)
        BY FS_Subset
      <4>4. IterOf(f, s)[rest(s)] = own(rest(s))
        BY <3>1, <4>2, <4>3, <2>4, <3>3, SolutionsAgree
      <4> QED BY <3>3, <4>1, <4>4
    <3> QED BY <3>2, <3>3
  <2>6. ASSUME NEW s \in SUBSET T, s # {} PROVE own(rest(s)) = g[rest(s)]
    BY <2>4, <2>5, <2>6
  <2>7. Solves(g, f, T)
    <3>1. g = [s \in SUBSET T |-> IF s = {} THEN 0 ELSE f[Pick(s)] + g[rest(s)]]
      BY <2>6
    <3> QED BY <3>1 DEF Solves
  <2> QED BY <2>2, <2>7
<1>2. \E g : Solves(g, f, S)
  BY <1>1
<1> QED BY <1>2 DEF IterOf

\* The library's sum of a function is the sum over its domain.
LEMMA SumFunctionIsSum ==
    ASSUME NEW f
    PROVE  SumFunction(f) = SumOver(f, DOMAIN f)
<1> DEFINE S == DOMAIN f
<1>1. SumFunction(f) = SumFunctionOnSet(f, S)
  BY DEF SumFunction
<1> HIDE DEF S
<1>2. SumFunctionOnSet(f, S) = SumOver(f, S)
  BY DEF SumFunctionOnSet, FoldFunctionOnSet, MapThenFoldSet, SumOver, IterOf, Solves, Pick
<1> QED BY <1>1, <1>2 DEF S

\* Nothing adds up to zero,
LEMMA SumOfNothing == \A f : SumOver(f, {}) = 0
<1> TAKE f
<1>1. Solves(IterOf(f, {}), f, {})
  BY FS_EmptySet, SolutionExists
<1>2. IterOf(f, {})[{}] = 0
  BY <1>1 DEF Solves
<1> QED BY <1>2 DEF SumOver

\* and a sum begins with any term.
LEMMA SumPicks ==
    ASSUME NEW f, NEW S, IsFiniteSet(S), S # {}
    PROVE  SumOver(f, S) = f[Pick(S)] + SumOver(f, S \ {Pick(S)})
<1> DEFINE R == S \ {Pick(S)}
<1>1. Solves(IterOf(f, S), f, S)
  BY SolutionExists
<1>2. IsFiniteSet(R)
  BY FS_Subset
<1>3. Solves(IterOf(f, R), f, R)
  BY <1>2, SolutionExists
<1>4. IterOf(f, S)[R] = IterOf(f, R)[R]
  BY <1>1, <1>3, SolutionsAgree
<1>5. IterOf(f, S)[S] = f[Pick(S)] + IterOf(f, S)[R]
  BY <1>1 DEF Solves
<1> QED BY <1>4, <1>5 DEF SumOver

\* A sum of integers is one.
LEMMA SumIsInt ==
    ASSUME NEW S, IsFiniteSet(S), NEW f, \A x \in S : f[x] \in Int
    PROVE  SumOver(f, S) \in Int
<1> DEFINE Bad == {T \in SUBSET S : SumOver(f, T) \notin Int}
<1> SUFFICES ASSUME Bad # {} PROVE FALSE
  OBVIOUS
<1>1. Bad \subseteq SUBSET S
  OBVIOUS
<1>2. PICK T \in Bad : \A y \in Bad : y \subseteq T => y = T
  <2> HIDE DEF Bad
  <2> QED BY <1>1, LeastSubset
<1>3. T # {}
  BY SumOfNothing
<1>4. IsFiniteSet(T)
  BY FS_Subset
<1>5. Pick(T) \in T
  BY <1>3 DEF Pick
<1>6. SumOver(f, T \ {Pick(T)}) \in Int
  BY <1>2, <1>5
<1> QED BY <1>3, <1>4, <1>5, <1>6, SumPicks

\* SumTakes.  Any member may be taken out of the sum first, whichever the
\* library's choice takes.
LEMMA SumTakes ==
    ASSUME NEW S, IsFiniteSet(S), NEW f, \A x \in S : f[x] \in Int, NEW e \in S
    PROVE  SumOver(f, S) = f[e] + SumOver(f, S \ {e})
<1> DEFINE Sum(T) == SumOver(f, T)
           Bad == {T \in SUBSET S : \E x \in T : Sum(T) # f[x] + Sum(T \ {x})}
<1> SUFFICES ASSUME Bad # {} PROVE FALSE
  OBVIOUS
<1>1. Bad \subseteq SUBSET S
  OBVIOUS
<1>2. PICK T \in Bad : \A y \in Bad : y \subseteq T => y = T
  <2> HIDE DEF Bad
  <2> QED BY <1>1, LeastSubset
<1>3. PICK x \in T : Sum(T) # f[x] + Sum(T \ {x})
  OBVIOUS
<1> DEFINE p == Pick(T)
<1>4. p \in T
  BY DEF Pick
<1>5. \A U \in SUBSET S : IsFiniteSet(U) /\ Sum(U) \in Int
  BY FS_Subset, SumIsInt
<1>6. Sum(T) = f[p] + Sum(T \ {p})
  BY <1>4, <1>5, SumPicks
<1>7. x # p
  BY <1>3, <1>6
<1>8. Sum(T \ {p}) = f[x] + Sum((T \ {p}) \ {x})
  <2>1. T \ {p} \in SUBSET S /\ T \ {p} \notin Bad /\ x \in T \ {p}
    BY <1>2, <1>4, <1>7
  <2> QED BY <2>1
<1>9. Sum(T \ {x}) = f[p] + Sum((T \ {x}) \ {p})
  <2>1. T \ {x} \in SUBSET S /\ T \ {x} \notin Bad /\ p \in T \ {x}
    BY <1>2, <1>3, <1>4, <1>7
  <2> QED BY <2>1
<1>10. (T \ {p}) \ {x} = (T \ {x}) \ {p}
  OBVIOUS
<1> DEFINE rest == Sum((T \ {x}) \ {p})
<1>11. f[x] \in Int /\ f[p] \in Int /\ rest \in Int
  BY <1>4, <1>5
<1> HIDE DEF Sum, p, rest
<1>12. Sum(T) = f[p] + (f[x] + rest) /\ Sum(T \ {x}) = f[p] + rest
  BY <1>6, <1>8, <1>9, <1>10 DEF rest
<1> QED BY <1>3, <1>11, <1>12

\* A sum depends on the summed members alone.
LEMMA SumAgrees ==
    ASSUME NEW S, IsFiniteSet(S), NEW f, NEW g, \A x \in S : f[x] = g[x]
    PROVE  SumOver(f, S) = SumOver(g, S)
<1> DEFINE Bad == {T \in SUBSET S : SumOver(f, T) # SumOver(g, T)}
<1> SUFFICES ASSUME Bad # {} PROVE FALSE
  OBVIOUS
<1>1. Bad \subseteq SUBSET S
  OBVIOUS
<1>2. PICK T \in Bad : \A y \in Bad : y \subseteq T => y = T
  <2> HIDE DEF Bad
  <2> QED BY <1>1, LeastSubset
<1>3. T # {}
  BY SumOfNothing
<1>4. IsFiniteSet(T)
  BY FS_Subset
<1>5. Pick(T) \in T
  BY <1>3 DEF Pick
<1>6. SumOver(f, T \ {Pick(T)}) = SumOver(g, T \ {Pick(T)})
  BY <1>2, <1>5
<1>7. f[Pick(T)] = g[Pick(T)]
  BY <1>5
<1> QED BY <1>3, <1>4, <1>6, <1>7, SumPicks

\* A new term is added.
LEMMA SumAdds ==
    ASSUME NEW S, IsFiniteSet(S), NEW f, \A x \in S : f[x] \in Int,
           NEW e, e \notin S, f[e] \in Int
    PROVE  SumOver(f, S \cup {e}) = SumOver(f, S) + f[e]
<1> DEFINE T == S \cup {e}
<1>1. IsFiniteSet(T) /\ e \in T /\ T \ {e} = S /\ \A x \in T : f[x] \in Int
  BY FS_AddElement
<1> HIDE DEF T
<1>2. SumOver(f, T) = f[e] + SumOver(f, S)
  BY <1>1, SumTakes
<1>3. SumOver(f, S) \in Int
  BY SumIsInt
<1> QED BY <1>2, <1>3 DEF T

\* Members that count nothing can be left out.
LEMMA SumIgnoresZeros ==
    ASSUME NEW S, IsFiniteSet(S), NEW f, \A x \in S : f[x] \in Int,
           NEW T \in SUBSET S, \A x \in S \ T : f[x] = 0
    PROVE  SumOver(f, S) = SumOver(f, T)
<1> DEFINE Bad == {U \in SUBSET S : SumOver(f, U) # SumOver(f, U \cap T)}
<1>1. Bad = {}
  <2> SUFFICES ASSUME Bad # {} PROVE FALSE
    OBVIOUS
  <2>1. Bad \subseteq SUBSET S
    OBVIOUS
  <2>2. PICK U \in Bad : \A y \in Bad : y \subseteq U => y = U
    <3> HIDE DEF Bad
    <3> QED BY <2>1, LeastSubset
  <2>3. U # {}
    <3>1. {} \cap T = {}
      OBVIOUS
    <3> QED BY <3>1
  <2> DEFINE p == Pick(U)
             V == U \ {p}
  <2>4. p \in U /\ V \in SUBSET S /\ V \subseteq U /\ V # U
    BY <2>3 DEF Pick
  <2>5. IsFiniteSet(U) /\ IsFiniteSet(V \cap T) /\ SumOver(f, V) \in Int
    BY <2>4, FS_Subset, SumIsInt
  <2>6. SumOver(f, U) = f[p] + SumOver(f, V)
    BY <2>3, <2>5, SumPicks
  <2>7. SumOver(f, V) = SumOver(f, V \cap T)
    BY <2>2, <2>4
  <2>8. CASE p \in T
    <3>1. U \cap T = (V \cap T) \cup {p} /\ p \notin V \cap T
      BY <2>4, <2>8
    <3>2. SumOver(f, (V \cap T) \cup {p}) = SumOver(f, V \cap T) + f[p]
      <4> HIDE DEF p, V
      <4> QED BY <2>4, <2>5, <3>1, SumAdds
    <3>3. f[p] \in Int
      BY <2>4
    <3> QED BY <2>5, <2>6, <2>7, <3>1, <3>2, <3>3
  <2>9. CASE p \notin T
    <3>1. U \cap T = V \cap T
      BY <2>9
    <3>2. f[p] = 0
      BY <2>4, <2>9
    <3>3. SumOver(f, U) = SumOver(f, V \cap T)
      <4> HIDE DEF p, V
      <4> QED BY <2>5, <2>6, <2>7, <3>2
    <3>4. SumOver(f, U \cap T) = SumOver(f, V \cap T)
      <4> HIDE DEF V
      <4> QED BY <3>1
    <3> QED BY <3>3, <3>4
  <2> QED BY <2>8, <2>9
<1>2. SumOver(f, S) = SumOver(f, S \cap T)
  BY <1>1
<1>3. S \cap T = T
  OBVIOUS
<1> QED BY <1>2, <1>3

\* A sum over renamed members is the same sum.
LEMMA SumReindexed ==
    ASSUME NEW S, IsFiniteSet(S), NEW f, \A x \in S : f[x] \in Int,
           NEW b, NEW g, \A x \in S : g[b[x]] = f[x],
           \A x, y \in S : b[x] = b[y] => x = y
    PROVE  SumOver(f, S) = SumOver(g, {b[x] : x \in S})
<1> DEFINE Image(U) == {b[x] : x \in U}
           Bad == {U \in SUBSET S : SumOver(f, U) # SumOver(g, Image(U)) \/ ~IsFiniteSet(Image(U))}
<1>1. Bad = {}
  <2> SUFFICES ASSUME Bad # {} PROVE FALSE
    OBVIOUS
  <2>1. Bad \subseteq SUBSET S
    OBVIOUS
  <2>2. PICK U \in Bad : \A y \in Bad : y \subseteq U => y = U
    <3> HIDE DEF Bad
    <3> QED BY <2>1, LeastSubset
  <2>3. U # {}
    <3>1. Image({}) = {}
      OBVIOUS
    <3> QED BY <3>1, SumOfNothing, FS_EmptySet
  <2> DEFINE p == Pick(U)
             V == U \ {p}
  <2>4. p \in U /\ V \in SUBSET S /\ V \subseteq U /\ V # U
    BY <2>3 DEF Pick
  <2>5. IsFiniteSet(U) /\ SumOver(f, V) \in Int
    BY <2>4, FS_Subset, SumIsInt
  <2>6. SumOver(f, U) = f[p] + SumOver(f, V)
    BY <2>3, <2>5, SumPicks
  <2>7. SumOver(f, V) = SumOver(g, Image(V)) /\ IsFiniteSet(Image(V))
    BY <2>2, <2>4
  <2>8. Image(U) = Image(V) \cup {b[p]} /\ b[p] \notin Image(V)
    BY <2>4
  <2>9. g[b[p]] = f[p] /\ f[p] \in Int /\ \A z \in Image(V) : g[z] \in Int
    BY <2>4
  <2>10. /\ SumOver(g, Image(V) \cup {b[p]}) = SumOver(g, Image(V)) + g[b[p]]
         /\ IsFiniteSet(Image(V) \cup {b[p]})
    <3> HIDE DEF Image, p, V
    <3> QED BY <2>7, <2>8, <2>9, SumAdds, FS_AddElement
  <2>11. SumOver(f, U) = SumOver(g, Image(U)) /\ IsFiniteSet(Image(U))
    <3> HIDE DEF Image, p, V
    <3> QED BY <2>5, <2>6, <2>7, <2>8, <2>9, <2>10
  <2> QED BY <2>11
<1> QED BY <1>1

\* A common factor can be taken out of a sum.
LEMMA SumScaled ==
    ASSUME NEW S, IsFiniteSet(S), NEW f, \A x \in S : f[x] \in Int,
           NEW k \in Int, NEW g, \A x \in S : g[x] = f[x] * k
    PROVE  SumOver(g, S) = SumOver(f, S) * k
<1> DEFINE Bad == {U \in SUBSET S : SumOver(g, U) # SumOver(f, U) * k}
<1>1. Bad = {}
  <2> SUFFICES ASSUME Bad # {} PROVE FALSE
    OBVIOUS
  <2>1. Bad \subseteq SUBSET S
    OBVIOUS
  <2>2. PICK U \in Bad : \A y \in Bad : y \subseteq U => y = U
    <3> HIDE DEF Bad
    <3> QED BY <2>1, LeastSubset
  <2>3. U # {}
    <3>1. 0 * k = 0
      OBVIOUS
    <3> QED BY <3>1, SumOfNothing
  <2> DEFINE p == Pick(U)
             V == U \ {p}
  <2>4. p \in U /\ V \in SUBSET S /\ V \subseteq U /\ V # U
    BY <2>3 DEF Pick
  <2>5. IsFiniteSet(U) /\ SumOver(f, V) \in Int /\ f[p] \in Int
    BY <2>4, FS_Subset, SumIsInt
  <2>6. SumOver(f, U) = f[p] + SumOver(f, V) /\ SumOver(g, U) = g[p] + SumOver(g, V)
    BY <2>3, <2>5, SumPicks
  <2>7. SumOver(g, V) = SumOver(f, V) * k /\ g[p] = f[p] * k
    BY <2>2, <2>4
  <2> DEFINE rest == SumOver(f, V)
  <2>8. f[p] * k + rest * k = (f[p] + rest) * k
    <3> HIDE DEF p, rest
    <3> QED BY <2>5 DEF rest
  <2> QED BY <2>5, <2>6, <2>7, <2>8
<1> QED BY <1>1

\* A sum of amounts is no less than any one of them.
LEMMA SumIsAtLeast ==
    ASSUME NEW S, IsFiniteSet(S), NEW f, \A x \in S : f[x] \in Nat
    PROVE  SumOver(f, S) \in Nat /\ \A x \in S : f[x] <= SumOver(f, S)
<1> DEFINE Bad == {U \in SUBSET S : SumOver(f, U) \notin Nat}
<1>1. Bad = {}
  <2> SUFFICES ASSUME Bad # {} PROVE FALSE
    OBVIOUS
  <2>1. Bad \subseteq SUBSET S
    OBVIOUS
  <2>2. PICK U \in Bad : \A y \in Bad : y \subseteq U => y = U
    <3> HIDE DEF Bad
    <3> QED BY <2>1, LeastSubset
  <2>3. U # {}
    BY SumOfNothing
  <2>4. Pick(U) \in U /\ IsFiniteSet(U)
    BY <2>3, FS_Subset DEF Pick
  <2>5. SumOver(f, U \ {Pick(U)}) \in Nat
    BY <2>2, <2>4
  <2> QED BY <2>3, <2>4, <2>5, SumPicks
<1>2. ASSUME NEW x \in S PROVE f[x] <= SumOver(f, S)
  <2>1. SumOver(f, S \ {x}) \in Nat
    BY <1>1
  <2>2. SumOver(f, S) = f[x] + SumOver(f, S \ {x})
    BY SumTakes
  <2> QED BY <2>1, <2>2
<1> QED BY <1>1, <1>2

\* A finite set of integers has a greatest member, which is its Max.
LEMMA MaxIsReached ==
    ASSUME NEW S, IsFiniteSet(S), S # {}, \A x \in S : x \in Int
    PROVE  Max(S) \in S /\ \A x \in S : Max(S) >= x
<1> DEFINE above(x) == {y \in S : y >= x}
           Cuts == {C \in SUBSET S : \E x \in S : C = above(x)}
<1>1. Cuts \subseteq SUBSET S
    OBVIOUS
<1>2. Cuts # {}
    OBVIOUS
<1>3. PICK U \in Cuts : \A V \in Cuts : V \subseteq U => V = U
    <2> HIDE DEF Cuts
    <2> QED BY <1>1, <1>2, LeastSubset
<1>4. PICK x \in S : U = above(x)
    BY <1>3
<1>5. ASSUME NEW y \in S PROVE x >= y
    <2> SUFFICES ASSUME y > x PROVE FALSE
        OBVIOUS
    <2>1. above(y) \subseteq U
        <3>1. x \in Int /\ y \in Int /\ \A z \in S : z \in Int
            OBVIOUS
        <3>2. \A z \in S : z >= y => z >= x
            BY <3>1
        <3>3. U = {z \in S : z >= x}
            BY <1>4
        <3> QED
            BY <3>2, <3>3
    <2>2. x \in U /\ x \notin above(y)
        BY <1>4
    <2>3. above(y) \in Cuts
        OBVIOUS
    <2> QED
        BY <1>3, <2>1, <2>2, <2>3
<1> QED
    BY <1>5 DEF Max

\* Sets of positions are finite.
LEMMA IndicesAreFinite ==
    ASSUME NEW n \in Nat, NEW S \in SUBSET (1..n)
    PROVE  IsFiniteSet(S) /\ \A x \in S : x \in Int
<1>1. 0 \in Int /\ 1 \in Int /\ n \in Int
    OBVIOUS
<1>2. IsFiniteSet(1..n)
    BY <1>1, FS_Interval
<1>3. \A T \in SUBSET (1..n) : IsFiniteSet(T)
    BY <1>2, FS_Subset
<1> QED
    BY <1>3

\* A sum is split by a partition of its terms.
LEMMA SumUnion ==
    ASSUME NEW S, IsFiniteSet(S), NEW f, \A x \in S : f[x] \in Int,
           NEW A \in SUBSET S, NEW B \in SUBSET S, A \cap B = {}, S = A \cup B
    PROVE  SumOver(f, S) = SumOver(f, A) + SumOver(f, B)
<1> DEFINE Bad == {U \in SUBSET S : SumOver(f, U) # SumOver(f, U \cap A) + SumOver(f, U \cap B)}
<1>1. Bad = {}
  <2> SUFFICES ASSUME Bad # {} PROVE FALSE
    OBVIOUS
  <2>1. Bad \subseteq SUBSET S
    OBVIOUS
  <2>2. PICK U \in Bad : \A y \in Bad : y \subseteq U => y = U
    <3> HIDE DEF Bad
    <3> QED BY <2>1, LeastSubset
  <2>3. U # {}
    <3>1. {} \cap A = {} /\ {} \cap B = {} /\ 0 + 0 = 0
      OBVIOUS
    <3> QED BY <3>1, SumOfNothing
  <2> DEFINE p == Pick(U)
             V == U \ {p}
  <2>4. p \in U /\ V \in SUBSET S /\ V \subseteq U /\ V # U /\ p \in S
    BY <2>3 DEF Pick
  <2>5. /\ IsFiniteSet(U) /\ IsFiniteSet(V \cap A) /\ IsFiniteSet(V \cap B)
        /\ f[p] \in Int /\ (\A x \in V \cap A : f[x] \in Int) /\ (\A x \in V \cap B : f[x] \in Int)
    BY <2>4, FS_Subset
  <2>6. SumOver(f, U) = f[p] + SumOver(f, V)
    BY <2>3, <2>5, SumPicks
  <2>7. SumOver(f, V) = SumOver(f, V \cap A) + SumOver(f, V \cap B)
    BY <2>2, <2>4
  <2> DEFINE a == SumOver(f, V \cap A)
             b == SumOver(f, V \cap B)
  <2>8. a \in Int /\ b \in Int
    BY <2>5, SumIsInt
  <2>9. CASE p \in A
    <3>1. U \cap A = (V \cap A) \cup {p} /\ p \notin V \cap A /\ U \cap B = V \cap B
      BY <2>4, <2>9
    <3>2. SumOver(f, (V \cap A) \cup {p}) = a + f[p]
      <4> HIDE DEF p, V
      <4> QED BY <2>5, <3>1, SumAdds
    <3>3. SumOver(f, U \cap A) = a + f[p] /\ SumOver(f, U \cap B) = b
      <4> HIDE DEF V, p
      <4> QED BY <3>1, <3>2
    <3>4. SumOver(f, U) = f[p] + (a + b)
      BY <2>6, <2>7
    <3> HIDE DEF a, b, p, V
    <3> QED BY <2>5, <2>8, <3>3, <3>4
  <2>10. CASE p \notin A
    <3>0. p \in B
      BY <2>4, <2>10
    <3>1. U \cap B = (V \cap B) \cup {p} /\ p \notin V \cap B /\ U \cap A = V \cap A
      BY <2>4, <2>10, <3>0
    <3>2. SumOver(f, (V \cap B) \cup {p}) = b + f[p]
      <4> HIDE DEF p, V
      <4> QED BY <2>5, <3>1, SumAdds
    <3>3. SumOver(f, U \cap B) = b + f[p] /\ SumOver(f, U \cap A) = a
      <4> HIDE DEF V, p
      <4> QED BY <3>1, <3>2
    <3>4. SumOver(f, U) = f[p] + (a + b)
      BY <2>6, <2>7
    <3> HIDE DEF a, b, p, V
    <3> QED BY <2>5, <2>8, <3>3, <3>4
  <2> QED BY <2>9, <2>10
<1>2. S \cap A = A /\ S \cap B = B
  OBVIOUS
<1>3. SumOver(f, S) = SumOver(f, S \cap A) + SumOver(f, S \cap B)
  BY <1>1
<1> QED BY <1>2, <1>3

\* A sum of terms of at most one unit is at most as many units.
LEMMA SumWithin ==
    ASSUME NEW S, IsFiniteSet(S), NEW f, \A x \in S : f[x] \in -1..1
    PROVE  /\ -Cardinality(S) <= SumOver(f, S) /\ SumOver(f, S) <= Cardinality(S)
           /\ Cardinality(S) \in Nat /\ SumOver(f, S) \in Int
<1> DEFINE Bad == {U \in SUBSET S : ~(/\ -Cardinality(U) <= SumOver(f, U)
                                      /\ SumOver(f, U) <= Cardinality(U))}
<1>0. \A U \in SUBSET S : IsFiniteSet(U) /\ Cardinality(U) \in Nat
  BY FS_Subset, FS_CardinalityType
<1>00. \A x \in S : f[x] \in Int
  OBVIOUS
<1>1. Bad = {}
  <2> SUFFICES ASSUME Bad # {} PROVE FALSE
    OBVIOUS
  <2>1. Bad \subseteq SUBSET S
    OBVIOUS
  <2>2. PICK U \in Bad : \A y \in Bad : y \subseteq U => y = U
    <3> HIDE DEF Bad
    <3> QED BY <2>1, LeastSubset
  <2>3. U # {}
    <3>1. -0 <= 0 /\ 0 <= 0
      OBVIOUS
    <3> QED BY <3>1, SumOfNothing, FS_EmptySet
  <2> DEFINE p == Pick(U)
             V == U \ {p}
  <2>4. p \in U /\ V \in SUBSET S /\ V \subseteq U /\ V # U /\ p \in S
    BY <2>3 DEF Pick
  <2>5. /\ IsFiniteSet(U) /\ SumOver(f, V) \in Int /\ Cardinality(V) \in Nat
        /\ Cardinality(U) \in Nat
    BY <1>0, <1>00, <2>4, SumIsInt
  <2>6. SumOver(f, U) = f[p] + SumOver(f, V)
    BY <2>3, <2>5, SumPicks
  <2>7. -Cardinality(V) <= SumOver(f, V) /\ SumOver(f, V) <= Cardinality(V)
    BY <2>2, <2>4
  <2>8. Cardinality(V) = Cardinality(U) - 1
    <3> HIDE DEF p
    <3> QED BY <2>4, <2>5, FS_RemoveElement
  <2>9. f[p] \in -1..1
    BY <2>4
  <2> HIDE DEF p, V
  <2>10. -Cardinality(U) <= SumOver(f, U) /\ SumOver(f, U) <= Cardinality(U)
    BY <2>5, <2>6, <2>7, <2>8, <2>9
  <2> QED BY <2>10
<1> QED BY <1>0, <1>00, <1>1, SumIsInt

\* The changes of a quantity add up to its last value less its first.
LEMMA SumTelescopes ==
    ASSUME NEW at \in Nat, NEW q, \A n \in 0..at : q[n] \in Int,
           NEW f, \A n \in 1..at : f[n] = q[n] - q[n - 1]
    PROVE  SumOver(f, 1..at) = q[at] - q[0]
<1> DEFINE S == 1..at
           Bad == {U \in SUBSET S : \E k \in 0..at : U = 1..k /\ SumOver(f, U) # q[k] - q[0]}
<1>0. IsFiniteSet(S)
  BY IndicesAreFinite
<1>1. Bad = {}
  <2> SUFFICES ASSUME Bad # {} PROVE FALSE
    OBVIOUS
  <2>1. Bad \subseteq SUBSET S
    OBVIOUS
  <2>2. PICK U \in Bad : \A y \in Bad : y \subseteq U => y = U
    <3> HIDE DEF Bad, S
    <3> QED BY <1>0, <2>1, LeastSubset
  <2>3. PICK k \in 0..at : U = 1..k /\ SumOver(f, U) # q[k] - q[0]
    BY <2>2
  <2>4. CASE k = 0
    <3>1. U = {} /\ q[k] - q[0] = 0
      BY <2>3, <2>4
    <3> QED BY <2>3, <3>1, SumOfNothing
  <2>5. CASE k # 0
    <3> DEFINE V == 1..k - 1
    <3>1. /\ V \in SUBSET S /\ V # U /\ V \subseteq U /\ k - 1 \in 0..at /\ k \in 1..at
          /\ U = V \cup {k} /\ k \notin V
      BY <2>3, <2>5
    <3>2. V \notin Bad
      <4> HIDE DEF Bad, V
      <4> QED BY <2>2, <3>1
    <3>3. SumOver(f, V) = q[k - 1] - q[0]
      BY <3>1, <3>2
    <3>4. \A n \in 1..at : f[n] \in Int
      <4> SUFFICES ASSUME NEW n \in 1..at PROVE f[n] \in Int
        OBVIOUS
      <4>1. n \in 0..at /\ n - 1 \in 0..at
        OBVIOUS
      <4>2. q[n] \in Int /\ q[n - 1] \in Int /\ f[n] = q[n] - q[n - 1]
        BY <4>1
      <4> QED BY <4>2
    <3>5. IsFiniteSet(V)
      BY <1>0, <3>1, FS_Subset
    <3>6. SumOver(f, V \cup {k}) = SumOver(f, V) + f[k]
      <4> DEFINE e == k
      <4>1. (\A x \in V : f[x] \in Int) /\ f[e] \in Int /\ IsFiniteSet(V) /\ e \notin V
        BY <3>1, <3>4, <3>5
      <4> HIDE DEF V, e
      <4>2. SumOver(f, V \cup {e}) = SumOver(f, V) + f[e]
        BY ONLY <4>1, SumAdds
      <4> QED BY <4>2 DEF e
    <3>7. q[k] \in Int /\ q[k - 1] \in Int /\ q[0] \in Int /\ f[k] = q[k] - q[k - 1]
      BY <3>1
    <3> HIDE DEF V
    <3>8. SumOver(f, U) = (q[k - 1] - q[0]) + (q[k] - q[k - 1])
      BY <3>1, <3>3, <3>6, <3>7
    <3>9. (q[k - 1] - q[0]) + (q[k] - q[k - 1]) = q[k] - q[0]
      BY <3>7
    <3> QED BY <2>3, <3>8, <3>9
  <2> QED BY <2>4, <2>5
<1>2. S \in SUBSET S /\ at \in 0..at
  OBVIOUS
<1> QED BY <1>1, <1>2

\* A sum of two terms.
LEMMA SumOfPair ==
    ASSUME NEW x, NEW y, x # y, NEW f, f[x] \in Int, f[y] \in Int
    PROVE  SumOver(f, {x, y}) = f[x] + f[y]
<1>1. {x, y} = {x} \cup {y} /\ {x} = {} \cup {x}
  OBVIOUS
<1>2. IsFiniteSet({}) /\ IsFiniteSet({x})
  BY FS_EmptySet, FS_Singleton
<1>3. SumOver(f, {} \cup {x}) = SumOver(f, {}) + f[x]
  <2> DEFINE N == {}
  <2>1. IsFiniteSet(N) /\ x \notin N /\ \A z \in N : f[z] \in Int
    BY <1>2
  <2>2. SumOver(f, N \cup {x}) = SumOver(f, N) + f[x]
    <3> HIDE DEF N
    <3> QED BY <2>1, SumAdds
  <2> QED BY <2>2
<1>4. SumOver(f, {x} \cup {y}) = SumOver(f, {x}) + f[y]
  <2> DEFINE N == {x}
  <2>1. IsFiniteSet(N) /\ y \notin N /\ \A z \in N : f[z] \in Int
    BY <1>2
  <2>2. SumOver(f, N \cup {y}) = SumOver(f, N) + f[y]
    <3> HIDE DEF N
    <3> QED BY <2>1, SumAdds
  <2> QED BY <2>2
<1> DEFINE a == f[x]
           b == f[y]
<1>5. SumOver(f, {x}) = 0 + a
  BY <1>1, <1>3, SumOfNothing
<1>6. SumOver(f, {x, y}) = SumOver(f, {x}) + b
  BY <1>1, <1>4
<1>7. a \in Int /\ b \in Int
  OBVIOUS
<1> HIDE DEF a, b
<1>8. SumOver(f, {x, y}) = a + b
  BY <1>5, <1>6, <1>7
<1> QED BY <1>8 DEF a, b

\* The first of a non-empty set of positions.
LEMMA FirstIndex ==
    ASSUME NEW n \in Nat, NEW S \in SUBSET (1..n), S # {}
    PROVE  \E x \in S : \A y \in S : x <= y
<1> DEFINE T == {n + 1 - x : x \in S}
<1>1. T \in SUBSET (1..n) /\ T # {}
  <2>1. \A x \in S : n + 1 - x \in 1..n
    OBVIOUS
  <2>2. T # {}
    OBVIOUS
  <2> QED BY <2>1, <2>2
<1>2. IsFiniteSet(T) /\ \A x \in T : x \in Int
  <2> HIDE DEF T
  <2> QED BY <1>1, IndicesAreFinite
<1>3. Max(T) \in T /\ \A x \in T : Max(T) >= x
  <2> HIDE DEF T
  <2> QED BY <1>1, <1>2, MaxIsReached
<1>4. PICK x \in S : Max(T) = n + 1 - x
  BY <1>3
<1>5. \A y \in S : n + 1 - x >= n + 1 - y
  BY <1>3, <1>4
<1>6. \A y \in S : y \in Nat
  OBVIOUS
<1> QED BY <1>5, <1>6

\* The last of the positions, when it is among them.
LEMMA MaxIsLast ==
    ASSUME NEW n \in Nat, NEW S \in SUBSET (1..n), n \in S
    PROVE  Max(S) = n
<1>1. IsFiniteSet(S) /\ \A x \in S : x \in Int
  BY IndicesAreFinite
<1> DEFINE last == Max(S)
<1>2. last \in S /\ \A x \in S : last >= x
  BY <1>1, MaxIsReached
<1> HIDE DEF last
<1>3. last = n
  BY <1>2
<1> QED BY <1>3 DEF last

\* A sum of differences is the difference of the sums.
LEMMA SumSubtracts ==
    ASSUME NEW S, IsFiniteSet(S), NEW f, \A x \in S : f[x] \in Int,
           NEW g, \A x \in S : g[x] \in Int, NEW d, \A x \in S : d[x] = f[x] - g[x]
    PROVE  SumOver(d, S) = SumOver(f, S) - SumOver(g, S)
<1> DEFINE Bad == {U \in SUBSET S : SumOver(d, U) # SumOver(f, U) - SumOver(g, U)}
<1>0. \A U \in SUBSET S : IsFiniteSet(U)
  BY FS_Subset
<1>1. Bad = {}
  <2> SUFFICES ASSUME Bad # {} PROVE FALSE
    OBVIOUS
  <2>1. Bad \subseteq SUBSET S
    OBVIOUS
  <2>2. PICK U \in Bad : \A V \in Bad : V \subseteq U => V = U
    <3> HIDE DEF Bad
    <3> QED BY <2>1, LeastSubset
  <2>3. U # {}
    <3> SUFFICES ASSUME U = {} PROVE FALSE
      OBVIOUS
    <3> QED BY <2>2, SumOfNothing
  <2> DEFINE p == Pick(U)
             V == U \ {p}
  <2>4. p \in U
    BY <2>3 DEF Pick
  <2>5. /\ U \in SUBSET S /\ V \in SUBSET S /\ V # U /\ V \subseteq U
        /\ f[p] \in Int /\ g[p] \in Int /\ d[p] = f[p] - g[p]
    BY <2>4
  <2>6. IsFiniteSet(U) /\ IsFiniteSet(V)
    BY <1>0, <2>5
  <2>7. /\ SumOver(f, U) = f[p] + SumOver(f, V) /\ SumOver(g, U) = g[p] + SumOver(g, V)
        /\ SumOver(d, U) = d[p] + SumOver(d, V)
    BY <2>3, <2>6, SumPicks
  <2>8. SumOver(d, V) = SumOver(f, V) - SumOver(g, V)
    BY <2>2, <2>5
  <2>9. SumOver(f, V) \in Int /\ SumOver(g, V) \in Int
    <3>1. (\A x \in V : f[x] \in Int) /\ \A x \in V : g[x] \in Int
      OBVIOUS
    <3> HIDE DEF V
    <3> QED BY <2>6, <3>1, SumIsInt
  <2>10. SumOver(d, U) = SumOver(f, U) - SumOver(g, U)
    <3> HIDE DEF V, p
    <3> QED BY <2>5, <2>7, <2>8, <2>9
  <2> QED BY <2>2, <2>10
<1> QED BY <1>1

-----------------------------------------------------------------------------
\* The chain's balances as sums.

Moves(fs, n) == {i \in 1..n : fs[i].kind = "movement"}

RawIn(fs, account, n) ==
    SumOver([i \in 1..n |-> Effect(fs[i], account)], Moves(fs, n))

\* There are finitely many movements up to a block.
LEMMA MovesAreFinite ==
    ASSUME NEW fs, NEW n \in Nat
    PROVE  IsFiniteSet(Moves(fs, n)) /\ Moves(fs, n) \subseteq 1..n
<1>1. IsFiniteSet(1..n)
    BY FS_Interval
<1> QED
    BY <1>1, FS_Subset DEF Moves

\* The model's balance is such a sum.
LEMMA RawAtIsSum ==
    ASSUME NEW account, NEW n \in Nat
    PROVE  RawAt(account, n) = RawIn(facts, account, n)
<1> DEFINE R == Moves(facts, n)
           f == [i \in R |-> Effect(facts[i], account)]
           g == [i \in 1..n |-> Effect(facts[i], account)]
<1>1. RawAt(account, n) = SumFunction(f)
    BY DEF RawAt, Moves
<1>2. SumFunction(f) = SumOver(f, R)
    <2>1. DOMAIN f = R
        OBVIOUS
    <2> HIDE DEF f
    <2> QED
        BY <2>1, SumFunctionIsSum
<1>3. IsFiniteSet(R) /\ \A i \in R : f[i] = g[i]
    BY MovesAreFinite
<1> HIDE DEF f, g, R
<1>4. SumOver(f, R) = SumOver(g, R)
    BY <1>3, SumAgrees
<1> QED
    BY <1>1, <1>2, <1>4 DEF RawIn, g, R

Fact ==
    [kind : {"movement"}, from : Accounts, to : Accounts, amount : RawAmounts]
    \cup [kind : {"activation"}, multiplier : Multipliers]

USE Scales, LedgerAssumption

\* What a fact has, by its kind.
LEMMA FactFields ==
    ASSUME NEW fact \in Fact
    PROVE  /\ fact.kind = "movement" =>
                  /\ fact.from \in Accounts /\ fact.to \in Accounts
                  /\ fact.amount \in RawAmounts
                  /\ fact.amount \in Nat /\ fact.amount \in Int
           /\ fact.kind # "movement" =>
                  fact.kind = "activation" /\ fact.multiplier \in Multipliers
<1>1. RawAmounts \subseteq Nat /\ Nat \subseteq Int
    OBVIOUS
<1>2. CASE fact \in [kind : {"movement"}, from : Accounts, to : Accounts, amount : RawAmounts]
    BY <1>1, <1>2
<1>3. CASE fact \in [kind : {"activation"}, multiplier : Multipliers]
    BY <1>3
<1> QED
    BY <1>2, <1>3 DEF Fact

\* A movement changes a balance by an integer,
LEMMA EffectIsInt ==
    ASSUME NEW fact \in Fact, fact.kind = "movement", NEW account
    PROVE  Effect(fact, account) \in Int
<1>1. fact.amount \in Int
    BY FactFields
<1> QED
    BY <1>1 DEF Effect

\* so that a balance is one.
LEMMA RawIsInt ==
    ASSUME NEW fs \in Seq(Fact), NEW n \in 0..Len(fs), NEW account
    PROVE  RawIn(fs, account, n) \in Int
<1> DEFINE effects == [i \in 1..n |-> Effect(fs[i], account)]
<1>1. n \in Nat /\ \A i \in Moves(fs, n) : effects[i] \in Int
    BY EffectIsInt DEF Moves
<1>2. IsFiniteSet(Moves(fs, n))
    BY <1>1, MovesAreFinite
<1>3. RawIn(fs, account, n) = SumOver(effects, Moves(fs, n))
    BY DEF RawIn
<1> HIDE DEF effects
<1> QED
    BY <1>1, <1>2, <1>3, SumIsInt

\* Nothing is held before the first fact.
LEMMA RawOfNothing ==
    ASSUME NEW fs, NEW account
    PROVE  RawIn(fs, account, 0) = 0
<1>1. Moves(fs, 0) = {}
    BY DEF Moves
<1> QED
    BY <1>1, SumOfNothing DEF RawIn

\* Balances depend on the facts up to the block.
LEMMA RawAgrees ==
    ASSUME NEW fs, NEW gs, NEW account, NEW n \in Nat, \A i \in 1..n : fs[i] = gs[i]
    PROVE  RawIn(fs, account, n) = RawIn(gs, account, n)
<1>1. Moves(fs, n) = Moves(gs, n)
    BY DEF Moves
<1>2. [i \in 1..n |-> Effect(fs[i], account)] = [i \in 1..n |-> Effect(gs[i], account)]
    OBVIOUS
<1> QED
    BY <1>1, <1>2 DEF RawIn

\* RawStep.  A fact changes a balance by its effect.
LEMMA RawStep ==
    ASSUME NEW fs \in Seq(Fact), NEW n \in Nat, n + 1 \in 1..Len(fs), NEW account
    PROVE  RawIn(fs, account, n + 1) =
               RawIn(fs, account, n)
               + (IF fs[n + 1].kind = "movement" THEN Effect(fs[n + 1], account) ELSE 0)
<1> DEFINE now == [i \in 1..n + 1 |-> Effect(fs[i], account)]
           before == [i \in 1..n |-> Effect(fs[i], account)]
<1>1. RawIn(fs, account, n + 1) = SumOver(now, Moves(fs, n + 1))
    BY DEF RawIn
<1>2. RawIn(fs, account, n) = SumOver(before, Moves(fs, n))
    BY DEF RawIn
<1>3. IsFiniteSet(Moves(fs, n)) /\ Moves(fs, n) \subseteq 1..n
    BY MovesAreFinite
<1>4. \A i \in Moves(fs, n) : now[i] = before[i] /\ now[i] \in Int
    BY EffectIsInt DEF Moves
<1>5. SumOver(now, Moves(fs, n)) = SumOver(before, Moves(fs, n))
    <2> HIDE DEF now, before
    <2> QED BY <1>3, <1>4, SumAgrees
<1>6. RawIn(fs, account, n) \in Int
    BY RawIsInt
<1>7. CASE fs[n + 1].kind = "movement"
    <2>1. Moves(fs, n + 1) = Moves(fs, n) \cup {n + 1} /\ n + 1 \notin Moves(fs, n)
        BY <1>7 DEF Moves
    <2>2. now[n + 1] = Effect(fs[n + 1], account) /\ now[n + 1] \in Int
        BY <1>7, EffectIsInt
    <2>3. SumOver(now, Moves(fs, n) \cup {n + 1}) = SumOver(now, Moves(fs, n)) + now[n + 1]
        <3> DEFINE R == Moves(fs, n)
                   e == n + 1
        <3>1. IsFiniteSet(R) /\ (\A i \in R : now[i] \in Int) /\ e \notin R /\ now[e] \in Int
            BY <1>3, <1>4, <2>1, <2>2
        <3> HIDE DEF now, R, e
        <3>2. SumOver(now, R \cup {e}) = SumOver(now, R) + now[e]
            BY <3>1, SumAdds
        <3> QED
            BY <3>2 DEF R, e
    <2> HIDE DEF now
    <2> QED
        BY <1>1, <1>2, <1>5, <1>7, <2>1, <2>2, <2>3
<1>8. CASE fs[n + 1].kind # "movement"
    <2>1. Moves(fs, n + 1) = Moves(fs, n)
        BY <1>8 DEF Moves
    <2> HIDE DEF now, before
    <2> QED
        BY <1>1, <1>2, <1>5, <1>6, <1>8, <2>1
<1> QED
    BY <1>7, <1>8

-----------------------------------------------------------------------------
\* The supply cap.

Held(fs, n) == [h \in Holders |-> RawIn(fs, h, n)]

\* What holders have is what was issued, and never more than the cap.
WithinCap(fs, n) ==
    /\ \A h \in Holders : RawIn(fs, h, n) \in Nat
    /\ RawIn(fs, Issuance, n) \in -MaxRaw..0
    /\ SumOver(Held(fs, n), Holders) = -RawIn(fs, Issuance, n)

\* At first nobody has anything.
LEMMA CapAtFirst ==
    ASSUME NEW fs
    PROVE  WithinCap(fs, 0)
<1>1. \A a : RawIn(fs, a, 0) = 0
    BY RawOfNothing
<1>2. \A h \in Holders : Held(fs, 0)[h] = 0
    BY <1>1 DEF Held
<1>3. SumOver(Held(fs, 0), Holders) = SumOver(Held(fs, 0), {})
    BY <1>2, SumIgnoresZeros
<1> QED
    BY <1>1, <1>3, SumOfNothing DEF WithinCap

\* A holder's balance is within the supply cap.
LEMMA HoldersWithinCap ==
    ASSUME NEW fs, NEW n, WithinCap(fs, n), NEW h \in Holders
    PROVE  RawIn(fs, h, n) \in 0..MaxRaw
<1>1. \A x \in Holders : Held(fs, n)[x] \in Nat /\ Held(fs, n)[x] = RawIn(fs, x, n)
    BY DEF WithinCap, Held
<1>2. RawIn(fs, h, n) <= SumOver(Held(fs, n), Holders)
    BY <1>1, SumIsAtLeast
<1> QED
    BY <1>1, <1>2 DEF WithinCap

\* A movement that its source can pay keeps the balances within the cap: what one
\* account loses another gains, the issuance account included.
LEMMA CapStep ==
    ASSUME NEW fs \in Seq(Fact), NEW n \in Nat, n + 1 \in 1..Len(fs), WithinCap(fs, n),
           fs[n + 1].kind = "movement" =>
               /\ fs[n + 1].from # fs[n + 1].to
               /\ RawIn(fs, fs[n + 1].from, n)
                  + (IF fs[n + 1].from = Issuance THEN MaxRaw ELSE 0) >= fs[n + 1].amount
    PROVE  WithinCap(fs, n + 1)
<1> DEFINE fact == fs[n + 1]
           r(a) == RawIn(fs, a, n)
           q(a) == RawIn(fs, a, n + 1)
<1>0. fact \in Fact
    OBVIOUS
<1>1. \A a : r(a) \in Int
    BY RawIsInt
<1>2. \A a : q(a) = r(a) + (IF fact.kind = "movement" THEN Effect(fact, a) ELSE 0)
    BY RawStep
<1>3. CASE fact.kind # "movement"
    <2>1. \A a : q(a) = r(a)
        BY <1>1, <1>2, <1>3
    <2>2. Held(fs, n + 1) = Held(fs, n)
        BY <2>1 DEF Held
    <2> QED
        BY <2>1, <2>2 DEF WithinCap
<1>4. CASE fact.kind = "movement"
    <2> DEFINE from == fact.from
               to == fact.to
               k == fact.amount
    <2>1. /\ from \in Accounts /\ to \in Accounts /\ k \in Nat /\ from # to
          /\ r(from) + (IF from = Issuance THEN MaxRaw ELSE 0) >= k
        BY <1>0, <1>4, FactFields
    <2>2. \A a : q(a) = r(a) + ((IF to = a THEN k ELSE 0) - (IF from = a THEN k ELSE 0))
        BY <1>2, <1>4 DEF Effect
    <2> HIDE DEF fact, from, to, k
    <2>3. /\ \A h \in Holders : r(h) \in Nat
          /\ r(Issuance) \in -MaxRaw..0
          /\ SumOver(Held(fs, n), Holders) = -r(Issuance)
        BY DEF WithinCap
    <2>4. \A h \in Holders : Held(fs, n)[h] = r(h) /\ Held(fs, n + 1)[h] = q(h)
        BY DEF Held
    <2> DEFINE Before(S) == SumOver(Held(fs, n), S)
               After(S) == SumOver(Held(fs, n + 1), S)
    <2> HIDE DEF q, r
    <2>5. \A h \in Holders : q(h) \in Nat
        <3> SUFFICES ASSUME NEW h \in Holders PROVE q(h) \in Nat
            OBVIOUS
        <3>1. h # Issuance /\ r(h) \in Nat
            BY <2>3
        <3>2. q(h) = r(h) + ((IF to = h THEN k ELSE 0) - (IF from = h THEN k ELSE 0))
            BY <2>2
        <3>3. CASE from = h
            BY <2>1, <3>1, <3>2, <3>3
        <3>4. CASE from # h
            BY <2>1, <3>1, <3>2, <3>4
        <3> QED
            BY <3>3, <3>4
    <2>6. \A S \in SUBSET Holders : IsFiniteSet(S) /\ Before(S) \in Int /\ After(S) \in Int
        <3> SUFFICES ASSUME NEW S \in SUBSET Holders
                     PROVE  IsFiniteSet(S) /\ Before(S) \in Int /\ After(S) \in Int
            OBVIOUS
        <3>1. IsFiniteSet(S)
            BY FS_Subset
        <3>2. \A x \in S : Held(fs, n)[x] \in Int /\ Held(fs, n + 1)[x] \in Int
            BY <2>3, <2>4, <2>5
        <3> QED
            BY <3>1, <3>2, SumIsInt
    <2>7. \A S \in SUBSET Holders : from \notin S /\ to \notin S => After(S) = Before(S)
        <3> SUFFICES ASSUME NEW S \in SUBSET Holders, from \notin S, to \notin S
                     PROVE  After(S) = Before(S)
            OBVIOUS
        <3>1. \A h \in S : Held(fs, n + 1)[h] = Held(fs, n)[h]
            BY <1>1, <2>2, <2>4
        <3> QED
            BY <2>6, <3>1, SumAgrees
    <2>8. \A S \in SUBSET Holders : \A h \in S :
              Before(S) = r(h) + Before(S \ {h}) /\ After(S) = q(h) + After(S \ {h})
        <3> SUFFICES ASSUME NEW S \in SUBSET Holders, NEW h \in S
                     PROVE  Before(S) = r(h) + Before(S \ {h}) /\ After(S) = q(h) + After(S \ {h})
            OBVIOUS
        <3>1. \A x \in S : Held(fs, n)[x] \in Int /\ Held(fs, n + 1)[x] \in Int
            BY <2>3, <2>4, <2>5
        <3> QED
            BY <2>4, <2>6, <3>1, SumTakes
    <2> HIDE DEF Before, After
    <2>9. /\ q(to) = r(to) + k /\ q(from) = r(from) - k
          /\ r(to) \in Int /\ r(from) \in Int /\ r(Issuance) \in Int
        <3>1. r(to) \in Int /\ r(from) \in Int /\ r(Issuance) \in Int
            BY <1>1
        <3>2. q(to) = r(to) + (k - 0)
            BY <2>1, <2>2
        <3>3. q(from) = r(from) + (0 - k)
            BY <2>1, <2>2
        <3> QED
            BY <2>1, <3>1, <3>2, <3>3
    <2>10. After(Holders) = -q(Issuance) /\ q(Issuance) \in -MaxRaw..0
        <3> DEFINE F == Holders \ {from}
                   G == Holders \ {to}
                   B == F \ {to}
        <3>1. CASE from = Issuance
            <4>1. to \in Holders /\ Before(Holders) = r(to) + Before(G)
                  /\ After(Holders) = q(to) + After(G)
                BY <2>1, <2>8, <3>1 DEF Accounts
            <4>2. After(G) = Before(G) /\ Before(G) \in Int
                BY <2>6, <2>7, <3>1
            <4>3. Before(Holders) = -r(Issuance)
                BY <2>3 DEF Before
            <4>4. After(Holders) = -q(Issuance)
                <5> HIDE DEF G
                <5>1. q(Issuance) = r(Issuance) - k
                    BY <2>9, <3>1
                <5>2. After(Holders) = Before(Holders) + k
                    BY <2>1, <2>9, <4>1, <4>2
                <5> QED
                    BY <2>1, <2>9, <4>3, <5>1, <5>2
            <4>5. r(from) + MaxRaw >= k
                BY <2>1, <3>1
            <4> QED
                BY <2>1, <2>3, <2>9, <3>1, <4>4, <4>5
        <3>2. CASE to = Issuance
            <4>1. from \in Holders /\ Before(Holders) = r(from) + Before(F)
                  /\ After(Holders) = q(from) + After(F)
                BY <2>1, <2>8, <3>2 DEF Accounts
            <4>2. After(F) = Before(F) /\ Before(F) \in Int
                BY <2>6, <2>7, <3>2
            <4>3. Before(Holders) = -r(Issuance)
                BY <2>3 DEF Before
            <4>4. After(Holders) = -q(Issuance)
                <5> HIDE DEF F
                <5>1. q(Issuance) = r(Issuance) + k
                    BY <2>9, <3>2
                <5>2. After(Holders) = Before(Holders) - k
                    BY <2>1, <2>9, <4>1, <4>2
                <5> QED
                    BY <2>1, <2>9, <4>3, <5>1, <5>2
            <4>5. After(Holders) \in Nat
                <5>1. \A x \in Holders : Held(fs, n + 1)[x] \in Nat
                    BY <2>4, <2>5
                <5> QED
                    BY <5>1, SumIsAtLeast DEF After
            <4> QED
                BY <2>1, <2>3, <2>9, <3>2, <4>4, <4>5
        <3>3. CASE from # Issuance /\ to # Issuance
            <4>1. from \in Holders /\ to \in Holders
                BY <2>1, <3>3 DEF Accounts
            <4>2. Before(Holders) = r(from) + Before(F) /\ After(Holders) = q(from) + After(F)
                BY <2>8, <4>1
            <4>3. Before(F) = r(to) + Before(B) /\ After(F) = q(to) + After(B)
                <5>1. F \in SUBSET Holders /\ to \in F
                    BY <2>1, <4>1
                <5> QED
                    BY <2>8, <5>1
            <4>4. After(B) = Before(B) /\ Before(B) \in Int
                BY <2>6, <2>7
            <4>5. q(Issuance) = r(Issuance)
                BY <1>1, <2>2, <2>9, <3>3
            <4>6. Before(Holders) = -r(Issuance)
                BY <2>3 DEF Before
            <4> HIDE DEF F, B
            <4>7. After(Holders) = Before(Holders)
                BY <2>1, <2>9, <4>2, <4>3, <4>4
            <4>8. r(Issuance) \in -MaxRaw..0
                BY <2>3
            <4>9. After(Holders) = -q(Issuance)
                BY <4>5, <4>6, <4>7
            <4> QED
                BY <4>5, <4>8, <4>9
        <3> QED
            BY <3>1, <3>2, <3>3
    <2> QED
        BY <2>5, <2>10 DEF WithinCap, After, q
<1> QED
    BY <1>3, <1>4

-----------------------------------------------------------------------------
\* The chain's part of the invariant, and the two routes on every balance.

\* facts grow at the end only.
ChainHolds ==
    /\ facts \in Seq(Fact)
    /\ \A n \in 1..Len(facts) : facts[n].kind = "movement" => facts[n].from # facts[n].to
    /\ \A n \in 0..Len(facts) : WithinCap(facts, n)

\* The multiplier at a block is one the chain accepts.
LEMMA MultiplierIsOne ==
    ASSUME ChainHolds, NEW n \in 0..Len(facts)
    PROVE  MultiplierAt(n) \in 1..MaxRaw
<1> DEFINE changes == {i \in 1..n : facts[i].kind = "activation"}
<1>1. CASE changes = {}
    BY <1>1 DEF MultiplierAt
<1>2. CASE changes # {}
    <2>1. Max(changes) \in changes
        <3>1. n \in Nat /\ changes \in SUBSET (1..n)
            BY DEF ChainHolds
        <3> HIDE DEF changes
        <3> QED BY <1>2, <3>1, MaxIsReached, IndicesAreFinite
    <2>2. facts[Max(changes)] \in Fact /\ facts[Max(changes)].kind = "activation"
        BY <2>1 DEF ChainHolds
    <2>3. facts[Max(changes)].multiplier \in Multipliers
        BY <2>2, FactFields
    <2> QED
        BY <1>2, <2>3 DEF MultiplierAt
<1> QED
    BY <1>1, <1>2

\* No balance and no multiplier within the caps is refused.
LEMMA ConversionIsOk ==
    ASSUME NEW raw \in 0..MaxRaw, NEW m \in 1..MaxRaw
    PROVE  /\ RawToShares(raw, m) = [refused |-> FALSE, shares |-> Shares(raw, m),
                                     remainder |-> Remainder(raw, m)]
           /\ Shares(raw, m) \in Nat
<1>1. raw * m <= MaxRaw * m /\ m * MaxRaw <= MaxRaw * MaxRaw /\ MaxRaw * m = m * MaxRaw
    BY ProductMonotone
<1>2. raw * m \in Nat /\ MaxRaw * m \in Nat /\ MaxRaw * MaxRaw \in Nat
    BY ProductNat
<1>3. raw * m <= MaxProduct
    BY <1>1, <1>2
<1>4. Shares(raw, m) \in Nat
    BY <1>2, Euclid DEF Shares
<1> QED
    BY <1>3, <1>4 DEF RawToShares

\* The chain starts within the cap,
LEMMA ChainInit == Init => ChainHolds
BY CapAtFirst DEF Init, ChainHolds

\* a fact that the chain admits keeps it there,
LEMMA FactsGrow ==
    ASSUME ChainHolds, NEW fact \in Fact, Len(facts) < MaxFacts,
           fact.kind = "movement" =>
               /\ fact.from # fact.to
               /\ RawIn(facts, fact.from, Len(facts))
                  + (IF fact.from = Issuance THEN MaxRaw ELSE 0) >= fact.amount,
           facts' = Append(facts, fact)
    PROVE  ChainHolds'
<1> DEFINE L == Len(facts)
           fs == Append(facts, fact)
<1>1. /\ fs \in Seq(Fact) /\ Len(fs) = L + 1 /\ L \in Nat
      /\ fs[L + 1] = fact /\ \A i \in 1..L : fs[i] = facts[i]
    BY DEF ChainHolds
<1> HIDE DEF fs
<1>2. \A n \in 0..L : \A a : RawIn(fs, a, n) = RawIn(facts, a, n)
    <2> SUFFICES ASSUME NEW n \in 0..L, NEW a
                 PROVE  RawIn(fs, a, n) = RawIn(facts, a, n)
        OBVIOUS
    <2>1. n \in Nat /\ \A i \in 1..n : fs[i] = facts[i]
        BY <1>1
    <2> QED
        BY <2>1, RawAgrees
<1>3. ASSUME NEW n \in 0..L PROVE WithinCap(fs, n)
    <2>1. Held(fs, n) = Held(facts, n)
        BY <1>2 DEF Held
    <2> QED
        BY <1>2, <2>1 DEF ChainHolds, WithinCap
<1>4. WithinCap(fs, L + 1)
    BY <1>1, <1>2, <1>3, CapStep
<1>5. \A n \in 0..Len(fs) : WithinCap(fs, n)
    BY <1>1, <1>3, <1>4
<1>6. \A n \in 1..Len(fs) : fs[n].kind = "movement" => fs[n].from # fs[n].to
    BY <1>1 DEF ChainHolds
<1>7. facts' = fs
    BY DEF fs
<1> QED
    BY <1>1, <1>5, <1>6, <1>7 DEF ChainHolds

\* and so do a movement,
LEMMA MoveStep ==
    ASSUME ChainHolds, Move
    PROVE  ChainHolds' /\ UNCHANGED inbox /\ \E fact \in Fact : facts' = Append(facts, fact)
<1>1. PICK from \in Accounts, to \in Accounts, amount \in RawAmounts :
          /\ from # to
          /\ Spendable(from) >= amount
          /\ Occurs([kind |-> "movement", from |-> from, to |-> to, amount |-> amount])
    BY DEF Move
<1> DEFINE fact == [kind |-> "movement", from |-> from, to |-> to, amount |-> amount]
<1>2. fact \in Fact /\ fact.from = from /\ fact.to = to /\ fact.amount = amount
    BY DEF Fact
<1>3. Len(facts) < MaxFacts /\ facts' = Append(facts, fact) /\ UNCHANGED inbox
    BY <1>1 DEF Occurs
<1>4. RawAt(from, Len(facts)) = RawIn(facts, from, Len(facts))
    BY RawAtIsSum DEF ChainHolds
<1>5. RawIn(facts, from, Len(facts)) + (IF from = Issuance THEN MaxRaw ELSE 0) >= amount
    BY <1>1, <1>4 DEF Spendable
<1> HIDE DEF fact
<1> QED
    BY <1>1, <1>2, <1>3, <1>5, FactsGrow

\* an activation
LEMMA ActivateStep ==
    ASSUME ChainHolds, Activate
    PROVE  ChainHolds' /\ UNCHANGED inbox /\ \E fact \in Fact : facts' = Append(facts, fact)
<1>1. PICK m \in Multipliers : Occurs([kind |-> "activation", multiplier |-> m])
    BY DEF Activate
<1> DEFINE fact == [kind |-> "activation", multiplier |-> m]
<1>2. fact \in Fact /\ fact.kind # "movement"
    BY DEF Fact
<1>3. Len(facts) < MaxFacts /\ facts' = Append(facts, fact) /\ UNCHANGED inbox
    BY <1>1 DEF Occurs
<1> HIDE DEF fact
<1> QED
    BY <1>2, <1>3, FactsGrow

\* and a delivery, which is no fact.
LEMMA DeliveryLeavesTheChain ==
    DeliverMovement \/ DeliverRestatement \/ PostMistake \/ Correct => UNCHANGED facts
BY DEF DeliverMovement, DeliverRestatement, PostMistake, Correct, Receive

\* Every step keeps the chain within the cap.
LEMMA ChainStep == ChainHolds /\ [Next]_vars => ChainHolds'
<1> SUFFICES ASSUME ChainHolds, [Next]_vars PROVE ChainHolds'
    OBVIOUS
<1>1. CASE UNCHANGED facts
    BY <1>1 DEF ChainHolds
<1> QED
    BY <1>1, MoveStep, ActivateStep, DeliveryLeavesTheChain DEF Next, vars

\* ChainStaysWithinCap.  Whatever moves and whenever the multiplier changes, no
\* balance is negative, what was issued is what holders have, and it is within
\* the cap, so that no conversion of a balance is refused.
THEOREM ChainStaysWithinCap == Spec => []ChainHolds
BY ChainInit, ChainStep, PTL DEF Spec

\* Both routes to the value of an amount within the cap are open and agree.
LEMMA RoutesOfABalance ==
    ASSUME NEW raw \in 0..MaxRaw, NEW m \in 1..MaxRaw, NEW decimals \in {0, 1},
           NEW total \in Price, total.basis = TotalReturn, total.traced,
           total.freshness = "FRESH", DerivedUnderlying(total, m).value > 0
    PROVE  LET result == DeriveValuation(raw, m, 0, total, {DerivedUnderlying(total, m)})
           IN  result.agree = {TRUE} /\ result.actionable
<1> DEFINE derived == DerivedUnderlying(total, m)
           conversion == RawToShares(raw, m)
           a == ValueRawWithTotalReturnPrice(raw, 0, total)
           b == ValueSharesWithUnderlyingPrice(Shares(raw, m), 0, derived)
           result == DeriveValuation(raw, m, 0, total, {derived})
<1>1. /\ total.value \in Nat /\ total.decimals \in Nat
      /\ derived.value = (total.value * Wad) \div m
      /\ derived.basis = Underlying /\ derived.traced = total.traced
      /\ derived.freshness = total.freshness /\ derived.decimals = total.decimals
    BY DEF Price, DerivedUnderlying
<1>2. total.value > 0
    <2> SUFFICES ASSUME total.value = 0 PROVE FALSE
        BY <1>1
    <2>1. (0 * Wad) \div m = 0
        OBVIOUS
    <2> QED
        BY <1>1, <2>1
<1>3. a = Valuation(raw, 0, total) /\ b = Valuation(Shares(raw, m), 0, derived)
    BY <1>1, <1>2 DEF ValueRawWithTotalReturnPrice, ValueSharesWithUnderlyingPrice, Usable
<1>4. Ok(a) /\ Ok(b) /\ a.actionable /\ b.actionable
    <2>1. \A quantity, price : Valuation(quantity, 0, price).refused = FALSE
        BY DEF Valuation
    <2>2. \A quantity, price : price.freshness = "FRESH" =>
              Valuation(quantity, 0, price).actionable
        BY DEF Valuation
    <2>3. total.freshness = "FRESH" /\ derived.freshness = "FRESH"
        BY <1>1
    <2> HIDE DEF a, b, derived
    <2> QED
        BY <1>3, <2>1, <2>2, <2>3 DEF Ok
<1>5. Ok(conversion) /\ conversion.shares = Shares(raw, m) /\ Shares(raw, m) \in Nat
    BY ConversionIsOk DEF Ok
<1>6. a.scale = b.scale /\ Abs(a.value - b.value) <= Tolerance(b)
    BY <1>4, RoutesAgree
<1>7. a.value \in Int /\ b.value \in Int /\ Tolerance(b) \in Int
    <2>1. derived.value \in Nat
        <3>1. total.value * Wad \in Nat /\ m \in Nat \ {0}
            BY <1>1, ProductNat
        <3> DEFINE scaled == total.value * Wad
        <3>2. scaled \in Nat /\ derived.value = scaled \div m
            BY <1>1, <3>1
        <3> HIDE DEF derived, scaled
        <3> QED
            BY <3>1, <3>2, Euclid
    <2>2. /\ a.value = raw * total.value /\ b.value = Shares(raw, m) * derived.value
          /\ b.quantity = Shares(raw, m) /\ b.price = derived.value
        BY <1>3 DEF Valuation
    <2> QED
        BY <1>1, <1>5, <2>1, <2>2, ProductNat DEF Tolerance
<1>8. CompareValuationRoutes(a, b) = TRUE
    <2> HIDE DEF a, b
    <2>1. a.scale \in Int /\ b.scale \in Int
        BY <1>1, <1>3 DEF Valuation
    <2>2. ASSUME NEW s \in Int, NEW v \in Int PROVE Lift(v, s, s) = v
        <3>1. 10 ^ 0 = 1
            OBVIOUS
        <3>2. s - s = 0
            OBVIOUS
        <3>3. Lift(v, s, s) = v * 10 ^ 0
            BY <3>2 DEF Lift
        <3>4. v * 1 = v
            OBVIOUS
        <3> QED
            BY <3>1, <3>3, <3>4
    <2>3. \A v \in Int : Lift(v, b.scale, b.scale) = v
        BY <2>1, <2>2
    <2> QED
        BY <1>6, <1>7, <2>1, <2>3 DEF CompareValuationRoutes
<1> HIDE DEF a, b, conversion, derived
<1>9. result.agree = {TRUE}
    BY <1>4, <1>5, <1>8 DEF DeriveValuation, a, b, conversion
<1>10. result.actionable
    BY <1>4, <1>5 DEF DeriveValuation, a, b, conversion
<1> QED
    BY <1>9, <1>10 DEF derived

\* RoutesReconcileOnEveryBalance.  What any holder has on the chain at any time is
\* worth the same along both routes up to the two floors.
THEOREM RoutesReconcileOnEveryBalance == Spec => []RoutesReconcile
<1>1. ChainHolds => RoutesReconcile
    <2> SUFFICES ASSUME ChainHolds, NEW h \in Holders, NEW decimals \in {0, 1}
                 PROVE  LET raw == RawAt(h, Len(facts))
                            m == MultiplierAt(Len(facts))
                            total == [basis |-> TotalReturn, value |-> Total,
                                      decimals |-> decimals, traced |-> TRUE,
                                      freshness |-> "FRESH"]
                            result == DeriveValuation(raw, m, 0, total,
                                                      {DerivedUnderlying(total, m)})
                        IN  DerivedUnderlying(total, m).value > 0 =>
                                result.agree = {TRUE} /\ result.actionable
        BY DEF RoutesReconcile
    <2> DEFINE total == [basis |-> TotalReturn, value |-> Total, decimals |-> decimals,
                         traced |-> TRUE, freshness |-> "FRESH"]
    <2>1. total \in Price /\ total.basis = TotalReturn /\ total.traced /\ total.freshness = "FRESH"
        BY DEF Price
    <2>2. Len(facts) \in 0..Len(facts)
        BY DEF ChainHolds
    <2>3. RawAt(h, Len(facts)) \in 0..MaxRaw
        BY <2>2, RawAtIsSum, HoldersWithinCap DEF ChainHolds
    <2>4. MultiplierAt(Len(facts)) \in 1..MaxRaw
        BY <2>2, MultiplierIsOne
    <2> HIDE DEF total
    <2> QED
        BY <2>1, <2>3, <2>4, RoutesOfABalance DEF total
<1> QED
    BY <1>1, ChainStaysWithinCap, PTL

-----------------------------------------------------------------------------
\* The multiplier.

MultIn(fs, n) ==
    LET changes == {i \in 1..n : fs[i].kind = "activation"}
    IN  IF changes = {} THEN Wad ELSE fs[Max(changes)].multiplier

\* The multiplier at a block depends on the facts up to it,
LEMMA MultAgrees ==
    ASSUME NEW fs, NEW gs, NEW n \in Nat, \A i \in 1..n : fs[i] = gs[i]
    PROVE  MultIn(fs, n) = MultIn(gs, n)
<1> DEFINE changes == {i \in 1..n : fs[i].kind = "activation"}
<1>1. changes = {i \in 1..n : gs[i].kind = "activation"}
    OBVIOUS
<1>2. CASE changes = {}
    BY <1>1, <1>2 DEF MultIn
<1>3. CASE changes # {}
    <2>1. changes \in SUBSET (1..n) /\ n \in Nat
        OBVIOUS
    <2>2. IsFiniteSet(changes) /\ \A x \in changes : x \in Int
        <3> HIDE DEF changes
        <3> QED BY <2>1, IndicesAreFinite
    <2>3. Max(changes) \in changes
        <3> HIDE DEF changes
        <3> QED BY <1>3, <2>2, MaxIsReached
    <2>4. fs[Max(changes)] = gs[Max(changes)]
        BY <2>3
    <2> QED
        BY <1>1, <1>3, <2>4 DEF MultIn
<1> QED
    BY <1>2, <1>3

\* changes with an activation
LEMMA MultStep ==
    ASSUME NEW fs, NEW n \in Nat
    PROVE  MultIn(fs, n + 1) = IF fs[n + 1].kind = "activation" THEN fs[n + 1].multiplier
                               ELSE MultIn(fs, n)
<1> DEFINE now == {i \in 1..n + 1 : fs[i].kind = "activation"}
           before == {i \in 1..n : fs[i].kind = "activation"}
<1>1. CASE fs[n + 1].kind = "activation"
    <2>1. n + 1 \in Nat /\ now \in SUBSET (1..n + 1) /\ n + 1 \in now
        BY <1>1
    <2>2. Max(now) = n + 1
        <3> DEFINE k == n + 1
        <3>1. k \in Nat /\ now \in SUBSET (1..k) /\ k \in now
            BY <2>1
        <3> HIDE DEF now, k
        <3>2. Max(now) = k
            BY <3>1, MaxIsLast
        <3> QED BY <3>2 DEF k
    <2> QED
        BY <1>1, <2>1, <2>2 DEF MultIn
<1>2. CASE fs[n + 1].kind # "activation"
    <2>1. now = before
        BY <1>2
    <2> QED
        BY <1>2, <2>1 DEF MultIn
<1> QED
    BY <1>1, <1>2

\* and is one before the first.
LEMMA MultAtFirst == \A fs : MultIn(fs, 0) = Wad
<1> TAKE fs
<1>1. {i \in 1..0 : fs[i].kind = "activation"} = {}
    OBVIOUS
<1> QED BY <1>1 DEF MultIn

-----------------------------------------------------------------------------
\* What can have been delivered.

Kinds == {"RECEIVE", "SEND", "INTERNAL_TRANSFER", "CORPORATE_ACTION_RESTATEMENT", "CORRECTION"}

PostingSet == [account : Accounts, raw : Int, shares : Int, priced : BOOLEAN, value : Int]

Entry ==
    [id : Nat, kind : Kinds, block : Nat, tx : Nat \cup {None}, log : {0},
     postings : SUBSET PostingSet, multiplier : Multipliers \cup {None},
     corrects : Nat \cup {None}, classification : {"VERIFIED", "CONFLICT"}]

\* What leaves one account enters another.
Pair(a, b, raw, shares, priced) ==
    {Posting(a, -raw, -shares, priced), Posting(b, raw, shares, priced)}

\* The shares that a multiplier brings a holder at a block.
Drift(fs, h, n, m) ==
    Shares(RawIn(fs, h, n), m) - Shares(RawIn(fs, h, n), MultIn(fs, n - 1))

IsMovement(fs, e) ==
    \E n \in 1..Len(fs), priced \in BOOLEAN :
        /\ fs[n].kind = "movement"
        /\ e.kind \in {"RECEIVE", "SEND", "INTERNAL_TRANSFER"}
        /\ e.block = n /\ e.tx = n /\ e.corrects = None /\ e.classification = "VERIFIED"
        /\ e.postings = Pair(fs[n].from, fs[n].to, fs[n].amount,
                             Shares(fs[n].amount, MultIn(fs, n)), priced)

IsRestatement(fs, e) ==
    \E n \in 1..Len(fs), h \in Holders :
        /\ fs[n].kind = "activation"
        /\ e.kind = "CORPORATE_ACTION_RESTATEMENT"
        /\ e.block = n /\ e.tx = None /\ e.corrects = None /\ e.classification = "VERIFIED"
        /\ e.multiplier = fs[n].multiplier
        /\ e.postings = Pair(Issuance, h, 0, Drift(fs, h, n, e.multiplier), FALSE)

IsMistake(fs, e) ==
    \E n \in 1..Len(fs), h \in Holders :
        /\ e.kind = "CORPORATE_ACTION_RESTATEMENT"
        /\ e.block = n /\ e.tx = None /\ e.corrects = None /\ e.classification = "CONFLICT"
        /\ e.multiplier \in Multipliers \ {MultIn(fs, n)}
        /\ e.postings = Pair(Issuance, h, 0, Drift(fs, h, n, e.multiplier), FALSE)

IsPhantom(e) ==
    \E h \in Holders, amount \in RawAmounts :
        /\ e.kind = "RECEIVE" /\ e.tx = 0 /\ e.corrects = None /\ e.classification = "CONFLICT"
        /\ e.postings = Pair(Issuance, h, amount, amount, FALSE)

\* A correction is known by the entry it takes back.
Corrects(e, original) ==
    /\ original.classification = "CONFLICT" /\ original.kind # "CORRECTION"
    /\ e = BuildCorrection(original, e.id)

Known(fs, delivered, i) ==
    LET e == delivered[i]
    IN  /\ e.id = i
        /\ \/ IsMovement(fs, e) \/ IsRestatement(fs, e) \/ IsMistake(fs, e) \/ IsPhantom(e)
           \/ \E c \in 1..i - 1 : Corrects(e, delivered[c])

Deliveries(fs, delivered) ==
    /\ delivered \in Seq(Entry)
    /\ \A i \in 1..Len(delivered) : Known(fs, delivered, i)

LedgerHolds == ChainHolds /\ Deliveries(facts, inbox)

\* What is known about the facts so far stays known.
LEMMA KnownStays ==
    ASSUME NEW fs \in Seq(Fact), NEW fact \in Fact, NEW e,
           \/ IsMovement(fs, e) \/ IsRestatement(fs, e) \/ IsMistake(fs, e)
    PROVE  LET gs == Append(fs, fact)
           IN  IsMovement(gs, e) \/ IsRestatement(gs, e) \/ IsMistake(gs, e)
<1> DEFINE gs == Append(fs, fact)
<1>1. /\ Len(gs) = Len(fs) + 1 /\ Len(fs) \in Nat
      /\ \A i \in 1..Len(fs) : gs[i] = fs[i]
    OBVIOUS
<1> HIDE DEF gs
<1>2. ASSUME NEW n \in 1..Len(fs)
      PROVE  /\ n \in 1..Len(gs) /\ gs[n] = fs[n]
             /\ MultIn(gs, n) = MultIn(fs, n) /\ MultIn(gs, n - 1) = MultIn(fs, n - 1)
             /\ \A h : RawIn(gs, h, n) = RawIn(fs, h, n)
             /\ \A h, m : Drift(gs, h, n, m) = Drift(fs, h, n, m)
    <2>1. n \in Nat /\ n - 1 \in Nat /\ n \in 1..Len(gs) /\ gs[n] = fs[n]
        BY <1>1
    <2>2. (\A i \in 1..n : gs[i] = fs[i]) /\ (\A i \in 1..n - 1 : gs[i] = fs[i])
        BY <1>1
    <2>3. MultIn(gs, n) = MultIn(fs, n)
        BY <2>1, <2>2, MultAgrees
    <2>4. MultIn(gs, n - 1) = MultIn(fs, n - 1)
        <3> DEFINE k == n - 1
        <3>1. k \in Nat /\ \A i \in 1..k : gs[i] = fs[i]
            BY <2>1, <2>2
        <3> HIDE DEF k
        <3>2. MultIn(gs, k) = MultIn(fs, k)
            BY <3>1, MultAgrees
        <3> QED BY <3>2 DEF k
    <2>5. \A h : RawIn(gs, h, n) = RawIn(fs, h, n)
        BY <2>1, <2>2, RawAgrees
    <2> QED
        BY <2>1, <2>3, <2>4, <2>5 DEF Drift
<1>3. CASE IsMovement(fs, e)
    <2>1. PICK n \in 1..Len(fs), priced \in BOOLEAN :
              /\ fs[n].kind = "movement"
              /\ e.kind \in {"RECEIVE", "SEND", "INTERNAL_TRANSFER"}
              /\ e.block = n /\ e.tx = n /\ e.corrects = None /\ e.classification = "VERIFIED"
              /\ e.postings = Pair(fs[n].from, fs[n].to, fs[n].amount,
                                   Shares(fs[n].amount, MultIn(fs, n)), priced)
        BY <1>3 DEF IsMovement
    <2>2. IsMovement(gs, e)
        BY <1>2, <2>1 DEF IsMovement
    <2> QED
        BY <2>2 DEF gs
<1>4. CASE IsRestatement(fs, e)
    <2>1. PICK n \in 1..Len(fs), h \in Holders :
            /\ fs[n].kind = "activation"
            /\ e.kind = "CORPORATE_ACTION_RESTATEMENT"
            /\ e.block = n /\ e.tx = None /\ e.corrects = None /\ e.classification = "VERIFIED"
            /\ e.multiplier = fs[n].multiplier
            /\ e.postings = Pair(Issuance, h, 0, Drift(fs, h, n, e.multiplier), FALSE)
        BY <1>4 DEF IsRestatement
    <2>2. IsRestatement(gs, e)
        <3>1. /\ n \in 1..Len(gs) /\ gs[n] = fs[n] /\ MultIn(gs, n) = MultIn(fs, n)
              /\ Drift(gs, h, n, e.multiplier) = Drift(fs, h, n, e.multiplier)
            BY <1>2
        <3> QED
            BY <2>1, <3>1 DEF IsRestatement
    <2> QED
        BY <2>2 DEF gs
<1>5. CASE IsMistake(fs, e)
    <2>1. PICK n \in 1..Len(fs), h \in Holders :
            /\ e.kind = "CORPORATE_ACTION_RESTATEMENT"
            /\ e.block = n /\ e.tx = None /\ e.corrects = None /\ e.classification = "CONFLICT"
            /\ e.multiplier \in Multipliers \ {MultIn(fs, n)}
            /\ e.postings = Pair(Issuance, h, 0, Drift(fs, h, n, e.multiplier), FALSE)
        BY <1>5 DEF IsMistake
    <2>2. IsMistake(gs, e)
        <3>1. /\ n \in 1..Len(gs) /\ gs[n] = fs[n] /\ MultIn(gs, n) = MultIn(fs, n)
              /\ Drift(gs, h, n, e.multiplier) = Drift(fs, h, n, e.multiplier)
            BY <1>2
        <3> QED
            BY <2>1, <3>1 DEF IsMistake
    <2> QED
        BY <2>2 DEF gs
<1> QED
    BY <1>3, <1>4, <1>5 DEF gs

\* A new fact changes nothing that was delivered.
LEMMA DeliveriesStay ==
    ASSUME NEW fs \in Seq(Fact), NEW fact \in Fact, NEW delivered, Deliveries(fs, delivered)
    PROVE  Deliveries(Append(fs, fact), delivered)
<1> DEFINE gs == Append(fs, fact)
<1>1. ASSUME NEW i \in 1..Len(delivered) PROVE Known(gs, delivered, i)
    <2> DEFINE e == delivered[i]
    <2>1. Known(fs, delivered, i)
        BY DEF Deliveries
    <2>2. CASE IsMovement(fs, e) \/ IsRestatement(fs, e) \/ IsMistake(fs, e)
        <3>1. IsMovement(gs, e) \/ IsRestatement(gs, e) \/ IsMistake(gs, e)
            <4> HIDE DEF e
            <4> QED BY <2>2, KnownStays
        <3> HIDE DEF gs
        <3> QED BY <2>1, <3>1 DEF Known
    <2>3. CASE IsPhantom(e) \/ \E c \in 1..i - 1 : Corrects(e, delivered[c])
        <3> HIDE DEF gs
        <3> QED BY <2>1, <2>3 DEF Known
    <2> QED
        BY <2>1, <2>2, <2>3 DEF Known
<1> QED
    BY <1>1 DEF Deliveries

\* A delivery of something known.
LEMMA DeliveryKnown ==
    ASSUME NEW fs, NEW delivered, Deliveries(fs, delivered),
           NEW e \in Entry, e.id = Len(delivered) + 1,
           \/ IsMovement(fs, e) \/ IsRestatement(fs, e) \/ IsMistake(fs, e) \/ IsPhantom(e)
           \/ \E c \in 1..Len(delivered) : Corrects(e, delivered[c])
    PROVE  Deliveries(fs, Append(delivered, e))
<1> DEFINE all == Append(delivered, e)
           L == Len(delivered)
<1>1. /\ all \in Seq(Entry) /\ Len(all) = L + 1 /\ L \in Nat /\ all[L + 1] = e
      /\ \A i \in 1..L : all[i] = delivered[i]
    BY DEF Deliveries
<1> HIDE DEF all
<1>2. ASSUME NEW i \in 1..L PROVE Known(fs, all, i)
    <2>1. Known(fs, delivered, i) /\ all[i] = delivered[i]
        BY <1>1 DEF Deliveries
    <2>2. \A c \in 1..i - 1 : all[c] = delivered[c]
        BY <1>1
    <2> QED
        BY <2>1, <2>2 DEF Known
<1>3. Known(fs, all, L + 1)
    <2>1. (L + 1) - 1 = L
        BY <1>1
    <2> QED
        BY <1>1, <2>1 DEF Known
<1> QED
    BY <1>1, <1>2, <1>3 DEF Deliveries, all

\* A posting of integers is well formed,
LEMMA PostingTyped ==
    ASSUME NEW a \in Accounts, NEW raw \in Int, NEW shares \in Int, NEW priced \in BOOLEAN
    PROVE  Posting(a, raw, shares, priced) \in PostingSet
<1>1. raw * Total \in Int
    OBVIOUS
<1> QED
    BY <1>1 DEF Posting, PostingSet

\* and so is a pair of them.
LEMMA PairTyped ==
    ASSUME NEW a \in Accounts, NEW b \in Accounts, NEW raw \in Int, NEW shares \in Int,
           NEW priced \in BOOLEAN
    PROVE  Pair(a, b, raw, shares, priced) \in SUBSET PostingSet
<1>1. -raw \in Int /\ -shares \in Int
    OBVIOUS
<1> QED
    BY <1>1, PostingTyped DEF Pair

\* The model's multiplier is that of the facts.
LEMMA MultIsAt == \A n : MultiplierAt(n) = MultIn(facts, n)
BY DEF MultiplierAt, MultIn

\* A conversion of what a holder has at a block, in any multiplier.
LEMMA HeldConverts ==
    ASSUME ChainHolds, NEW n \in 0..Len(facts), NEW h \in Holders, NEW m \in 1..MaxRaw
    PROVE  /\ RawAt(h, n) = RawIn(facts, h, n)
           /\ RawIn(facts, h, n) \in 0..MaxRaw
           /\ RawToShares(RawAt(h, n), m).shares = Shares(RawIn(facts, h, n), m)
           /\ Shares(RawIn(facts, h, n), m) \in Nat
<1>1. n \in Nat /\ WithinCap(facts, n)
    BY DEF ChainHolds
<1>2. RawAt(h, n) = RawIn(facts, h, n) /\ RawIn(facts, h, n) \in 0..MaxRaw
    BY <1>1, RawAtIsSum, HoldersWithinCap
<1> DEFINE r == RawIn(facts, h, n)
<1>3. r \in 0..MaxRaw
    BY <1>2
<1> HIDE DEF r
<1>4. RawToShares(r, m).shares = Shares(r, m) /\ Shares(r, m) \in Nat
    BY <1>3, ConversionIsOk
<1> QED
    BY <1>2, <1>4 DEF r

\* What the indexer delivers of a movement is known,
LEMMA MovementKnown ==
    ASSUME ChainHolds, NEW n \in 1..Len(facts), facts[n].kind = "movement",
           NEW priced \in BOOLEAN, NEW id \in Nat
    PROVE  LET e == Movement(id, n, priced)
           IN  e \in Entry /\ e.id = id /\ IsMovement(facts, e)
<1> DEFINE fact == facts[n]
           m == MultiplierAt(n)
           s == Shares(fact.amount, m)
           e == Movement(id, n, priced)
<1>1. fact \in Fact /\ fact.kind = "movement" /\ n \in 0..Len(facts) /\ n \in Nat
    BY DEF ChainHolds
<1>2. fact.from \in Accounts /\ fact.to \in Accounts /\ fact.amount \in RawAmounts
    BY <1>1, FactFields
<1>3. fact.amount \in 0..MaxRaw /\ fact.amount \in Int
    <2>1. \A k \in RawAmounts : k \in 0..MaxRaw /\ k \in Int
        OBVIOUS
    <2> HIDE DEF fact
    <2> QED BY <1>2, <2>1
<1>4. m \in 1..MaxRaw
    BY <1>1, MultiplierIsOne
<1>5. RawToShares(fact.amount, m).shares = s /\ s \in Int
    <2> HIDE DEF fact, m
    <2> QED BY <1>3, <1>4, ConversionIsOk
<1>6. MovementKind(fact) \in {"RECEIVE", "SEND", "INTERNAL_TRANSFER"}
    BY DEF MovementKind
<1>7. e = [id |-> id, kind |-> MovementKind(fact), block |-> n, tx |-> n, log |-> 0,
           postings |-> Pair(fact.from, fact.to, fact.amount, s, priced),
           multiplier |-> None, corrects |-> None, classification |-> "VERIFIED"]
    <2> HIDE DEF fact, m, s
    <2>1. Movement(id, n, priced) =
              [id |-> id, kind |-> MovementKind(facts[n]), block |-> n, tx |-> n, log |-> 0,
               postings |-> {Posting(facts[n].from, -facts[n].amount, -s, priced),
                             Posting(facts[n].to, facts[n].amount, s, priced)},
               multiplier |-> None, corrects |-> None, classification |-> "VERIFIED"]
        BY <1>5 DEF Movement, fact, m
    <2> QED
        BY <2>1 DEF Pair, fact
<1>8. Pair(fact.from, fact.to, fact.amount, s, priced) \in SUBSET PostingSet
    <2> HIDE DEF fact, s
    <2> QED BY <1>2, <1>3, <1>5, PairTyped
<1> DEFINE ps == Pair(fact.from, fact.to, fact.amount, s, priced)
<1>9. e \in Entry
    <2> HIDE DEF fact, s, ps, e
    <2>1. ps \in SUBSET PostingSet /\ MovementKind(fact) \in Kinds
        BY <1>6, <1>8 DEF ps, Kinds
    <2>2. e = [id |-> id, kind |-> MovementKind(fact), block |-> n, tx |-> n, log |-> 0,
               postings |-> ps,
               multiplier |-> None, corrects |-> None, classification |-> "VERIFIED"]
        BY <1>7 DEF ps
    <2> QED
        BY <1>1, <2>1, <2>2 DEF Entry
<1>10. s = Shares(facts[n].amount, MultIn(facts, n))
    BY MultIsAt
<1>11. IsMovement(facts, e)
    <2> HIDE DEF e, s
    <2> QED
        BY <1>6, <1>7, <1>10 DEF IsMovement
<1>12. e.id = id
    <2> HIDE DEF e, s, fact
    <2> QED BY <1>7
<1> QED
    BY <1>9, <1>11, <1>12

\* The opposite of a difference, and of nothing.
LEMMA Negated ==
    /\ 0 = -0
    /\ \A a, b \in Nat : a - b \in Int /\ b - a = -(a - b)
<1>1. \A z \in Int : z + 0 = 0 => z = 0
    OBVIOUS
<1>2. -0 \in Int /\ -0 + 0 = 0
    OBVIOUS
<1>3. 0 = -0
    BY <1>1, <1>2
<1>4. \A a, b \in Nat : a - b \in Int /\ b - a = -(a - b)
    OBVIOUS
<1> QED
    BY <1>3, <1>4

\* what it delivers of an activation, or somebody posts by mistake, is known,
LEMMA RestatementKnown ==
    ASSUME ChainHolds, NEW n \in 1..Len(facts), NEW h \in Holders, NEW m \in Multipliers,
           NEW id \in Nat, NEW class \in {"VERIFIED", "CONFLICT"},
           class = "VERIFIED" => facts[n].kind = "activation" /\ m = facts[n].multiplier,
           class = "CONFLICT" => m # MultiplierAt(n)
    PROVE  LET e == Restatement(id, h, n, m, class)
           IN  /\ e \in Entry /\ e.id = id /\ e.classification = class
               /\ IsRestatement(facts, e) \/ IsMistake(facts, e)
<1> DEFINE r == RawIn(facts, h, n)
           before == Shares(r, MultIn(facts, n - 1))
           after == Shares(r, m)
           e == Restatement(id, h, n, m, class)
<1>1. n \in 0..Len(facts) /\ n - 1 \in 0..Len(facts) /\ n \in Nat /\ m \in 1..MaxRaw
    <2>1. Len(facts) \in Nat
        BY DEF ChainHolds
    <2>2. \A x \in Multipliers : x \in 1..MaxRaw
        OBVIOUS
    <2>3. m \in 1..MaxRaw
        BY <2>2
    <2>4. n \in 0..Len(facts) /\ n - 1 \in 0..Len(facts) /\ n \in Nat
        BY <2>1
    <2> QED BY <2>3, <2>4
<1>2. MultiplierAt(n - 1) \in 1..MaxRaw
    <2> DEFINE k == n - 1
    <2>1. k \in 0..Len(facts)
        BY <1>1
    <2> HIDE DEF k
    <2>2. MultiplierAt(k) \in 1..MaxRaw
        BY <2>1, MultiplierIsOne
    <2> QED BY <2>2 DEF k
<1>3. /\ RawToShares(RawAt(h, n), MultiplierAt(n - 1)).shares = before
      /\ RawToShares(RawAt(h, n), m).shares = after /\ before \in Nat /\ after \in Nat
    BY <1>1, <1>2, HeldConverts, MultIsAt
<1> HIDE DEF before, after
<1>0. before \in Nat /\ after \in Nat
    BY <1>3
<1>4. after - before \in Int /\ before - after = -(after - before) /\ 0 = -0
    BY <1>0, Negated
<1> DEFINE d == after - before
           ps == Pair(Issuance, h, 0, d, FALSE)
<1>5. e = [id |-> id, kind |-> "CORPORATE_ACTION_RESTATEMENT", block |-> n, tx |-> None,
           log |-> 0, postings |-> ps, multiplier |-> m, corrects |-> None,
           classification |-> class]
    <2>1. e = BuildRestatement(id, h, n, before, after, m, class)
        BY <1>3 DEF Restatement
    <2>2. {Posting(h, 0, after - before, FALSE), Posting(Issuance, 0, before - after, FALSE)} = ps
        <3>1. Posting(Issuance, -0, -d, FALSE) = Posting(Issuance, 0, before - after, FALSE)
            BY <1>4
        <3> QED BY <3>1 DEF Pair
    <2> HIDE DEF ps, d, e
    <2> QED
        BY <2>1, <2>2 DEF BuildRestatement
<1>6. d = Drift(facts, h, n, m)
    BY DEF Drift, before, after
<1>7. ps \in SUBSET PostingSet
    <2>1. /\ Issuance \in Accounts /\ h \in Accounts /\ d \in Int /\ 0 \in Int
          /\ FALSE \in BOOLEAN
        BY <1>4 DEF Accounts
    <2> HIDE DEF d
    <2> QED BY <2>1, PairTyped
<1> HIDE DEF d, e
<1>8. e \in Entry
    <2> HIDE DEF ps
    <2> QED BY <1>1, <1>5, <1>7 DEF Entry, Kinds
<1>9. e.id = id /\ e.classification = class
    <2> HIDE DEF ps
    <2> QED BY <1>5
<1>10. /\ e.kind = "CORPORATE_ACTION_RESTATEMENT" /\ e.block = n /\ e.tx = None
       /\ e.corrects = None /\ e.multiplier = m /\ e.postings = ps
    <2> HIDE DEF ps
    <2> QED BY <1>5
<1>11. e.postings = Pair(Issuance, h, 0, Drift(facts, h, n, e.multiplier), FALSE)
    BY <1>6, <1>10
<1> HIDE DEF ps
<1>12. IsRestatement(facts, e) \/ IsMistake(facts, e)
    <2>1. CASE class = "VERIFIED"
        BY <1>9, <1>10, <1>11, <2>1 DEF IsRestatement
    <2>2. CASE class = "CONFLICT"
        <3>1. e.multiplier \in Multipliers \ {MultIn(facts, n)}
            BY <1>10, <2>2, MultIsAt
        <3> QED BY <1>9, <1>10, <1>11, <2>2, <3>1 DEF IsMistake
    <2> QED BY <2>1, <2>2
<1> QED
    BY <1>8, <1>9, <1>12 DEF e

\* and so is a receipt that no chain has.
LEMMA PhantomKnown ==
    ASSUME NEW n \in Nat, NEW h \in Holders, NEW amount \in RawAmounts, NEW id \in Nat
    PROVE  LET e == [id |-> id, kind |-> "RECEIVE", block |-> n, tx |-> 0,
                     log |-> 0, multiplier |-> None, corrects |-> None,
                     classification |-> "CONFLICT",
                     postings |-> {Posting(Issuance, -amount, -amount, FALSE),
                                   Posting(h, amount, amount, FALSE)}]
           IN  e \in Entry /\ e.id = id /\ IsPhantom(e) /\ e.classification = "CONFLICT"
<1> DEFINE ps == Pair(Issuance, h, amount, amount, FALSE)
           e == [id |-> id, kind |-> "RECEIVE", block |-> n, tx |-> 0,
                 log |-> 0, multiplier |-> None, corrects |-> None,
                 classification |-> "CONFLICT", postings |-> ps]
<1>1. ps = {Posting(Issuance, -amount, -amount, FALSE), Posting(h, amount, amount, FALSE)}
    BY DEF Pair
<1>2. Issuance \in Accounts /\ h \in Accounts /\ amount \in Int
    BY DEF Accounts
<1>3. ps \in SUBSET PostingSet
    BY <1>2, PairTyped
<1>4. e \in Entry /\ e.id = id /\ e.classification = "CONFLICT" /\ e.kind = "RECEIVE" /\ e.tx = 0
      /\ e.corrects = None /\ e.postings = ps
    <2> HIDE DEF ps
    <2> QED BY <1>3 DEF Entry, Kinds
<1> HIDE DEF e
<1>5. IsPhantom(e)
    BY <1>4 DEF IsPhantom
<1> QED
    BY <1>1, <1>4, <1>5 DEF e

\* The opposite of a posting.
LEMMA OppositeTyped ==
    ASSUME NEW p \in PostingSet
    PROVE  /\ Opposite(p) \in PostingSet
           /\ Opposite(p) = [account |-> p.account, raw |-> -p.raw, shares |-> -p.shares,
                             priced |-> p.priced, value |-> -p.value]
<1>1. /\ p = [account |-> p.account, raw |-> p.raw, shares |-> p.shares,
              priced |-> p.priced, value |-> p.value]
      /\ p.account \in Accounts /\ p.raw \in Int /\ p.shares \in Int
      /\ p.priced \in BOOLEAN /\ p.value \in Int
    BY DEF PostingSet
<1>2. Opposite(p) = [account |-> p.account, raw |-> -p.raw, shares |-> -p.shares,
                     priced |-> p.priced, value |-> -p.value]
    <2>1. Opposite(p) = [p EXCEPT !.raw = -p.raw, !.shares = -p.shares, !.value = -p.value]
        BY <1>1 DEF Opposite
    <2> QED BY <1>1, <2>1
<1>3. -p.raw \in Int /\ -p.shares \in Int /\ -p.value \in Int
    BY <1>1
<1> QED
    BY <1>1, <1>2, <1>3 DEF PostingSet

\* A correction keeps everything of its original but its kind and its postings
\* (packages/equity-ledger/src/postings.ts:287-316).
LEMMA CorrectionFields ==
    ASSUME NEW original \in Entry, NEW id \in Nat
    PROVE  LET e == BuildCorrection(original, id)
           IN  /\ e \in Entry /\ e.id = id /\ e.kind = "CORRECTION" /\ e.corrects = original.id
               /\ e.block = original.block /\ e.tx = original.tx /\ e.log = original.log
               /\ e.multiplier = original.multiplier
               /\ e.classification = original.classification
               /\ e.postings = {Opposite(p) : p \in original.postings}
<1> DEFINE ps == {Opposite(p) : p \in original.postings}
           e == BuildCorrection(original, id)
<1>1. ps \in SUBSET PostingSet
    BY OppositeTyped DEF Entry
<1>2. e = [original EXCEPT !.id = id, !.kind = "CORRECTION", !.corrects = original.id,
                           !.postings = ps]
    BY DEF BuildCorrection
<1> HIDE DEF ps, e
<1>3. e = [id |-> id, kind |-> "CORRECTION", block |-> original.block, tx |-> original.tx,
           log |-> original.log, postings |-> ps, multiplier |-> original.multiplier,
           corrects |-> original.id, classification |-> original.classification]
    BY <1>2 DEF Entry
<1>4. e \in Entry
    BY <1>1, <1>3 DEF Entry, Kinds
<1> QED
    BY <1>3, <1>4 DEF ps, e

\* Every delivery is of something known.
LEMMA DeliveryIsKnown ==
    ASSUME LedgerHolds, DeliverMovement \/ DeliverRestatement \/ PostMistake \/ Correct
    PROVE  /\ UNCHANGED facts
           /\ \E e \in Entry :
                /\ inbox' = Append(inbox, e) /\ e.id = Len(inbox) + 1
                /\ \/ IsMovement(facts, e) \/ IsRestatement(facts, e) \/ IsMistake(facts, e)
                   \/ IsPhantom(e) \/ \E c \in 1..Len(inbox) : Corrects(e, inbox[c])
<1>1. /\ Len(inbox) \in Nat /\ NextId \in Nat /\ NextId = Len(inbox) + 1
      /\ inbox \in Seq(Entry) /\ DOMAIN inbox = 1..Len(inbox)
      /\ ChainHolds /\ facts \in Seq(Fact) /\ DOMAIN facts = 1..Len(facts)
    BY DEF LedgerHolds, Deliveries, ChainHolds, NextId
<1>2. ASSUME DeliverMovement
      PROVE  \E e \in Entry : Receive(e) /\ e.id = NextId /\ IsMovement(facts, e)
    <2>1. PICK n \in 1..Len(facts), priced \in BOOLEAN :
              facts[n].kind = "movement" /\ Receive(Movement(NextId, n, priced))
        BY <1>1, <1>2 DEF DeliverMovement
    <2>2. LET e == Movement(NextId, n, priced)
          IN  e \in Entry /\ e.id = NextId /\ IsMovement(facts, e)
        BY <1>1, <2>1, MovementKnown
    <2> QED BY <2>1, <2>2
<1>3. ASSUME DeliverRestatement
      PROVE  \E e \in Entry : /\ Receive(e) /\ e.id = NextId
                              /\ IsRestatement(facts, e) \/ IsMistake(facts, e)
    <2>1. PICK n \in 1..Len(facts), h \in Holders :
              /\ facts[n].kind = "activation"
              /\ Receive(Restatement(NextId, h, n, facts[n].multiplier, "VERIFIED"))
        BY <1>1, <1>3 DEF DeliverRestatement
    <2> DEFINE m == facts[n].multiplier
               e == Restatement(NextId, h, n, m, "VERIFIED")
    <2>2. m \in Multipliers /\ m = facts[n].multiplier
        BY <1>1, <2>1, FactFields
    <2>3. e \in Entry /\ e.id = NextId /\ (IsRestatement(facts, e) \/ IsMistake(facts, e))
        <3> HIDE DEF m
        <3> QED BY <1>1, <2>1, <2>2, RestatementKnown
    <2>4. Receive(e)
        BY <2>1
    <2> HIDE DEF e
    <2> QED BY <2>3, <2>4
<1>4. ASSUME PostMistake
      PROVE  \E e \in Entry : /\ Receive(e) /\ e.id = NextId
                              /\ \/ IsRestatement(facts, e) \/ IsMistake(facts, e)
                                 \/ IsPhantom(e)
    <2>1. PICK n \in 1..Len(facts), h \in Holders :
              \/ \E m \in Multipliers \ {MultiplierAt(n)} :
                     Receive(Restatement(NextId, h, n, m, "CONFLICT"))
              \/ \E amount \in RawAmounts :
                     Receive([id |-> NextId, kind |-> "RECEIVE", block |-> n, tx |-> 0,
                              log |-> 0, multiplier |-> None, corrects |-> None,
                              classification |-> "CONFLICT",
                              postings |-> {Posting(Issuance, -amount, -amount, FALSE),
                                            Posting(h, amount, amount, FALSE)}])
        BY <1>1, <1>4 DEF PostMistake
    <2>2. ASSUME NEW m \in Multipliers \ {MultiplierAt(n)},
                 Receive(Restatement(NextId, h, n, m, "CONFLICT"))
          PROVE  \E e \in Entry : /\ Receive(e) /\ e.id = NextId
                                  /\ IsRestatement(facts, e) \/ IsMistake(facts, e)
        <3> DEFINE e == Restatement(NextId, h, n, m, "CONFLICT")
        <3>1. e \in Entry /\ e.id = NextId /\ (IsRestatement(facts, e) \/ IsMistake(facts, e))
            BY <1>1, <2>2, RestatementKnown
        <3> QED BY <2>2, <3>1
    <2>3. ASSUME NEW amount \in RawAmounts,
                 Receive([id |-> NextId, kind |-> "RECEIVE", block |-> n, tx |-> 0,
                          log |-> 0, multiplier |-> None, corrects |-> None,
                          classification |-> "CONFLICT",
                          postings |-> {Posting(Issuance, -amount, -amount, FALSE),
                                        Posting(h, amount, amount, FALSE)}])
          PROVE  \E e \in Entry : Receive(e) /\ e.id = NextId /\ IsPhantom(e)
        <3>1. n \in Nat
            BY <1>1
        <3> QED BY <1>1, <2>3, <3>1, PhantomKnown
    <2> QED BY <2>1, <2>2, <2>3
<1>5. ASSUME Correct
      PROVE  \E e \in Entry : /\ Receive(e) /\ e.id = NextId
                              /\ \E c \in 1..Len(inbox) : Corrects(e, inbox[c])
    <2>1. PICK c \in 1..Len(inbox) :
              /\ inbox[c].classification = "CONFLICT" /\ inbox[c].kind # "CORRECTION"
              /\ Receive(BuildCorrection(inbox[c], NextId))
        BY <1>1, <1>5 DEF Correct, Mistakes
    <2> DEFINE e == BuildCorrection(inbox[c], NextId)
    <2>2. inbox[c] \in Entry
        BY <1>1
    <2>3. e \in Entry /\ e.id = NextId
        BY <1>1, <2>2, CorrectionFields
    <2>4. Corrects(e, inbox[c])
        BY <2>1, <2>3 DEF Corrects
    <2>5. Receive(e)
        BY <2>1
    <2> HIDE DEF e
    <2> QED BY <2>3, <2>4, <2>5
<1>6. PICK e \in Entry :
          /\ Receive(e) /\ e.id = NextId
          /\ \/ IsMovement(facts, e) \/ IsRestatement(facts, e) \/ IsMistake(facts, e)
             \/ IsPhantom(e) \/ \E c \in 1..Len(inbox) : Corrects(e, inbox[c])
    BY <1>2, <1>3, <1>4, <1>5
<1> QED
    BY <1>1, <1>6 DEF Receive

\* Nothing has been delivered at first.
LEMMA LedgerInit == Init => LedgerHolds
<1>1. Init => Deliveries(facts, inbox)
    BY DEF Init, Deliveries
<1> QED
    BY <1>1, ChainInit DEF LedgerHolds

\* Every step delivers something known or nothing.
LEMMA LedgerStep == LedgerHolds /\ [Next]_vars => LedgerHolds'
<1> SUFFICES ASSUME LedgerHolds, [Next]_vars PROVE LedgerHolds'
    OBVIOUS
<1>1. ChainHolds /\ ChainHolds' /\ Deliveries(facts, inbox)
    BY ChainStep DEF LedgerHolds
<1>2. CASE Move \/ Activate
    <2>1. PICK fact \in Fact : facts' = Append(facts, fact) /\ inbox' = inbox
        BY <1>1, <1>2, MoveStep, ActivateStep
    <2>2. Deliveries(Append(facts, fact), inbox)
        BY <1>1, DeliveriesStay DEF ChainHolds
    <2>3. Deliveries(facts', inbox')
        BY <2>1, <2>2
    <2> QED BY <1>1, <2>3 DEF LedgerHolds
<1>3. CASE DeliverMovement \/ DeliverRestatement \/ PostMistake \/ Correct
    <2>1. facts' = facts
        BY <1>3, DeliveryIsKnown
    <2>2. PICK e \in Entry :
                /\ inbox' = Append(inbox, e) /\ e.id = Len(inbox) + 1
                /\ \/ IsMovement(facts, e) \/ IsRestatement(facts, e) \/ IsMistake(facts, e)
                   \/ IsPhantom(e) \/ \E c \in 1..Len(inbox) : Corrects(e, inbox[c])
        BY <1>3, DeliveryIsKnown
    <2>3. Deliveries(facts, Append(inbox, e))
        BY <1>1, <2>2, DeliveryKnown
    <2>4. Deliveries(facts', inbox')
        BY <2>1, <2>2, <2>3
    <2> QED BY <1>1, <2>4 DEF LedgerHolds
<1>4. CASE UNCHANGED vars
    <2>1. facts' = facts /\ inbox' = inbox
        BY <1>4 DEF vars
    <2>2. Deliveries(facts', inbox')
        BY <1>1, <2>1
    <2> QED BY <1>1, <2>2 DEF LedgerHolds
<1> QED
    BY <1>2, <1>3, <1>4 DEF Next

\* Whatever has been delivered is a movement in the shares of its block, a restatement by the
\* multiplier of its activation, a mistake, or the correction of a delivered mistake
\* (packages/equity-ledger/src/postings.ts:156-316).
THEOREM LedgerInvariant == Spec => []LedgerHolds
BY LedgerInit, LedgerStep, PTL DEF Spec

-----------------------------------------------------------------------------
\* The past.

\* The accounts of a pair.
LEMMA AccountsOfPair ==
    ASSUME NEW a, NEW b, NEW raw, NEW shares, NEW priced, NEW ps,
           ps = Pair(a, b, raw, shares, priced)
    PROVE  {p.account : p \in ps} = {a, b}
BY DEF Pair, Posting

\* A delivered entry is well formed and known.
LEMMA InboxTyped ==
    ASSUME LedgerHolds, NEW i \in 1..Len(inbox)
    PROVE  /\ inbox[i] \in Entry /\ inbox[i].id \in Nat /\ inbox[i].log = 0
           /\ inbox[i].classification \in {"VERIFIED", "CONFLICT"}
           /\ Known(facts, inbox, i)
<1>1. inbox[i] \in Entry /\ Known(facts, inbox, i)
    BY DEF LedgerHolds, Deliveries
<1> QED BY <1>1 DEF Entry

\* What a correction and its original have in common.
LEMMA CorrectionTakesBack ==
    ASSUME NEW original \in Entry, NEW e, e.id \in Nat, Corrects(e, original)
    PROVE  /\ e.kind = "CORRECTION" /\ e.classification = "CONFLICT"
           /\ original.classification = "CONFLICT" /\ original.kind # "CORRECTION"
           /\ e.corrects = original.id /\ e.block = original.block /\ e.tx = original.tx
           /\ e.log = original.log /\ e.multiplier = original.multiplier
           /\ e.postings = {Opposite(p) : p \in original.postings}
<1> DEFINE id == e.id
<1>1. e = BuildCorrection(original, id) /\ id \in Nat
    BY DEF Corrects
<1> HIDE DEF id
<1>2. /\ original.classification = "CONFLICT" /\ original.kind # "CORRECTION"
    BY DEF Corrects
<1> QED
    BY <1>1, <1>2, CorrectionFields

\* No entry in conflict has the transaction of a fact.
LEMMA ConflictsMoveNothing ==
    ASSUME LedgerHolds, NEW i \in 1..Len(inbox), inbox[i].classification = "CONFLICT"
    PROVE  inbox[i].tx \in {None, 0}
<1>1. ASSUME NEW c \in 1..Len(inbox), inbox[c].classification = "CONFLICT",
             inbox[c].kind # "CORRECTION"
      PROVE  inbox[c].tx \in {None, 0}
    <2>1. Known(facts, inbox, c)
        BY DEF LedgerHolds, Deliveries
    <2>2. ~IsMovement(facts, inbox[c]) /\ ~IsRestatement(facts, inbox[c])
        BY <1>1 DEF IsMovement, IsRestatement
    <2>3. ~ \E b \in 1..c - 1 : Corrects(inbox[c], inbox[b])
        <3> SUFFICES ASSUME NEW b \in 1..c - 1, Corrects(inbox[c], inbox[b]) PROVE FALSE
            OBVIOUS
        <3>1. b \in 1..Len(inbox)
            OBVIOUS
        <3>2. inbox[b] \in Entry /\ inbox[c].id \in Nat
            BY <3>1, InboxTyped
        <3> QED BY <1>1, <3>2, CorrectionTakesBack
    <2>4. IsMistake(facts, inbox[c]) \/ IsPhantom(inbox[c])
        BY <2>1, <2>2, <2>3 DEF Known
    <2> QED BY <2>4 DEF IsMistake, IsPhantom
<1>2. CASE inbox[i].kind # "CORRECTION"
    BY <1>1, <1>2
<1>3. CASE inbox[i].kind = "CORRECTION"
    <2>1. Known(facts, inbox, i)
        BY DEF LedgerHolds, Deliveries
    <2>2. PICK c \in 1..i - 1 : Corrects(inbox[i], inbox[c])
        BY <1>3, <2>1 DEF Known, IsMovement, IsRestatement, IsMistake, IsPhantom
    <2>0. c \in 1..Len(inbox)
        OBVIOUS
    <2>3. c \in 1..Len(inbox) /\ inbox[c] \in Entry /\ inbox[i].id \in Nat
        BY <2>0, InboxTyped
    <2>4. inbox[i].tx = inbox[c].tx /\ inbox[c].classification = "CONFLICT"
          /\ inbox[c].kind # "CORRECTION"
        BY <2>2, <2>3, CorrectionTakesBack
    <2> QED BY <1>1, <2>3, <2>4
<1> QED BY <1>2, <1>3

\* A verified entry is about a fact.
LEMMA VerifiedIsFact ==
    ASSUME LedgerHolds, NEW i \in 1..Len(inbox), inbox[i].classification = "VERIFIED"
    PROVE  IsMovement(facts, inbox[i]) \/ IsRestatement(facts, inbox[i])
<1>1. Known(facts, inbox, i)
    BY DEF LedgerHolds, Deliveries
<1>2. ~ \E c \in 1..i - 1 : Corrects(inbox[i], inbox[c])
    <2> SUFFICES ASSUME NEW c \in 1..i - 1, Corrects(inbox[i], inbox[c]) PROVE FALSE
        OBVIOUS
    <2>0. c \in 1..Len(inbox)
        OBVIOUS
    <2>1. inbox[c] \in Entry /\ inbox[i].id \in Nat
        BY <2>0, InboxTyped
    <2> QED BY <2>1, CorrectionTakesBack
<1> QED BY <1>1, <1>2 DEF Known, IsMistake, IsPhantom

\* When every fact up to a time has come, an entry about one of them is a repeat.
LEMMA SettledHasSeen ==
    ASSUME LedgerHolds, NEW at \in 0..Len(facts), Settled(at), NEW e \in Entry,
           IsMovement(facts, e) \/ IsRestatement(facts, e), e.block <= at
    PROVE  \E i \in 1..Len(inbox) : MovementIdentity(inbox[i]) = MovementIdentity(e)
<1>0. /\ DOMAIN inbox = 1..Len(inbox) /\ \A i \in 1..Len(inbox) : inbox[i] \in Entry
      /\ Len(facts) \in Nat
    BY DEF LedgerHolds, Deliveries, ChainHolds
<1>00. \A i \in 1..Len(inbox) : inbox[i].classification \in {"VERIFIED", "CONFLICT"} /\ inbox[i].log = 0
    BY <1>0 DEF Entry
<1>1. CASE IsMovement(facts, e)
    <2>1. PICK n \in 1..Len(facts) :
            facts[n].kind = "movement" /\ e.block = n /\ e.tx = n
        BY <1>1 DEF IsMovement
    <2>2. n \in 1..at
        BY <2>1
    <2>3. PICK i \in 1..Len(inbox) : inbox[i].tx = n
        BY <1>0, <2>1, <2>2 DEF Settled, Delivered
    <2>4. n # None /\ n # 0
        BY <2>1
    <2>5. inbox[i].classification = "VERIFIED"
        BY <1>00, <2>3, <2>4, ConflictsMoveNothing
    <2>6. inbox[i].block = n
        <3>1. ~ IsRestatement(facts, inbox[i])
            BY <2>3, <2>4 DEF IsRestatement
        <3>2. IsMovement(facts, inbox[i])
            BY <2>5, <3>1, VerifiedIsFact
        <3> QED
            BY <2>3, <3>2 DEF IsMovement
    <2>7. inbox[i].log = 0 /\ e.log = 0
        BY <1>00 DEF Entry
    <2> QED
        BY <2>1, <2>3, <2>4, <2>6, <2>7 DEF MovementIdentity
<1>2. CASE IsRestatement(facts, e)
    <2>1. PICK n \in 1..Len(facts), h \in Holders :
            /\ facts[n].kind = "activation"
            /\ e.kind = "CORPORATE_ACTION_RESTATEMENT" /\ e.block = n /\ e.tx = None
            /\ e.multiplier = facts[n].multiplier
            /\ e.postings = Pair(Issuance, h, 0, Drift(facts, h, n, e.multiplier), FALSE)
        BY <1>2 DEF IsRestatement
    <2>2. n \in 1..at /\ facts[n].kind # "movement"
        BY <2>1
    <2>3. PICK i \in 1..Len(inbox) :
            /\ inbox[i].kind = "CORPORATE_ACTION_RESTATEMENT" /\ inbox[i].block = n
            /\ inbox[i].classification = "VERIFIED"
            /\ \E p \in inbox[i].postings : p.account = h
        BY <1>0, <2>1, <2>2 DEF Settled, Delivered
    <2>4. IsRestatement(facts, inbox[i])
        BY <2>3, VerifiedIsFact DEF IsMovement
    <2>5. PICK g \in Holders :
            /\ inbox[i].tx = None /\ inbox[i].multiplier = facts[n].multiplier
            /\ inbox[i].postings =
                   Pair(Issuance, g, 0, Drift(facts, g, n, inbox[i].multiplier), FALSE)
        BY <2>3, <2>4 DEF IsRestatement
    <2>6. {p.account : p \in inbox[i].postings} = {Issuance, g}
        <3> DEFINE ps == inbox[i].postings
                   d == Drift(facts, g, n, inbox[i].multiplier)
        <3>1. ps = Pair(Issuance, g, 0, d, FALSE)
            BY <2>5
        <3> HIDE DEF ps, d
        <3>2. {p.account : p \in ps} = {Issuance, g}
            BY <3>1, AccountsOfPair
        <3> QED BY <3>2 DEF ps
    <2>7. g = h
        <3>1. h \in {p.account : p \in inbox[i].postings}
            BY <2>3
        <3> QED BY <2>6, <3>1
    <2>8. {p.account : p \in e.postings} = {Issuance, h}
        <3> DEFINE ps == e.postings
                   d == Drift(facts, h, n, e.multiplier)
        <3>1. ps = Pair(Issuance, h, 0, d, FALSE)
            BY <2>1
        <3> HIDE DEF ps, d
        <3>2. {p.account : p \in ps} = {Issuance, h}
            BY <3>1, AccountsOfPair
        <3> QED BY <3>2 DEF ps
    <2> QED
        BY <2>1, <2>3, <2>5, <2>6, <2>7, <2>8 DEF MovementIdentity
<1> QED BY <1>1, <1>2

\* A repeat, and an entry about a later time, leave what is kept for a time as it was.
LEMMA RepeatsChangeNothing ==
    ASSUME NEW delivered \in Seq(Entry), NEW e \in Entry, NEW at \in Nat,
           e.block <= at => \E i \in 1..Len(delivered) :
                                MovementIdentity(delivered[i]) = MovementIdentity(e)
    PROVE  UpToTime(DedupeEntries(Append(delivered, e)), at)
               = UpToTime(DedupeEntries(delivered), at)
<1> DEFINE all == Append(delivered, e)
           L == Len(delivered)
<1>1. /\ L \in Nat /\ DOMAIN delivered = 1..L /\ DOMAIN all = 1..L + 1
      /\ all[L + 1] = e /\ \A i \in 1..L : all[i] = delivered[i]
    OBVIOUS
<1> HIDE DEF all
<1>2. \A x : x \in DedupeEntries(delivered) <=>
          \E j \in 1..L : /\ x = delivered[j]
                          /\ \A k \in 1..j - 1 : MovementIdentity(delivered[k]) # MovementIdentity(delivered[j])
    BY <1>1 DEF DedupeEntries
<1>3. \A x : x \in DedupeEntries(all) <=>
          \E j \in 1..L + 1 : /\ x = all[j]
                              /\ \A k \in 1..j - 1 : MovementIdentity(all[k]) # MovementIdentity(all[j])
    BY <1>1 DEF DedupeEntries
<1>4. ASSUME NEW j \in 1..L
      PROVE  all[j] = delivered[j] /\ \A k \in 1..j - 1 : all[k] = delivered[k]
    BY <1>1
<1>5. DedupeEntries(delivered) \subseteq DedupeEntries(all)
    <2> SUFFICES ASSUME NEW x \in DedupeEntries(delivered) PROVE x \in DedupeEntries(all)
        OBVIOUS
    <2>1. PICK j \in 1..L : /\ x = delivered[j]
                            /\ \A k \in 1..j - 1 : MovementIdentity(delivered[k]) # MovementIdentity(delivered[j])
        BY <1>2
    <2>2. j \in 1..L + 1 /\ x = all[j]
        BY <1>1, <2>1
    <2>3. \A k \in 1..j - 1 : MovementIdentity(all[k]) # MovementIdentity(all[j])
        BY <1>4, <2>1
    <2> QED BY <1>3, <2>2, <2>3
<1>6. ASSUME NEW x \in DedupeEntries(all), x \notin DedupeEntries(delivered)
      PROVE  ~(x.block <= at)
    <2>1. PICK j \in 1..L + 1 : /\ x = all[j]
                                /\ \A k \in 1..j - 1 : MovementIdentity(all[k]) # MovementIdentity(all[j])
        BY <1>3
    <2>2. j = L + 1
        <3> SUFFICES ASSUME j # L + 1 PROVE FALSE
            OBVIOUS
        <3>1. j \in 1..L
            BY <1>1
        <3>2. x = delivered[j] /\ \A k \in 1..j - 1 : MovementIdentity(delivered[k]) # MovementIdentity(delivered[j])
            BY <1>4, <2>1, <3>1
        <3> QED BY <1>2, <1>6, <3>1, <3>2
    <2>3. x = e /\ \A k \in 1..L : MovementIdentity(delivered[k]) # MovementIdentity(e)
        BY <1>1, <2>1, <2>2
    <2> QED BY <2>3
<1> QED
    BY <1>5, <1>6 DEF UpToTime, all

\* PastIsFixed.  A query about a settled time answers the same after any further fact and any
\* verified delivery, late, repeated or under a new id: an entry about that time is a repeat
\* of one that is kept (packages/equity-ledger/src/postings.ts:230-236, :371-436).
THEOREM PastStaysFixed == Spec => PastIsFixed
<1> DEFINE Fixed ==
        \A at \in 0..Len(facts) :
            Settled(at) /\ (inbox' = inbox \/ inbox'[Len(inbox')].classification = "VERIFIED") =>
                \A h \in Holders : ProjectPositions(inbox', at)[h] = ProjectPositions(inbox, at)[h]
<1>1. LedgerHolds /\ [Next]_vars => Fixed
    <2> SUFFICES ASSUME LedgerHolds, [Next]_vars, NEW at \in 0..Len(facts), Settled(at),
                        inbox' = inbox \/ inbox'[Len(inbox')].classification = "VERIFIED",
                        NEW h \in Holders
                 PROVE  ProjectPositions(inbox', at)[h] = ProjectPositions(inbox, at)[h]
        OBVIOUS
    <2>1. CASE inbox' = inbox
        BY <2>1
    <2>2. CASE inbox' # inbox
        <3>1. DeliverMovement \/ DeliverRestatement \/ PostMistake \/ Correct
            <4>1. Move \/ Activate => inbox' = inbox
                BY MoveStep, ActivateStep DEF LedgerHolds
            <4>2. UNCHANGED vars => inbox' = inbox
                BY DEF vars
            <4> QED BY <2>2, <4>1, <4>2 DEF Next
        <3>2. PICK e \in Entry :
                /\ inbox' = Append(inbox, e) /\ e.id = Len(inbox) + 1
                /\ \/ IsMovement(facts, e) \/ IsRestatement(facts, e) \/ IsMistake(facts, e)
                   \/ IsPhantom(e) \/ \E c \in 1..Len(inbox) : Corrects(e, inbox[c])
            BY <3>1, DeliveryIsKnown
        <3>3. inbox \in Seq(Entry) /\ Len(inbox) \in Nat
            BY DEF LedgerHolds, Deliveries
        <3>4. e.classification = "VERIFIED"
            BY <2>2, <3>2, <3>3
        <3>5. IsMovement(facts, e) \/ IsRestatement(facts, e)
            <4>1. \A c \in 1..Len(inbox) : ~Corrects(e, inbox[c])
                <5> SUFFICES ASSUME NEW c \in 1..Len(inbox), Corrects(e, inbox[c]) PROVE FALSE
                    OBVIOUS
                <5>1. inbox[c] \in Entry /\ e.id \in Nat
                    BY InboxTyped DEF Entry
                <5> QED BY <3>4, <5>1, CorrectionTakesBack
            <4> QED BY <3>2, <3>4, <4>1 DEF IsMistake, IsPhantom
        <3>6. at \in Nat /\ (e.block <= at => \E i \in 1..Len(inbox) :
                                MovementIdentity(inbox[i]) = MovementIdentity(e))
            BY <3>5, SettledHasSeen
        <3>7. UpToTime(DedupeEntries(inbox'), at) = UpToTime(DedupeEntries(inbox), at)
            <4>1. UpToTime(DedupeEntries(Append(inbox, e)), at) = UpToTime(DedupeEntries(inbox), at)
                BY <3>3, <3>6, RepeatsChangeNothing
            <4> QED BY <3>2, <4>1
        <3> QED BY <3>7 DEF ProjectPositions, Accounts
    <2> QED BY <2>1, <2>2
<1>2. LedgerHolds /\ [Next]_vars => [Fixed]_vars
    BY <1>1
<1> QED
    BY <1>2, LedgerInvariant, PTL DEF Spec, PastIsFixed

-----------------------------------------------------------------------------
\* What is kept of the deliveries.

\* What is kept is the first of its identity.
LEMMA KeptIsFirst ==
    ASSUME NEW delivered \in Seq(Entry), NEW e
    PROVE  e \in DedupeEntries(delivered) <=>
               \E j \in 1..Len(delivered) :
                   /\ e = delivered[j]
                   /\ \A k \in 1..j - 1 :
                          MovementIdentity(delivered[k]) # MovementIdentity(delivered[j])
<1>1. DOMAIN delivered = 1..Len(delivered)
    OBVIOUS
<1> QED BY <1>1 DEF DedupeEntries

\* Of every identity the first delivery is kept,
LEMMA OneIsKept ==
    ASSUME NEW delivered \in Seq(Entry), NEW i \in 1..Len(delivered)
    PROVE  \E e \in DedupeEntries(delivered) :
               MovementIdentity(e) = MovementIdentity(delivered[i])
<1> DEFINE L == Len(delivered)
           Same == {k \in 1..L : MovementIdentity(delivered[k]) = MovementIdentity(delivered[i])}
<1>1. L \in Nat /\ Same \in SUBSET (1..L) /\ Same # {}
    OBVIOUS
<1>2. PICK j \in Same : \A k \in Same : j <= k
    <2> HIDE DEF Same, L
    <2> QED BY <1>1, FirstIndex
<1>3. j \in 1..L /\ MovementIdentity(delivered[j]) = MovementIdentity(delivered[i])
    BY <1>2
<1>4. \A k \in 1..j - 1 : MovementIdentity(delivered[k]) # MovementIdentity(delivered[j])
    <2> SUFFICES ASSUME NEW k \in 1..j - 1,
                        MovementIdentity(delivered[k]) = MovementIdentity(delivered[j])
                 PROVE  FALSE
        OBVIOUS
    <2>1. k \in 1..L /\ ~(j <= k)
        BY <1>1, <1>3
    <2>2. k \in Same
        BY <1>3, <2>1
    <2> QED BY <1>2, <2>1, <2>2
<1>5. delivered[j] \in DedupeEntries(delivered)
    BY <1>3, <1>4, KeptIsFirst
<1> QED BY <1>3, <1>5

\* and no other.
LEMMA OnlyOneIsKept ==
    ASSUME NEW delivered \in Seq(Entry), NEW e \in DedupeEntries(delivered),
           NEW f \in DedupeEntries(delivered), MovementIdentity(e) = MovementIdentity(f)
    PROVE  e = f
<1>1. PICK i \in 1..Len(delivered) :
          /\ e = delivered[i]
          /\ \A k \in 1..i - 1 : MovementIdentity(delivered[k]) # MovementIdentity(delivered[i])
    BY KeptIsFirst
<1>2. PICK j \in 1..Len(delivered) :
          /\ f = delivered[j]
          /\ \A k \in 1..j - 1 : MovementIdentity(delivered[k]) # MovementIdentity(delivered[j])
    BY KeptIsFirst
<1>3. ~(i \in 1..j - 1) /\ ~(j \in 1..i - 1)
    BY <1>1, <1>2
<1>4. i = j
    BY <1>3
<1> QED BY <1>1, <1>2, <1>4

\* Finitely many entries are kept.
LEMMA KeptIsFinite ==
    ASSUME NEW delivered \in Seq(Entry)
    PROVE  IsFiniteSet(DedupeEntries(delivered))
<1> DEFINE L == Len(delivered)
           all == {delivered[i] : i \in 1..L}
           f == [i \in 1..L |-> delivered[i]]
<1>1. f \in Surjection(1..L, all)
    BY DEF Surjection
<1>2. IsFiniteSet(1..L)
    <2>1. 1 \in Int /\ L \in Int
        OBVIOUS
    <2> QED BY <2>1, FS_Interval
<1>3. IsFiniteSet(all)
    <2> HIDE DEF f, all
    <2> QED BY <1>1, <1>2, FS_Surjection
<1>4. DedupeEntries(delivered) \in SUBSET all
    BY KeptIsFirst
<1> HIDE DEF all
<1> QED BY <1>3, <1>4, FS_Subset

-----------------------------------------------------------------------------
\* Conservation.

\* One account's loss is another's gain.
TwoSided(e) ==
    \E p, q \in PostingSet :
        /\ e.postings = {p, q} /\ p.account # q.account
        /\ p.raw + q.raw = 0 /\ p.shares + q.shares = 0
        /\ e.kind = "CORPORATE_ACTION_RESTATEMENT" => p.raw = 0 /\ q.raw = 0

\* Two different things are two.
LEMMA CardinalityOfPair ==
    ASSUME NEW x, NEW y, x # y
    PROVE  Cardinality({x, y}) = 2
<1>1. IsFiniteSet({x}) /\ Cardinality({x}) = 1
    BY FS_Singleton
<1>2. Cardinality({x} \cup {y}) = Cardinality({x}) + 1
    BY <1>1, FS_AddElement
<1>3. {x} \cup {y} = {x, y}
    OBVIOUS
<1>4. Cardinality({x} \cup {y}) = 1 + 1
    BY ONLY <1>1, <1>2
<1>5. 1 + 1 = 2
    OBVIOUS
<1>6. Cardinality({x} \cup {y}) = 2
    BY ONLY <1>4, <1>5
<1> QED BY ONLY <1>3, <1>6

\* An entry of two opposite postings has no violation.
LEMMA TwoSidedIsBalanced ==
    ASSUME NEW e \in Entry, TwoSided(e), e.kind = "CORRECTION" => e.corrects # None
    PROVE  /\ AssertBalanced(e) = {}
           /\ SumFunction([p \in e.postings |-> p.raw]) = 0
<1>1. PICK p \in PostingSet, q \in PostingSet :
          /\ e.postings = {p, q} /\ p.account # q.account
          /\ p.raw + q.raw = 0 /\ p.shares + q.shares = 0
          /\ e.kind = "CORPORATE_ACTION_RESTATEMENT" => p.raw = 0 /\ q.raw = 0
    BY DEF TwoSided
<1>2. p # q /\ p.raw \in Int /\ q.raw \in Int /\ p.shares \in Int /\ q.shares \in Int
    BY <1>1 DEF PostingSet
<1> DEFINE raws == [x \in e.postings |-> x.raw]
           shares == [x \in e.postings |-> x.shares]
<1>3. /\ DOMAIN raws = {p, q} /\ DOMAIN shares = {p, q}
      /\ raws[p] = p.raw /\ raws[q] = q.raw /\ shares[p] = p.shares /\ shares[q] = q.shares
    BY <1>1
<1>4. SumFunction(raws) = 0
    <2> HIDE DEF raws
    <2>1. SumFunction(raws) = SumOver(raws, {p, q})
        BY <1>3, SumFunctionIsSum
    <2>2. SumOver(raws, {p, q}) = raws[p] + raws[q]
        BY <1>2, <1>3, SumOfPair
    <2> QED BY <1>1, <1>3, <2>1, <2>2
<1>5. SumFunction(shares) = 0
    <2> HIDE DEF shares
    <2>1. SumFunction(shares) = SumOver(shares, {p, q})
        BY <1>3, SumFunctionIsSum
    <2>2. SumOver(shares, {p, q}) = shares[p] + shares[q]
        BY <1>2, <1>3, SumOfPair
    <2> QED BY <1>1, <1>3, <2>1, <2>2
<1>6. Cardinality({x.account : x \in e.postings}) = Cardinality(e.postings)
    <2>1. {x.account : x \in e.postings} = {p.account, q.account}
        BY <1>1
    <2>2. Cardinality({p.account, q.account}) = 2 /\ Cardinality({p, q}) = 2
        BY <1>1, <1>2, CardinalityOfPair
    <2> QED BY <1>1, <2>1, <2>2
<1>7. e.postings # {}
    BY <1>1
<1>8. e.kind = "CORPORATE_ACTION_RESTATEMENT" => ~ \E x \in e.postings : x.raw # 0
    BY <1>1
<1> QED
    BY <1>4, <1>5, <1>6, <1>7, <1>8 DEF AssertBalanced

\* The two postings of a pair.
LEMMA PairIsTwoSided ==
    ASSUME NEW a \in Accounts, NEW b \in Accounts, a # b, NEW raw \in Int, NEW shares \in Int,
           NEW priced \in BOOLEAN
    PROVE  \E p, q \in PostingSet :
               /\ Pair(a, b, raw, shares, priced) = {p, q} /\ p.account # q.account
               /\ p.account = a /\ q.account = b
               /\ p.raw = -raw /\ q.raw = raw /\ p.shares = -shares /\ q.shares = shares
               /\ p.priced = priced /\ q.priced = priced
               /\ p = Posting(a, -raw, -shares, priced) /\ q = Posting(b, raw, shares, priced)
<1> DEFINE p == Posting(a, -raw, -shares, priced)
           q == Posting(b, raw, shares, priced)
<1>1. p \in PostingSet /\ q \in PostingSet
    <2>1. -raw \in Int /\ -shares \in Int
        OBVIOUS
    <2> QED BY <2>1, PostingTyped
<1>2. /\ p.account = a /\ q.account = b /\ p.raw = -raw /\ q.raw = raw
      /\ p.shares = -shares /\ q.shares = shares /\ p.priced = priced /\ q.priced = priced
    BY DEF Posting
<1>3. Pair(a, b, raw, shares, priced) = {p, q}
    BY DEF Pair
<1> HIDE DEF p, q
<1>4. p.account # q.account
    BY <1>2
<1> QED BY <1>1, <1>2, <1>3, <1>4 DEF p, q

\* The amounts that facts and multipliers post are integers.
LEMMA SharesTyped ==
    ASSUME ChainHolds
    PROVE  /\ \A n \in 1..Len(facts) : facts[n].kind = "movement" =>
                  /\ facts[n].from \in Accounts /\ facts[n].to \in Accounts
                  /\ facts[n].from # facts[n].to
                  /\ facts[n].amount \in 0..MaxRaw /\ facts[n].amount \in Nat
                  /\ Shares(facts[n].amount, MultIn(facts, n)) \in Nat
           /\ \A n \in 1..Len(facts), h \in Holders, m \in Multipliers :
                  Drift(facts, h, n, m) \in Int
<1>1. ASSUME NEW n \in 1..Len(facts), facts[n].kind = "movement"
      PROVE  /\ facts[n].from \in Accounts /\ facts[n].to \in Accounts
             /\ facts[n].from # facts[n].to
             /\ facts[n].amount \in 0..MaxRaw /\ facts[n].amount \in Nat
             /\ Shares(facts[n].amount, MultIn(facts, n)) \in Nat
    <2> DEFINE fact == facts[n]
               m == MultIn(facts, n)
    <2>1. fact \in Fact /\ fact.kind = "movement" /\ fact.from # fact.to /\ n \in 0..Len(facts)
        BY <1>1 DEF ChainHolds
    <2>2. fact.from \in Accounts /\ fact.to \in Accounts /\ fact.amount \in RawAmounts
        <3> HIDE DEF fact
        <3> QED BY <2>1, FactFields
    <2>3. \A k \in RawAmounts : k \in 0..MaxRaw /\ k \in Nat
        OBVIOUS
    <2>4. m \in 1..MaxRaw
        BY <2>1, MultiplierIsOne, MultIsAt
    <2> HIDE DEF fact, m
    <2>5. Shares(fact.amount, m) \in Nat
        BY <2>2, <2>3, <2>4, ConversionIsOk
    <2> QED BY <2>1, <2>2, <2>3, <2>5 DEF fact, m
<1>2. ASSUME NEW n \in 1..Len(facts), NEW h \in Holders, NEW m \in Multipliers
      PROVE  Drift(facts, h, n, m) \in Int
    <2> DEFINE k == n - 1
    <2>1. n \in 0..Len(facts) /\ k \in 0..Len(facts) /\ m \in 1..MaxRaw
        <3>1. Len(facts) \in Nat
            BY DEF ChainHolds
        <3>2. \A x \in Multipliers : x \in 1..MaxRaw
            OBVIOUS
        <3>3. m \in 1..MaxRaw
            BY <3>2
        <3> QED BY <3>1, <3>3
    <2> HIDE DEF k
    <2>2. MultIn(facts, k) \in 1..MaxRaw
        BY <2>1, MultiplierIsOne, MultIsAt
    <2>3. Shares(RawIn(facts, h, n), m) \in Nat
        BY <2>1, HeldConverts
    <2>4. Shares(RawIn(facts, h, n), MultIn(facts, k)) \in Nat
        BY <2>1, <2>2, HeldConverts
    <2>5. Drift(facts, h, n, m) = Shares(RawIn(facts, h, n), m) - Shares(RawIn(facts, h, n), MultIn(facts, k))
        BY DEF Drift, k
    <2> QED BY <2>3, <2>4, <2>5
<1> QED BY <1>1, <1>2

\* Whatever is posted first has two opposite postings,
LEMMA OriginalsAreTwoSided ==
    ASSUME LedgerHolds, NEW e,
           IsMovement(facts, e) \/ IsRestatement(facts, e) \/ IsMistake(facts, e) \/ IsPhantom(e)
    PROVE  TwoSided(e) /\ e.kind # "CORRECTION"
<1>0. ChainHolds /\ Issuance \in Accounts /\ \A h \in Holders : h \in Accounts /\ h # Issuance
    BY DEF LedgerHolds, Accounts
<1>1. ASSUME NEW a \in Accounts, NEW b \in Accounts, a # b, NEW raw \in Int, NEW shares \in Int,
             NEW priced \in BOOLEAN, e.postings = Pair(a, b, raw, shares, priced),
             e.kind = "CORPORATE_ACTION_RESTATEMENT" => raw = 0
      PROVE  TwoSided(e)
    <2>1. PICK p \in PostingSet, q \in PostingSet :
               /\ e.postings = {p, q} /\ p.account # q.account
               /\ p.raw = -raw /\ q.raw = raw /\ p.shares = -shares /\ q.shares = shares
        BY <1>1, PairIsTwoSided
    <2>2. p.raw + q.raw = 0 /\ p.shares + q.shares = 0
        BY <2>1
    <2>3. raw = 0 => -raw = 0
        <3>1. ASSUME raw = 0 PROVE -raw = 0
            <4>1. -raw \in Int /\ -raw + 0 = 0
                BY <3>1
            <4> QED BY <4>1
        <3> QED BY <3>1
    <2> QED BY <1>1, <2>1, <2>2, <2>3 DEF TwoSided
<1>2. CASE IsMovement(facts, e)
    <2>1. PICK n \in 1..Len(facts), priced \in BOOLEAN :
            /\ facts[n].kind = "movement"
            /\ e.kind \in {"RECEIVE", "SEND", "INTERNAL_TRANSFER"}
            /\ e.postings = Pair(facts[n].from, facts[n].to, facts[n].amount,
                                 Shares(facts[n].amount, MultIn(facts, n)), priced)
        BY <1>2 DEF IsMovement
    <2> DEFINE a == facts[n].from
               b == facts[n].to
               k == facts[n].amount
               s == Shares(k, MultIn(facts, n))
    <2>2. a \in Accounts /\ b \in Accounts /\ a # b /\ k \in Int /\ s \in Int
        BY <1>0, <2>1, SharesTyped
    <2>3. e.postings = Pair(a, b, k, s, priced)
        BY <2>1
    <2> HIDE DEF a, b, k, s
    <2> QED BY <1>1, <2>1, <2>2, <2>3
<1>3. CASE IsRestatement(facts, e) \/ IsMistake(facts, e)
    <2>1. PICK n \in 1..Len(facts), h \in Holders :
            /\ e.kind = "CORPORATE_ACTION_RESTATEMENT"
            /\ e.multiplier \in Multipliers
            /\ e.postings = Pair(Issuance, h, 0, Drift(facts, h, n, e.multiplier), FALSE)
        <3>1. CASE IsRestatement(facts, e)
            <4>1. PICK n \in 1..Len(facts), h \in Holders :
                    /\ facts[n].kind = "activation"
                    /\ e.kind = "CORPORATE_ACTION_RESTATEMENT"
                    /\ e.multiplier = facts[n].multiplier
                    /\ e.postings = Pair(Issuance, h, 0, Drift(facts, h, n, e.multiplier), FALSE)
                BY <3>1 DEF IsRestatement
            <4>2. facts[n] \in Fact
                BY <1>0 DEF ChainHolds
            <4>3. e.multiplier \in Multipliers
                BY <4>1, <4>2, FactFields
            <4> QED BY <4>1, <4>3
        <3>2. CASE IsMistake(facts, e)
            BY <3>2 DEF IsMistake
        <3> QED BY <1>3, <3>1, <3>2
    <2> DEFINE d == Drift(facts, h, n, e.multiplier)
    <2>2. d \in Int /\ 0 \in Int /\ FALSE \in BOOLEAN
        <3> DEFINE m == e.multiplier
        <3>1. m \in Multipliers
            BY <2>1
        <3> HIDE DEF m
        <3>2. Drift(facts, h, n, m) \in Int
            BY <1>0, <3>1, SharesTyped
        <3> QED BY <3>2 DEF m
    <2>3. e.postings = Pair(Issuance, h, 0, d, FALSE)
        BY <2>1
    <2> HIDE DEF d
    <2> QED BY <1>0, <1>1, <2>1, <2>2, <2>3
<1>4. CASE IsPhantom(e)
    <2>1. PICK h \in Holders, amount \in RawAmounts :
            e.kind = "RECEIVE" /\ e.postings = Pair(Issuance, h, amount, amount, FALSE)
        BY <1>4 DEF IsPhantom
    <2>2. amount \in Int /\ FALSE \in BOOLEAN
        OBVIOUS
    <2> QED BY <1>0, <1>1, <2>1, <2>2
<1>5. e.kind # "CORRECTION"
    BY <1>2, <1>3, <1>4 DEF IsMovement, IsRestatement, IsMistake, IsPhantom
<1> QED BY <1>2, <1>3, <1>4, <1>5

\* and so has what corrects it.
LEMMA EntriesAreTwoSided ==
    ASSUME LedgerHolds, NEW i \in 1..Len(inbox)
    PROVE  TwoSided(inbox[i]) /\ (inbox[i].kind = "CORRECTION" => inbox[i].corrects # None)
<1>1. inbox[i] \in Entry /\ inbox[i].id \in Nat /\ Known(facts, inbox, i)
    BY InboxTyped
<1>2. CASE \/ IsMovement(facts, inbox[i]) \/ IsRestatement(facts, inbox[i])
           \/ IsMistake(facts, inbox[i]) \/ IsPhantom(inbox[i])
    BY <1>2, OriginalsAreTwoSided
<1>3. CASE \E c \in 1..i - 1 : Corrects(inbox[i], inbox[c])
    <2>1. PICK c \in 1..i - 1 : Corrects(inbox[i], inbox[c])
        BY <1>3
    <2>2. c \in 1..Len(inbox)
        OBVIOUS
    <2>3. inbox[c] \in Entry /\ inbox[c].id \in Nat /\ Known(facts, inbox, c)
        BY <2>2, InboxTyped
    <2>4. /\ inbox[i].kind = "CORRECTION" /\ inbox[c].kind # "CORRECTION"
          /\ inbox[i].corrects = inbox[c].id
          /\ inbox[i].postings = {Opposite(p) : p \in inbox[c].postings}
        BY <1>1, <2>1, <2>3, CorrectionTakesBack
    <2>5. TwoSided(inbox[c])
        <3>1. \A b \in 1..c - 1 : ~Corrects(inbox[c], inbox[b])
            <4> SUFFICES ASSUME NEW b \in 1..c - 1, Corrects(inbox[c], inbox[b]) PROVE FALSE
                OBVIOUS
            <4>1. b \in 1..Len(inbox)
                OBVIOUS
            <4>2. inbox[b] \in Entry
                BY <4>1, InboxTyped
            <4> QED BY <2>3, <2>4, <4>2, CorrectionTakesBack
        <3> QED BY <2>3, <3>1, OriginalsAreTwoSided DEF Known
    <2>6. PICK p \in PostingSet, q \in PostingSet :
            /\ inbox[c].postings = {p, q} /\ p.account # q.account
            /\ p.raw + q.raw = 0 /\ p.shares + q.shares = 0
        BY <2>5 DEF TwoSided
    <2> DEFINE op == Opposite(p)
               oq == Opposite(q)
    <2>7. /\ op \in PostingSet /\ oq \in PostingSet
          /\ op.account = p.account /\ oq.account = q.account
          /\ op.raw = -p.raw /\ oq.raw = -q.raw /\ op.shares = -p.shares /\ oq.shares = -q.shares
        BY OppositeTyped
    <2>8. inbox[i].postings = {op, oq}
        BY <2>4, <2>6
    <2>9. p.raw \in Int /\ q.raw \in Int /\ p.shares \in Int /\ q.shares \in Int
        BY DEF PostingSet
    <2> HIDE DEF op, oq
    <2>10. op.raw + oq.raw = 0 /\ op.shares + oq.shares = 0
        <3>1. -p.raw + -q.raw = 0
            BY <2>6, <2>9
        <3>2. -p.shares + -q.shares = 0
            BY <2>6, <2>9
        <3> QED
            BY <2>7, <3>1, <3>2
    <2>11. TwoSided(inbox[i])
        BY <2>4, <2>6, <2>7, <2>8, <2>10 DEF TwoSided
    <2> QED BY <2>3, <2>4, <2>11
<1> QED BY <1>1, <1>2, <1>3 DEF Known

\* Raw units are conserved by whatever has been delivered.
LEMMA Conserved ==
    ASSUME LedgerHolds
    PROVE  CheckConservation(DedupeEntries(inbox))
<1> DEFINE D == DedupeEntries(inbox)
           f == [e \in D |-> SumFunction([p \in e.postings |-> p.raw])]
<1>1. inbox \in Seq(Entry) /\ IsFiniteSet(D)
    BY KeptIsFinite DEF LedgerHolds, Deliveries
<1>2. ASSUME NEW e \in D
      PROVE  AssertBalanced(e) = {} /\ SumFunction([p \in e.postings |-> p.raw]) = 0
    <2>1. PICK i \in 1..Len(inbox) : e = inbox[i]
        BY <1>1, KeptIsFirst
    <2>2. e \in Entry /\ TwoSided(e) /\ (e.kind = "CORRECTION" => e.corrects # None)
        BY <2>1, InboxTyped, EntriesAreTwoSided
    <2> QED BY <2>2, TwoSidedIsBalanced
<1>3. \A e \in D : f[e] = 0
    BY <1>2
<1>4. SumFunction(f) = SumOver(f, D)
    <2>1. DOMAIN f = D
        OBVIOUS
    <2> HIDE DEF f, D
    <2> QED BY <2>1, SumFunctionIsSum
<1>5. SumOver(f, D) = 0
    <2> HIDE DEF f, D
    <2> DEFINE N == {}
    <2>1. (\A e \in D : f[e] \in Int) /\ N \in SUBSET D /\ \A e \in D \ N : f[e] = 0
        BY <1>3
    <2>2. SumOver(f, D) = SumOver(f, N)
        <3> HIDE DEF N
        <3> QED BY <1>1, <2>1, SumIgnoresZeros
    <2> QED BY <2>2, SumOfNothing
<1> QED
    BY <1>2, <1>4, <1>5 DEF CheckConservation

-----------------------------------------------------------------------------
\* What a holder's entries say.

Own(h, at) ==
    {e \in UpToTime(DedupeEntries(inbox), at) : \E p \in e.postings : p.account = h}

\* What a fact posts to a holder.
PostedRaw(h, n) == IF facts[n].kind = "movement" THEN Effect(facts[n], h) ELSE 0

PostedShares(h, n) ==
    IF facts[n].kind = "movement"
    THEN LET s == Shares(facts[n].amount, MultIn(facts, n))
         IN  (IF facts[n].to = h THEN s ELSE 0) - (IF facts[n].from = h THEN s ELSE 0)
    ELSE Drift(facts, h, n, MultIn(facts, n))

FactIdentity(h, n) ==
    IF facts[n].kind = "movement" THEN <<n, n, 0>>
    ELSE <<"CORPORATE_ACTION_RESTATEMENT", n, facts[n].multiplier, {Issuance, h}>>

\* An account's posting in an entry of two.
LEMMA PostingOfPair ==
    ASSUME NEW e, NEW p, NEW q, e.postings = {p, q}, p.account # q.account
    PROVE  PostingOf(e, p.account) = p /\ PostingOf(e, q.account) = q
BY DEF PostingOf

\* What a movement posts to one of its two accounts.
PostsMovement(e, h) ==
    LET p == PostingOf(e, h)
            n == e.block
        IN  /\ n \in 1..Len(facts) /\ facts[n].kind = "movement"
            /\ p \in PostingSet /\ p.raw = PostedRaw(h, n) /\ p.shares = PostedShares(h, n)
            /\ p.priced => p.value = p.raw * Total
            /\ MovementIdentity(e) = <<n, n, 0>>

\* A movement posts its amount and the amount's shares to a holder.
LEMMA MovementPosts ==
    ASSUME LedgerHolds, NEW h \in Holders, NEW e, e.log = 0, IsMovement(facts, e),
           \E p \in e.postings : p.account = h
    PROVE  PostsMovement(e, h)
<1>1. PICK n \in 1..Len(facts), priced \in BOOLEAN :
        /\ facts[n].kind = "movement" /\ e.block = n /\ e.tx = n
        /\ e.postings = Pair(facts[n].from, facts[n].to, facts[n].amount,
                             Shares(facts[n].amount, MultIn(facts, n)), priced)
    BY DEF IsMovement
<1> DEFINE a == facts[n].from
           b == facts[n].to
           k == facts[n].amount
           s == Shares(k, MultIn(facts, n))
<1>2. a \in Accounts /\ b \in Accounts /\ a # b /\ k \in Int /\ s \in Int
    BY <1>1, SharesTyped DEF LedgerHolds
<1>3. e.postings = Pair(a, b, k, s, priced)
    BY <1>1
<1>4. /\ PostedRaw(h, n) = (IF b = h THEN k ELSE 0) - (IF a = h THEN k ELSE 0)
      /\ PostedShares(h, n) = (IF b = h THEN s ELSE 0) - (IF a = h THEN s ELSE 0)
    BY <1>1 DEF PostedRaw, PostedShares, Effect
<1> HIDE DEF a, b, k, s
<1>5. PICK p \in PostingSet, q \in PostingSet :
          /\ e.postings = {p, q} /\ p.account # q.account /\ p.account = a /\ q.account = b
          /\ p.raw = -k /\ q.raw = k /\ p.shares = -s /\ q.shares = s
          /\ p = Posting(a, -k, -s, priced) /\ q = Posting(b, k, s, priced)
    BY <1>2, <1>3, PairIsTwoSided
<1>6. (p.priced => p.value = p.raw * Total) /\ (q.priced => q.value = q.raw * Total)
    BY <1>5 DEF Posting
<1>7. PostingOf(e, a) = p /\ PostingOf(e, b) = q
    BY <1>5, PostingOfPair
<1>8. h = a \/ h = b
    BY <1>5
<1>9. MovementIdentity(e) = <<n, n, 0>>
    <2>1. n # None
        OBVIOUS
    <2> QED BY <1>1, <2>1 DEF MovementIdentity
<1>10. CASE h = a
    <2>1. PostedRaw(h, n) = -k /\ PostedShares(h, n) = -s
        BY <1>2, <1>4, <1>10
    <2> QED BY <1>1, <1>5, <1>6, <1>7, <1>9, <1>10, <2>1 DEF PostsMovement
<1>11. CASE h = b
    <2>1. PostedRaw(h, n) = k /\ PostedShares(h, n) = s
        BY <1>2, <1>4, <1>11
    <2> QED BY <1>1, <1>5, <1>6, <1>7, <1>9, <1>11, <2>1 DEF PostsMovement
<1> QED BY <1>8, <1>10, <1>11

\* What a restatement posts to its holder, right or mistaken.
PostsRestatement(e, h) ==
    LET p == PostingOf(e, h)
            n == e.block
            m == e.multiplier
            issued == PostingOf(e, Issuance)
        IN  /\ n \in 1..Len(facts) /\ m \in Multipliers
            /\ p \in PostingSet /\ p.account = h /\ p.raw = 0 /\ p.priced = FALSE
            /\ p.shares = Drift(facts, h, n, m)
            /\ issued \in PostingSet /\ issued.account = Issuance
            /\ e.postings = {p, issued}
            /\ e.kind = "CORPORATE_ACTION_RESTATEMENT" /\ e.tx = None
            /\ MovementIdentity(e) = <<"CORPORATE_ACTION_RESTATEMENT", n, m, {Issuance, h}>>
            /\ IsRestatement(facts, e) => /\ facts[n].kind = "activation"
                                          /\ m = facts[n].multiplier
            /\ IsMistake(facts, e) => m # MultIn(facts, n)

\* A restatement posts to its holder the shares that its multiplier brings.
LEMMA RestatementPosts ==
    ASSUME LedgerHolds, NEW e, IsRestatement(facts, e) \/ IsMistake(facts, e),
           NEW h \in Holders, \E p \in e.postings : p.account = h
    PROVE  PostsRestatement(e, h)
<1>0. ChainHolds /\ Issuance \in Accounts /\ h \in Accounts /\ h # Issuance
    BY DEF LedgerHolds, Accounts
<1>1. PICK n \in 1..Len(facts), g \in Holders :
        /\ e.kind = "CORPORATE_ACTION_RESTATEMENT" /\ e.block = n /\ e.tx = None
        /\ e.multiplier \in Multipliers
        /\ e.postings = Pair(Issuance, g, 0, Drift(facts, g, n, e.multiplier), FALSE)
        /\ IsRestatement(facts, e) => /\ facts[n].kind = "activation"
                                      /\ e.multiplier = facts[n].multiplier
        /\ IsMistake(facts, e) => e.multiplier # MultIn(facts, n)
    <2>1. CASE IsRestatement(facts, e)
        <3>1. PICK n \in 1..Len(facts), g \in Holders :
                /\ facts[n].kind = "activation" /\ e.block = n /\ e.tx = None
                /\ e.kind = "CORPORATE_ACTION_RESTATEMENT"
                /\ e.multiplier = facts[n].multiplier
                /\ e.postings = Pair(Issuance, g, 0, Drift(facts, g, n, e.multiplier), FALSE)
            BY <2>1 DEF IsRestatement
        <3>2. facts[n] \in Fact
            BY <1>0 DEF ChainHolds
        <3>3. e.multiplier \in Multipliers
            BY <3>1, <3>2, FactFields
        <3>4. ~IsMistake(facts, e)
            BY <2>1 DEF IsRestatement, IsMistake
        <3> QED BY <3>1, <3>3, <3>4
    <2>2. CASE IsMistake(facts, e)
        <3>1. PICK n \in 1..Len(facts), g \in Holders :
                /\ e.kind = "CORPORATE_ACTION_RESTATEMENT" /\ e.block = n /\ e.tx = None
                /\ e.multiplier \in Multipliers \ {MultIn(facts, n)}
                /\ e.postings = Pair(Issuance, g, 0, Drift(facts, g, n, e.multiplier), FALSE)
            BY <2>2 DEF IsMistake
        <3>2. ~IsRestatement(facts, e)
            BY <2>2 DEF IsRestatement, IsMistake
        <3> QED BY <3>1, <3>2
    <2> QED BY <2>1, <2>2
<1> DEFINE m == e.multiplier
           d == Drift(facts, g, n, m)
<1>2. m \in Multipliers /\ e.postings = Pair(Issuance, g, 0, d, FALSE)
    BY <1>1
<1>3. d \in Int /\ 0 \in Int /\ FALSE \in BOOLEAN
    <2> HIDE DEF m
    <2> QED BY <1>0, <1>2, SharesTyped
<1>4. g \in Accounts /\ g # Issuance
    BY DEF Accounts
<1> HIDE DEF d
<1> DEFINE z == 0
           f == FALSE
<1>49. z \in Int /\ f \in BOOLEAN /\ e.postings = Pair(Issuance, g, z, d, f)
    BY <1>2, <1>3
<1> HIDE DEF z, f
<1>50. PICK p \in PostingSet, q \in PostingSet :
          /\ Pair(Issuance, g, z, d, f) = {p, q} /\ p.account # q.account
          /\ p.account = Issuance /\ q.account = g
          /\ q.raw = z /\ q.shares = d /\ q.priced = f
    BY <1>0, <1>3, <1>4, <1>49, PairIsTwoSided
<1>5. /\ e.postings = {p, q} /\ p.account # q.account /\ p.account = Issuance /\ q.account = g
      /\ q.raw = 0 /\ q.shares = d /\ q.priced = FALSE
    BY <1>49, <1>50 DEF z, f
<1>6. g = h
    BY <1>0, <1>5
<1>7. PostingOf(e, Issuance) = p /\ PostingOf(e, h) = q
    BY <1>5, <1>6, PostingOfPair
<1>8. {x.account : x \in e.postings} = {Issuance, h}
    BY <1>5, <1>6
<1>9. MovementIdentity(e) = <<"CORPORATE_ACTION_RESTATEMENT", n, m, {Issuance, h}>>
    BY <1>1, <1>8 DEF MovementIdentity
<1>10. d = Drift(facts, h, n, m)
    BY <1>6 DEF d
<1> QED BY <1>1, <1>5, <1>6, <1>7, <1>9, <1>10 DEF PostsRestatement

\* The multiplier at an activation is the activation's.
LEMMA ActivationSetsMultiplier ==
    ASSUME NEW n \in Nat, n # 0, facts[n].kind = "activation"
    PROVE  MultIn(facts, n) = facts[n].multiplier
<1> DEFINE k == n - 1
<1>1. k \in Nat /\ k + 1 = n
    OBVIOUS
<1> HIDE DEF k
<1>2. MultIn(facts, k + 1) = IF facts[k + 1].kind = "activation" THEN facts[k + 1].multiplier
                             ELSE MultIn(facts, k)
    BY <1>1, MultStep
<1> QED BY <1>1, <1>2

\* A correction posts the opposite of what it takes back.
PostsCorrection(e, original, h) ==
    LET p == PostingOf(e, h)
    IN  /\ \E q \in original.postings : q.account = h
        /\ p \in PostingSet /\ p.raw = 0 /\ p.priced = FALSE
        /\ p.shares = -Drift(facts, h, e.block, e.multiplier)
        /\ Drift(facts, h, e.block, e.multiplier) \in Int
        /\ e.kind = "CORRECTION" /\ e.tx = None /\ e.block = original.block
        /\ e.multiplier = original.multiplier
        /\ MovementIdentity(e) = <<"CORRECTION", e.block, e.multiplier, {Issuance, h}>>

\* A correction of a mistake takes back the mistake's shares.
LEMMA CorrectionPosts ==
    ASSUME LedgerHolds, NEW original \in Entry, IsMistake(facts, original),
           NEW e, e.id \in Nat, Corrects(e, original),
           NEW h \in Holders, \E p \in e.postings : p.account = h
    PROVE  PostsCorrection(e, original, h)
<1>1. /\ e.kind = "CORRECTION" /\ e.block = original.block /\ e.tx = original.tx
      /\ e.multiplier = original.multiplier
      /\ e.postings = {Opposite(p) : p \in original.postings}
    BY CorrectionTakesBack
<1>2. original.postings \in SUBSET PostingSet
    BY DEF Entry
<1>3. PICK q0 \in original.postings : q0.account = h
    <2>1. PICK q0 \in original.postings : Opposite(q0).account = h
        BY <1>1
    <2> QED BY <1>2, <2>1, OppositeTyped
<1> DEFINE q == PostingOf(original, h)
           i == PostingOf(original, Issuance)
<1>4. /\ original.block \in 1..Len(facts) /\ original.multiplier \in Multipliers
      /\ q \in PostingSet /\ q.account = h /\ q.raw = 0 /\ q.priced = FALSE
      /\ q.shares = Drift(facts, h, original.block, original.multiplier)
      /\ i \in PostingSet /\ i.account = Issuance
      /\ original.postings = {q, i} /\ original.tx = None
    <2>1. \E p \in original.postings : p.account = h
        BY <1>3
    <2>2. PostsRestatement(original, h)
        BY <2>1, RestatementPosts
    <2> QED BY <2>2 DEF PostsRestatement
<1> HIDE DEF q, i
<1> DEFINE oq == Opposite(q)
           oi == Opposite(i)
<1>5. /\ oq \in PostingSet /\ oq.account = h /\ oq.raw = -q.raw /\ oq.shares = -q.shares
      /\ oq.priced = q.priced /\ oi \in PostingSet /\ oi.account = Issuance
    BY <1>4, OppositeTyped
<1>6. e.postings = {oq, oi}
    BY <1>1, <1>4
<1> HIDE DEF oq, oi
<1>7. h # Issuance
    OBVIOUS
<1>8. PostingOf(e, h) = oq
    BY <1>5, <1>6, <1>7, PostingOfPair
<1>9. {p.account : p \in e.postings} = {Issuance, h}
    BY <1>5, <1>6
<1>10. MovementIdentity(e) = <<"CORRECTION", e.block, e.multiplier, {Issuance, h}>>
    BY <1>1, <1>4, <1>9 DEF MovementIdentity
<1>11. oq.raw = 0
    BY <1>4, <1>5, Negated
<1>12. q.shares \in Int
    BY <1>4 DEF PostingSet
<1> QED BY <1>1, <1>3, <1>4, <1>5, <1>8, <1>10, <1>11, <1>12 DEF PostsCorrection

\* An identity without a transaction tells what it restates.
LEMMA IdentityTells ==
    ASSUME NEW e, NEW f, MovementIdentity(e) = MovementIdentity(f)
    PROVE  /\ e.tx # None => f.tx # None /\ e.tx = f.tx /\ e.block = f.block
           /\ e.tx = None => /\ f.tx = None /\ e.kind = f.kind /\ e.block = f.block
                             /\ e.multiplier = f.multiplier
                             /\ {p.account : p \in e.postings} = {p.account : p \in f.postings}
<1>1. \A a, b, c, x, y, z, w : <<a, b, c>> # <<x, y, z, w>>
    <2> SUFFICES ASSUME NEW a, NEW b, NEW c, NEW x, NEW y, NEW z, NEW w,
                        <<a, b, c>> = <<x, y, z, w>>
                 PROVE  FALSE
        OBVIOUS
    <2>1. Len(<<a, b, c>>) = 3 /\ Len(<<x, y, z, w>>) = 4
        OBVIOUS
    <2> QED BY <2>1
<1> QED BY <1>1 DEF MovementIdentity

-----------------------------------------------------------------------------
\* What a holder's entries are.

Touches(n, h) == facts[n].kind = "movement" => h \in {facts[n].from, facts[n].to}

\* The posting of a fact.
PostsFact(e, h) ==
    LET p == PostingOf(e, h)
    IN  /\ e.block \in 1..Len(facts) /\ Touches(e.block, h)
        /\ p \in PostingSet /\ p.raw = PostedRaw(h, e.block) /\ p.shares = PostedShares(h, e.block)
        /\ p.priced => p.value = p.raw * Total
        /\ MovementIdentity(e) = FactIdentity(h, e.block)

\* A movement's accounts are its fact's.
LEMMA MovementTouches ==
    ASSUME NEW e, IsMovement(facts, e)
    PROVE  /\ e.block \in 1..Len(facts) /\ facts[e.block].kind = "movement" /\ e.tx = e.block
           /\ {p.account : p \in e.postings} = {facts[e.block].from, facts[e.block].to}
<1>1. PICK n \in 1..Len(facts), priced \in BOOLEAN :
        /\ facts[n].kind = "movement" /\ e.block = n /\ e.tx = n
        /\ e.postings = Pair(facts[n].from, facts[n].to, facts[n].amount,
                             Shares(facts[n].amount, MultIn(facts, n)), priced)
    BY DEF IsMovement
<1> DEFINE a == facts[n].from
           b == facts[n].to
           k == facts[n].amount
           s == Shares(k, MultIn(facts, n))
           ps == e.postings
<1>2. ps = Pair(a, b, k, s, priced)
    BY <1>1
<1> HIDE DEF a, b, k, s, ps
<1>3. {p.account : p \in ps} = {a, b}
    BY <1>2, AccountsOfPair
<1>4. e.postings = ps /\ a = facts[n].from /\ b = facts[n].to
    BY DEF a, b, ps
<1>5. n \in 1..Len(facts) /\ facts[n].kind = "movement" /\ e.block = n /\ e.tx = n
    BY <1>1
<1> QED BY <1>3, <1>4, <1>5

\* An entry about a fact posts what the fact does.
LEMMA FactIsPosted ==
    ASSUME LedgerHolds, NEW h \in Holders, NEW e \in Entry,
           IsMovement(facts, e) \/ IsRestatement(facts, e), \E p \in e.postings : p.account = h
    PROVE  PostsFact(e, h)
<1>0. e.log = 0
    BY DEF Entry
<1>1. CASE IsMovement(facts, e)
    <2>1. PostsMovement(e, h)
        BY <1>0, <1>1, MovementPosts
    <2>2. Touches(e.block, h)
        BY <1>1, MovementTouches DEF Touches
    <2> QED BY <2>1, <2>2 DEF PostsMovement, PostsFact, FactIdentity
<1>2. CASE IsRestatement(facts, e)
    <2>1. PostsRestatement(e, h)
        BY <1>2, RestatementPosts
    <2> DEFINE n == e.block
               p == PostingOf(e, h)
    <2>2. /\ n \in 1..Len(facts) /\ facts[n].kind = "activation"
          /\ e.multiplier = facts[n].multiplier
          /\ p \in PostingSet /\ p.raw = 0 /\ p.priced = FALSE
          /\ p.shares = Drift(facts, h, n, e.multiplier)
          /\ MovementIdentity(e) = <<"CORPORATE_ACTION_RESTATEMENT", n, e.multiplier, {Issuance, h}>>
        BY <1>2, <2>1 DEF PostsRestatement
    <2>3. MultIn(facts, n) = facts[n].multiplier
        <3> HIDE DEF n
        <3>1. n \in Nat /\ n # 0
            BY <2>2
        <3> QED BY <2>2, <3>1, ActivationSetsMultiplier
    <2>4. facts[n].kind # "movement"
        BY <2>2
    <2>5. Touches(n, h)
        BY <2>4 DEF Touches
    <2>6. p.shares = PostedShares(h, n) /\ p.raw = PostedRaw(h, n)
        BY <2>2, <2>3, <2>4 DEF PostedShares, PostedRaw
    <2>7. MovementIdentity(e) = FactIdentity(h, n)
        BY <2>2, <2>4 DEF FactIdentity
    <2> QED BY <2>2, <2>5, <2>6, <2>7 DEF PostsFact
<1> QED BY <1>1, <1>2

\* A conflict that claims no transaction is a mistaken restatement or takes one back.
LEMMA ConflictIs ==
    ASSUME LedgerHolds, NEW i \in 1..Len(inbox),
           inbox[i].classification = "CONFLICT", inbox[i].tx = None
    PROVE  IF inbox[i].kind = "CORRECTION"
           THEN \E c \in 1..Len(inbox) :
                    Corrects(inbox[i], inbox[c]) /\ IsMistake(facts, inbox[c])
           ELSE IsMistake(facts, inbox[i])
<1>0. None # 0
    OBVIOUS
<1>1. ASSUME NEW c \in 1..Len(inbox), inbox[c].classification = "CONFLICT",
             inbox[c].kind # "CORRECTION", inbox[c].tx = None
      PROVE  IsMistake(facts, inbox[c])
    <2>1. Known(facts, inbox, c)
        BY DEF LedgerHolds, Deliveries
    <2>2. ~IsMovement(facts, inbox[c]) /\ ~IsRestatement(facts, inbox[c])
        BY <1>1 DEF IsMovement, IsRestatement
    <2>3. ~ \E b \in 1..c - 1 : Corrects(inbox[c], inbox[b])
        <3> SUFFICES ASSUME NEW b \in 1..c - 1, Corrects(inbox[c], inbox[b]) PROVE FALSE
            OBVIOUS
        <3>1. b \in 1..Len(inbox)
            OBVIOUS
        <3>2. inbox[b] \in Entry /\ inbox[c].id \in Nat
            BY <3>1, InboxTyped
        <3> QED BY <1>1, <3>2, CorrectionTakesBack
    <2>4. ~IsPhantom(inbox[c])
        BY <1>0, <1>1 DEF IsPhantom
    <2> QED BY <2>1, <2>2, <2>3, <2>4 DEF Known
<1>2. CASE inbox[i].kind # "CORRECTION"
    BY <1>1, <1>2
<1>3. CASE inbox[i].kind = "CORRECTION"
    <2>1. Known(facts, inbox, i)
        BY DEF LedgerHolds, Deliveries
    <2>2. PICK c \in 1..i - 1 : Corrects(inbox[i], inbox[c])
        BY <1>3, <2>1 DEF Known, IsMovement, IsRestatement, IsMistake, IsPhantom
    <2>3. c \in 1..Len(inbox)
        OBVIOUS
    <2>4. inbox[c] \in Entry /\ inbox[i].id \in Nat
        BY <2>3, InboxTyped
    <2>5. inbox[i].tx = inbox[c].tx /\ inbox[c].classification = "CONFLICT"
          /\ inbox[c].kind # "CORRECTION"
        BY <2>2, <2>4, CorrectionTakesBack
    <2> QED BY <1>1, <1>3, <2>2, <2>3, <2>5
<1> QED BY <1>2, <1>3

Verified(h, at) == {e \in Own(h, at) : e.classification = "VERIFIED"}
Mistaken(h, at) ==
    {e \in Own(h, at) : e.classification = "CONFLICT" /\ e.kind # "CORRECTION"}
Corrections(h, at) ==
    {e \in Own(h, at) : e.classification = "CONFLICT" /\ e.kind = "CORRECTION"}

\* A holder's entries have been delivered, and kept.
LEMMA OwnIsDelivered ==
    ASSUME LedgerHolds, NEW h, NEW at, NEW e \in Own(h, at)
    PROVE  /\ e \in Entry /\ e.id \in Nat /\ e.block <= at
           /\ e.classification \in {"VERIFIED", "CONFLICT"}
           /\ e \in DedupeEntries(inbox) /\ \E p \in e.postings : p.account = h
           /\ \E i \in 1..Len(inbox) : e = inbox[i]
<1>1. e \in DedupeEntries(inbox) /\ e.block <= at /\ \E p \in e.postings : p.account = h
    BY DEF Own, UpToTime
<1>2. inbox \in Seq(Entry)
    BY DEF LedgerHolds, Deliveries
<1>3. PICK i \in 1..Len(inbox) : e = inbox[i]
    BY <1>1, <1>2, KeptIsFirst
<1> QED BY <1>1, <1>3, InboxTyped

\* The entries of a settled time are facts, mistakes and what takes them back.
LEMMA OwnIs ==
    ASSUME LedgerHolds, NEW at \in 0..Len(facts), Settled(at), NEW h \in Holders,
           NEW e \in Own(h, at)
    PROVE  /\ e.classification = "VERIFIED" => PostsFact(e, h)
           /\ e.classification = "CONFLICT" => e.tx = None
           /\ e.classification = "CONFLICT" /\ e.kind # "CORRECTION" =>
                  IsMistake(facts, e) /\ PostsRestatement(e, h)
           /\ e.classification = "CONFLICT" /\ e.kind = "CORRECTION" =>
                  \E c \in 1..Len(inbox) : /\ IsMistake(facts, inbox[c])
                                           /\ PostsCorrection(e, inbox[c], h)
<1>1. /\ e \in Entry /\ e.id \in Nat /\ \E p \in e.postings : p.account = h
    BY OwnIsDelivered
<1>2. PICK i \in 1..Len(inbox) : e = inbox[i]
    BY OwnIsDelivered
<1>3. CASE e.classification = "VERIFIED"
    <2>1. IsMovement(facts, e) \/ IsRestatement(facts, e)
        BY <1>2, <1>3, VerifiedIsFact
    <2> QED BY <1>1, <1>3, <2>1, FactIsPosted
<1>4. ASSUME e.classification = "CONFLICT" PROVE e.tx = None
    <2>1. i \in Mistakes
        <3>1. DOMAIN inbox = 1..Len(inbox)
            BY DEF LedgerHolds, Deliveries
        <3> QED BY <1>2, <1>4, <3>1 DEF Mistakes
    <2> QED BY <1>2, <2>1 DEF Settled
<1>5. CASE e.classification = "CONFLICT" /\ e.kind # "CORRECTION"
    <2>1. IsMistake(facts, e)
        BY <1>2, <1>4, <1>5, ConflictIs
    <2>2. PostsRestatement(e, h)
        BY <1>1, <2>1, RestatementPosts
    <2> QED BY <1>4, <1>5, <2>1, <2>2
<1>6. CASE e.classification = "CONFLICT" /\ e.kind = "CORRECTION"
    <2>1. PICK c \in 1..Len(inbox) : Corrects(e, inbox[c]) /\ IsMistake(facts, inbox[c])
        BY <1>2, <1>4, <1>6, ConflictIs
    <2>2. inbox[c] \in Entry
        BY InboxTyped
    <2>3. PostsCorrection(e, inbox[c], h)
        BY <1>1, <2>1, <2>2, CorrectionPosts
    <2> QED BY <1>4, <1>6, <2>1, <2>3
<1> QED BY <1>3, <1>5, <1>6

-----------------------------------------------------------------------------
\* What is kept of a settled time.

\* Of an identity that was delivered one entry is kept.
LEMMA KeptOf ==
    ASSUME LedgerHolds, NEW i \in 1..Len(inbox)
    PROVE  \E j \in 1..Len(inbox) : /\ inbox[j] \in DedupeEntries(inbox)
                                    /\ MovementIdentity(inbox[j]) = MovementIdentity(inbox[i])
<1>1. inbox \in Seq(Entry)
    BY DEF LedgerHolds, Deliveries
<1>2. PICK e \in DedupeEntries(inbox) : MovementIdentity(e) = MovementIdentity(inbox[i])
    BY <1>1, OneIsKept
<1>3. PICK j \in 1..Len(inbox) : e = inbox[j]
    BY <1>1, KeptIsFirst
<1> QED BY <1>2, <1>3

\* Entries with the same accounts post to the same holders.
LEMMA HasAccount ==
    ASSUME NEW e, NEW f, NEW h,
           {p.account : p \in e.postings} = {p.account : p \in f.postings},
           \E p \in e.postings : p.account = h
    PROVE  \E p \in f.postings : p.account = h
<1>1. h \in {p.account : p \in e.postings}
    OBVIOUS
<1>2. h \in {p.account : p \in f.postings}
    BY <1>1
<1> QED BY <1>2

Touching(h, at) == {n \in 1..at : Touches(n, h)}

\* Of every fact about the holder exactly one entry is kept.
LEMMA FactsAreKept ==
    ASSUME LedgerHolds, NEW at \in 0..Len(facts), Settled(at), NEW h \in Holders
    PROVE  /\ {e.block : e \in Verified(h, at)} = Touching(h, at)
           /\ \A e, f \in Verified(h, at) : e.block = f.block => e = f
<1>0. /\ inbox \in Seq(Entry) /\ DOMAIN inbox = 1..Len(inbox) /\ Len(facts) \in Nat
      /\ ChainHolds
    BY DEF LedgerHolds, Deliveries, ChainHolds
<1>1. ASSUME NEW e \in Verified(h, at)
      PROVE  e \in Own(h, at) /\ PostsFact(e, h)
    <2>1. e \in Own(h, at) /\ e.classification = "VERIFIED"
        BY DEF Verified
    <2> QED BY <2>1, OwnIs
<1>2. ASSUME NEW e \in Verified(h, at), NEW f \in Verified(h, at), e.block = f.block
      PROVE  e = f
    <2>1. MovementIdentity(e) = MovementIdentity(f)
        BY <1>1, <1>2 DEF PostsFact
    <2>2. e \in DedupeEntries(inbox) /\ f \in DedupeEntries(inbox)
        BY <1>1, OwnIsDelivered
    <2> QED BY <1>0, <2>1, <2>2, OnlyOneIsKept
<1>3. ASSUME NEW e \in Verified(h, at) PROVE e.block \in Touching(h, at)
    <2>1. e.block \in 1..Len(facts) /\ Touches(e.block, h)
        BY <1>1 DEF PostsFact
    <2>2. e.block <= at
        BY <1>1, OwnIsDelivered
    <2> QED BY <1>0, <2>1, <2>2 DEF Touching
<1>4. ASSUME NEW n \in Touching(h, at) PROVE \E e \in Verified(h, at) : e.block = n
    <2>1. n \in 1..at /\ Touches(n, h) /\ n \in 1..Len(facts) /\ n # None /\ n # 0 /\ n <= at
        BY <1>0 DEF Touching
    <2>2. Delivered(n)
        BY <2>1 DEF Settled
    <2>3. ASSUME NEW j \in 1..Len(inbox), inbox[j] \in DedupeEntries(inbox),
                 inbox[j].classification = "VERIFIED", inbox[j].block = n,
                 \E p \in inbox[j].postings : p.account = h
          PROVE  \E e \in Verified(h, at) : e.block = n
        <3>1. inbox[j] \in Own(h, at)
            BY <2>1, <2>3 DEF Own, UpToTime
        <3> QED BY <2>3, <3>1 DEF Verified
    <2>4. CASE facts[n].kind = "movement"
        <3>1. PICK i \in 1..Len(inbox) : inbox[i].tx = n
            BY <1>0, <2>2, <2>4 DEF Delivered
        <3>2. PICK j \in 1..Len(inbox) :
                /\ inbox[j] \in DedupeEntries(inbox)
                /\ MovementIdentity(inbox[j]) = MovementIdentity(inbox[i])
            BY KeptOf
        <3>3. inbox[j].tx = n
            BY <2>1, <3>1, <3>2, IdentityTells
        <3>4. inbox[j].classification = "VERIFIED"
            BY <2>1, <3>3, InboxTyped, ConflictsMoveNothing
        <3>5. IsMovement(facts, inbox[j])
            BY <2>1, <3>3, <3>4, VerifiedIsFact DEF IsRestatement
        <3>6. inbox[j].block = n /\ {p.account : p \in inbox[j].postings} = {facts[n].from, facts[n].to}
            BY <3>3, <3>5, MovementTouches
        <3>7. h \in {p.account : p \in inbox[j].postings}
            BY <2>1, <2>4, <3>6 DEF Touches
        <3>8. \E p \in inbox[j].postings : p.account = h
            BY <3>7
        <3> QED BY <2>3, <3>2, <3>4, <3>6, <3>8
    <2>5. CASE facts[n].kind # "movement"
        <3>1. PICK i \in 1..Len(inbox) :
                /\ inbox[i].kind = "CORPORATE_ACTION_RESTATEMENT" /\ inbox[i].block = n
                /\ inbox[i].classification = "VERIFIED"
                /\ \E p \in inbox[i].postings : p.account = h
            BY <1>0, <2>2, <2>5 DEF Delivered
        <3>2. IsRestatement(facts, inbox[i])
            BY <3>1, VerifiedIsFact DEF IsMovement
        <3>3. inbox[i].tx = None /\ inbox[i].multiplier = facts[n].multiplier
              /\ facts[n].kind = "activation"
            BY <3>1, <3>2 DEF IsRestatement
        <3>4. PICK j \in 1..Len(inbox) :
                /\ inbox[j] \in DedupeEntries(inbox)
                /\ MovementIdentity(inbox[j]) = MovementIdentity(inbox[i])
            BY KeptOf
        <3>5. /\ inbox[j].tx = None /\ inbox[j].kind = "CORPORATE_ACTION_RESTATEMENT"
              /\ inbox[j].block = n /\ inbox[j].multiplier = facts[n].multiplier
              /\ {p.account : p \in inbox[j].postings} = {p.account : p \in inbox[i].postings}
            BY <3>1, <3>3, <3>4, IdentityTells
        <3>6. inbox[j].classification = "VERIFIED"
            <4> SUFFICES ASSUME inbox[j].classification # "VERIFIED" PROVE FALSE
                OBVIOUS
            <4>1. inbox[j].classification = "CONFLICT"
                BY InboxTyped
            <4>2. IsMistake(facts, inbox[j])
                BY <3>5, <4>1, ConflictIs
            <4>3. inbox[j].multiplier # MultIn(facts, n)
                BY <3>5, <4>2 DEF IsMistake
            <4>4. n \in Nat /\ n # 0
                BY <2>1
            <4>5. MultIn(facts, n) = facts[n].multiplier
                BY <3>3, <4>4, ActivationSetsMultiplier
            <4> QED BY <3>5, <4>3, <4>5
        <3>7. \E p \in inbox[j].postings : p.account = h
            <4>1. \E p \in inbox[i].postings : p.account = h
                BY <3>1
            <4>2. {p.account : p \in inbox[i].postings} = {p.account : p \in inbox[j].postings}
                BY <3>5
            <4> QED BY <4>1, <4>2, HasAccount
        <3> QED BY <2>3, <3>4, <3>5, <3>6, <3>7
    <2> QED BY <2>4, <2>5
<1>5. {e.block : e \in Verified(h, at)} = Touching(h, at)
    BY <1>3, <1>4
<1> QED BY <1>2, <1>5

Key(e) == <<e.block, e.multiplier>>

\* Of every mistake about the holder exactly one entry is kept, and exactly one that takes
\* it back.
LEMMA MistakesAreTakenBack ==
    ASSUME LedgerHolds, NEW at \in 0..Len(facts), Settled(at), NEW h \in Holders
    PROVE  /\ {Key(e) : e \in Mistaken(h, at)} = {Key(e) : e \in Corrections(h, at)}
           /\ \A e, f \in Mistaken(h, at) : Key(e) = Key(f) => e = f
           /\ \A e, f \in Corrections(h, at) : Key(e) = Key(f) => e = f
<1>0. /\ inbox \in Seq(Entry) /\ DOMAIN inbox = 1..Len(inbox) /\ Len(facts) \in Nat
      /\ ChainHolds
    BY DEF LedgerHolds, Deliveries, ChainHolds
<1>1. ASSUME NEW e \in Mistaken(h, at)
      PROVE  /\ e \in Own(h, at) /\ IsMistake(facts, e) /\ PostsRestatement(e, h)
             /\ e.classification = "CONFLICT" /\ e.kind # "CORRECTION" /\ e.tx = None
    <2>1. e \in Own(h, at) /\ e.classification = "CONFLICT" /\ e.kind # "CORRECTION"
        BY DEF Mistaken
    <2> QED BY <2>1, OwnIs
<1>2. ASSUME NEW e \in Corrections(h, at)
      PROVE  /\ e \in Own(h, at) /\ e.classification = "CONFLICT" /\ e.kind = "CORRECTION"
             /\ \E c \in 1..Len(inbox) : IsMistake(facts, inbox[c]) /\ PostsCorrection(e, inbox[c], h)
    <2>1. e \in Own(h, at) /\ e.classification = "CONFLICT" /\ e.kind = "CORRECTION"
        BY DEF Corrections
    <2> QED BY <2>1, OwnIs
<1>3. ASSUME NEW e \in Own(h, at), NEW f \in Own(h, at), MovementIdentity(e) = MovementIdentity(f)
      PROVE  e = f
    BY <1>0, <1>3, OwnIsDelivered, OnlyOneIsKept
<1>4. ASSUME NEW e \in Mistaken(h, at), NEW f \in Mistaken(h, at), Key(e) = Key(f) PROVE e = f
    <2>1. e.block = f.block /\ e.multiplier = f.multiplier
        BY <1>4 DEF Key
    <2>2. MovementIdentity(e) = MovementIdentity(f)
        <3>1. MovementIdentity(e)
                  = <<"CORPORATE_ACTION_RESTATEMENT", e.block, e.multiplier, {Issuance, h}>>
            BY <1>1 DEF PostsRestatement
        <3>2. MovementIdentity(f)
                  = <<"CORPORATE_ACTION_RESTATEMENT", f.block, f.multiplier, {Issuance, h}>>
            BY <1>1 DEF PostsRestatement
        <3> QED BY <2>1, <3>1, <3>2
    <2> QED BY <1>1, <1>3, <2>2
<1>5. ASSUME NEW e \in Corrections(h, at), NEW f \in Corrections(h, at), Key(e) = Key(f)
      PROVE  e = f
    <2>1. e.block = f.block /\ e.multiplier = f.multiplier
        BY <1>5 DEF Key
    <2>2. MovementIdentity(e) = MovementIdentity(f)
        <3>1. MovementIdentity(e) = <<"CORRECTION", e.block, e.multiplier, {Issuance, h}>>
            BY <1>2 DEF PostsCorrection
        <3>2. MovementIdentity(f) = <<"CORRECTION", f.block, f.multiplier, {Issuance, h}>>
            BY <1>2 DEF PostsCorrection
        <3> QED BY <2>1, <3>1, <3>2
    <2> QED BY <1>2, <1>3, <2>2
<1>6. ASSUME NEW e \in Mistaken(h, at) PROVE \E f \in Corrections(h, at) : Key(f) = Key(e)
    <2>1. e \in Entry /\ e.block <= at /\ \E p \in e.postings : p.account = h
        BY <1>1, OwnIsDelivered
    <2>2. PICK i \in 1..Len(inbox) : e = inbox[i]
        BY <1>1, OwnIsDelivered
    <2>3. i \in Mistakes
        BY <1>0, <1>1, <2>2 DEF Mistakes
    <2>4. PICK j \in 1..Len(inbox) : inbox[j].corrects = inbox[i].id
        BY <1>0, <1>1, <2>2, <2>3 DEF Settled, Corrected
    <2>5. inbox[i].id = i /\ Known(facts, inbox, j) /\ inbox[j].id \in Nat /\ i # None
        BY InboxTyped DEF Known
    <2>6. PICK c \in 1..j - 1 : Corrects(inbox[j], inbox[c])
        BY <2>4, <2>5 DEF Known, IsMovement, IsRestatement, IsMistake, IsPhantom
    <2>7. c \in 1..Len(inbox)
        OBVIOUS
    <2>8. inbox[c] \in Entry /\ inbox[c].id = c
        BY <2>7, InboxTyped DEF Known
    <2>9. c = i
        BY <2>4, <2>5, <2>6, <2>8, CorrectionTakesBack
    <2>10. Corrects(inbox[j], e) /\ inbox[j].postings = {Opposite(p) : p \in e.postings}
        BY <2>1, <2>2, <2>5, <2>6, <2>9, CorrectionTakesBack
    <2>11. \E p \in inbox[j].postings : p.account = h
        <3>1. PICK q \in e.postings : q.account = h
            BY <2>1
        <3>2. q \in PostingSet
            BY <2>1 DEF Entry
        <3>3. Opposite(q).account = h /\ Opposite(q) \in inbox[j].postings
            BY <2>10, <3>1, <3>2, OppositeTyped
        <3> QED BY <3>3
    <2>12. PostsCorrection(inbox[j], e, h)
        BY <1>1, <2>1, <2>5, <2>10, <2>11, CorrectionPosts
    <2>13. PICK k \in 1..Len(inbox) :
                /\ inbox[k] \in DedupeEntries(inbox)
                /\ MovementIdentity(inbox[k]) = MovementIdentity(inbox[j])
        BY KeptOf
    <2>14. /\ inbox[k].tx = None /\ inbox[k].kind = "CORRECTION" /\ inbox[k].block = e.block
           /\ inbox[k].multiplier = e.multiplier
           /\ {p.account : p \in inbox[k].postings} = {p.account : p \in inbox[j].postings}
        BY <2>12, <2>13, IdentityTells DEF PostsCorrection
    <2>15. \E p \in inbox[k].postings : p.account = h
        BY <2>11, <2>14, HasAccount
    <2>16. inbox[k].classification = "CONFLICT"
        <3>1. inbox[k].classification # "VERIFIED"
            BY <2>14, VerifiedIsFact DEF IsMovement, IsRestatement
        <3> QED BY <3>1, InboxTyped
    <2>17. inbox[k] \in Corrections(h, at)
        BY <2>1, <2>13, <2>14, <2>15, <2>16 DEF Corrections, Own, UpToTime
    <2> QED BY <2>14, <2>17 DEF Key
<1>7. ASSUME NEW e \in Corrections(h, at) PROVE \E f \in Mistaken(h, at) : Key(f) = Key(e)
    <2>1. PICK c \in 1..Len(inbox) : IsMistake(facts, inbox[c]) /\ PostsCorrection(e, inbox[c], h)
        BY <1>2
    <2>2. e.block <= at
        BY <1>2, OwnIsDelivered
    <2>3. /\ e.block = inbox[c].block /\ e.multiplier = inbox[c].multiplier
          /\ \E p \in inbox[c].postings : p.account = h
        BY <2>1 DEF PostsCorrection
    <2>4. /\ inbox[c].tx = None /\ inbox[c].kind = "CORPORATE_ACTION_RESTATEMENT"
          /\ inbox[c].multiplier # MultIn(facts, inbox[c].block)
        BY <2>1 DEF IsMistake
    <2>5. PICK k \in 1..Len(inbox) :
                /\ inbox[k] \in DedupeEntries(inbox)
                /\ MovementIdentity(inbox[k]) = MovementIdentity(inbox[c])
        BY KeptOf
    <2>6. /\ inbox[k].tx = None /\ inbox[k].kind = "CORPORATE_ACTION_RESTATEMENT"
          /\ inbox[k].block = inbox[c].block /\ inbox[k].multiplier = inbox[c].multiplier
          /\ {p.account : p \in inbox[k].postings} = {p.account : p \in inbox[c].postings}
        BY <2>4, <2>5, IdentityTells
    <2>7. \E p \in inbox[k].postings : p.account = h
        BY <2>3, <2>6, HasAccount
    <2>8. inbox[k].classification = "CONFLICT"
        <3> SUFFICES ASSUME inbox[k].classification # "CONFLICT" PROVE FALSE
            OBVIOUS
        <3>1. inbox[k].classification = "VERIFIED"
            BY InboxTyped
        <3>2. IsRestatement(facts, inbox[k])
            BY <2>6, <3>1, VerifiedIsFact DEF IsMovement
        <3>3. PICK n \in 1..Len(facts) :
                /\ facts[n].kind = "activation" /\ inbox[k].block = n
                /\ inbox[k].multiplier = facts[n].multiplier
            BY <3>2 DEF IsRestatement
        <3>4. n \in Nat /\ n # 0
            BY <1>0, <3>3
        <3>5. MultIn(facts, n) = facts[n].multiplier
            BY <3>3, <3>4, ActivationSetsMultiplier
        <3> QED BY <2>4, <2>6, <3>3, <3>5
    <2>9. inbox[k] \in Mistaken(h, at)
        BY <2>2, <2>3, <2>5, <2>6, <2>7, <2>8 DEF Mistaken, Own, UpToTime
    <2> QED BY <2>3, <2>6, <2>9 DEF Key
<1>8. {Key(e) : e \in Mistaken(h, at)} = {Key(e) : e \in Corrections(h, at)}
    BY <1>6, <1>7
<1> QED BY <1>4, <1>5, <1>8

\* A holder's entries are verified, mistaken or corrections,
LEMMA OwnSplits ==
    ASSUME LedgerHolds, NEW h, NEW at
    PROVE  /\ IsFiniteSet(Own(h, at)) /\ IsFiniteSet(Verified(h, at))
           /\ IsFiniteSet(Mistaken(h, at)) /\ IsFiniteSet(Corrections(h, at))
           /\ Own(h, at) = Verified(h, at) \cup (Mistaken(h, at) \cup Corrections(h, at))
           /\ Verified(h, at) \cap (Mistaken(h, at) \cup Corrections(h, at)) = {}
           /\ Mistaken(h, at) \cap Corrections(h, at) = {}
<1>1. IsFiniteSet(DedupeEntries(inbox))
    BY KeptIsFinite DEF LedgerHolds, Deliveries
<1>2. Own(h, at) \in SUBSET DedupeEntries(inbox)
    BY DEF Own, UpToTime
<1>3. IsFiniteSet(Own(h, at))
    BY <1>1, <1>2, FS_Subset
<1>4. /\ Verified(h, at) \in SUBSET Own(h, at) /\ Mistaken(h, at) \in SUBSET Own(h, at)
      /\ Corrections(h, at) \in SUBSET Own(h, at)
    BY DEF Verified, Mistaken, Corrections
<1>5. /\ IsFiniteSet(Verified(h, at)) /\ IsFiniteSet(Mistaken(h, at))
      /\ IsFiniteSet(Corrections(h, at))
    BY <1>3, <1>4, FS_Subset
<1>6. \A e \in Own(h, at) : e.classification \in {"VERIFIED", "CONFLICT"}
    BY OwnIsDelivered
<1> QED BY <1>3, <1>5, <1>6 DEF Verified, Mistaken, Corrections

\* and a sum over them is the sum of the three.
LEMMA OwnSums ==
    ASSUME LedgerHolds, NEW h, NEW at, NEW f, \A e \in Own(h, at) : f[e] \in Int
    PROVE  SumOver(f, Own(h, at)) =
               SumOver(f, Verified(h, at))
               + (SumOver(f, Mistaken(h, at)) + SumOver(f, Corrections(h, at)))
<1> DEFINE O == Own(h, at)
           V == Verified(h, at)
           M == Mistaken(h, at)
           C == Corrections(h, at)
           N == M \cup C
<1>1. /\ IsFiniteSet(O) /\ O = V \cup N /\ V \cap N = {} /\ M \cap C = {} /\ N = M \cup C
    BY OwnSplits
<1>2. \A e \in O : f[e] \in Int
    OBVIOUS
<1> HIDE DEF O, V, M, C, N
<1>3. V \in SUBSET O /\ N \in SUBSET O /\ M \in SUBSET N /\ C \in SUBSET N
    BY <1>1
<1>4. SumOver(f, O) = SumOver(f, V) + SumOver(f, N)
    BY <1>1, <1>2, <1>3, SumUnion
<1>5. IsFiniteSet(N) /\ \A e \in N : f[e] \in Int
    BY <1>1, <1>2, <1>3, FS_Subset
<1>6. SumOver(f, N) = SumOver(f, M) + SumOver(f, C)
    BY <1>1, <1>3, <1>5, SumUnion
<1> QED BY <1>4, <1>6 DEF O, V, M, C

RawOf(h, at) == [e \in Own(h, at) |-> PostingOf(e, h).raw]
SharesOf(h, at) == [e \in Own(h, at) |-> PostingOf(e, h).shares]

\* What each of the three posts to the holder.
LEMMA OwnPostings ==
    ASSUME LedgerHolds, NEW at \in 0..Len(facts), Settled(at), NEW h \in Holders
    PROVE  /\ \A e \in Own(h, at) :
                  /\ PostingOf(e, h) \in PostingSet
                  /\ RawOf(h, at)[e] = PostingOf(e, h).raw /\ RawOf(h, at)[e] \in Int
                  /\ SharesOf(h, at)[e] = PostingOf(e, h).shares /\ SharesOf(h, at)[e] \in Int
           /\ \A e \in Verified(h, at) : /\ RawOf(h, at)[e] = PostedRaw(h, e.block)
                                         /\ SharesOf(h, at)[e] = PostedShares(h, e.block)
           /\ \A e \in Mistaken(h, at) :
                  /\ e.block \in Nat /\ e.multiplier \in Multipliers /\ RawOf(h, at)[e] = 0
                  /\ SharesOf(h, at)[e] = Drift(facts, h, e.block, e.multiplier)
                  /\ PostingOf(e, h).priced = FALSE
           /\ \A e \in Corrections(h, at) :
                  /\ e.block \in Nat /\ e.multiplier \in Multipliers /\ RawOf(h, at)[e] = 0
                  /\ SharesOf(h, at)[e] = -Drift(facts, h, e.block, e.multiplier)
                  /\ Drift(facts, h, e.block, e.multiplier) \in Int
                  /\ PostingOf(e, h).priced = FALSE
<1>1. ASSUME NEW e \in Verified(h, at)
      PROVE  e \in Own(h, at) /\ PostsFact(e, h)
    <2>1. e \in Own(h, at) /\ e.classification = "VERIFIED"
        BY DEF Verified
    <2> QED BY <2>1, OwnIs
<1>2. ASSUME NEW e \in Mistaken(h, at)
      PROVE  e \in Own(h, at) /\ PostsRestatement(e, h)
    <2>1. e \in Own(h, at) /\ e.classification = "CONFLICT" /\ e.kind # "CORRECTION"
        BY DEF Mistaken
    <2> QED BY <2>1, OwnIs
<1>3. ASSUME NEW e \in Corrections(h, at)
      PROVE  /\ e \in Own(h, at)
             /\ \E c \in 1..Len(inbox) : IsMistake(facts, inbox[c]) /\ PostsCorrection(e, inbox[c], h)
    <2>1. e \in Own(h, at) /\ e.classification = "CONFLICT" /\ e.kind = "CORRECTION"
        BY DEF Corrections
    <2> QED BY <2>1, OwnIs
<1>4. ASSUME NEW e \in Own(h, at) PROVE PostingOf(e, h) \in PostingSet
    <2>1. e \in Verified(h, at) \/ e \in Mistaken(h, at) \/ e \in Corrections(h, at)
        BY OwnSplits
    <2>2. e \in Corrections(h, at) => PostingOf(e, h) \in PostingSet
        BY <1>3 DEF PostsCorrection
    <2> QED BY <1>1, <1>2, <2>1, <2>2 DEF PostsFact, PostsRestatement
<1>5. ASSUME NEW e \in Own(h, at)
      PROVE  /\ RawOf(h, at)[e] = PostingOf(e, h).raw /\ RawOf(h, at)[e] \in Int
             /\ SharesOf(h, at)[e] = PostingOf(e, h).shares /\ SharesOf(h, at)[e] \in Int
    <2>1. PostingOf(e, h) \in PostingSet
        BY <1>4
    <2> QED BY <2>1 DEF RawOf, SharesOf, PostingSet
<1>6. ASSUME NEW e \in Verified(h, at)
      PROVE  /\ RawOf(h, at)[e] = PostedRaw(h, e.block)
             /\ SharesOf(h, at)[e] = PostedShares(h, e.block)
    BY <1>1, <1>5 DEF PostsFact
<1>7. ASSUME NEW e \in Mistaken(h, at)
      PROVE  /\ e.block \in Nat /\ e.multiplier \in Multipliers /\ RawOf(h, at)[e] = 0
             /\ SharesOf(h, at)[e] = Drift(facts, h, e.block, e.multiplier)
             /\ PostingOf(e, h).priced = FALSE
    <2>1. /\ e.block \in 1..Len(facts) /\ e.multiplier \in Multipliers
          /\ PostingOf(e, h).raw = 0 /\ PostingOf(e, h).priced = FALSE
          /\ PostingOf(e, h).shares = Drift(facts, h, e.block, e.multiplier)
        BY <1>2 DEF PostsRestatement
    <2>2. /\ RawOf(h, at)[e] = PostingOf(e, h).raw
          /\ SharesOf(h, at)[e] = PostingOf(e, h).shares
        BY <1>2, <1>5
    <2>3. e.block \in Nat
        BY <2>1
    <2> QED BY <2>1, <2>2, <2>3
<1>8. ASSUME NEW e \in Corrections(h, at)
      PROVE  /\ e.block \in Nat /\ e.multiplier \in Multipliers /\ RawOf(h, at)[e] = 0
             /\ SharesOf(h, at)[e] = -Drift(facts, h, e.block, e.multiplier)
             /\ Drift(facts, h, e.block, e.multiplier) \in Int
             /\ PostingOf(e, h).priced = FALSE
    <2>1. PICK c \in 1..Len(inbox) : IsMistake(facts, inbox[c]) /\ PostsCorrection(e, inbox[c], h)
        BY <1>3
    <2>2. e.block = inbox[c].block /\ e.multiplier = inbox[c].multiplier
        BY <2>1 DEF PostsCorrection
    <2>3. e.block \in Nat /\ e.multiplier \in Multipliers
        BY <2>1, <2>2 DEF IsMistake
    <2> QED BY <1>3, <1>5, <2>1, <2>3 DEF PostsCorrection
<1> QED BY <1>4, <1>5, <1>6, <1>7, <1>8

\* What was posted by mistake and what takes it back cancel.
LEMMA MistakesCancel ==
    ASSUME LedgerHolds, NEW at \in 0..Len(facts), Settled(at), NEW h \in Holders
    PROVE  /\ SumOver(RawOf(h, at), Mistaken(h, at)) = 0
           /\ SumOver(RawOf(h, at), Corrections(h, at)) = 0
           /\ SumOver(SharesOf(h, at), Mistaken(h, at))
                  + SumOver(SharesOf(h, at), Corrections(h, at)) = 0
<1> DEFINE M == Mistaken(h, at)
           C == Corrections(h, at)
           f == SharesOf(h, at)
           r == RawOf(h, at)
           Keys == Nat \X Multipliers
           b == [e \in M \cup C |-> Key(e)]
           g == [k \in Keys |-> Drift(facts, h, k[1], k[2])]
           o == [e \in C |-> Drift(facts, h, e.block, e.multiplier)]
<1>1. IsFiniteSet(M) /\ IsFiniteSet(C) /\ M \subseteq Own(h, at) /\ C \subseteq Own(h, at)
    BY OwnSplits
<1>2. /\ \A e \in M : f[e] \in Int /\ r[e] = 0 /\ r[e] \in Int
      /\ \A e \in C : f[e] \in Int /\ o[e] \in Int /\ f[e] = -o[e] /\ r[e] = 0 /\ r[e] \in Int
    BY <1>1, OwnPostings
<1>3. (\A e \in M : g[b[e]] = f[e]) /\ \A e \in C : g[b[e]] = o[e]
    <2>1. ASSUME NEW e \in M PROVE g[b[e]] = f[e]
        <3>1. e.block \in Nat /\ e.multiplier \in Multipliers
              /\ f[e] = Drift(facts, h, e.block, e.multiplier)
            BY OwnPostings
        <3>2. b[e] = <<e.block, e.multiplier>> /\ <<e.block, e.multiplier>> \in Keys
            BY <3>1 DEF Key
        <3> QED BY <3>1, <3>2
    <2>2. ASSUME NEW e \in C PROVE g[b[e]] = o[e]
        <3>1. e.block \in Nat /\ e.multiplier \in Multipliers
            BY OwnPostings
        <3>2. b[e] = <<e.block, e.multiplier>> /\ <<e.block, e.multiplier>> \in Keys
            BY <3>1 DEF Key
        <3> QED BY <3>1, <3>2
    <2> QED BY <2>1, <2>2
<1>4. /\ {b[e] : e \in M} = {b[e] : e \in C}
      /\ \A x, y \in M : b[x] = b[y] => x = y
      /\ \A x, y \in C : b[x] = b[y] => x = y
    <2>1. (\A e \in M : b[e] = Key(e)) /\ \A e \in C : b[e] = Key(e)
        OBVIOUS
    <2>2. /\ {Key(e) : e \in M} = {Key(e) : e \in C}
          /\ \A x, y \in M : Key(x) = Key(y) => x = y
          /\ \A x, y \in C : Key(x) = Key(y) => x = y
        BY MistakesAreTakenBack
    <2> HIDE DEF b, M, C
    <2>3. {b[e] : e \in M} = {Key(e) : e \in M} /\ {b[e] : e \in C} = {Key(e) : e \in C}
        BY <2>1
    <2> QED BY <2>1, <2>2, <2>3
<1> HIDE DEF M, C, f, r, b, g, o
<1>5. SumOver(f, M) = SumOver(g, {b[e] : e \in M})
    BY <1>1, <1>2, <1>3, <1>4, SumReindexed
<1>6. SumOver(o, C) = SumOver(g, {b[e] : e \in C})
    <2>1. /\ \A e \in C : o[e] \in Int
          /\ \A e \in C : g[b[e]] = o[e]
          /\ \A x, y \in C : b[x] = b[y] => x = y
        BY <1>2, <1>3, <1>4
    <2> QED BY <1>1, <2>1, SumReindexed
<1>7. SumOver(f, C) = SumOver(o, C) * (-1)
    <2> DEFINE k == -1
    <2>1. k \in Int /\ \A e \in C : f[e] = o[e] * k
        BY <1>2
    <2> HIDE DEF k
    <2>2. \A e \in C : o[e] \in Int
        BY <1>2
    <2>3. SumOver(f, C) = SumOver(o, C) * k
        BY <1>1, <2>1, <2>2, SumScaled
    <2> QED BY <2>3 DEF k
<1>8. SumOver(o, C) \in Int
    BY <1>1, <1>2, SumIsInt
<1>9. SumOver(f, M) + SumOver(f, C) = 0
    <2> DEFINE t == SumOver(o, C)
               s == SumOver(f, M)
               c == SumOver(f, C)
    <2>1. t \in Int /\ s = t /\ c = t * (-1)
        BY <1>4, <1>5, <1>6, <1>7, <1>8
    <2> HIDE DEF t, s, c
    <2>2. s + c = 0
        BY <2>1
    <2> QED BY <2>2 DEF s, c
<1>10. SumOver(r, M) = 0 /\ SumOver(r, C) = 0
    <2> DEFINE none == {}
    <2>1. /\ (\A e \in M : r[e] \in Int) /\ (\A e \in M \ none : r[e] = 0) /\ none \in SUBSET M
          /\ (\A e \in C : r[e] \in Int) /\ (\A e \in C \ none : r[e] = 0) /\ none \in SUBSET C
        BY <1>2
    <2>2. SumOver(r, none) = 0
        BY SumOfNothing
    <2> HIDE DEF none
    <2> QED BY <1>1, <2>1, <2>2, SumIgnoresZeros
<1> QED BY <1>9, <1>10 DEF M, C, f, r

-----------------------------------------------------------------------------
\* What a settled ledger adds up to.

\* The shares of what a holder has after n facts.
SharesIn(h, n) == Shares(RawIn(facts, h, n), MultIn(facts, n))

\* What a holder has, and its shares, are natural numbers.
LEMMA SharesAreNat ==
    ASSUME ChainHolds, NEW h \in Holders, NEW n \in 0..Len(facts)
    PROVE  /\ SharesIn(h, n) \in Nat /\ RawIn(facts, h, n) \in 0..MaxRaw
           /\ MultIn(facts, n) \in 1..MaxRaw
<1>1. MultIn(facts, n) \in 1..MaxRaw
    BY MultiplierIsOne, MultIsAt
<1> QED BY <1>1, HeldConverts DEF SharesIn

\* What a fact posts differs from what it changes by at most one share, and only when it is
\* the holder's.
LEMMA PostedIsChange ==
    ASSUME ChainHolds, NEW h \in Holders, NEW n \in 1..Len(facts)
    PROVE  /\ PostedRaw(h, n) \in Int /\ PostedShares(h, n) \in Int
           /\ facts[n].kind # "movement" => PostedRaw(h, n) = 0
           /\ ~Touches(n, h) => PostedRaw(h, n) = 0 /\ PostedShares(h, n) = 0
           /\ PostedShares(h, n) - (SharesIn(h, n) - SharesIn(h, n - 1)) \in -1..1
           /\ ~Touches(n, h) => PostedShares(h, n) - (SharesIn(h, n) - SharesIn(h, n - 1)) = 0
<1> DEFINE k == n - 1
           r == RawIn(facts, h, k)
           m == MultIn(facts, k)
<1>0. Len(facts) \in Nat /\ facts \in Seq(Fact) /\ facts[n] \in Fact
    BY DEF ChainHolds
<1>1. k \in Nat /\ k + 1 = n /\ k \in 0..Len(facts) /\ n \in 0..Len(facts) /\ k + 1 \in 1..Len(facts)
      /\ n \in Nat /\ n # 0
    BY <1>0
<1>2. /\ SharesIn(h, n) \in Nat /\ SharesIn(h, k) \in Nat /\ RawIn(facts, h, n) \in 0..MaxRaw
      /\ r \in 0..MaxRaw /\ m \in 1..MaxRaw
    <2> HIDE DEF k
    <2> QED BY <1>1, SharesAreNat
<1>3. RawIn(facts, h, n) = r + (IF facts[n].kind = "movement" THEN Effect(facts[n], h) ELSE 0)
    <2> HIDE DEF k
    <2>1. RawIn(facts, h, k + 1) =
            r + (IF facts[k + 1].kind = "movement" THEN Effect(facts[k + 1], h) ELSE 0)
        BY <1>0, <1>1, RawStep
    <2> QED BY <1>1, <2>1
<1>4. MultIn(facts, n) = IF facts[n].kind = "activation" THEN facts[n].multiplier ELSE m
    <2> HIDE DEF k
    <2>1. MultIn(facts, k + 1) = IF facts[k + 1].kind = "activation" THEN facts[k + 1].multiplier
                                 ELSE m
        BY <1>1, MultStep
    <2> QED BY <1>1, <2>1
<1>5. CASE facts[n].kind # "movement"
    <2>1. facts[n].kind = "activation" /\ facts[n].multiplier \in Multipliers
        BY <1>0, <1>5, FactFields DEF Fact
    <2>2. RawIn(facts, h, n) = r
        BY <1>2, <1>3, <1>5
    <2>3. PostedShares(h, n) = Shares(RawIn(facts, h, n), MultIn(facts, n))
                               - Shares(RawIn(facts, h, n), MultIn(facts, k))
        BY <1>5 DEF PostedShares, Drift
    <2>4. PostedShares(h, n) = SharesIn(h, n) - SharesIn(h, k)
        <3> HIDE DEF k
        <3> QED BY <2>2, <2>3 DEF SharesIn
    <2>5. PostedRaw(h, n) = 0 /\ Touches(n, h)
        BY <1>5 DEF PostedRaw, Touches
    <2> DEFINE s == SharesIn(h, n)
               t == SharesIn(h, k)
    <2>6. (s - t) - (s - t) = 0 /\ s - t \in Int
        BY <1>2
    <2> QED BY <1>5, <2>4, <2>5, <2>6
<1>6. CASE facts[n].kind = "movement"
    <2> DEFINE a == facts[n].amount
               s == Shares(a, m)
    <2>1. /\ facts[n].from \in Accounts /\ facts[n].to \in Accounts
          /\ facts[n].from # facts[n].to /\ a \in Nat /\ MultIn(facts, n) = m /\ s \in Nat
        <3>1. MultIn(facts, n) = m
            BY <1>4, <1>6
        <3> QED BY <1>6, <3>1, SharesTyped
    <2>2. PostedShares(h, n) =
            (IF facts[n].to = h THEN s ELSE 0) - (IF facts[n].from = h THEN s ELSE 0)
        BY <1>6, <2>1 DEF PostedShares
    <2>3. PostedRaw(h, n) =
            (IF facts[n].to = h THEN a ELSE 0) - (IF facts[n].from = h THEN a ELSE 0)
        BY <1>6 DEF PostedRaw, Effect
    <2>4. RawIn(facts, h, n) = r + PostedRaw(h, n)
        BY <1>3, <1>6 DEF PostedRaw
    <2>5. SharesIn(h, n) = Shares(RawIn(facts, h, n), m) /\ SharesIn(h, k) = Shares(r, m)
        BY <2>1 DEF SharesIn
    <2>6. r \in Nat /\ m \in Nat \ {0} /\ RawIn(facts, h, n) \in Nat
        BY <1>2
    <2> DEFINE after == RawIn(facts, h, n)
               sn == SharesIn(h, n)
               sk == SharesIn(h, k)
               p == PostedShares(h, n)
    <2>7. Touches(n, h) <=> (facts[n].to = h \/ facts[n].from = h)
        BY <1>6 DEF Touches
    <2>8. sn \in Nat /\ sk \in Nat
        BY <1>2
    <2> HIDE DEF r, m, a, s, k, after
    <2>9. CASE facts[n].to = h
        <3>1. p = s /\ after = r + a /\ PostedRaw(h, n) = a
            BY <2>1, <2>2, <2>3, <2>4, <2>6, <2>9 DEF after
        <3>2. Shares(r + a, m) - (Shares(r, m) + s) \in {0, 1}
            BY <2>1, <2>6, SharesAddUp DEF s
        <3>3. sn - (sk + s) \in {0, 1}
            BY <2>5, <3>1, <3>2 DEF after
        <3> HIDE DEF p, sn, sk
        <3>4. p - (sn - sk) \in -1..1
            BY <2>1, <2>8, <3>1, <3>3
        <3> QED BY <1>6, <2>1, <2>7, <2>9, <3>1, <3>4 DEF p, sn, sk, k
    <2>10. CASE facts[n].from = h
        <3>1. facts[n].to # h
            BY <2>1, <2>10
        <3>2. p = 0 - s /\ PostedRaw(h, n) = 0 - a
            BY <2>1, <2>2, <2>3, <2>10, <3>1
        <3>3. r = after + a /\ after \in Nat
            BY <2>1, <2>4, <2>6, <3>2 DEF after
        <3>4. Shares(after + a, m) - (Shares(after, m) + s) \in {0, 1}
            BY <2>1, <2>6, <3>3, SharesAddUp DEF s
        <3>5. sk - (sn + s) \in {0, 1}
            BY <2>5, <3>3, <3>4 DEF after
        <3> HIDE DEF p, sn, sk
        <3>6. p - (sn - sk) \in -1..1 /\ p \in Int /\ 0 - a \in Int
            BY <2>1, <2>8, <3>2, <3>5
        <3> QED BY <1>6, <2>1, <2>7, <2>10, <3>2, <3>6 DEF p, sn, sk, k
    <2>11. CASE facts[n].to # h /\ facts[n].from # h
        <3>1. p = 0 /\ PostedRaw(h, n) = 0
            BY <2>2, <2>3, <2>11
        <3>2. after = r
            BY <2>4, <2>6, <3>1 DEF after
        <3>3. sn = sk
            BY <2>5, <3>2 DEF after
        <3> HIDE DEF p, sn, sk
        <3>4. p - (sn - sk) = 0 /\ p \in Int
            BY <2>8, <3>1, <3>3
        <3> QED BY <1>6, <3>1, <3>4 DEF p, sn, sk, k
    <2> QED BY <2>9, <2>10, <2>11
<1> QED BY <1>5, <1>6

\* The raw units of a settled time are the chain's.
LEMMA RawFollows ==
    ASSUME LedgerHolds, NEW at \in 0..Len(facts), Settled(at), NEW h \in Holders
    PROVE  SumOver(RawOf(h, at), Own(h, at)) = RawIn(facts, h, at)
<1> DEFINE V == Verified(h, at)
           T == Touching(h, at)
           f == RawOf(h, at)
           b == [e \in V |-> e.block]
           g == [n \in 1..at |-> PostedRaw(h, n)]
           x == [n \in 1..at |-> Effect(facts[n], h)]
           N == 1..at
           Ms == Moves(facts, at)
<1>0. ChainHolds /\ Len(facts) \in Nat /\ at \in Nat
    BY DEF LedgerHolds, ChainHolds
<1>1. IsFiniteSet(V) /\ IsFiniteSet(N) /\ T \in SUBSET N /\ Ms \in SUBSET N /\ IsFiniteSet(Ms)
    BY <1>0, OwnSplits, IndicesAreFinite DEF Touching, Moves
<1>2. \A e \in Own(h, at) : f[e] \in Int
    BY OwnPostings
<1>3. \A n \in N : /\ g[n] = PostedRaw(h, n) /\ g[n] \in Int
                   /\ n \notin T => g[n] = 0
                   /\ n \notin Ms => g[n] = 0
                   /\ n \in Ms => g[n] = x[n]
    <2> SUFFICES ASSUME NEW n \in N
                 PROVE  /\ g[n] = PostedRaw(h, n) /\ g[n] \in Int
                        /\ n \notin T => g[n] = 0
                        /\ n \notin Ms => g[n] = 0
                        /\ n \in Ms => g[n] = x[n]
        OBVIOUS
    <2>1. n \in 1..Len(facts) /\ g[n] = PostedRaw(h, n) /\ x[n] = Effect(facts[n], h)
        BY <1>0
    <2>2. (n \notin T => ~Touches(n, h)) /\ (n \in Ms <=> facts[n].kind = "movement")
        BY DEF Touching, Moves
    <2>3. n \in Ms => PostedRaw(h, n) = Effect(facts[n], h)
        BY <2>2 DEF PostedRaw
    <2> QED BY <1>0, <2>1, <2>2, <2>3, PostedIsChange
<1>4. /\ \A e \in V : f[e] \in Int /\ b[e] = e.block /\ b[e] \in N /\ g[b[e]] = f[e]
      /\ {b[e] : e \in V} = T
      /\ \A d, e \in V : b[d] = b[e] => d = e
    <2>1. V \subseteq Own(h, at)
        BY OwnSplits
    <2>2. {e.block : e \in V} = T /\ \A d, e \in V : d.block = e.block => d = e
        BY FactsAreKept
    <2>3. \A e \in V : b[e] = e.block /\ e.block \in T
        BY <2>2
    <2>4. {b[e] : e \in V} = T
        <3> HIDE DEF V, T, b
        <3> QED BY <2>2, <2>3
    <2>5. \A e \in V : f[e] = PostedRaw(h, e.block)
        BY OwnPostings
    <2>6. \A e \in V : g[e.block] = PostedRaw(h, e.block) /\ e.block \in N
        BY <1>1, <1>3, <2>3
    <2> HIDE DEF V, T, b, f, g, N
    <2> QED BY <1>2, <2>1, <2>2, <2>3, <2>4, <2>5, <2>6
<1> HIDE DEF V, T, f, b, g, N, Ms
<1>5. SumOver(f, V) = SumOver(g, {b[e] : e \in V})
    <2>1. /\ \A e \in V : f[e] \in Int
          /\ \A e \in V : g[b[e]] = f[e]
          /\ \A d, e \in V : b[d] = b[e] => d = e
        BY <1>4
    <2> QED BY <1>1, <2>1, SumReindexed
<1>6. SumOver(g, N) = SumOver(g, T) /\ SumOver(g, N) = SumOver(g, Ms)
    <2>1. /\ \A n \in N : g[n] \in Int
          /\ \A n \in N \ T : g[n] = 0
          /\ \A n \in N \ Ms : g[n] = 0
        BY <1>3
    <2> QED BY <1>1, <2>1, SumIgnoresZeros
<1>7. SumOver(g, Ms) = SumOver(x, Ms)
    <2> HIDE DEF x
    <2>1. \A n \in Ms : g[n] = x[n]
        BY <1>1, <1>3
    <2> QED BY <1>1, <2>1, SumAgrees
<1>8. SumOver(x, Ms) = RawIn(facts, h, at)
    BY DEF RawIn, Ms
<1>9. SumOver(f, Own(h, at)) = SumOver(f, V) + (0 + 0)
    BY <1>2, OwnSums, MistakesCancel DEF V, f
<1>10. RawIn(facts, h, at) \in Int
    BY <1>0, RawIsInt DEF ChainHolds
<1>11. SumOver(f, V) = RawIn(facts, h, at)
    BY <1>4, <1>5, <1>6, <1>7, <1>8
<1>12. \A z \in Int : z + (0 + 0) = z
    OBVIOUS
<1> QED BY <1>9, <1>10, <1>11, <1>12 DEF f

\* The shares of a settled time are the chain's up to one unit for each entry.
LEMMA SharesFollow ==
    ASSUME LedgerHolds, NEW at \in 0..Len(facts), Settled(at), NEW h \in Holders
    PROVE  /\ SumOver(SharesOf(h, at), Own(h, at)) \in Int /\ SharesIn(h, at) \in Nat
           /\ Cardinality(Own(h, at)) \in Nat
           /\ SumOver(SharesOf(h, at), Own(h, at)) - SharesIn(h, at)
                  \in -Cardinality(Own(h, at))..Cardinality(Own(h, at))
<1> DEFINE V == Verified(h, at)
           T == Touching(h, at)
           f == SharesOf(h, at)
           b == [e \in V |-> e.block]
           g == [n \in 1..at |-> PostedShares(h, n)]
           q == [n \in 0..at |-> SharesIn(h, n)]
           c == [n \in 1..at |-> q[n] - q[n - 1]]
           d == [n \in 1..at |-> g[n] - c[n]]
           N == 1..at
<1>0. ChainHolds /\ Len(facts) \in Nat /\ at \in Nat
    BY DEF LedgerHolds, ChainHolds
<1>1. /\ IsFiniteSet(V) /\ IsFiniteSet(N) /\ T \in SUBSET N /\ IsFiniteSet(T)
      /\ V \subseteq Own(h, at) /\ IsFiniteSet(Own(h, at))
    <2>1. T \in SUBSET N
        BY DEF Touching
    <2>2. IsFiniteSet(N) /\ IsFiniteSet(T)
        <3>1. N \in SUBSET N
            OBVIOUS
        <3> HIDE DEF T
        <3> QED BY <1>0, <2>1, <3>1, IndicesAreFinite
    <2> QED BY <2>1, <2>2, OwnSplits
<1>2. \A e \in Own(h, at) : f[e] \in Int
    BY OwnPostings
<1>3. \A n \in 0..at : q[n] = SharesIn(h, n) /\ q[n] \in Nat
    BY <1>0, SharesAreNat
<1>4. \A n \in N : /\ g[n] = PostedShares(h, n) /\ g[n] \in Int
                   /\ c[n] = q[n] - q[n - 1] /\ c[n] \in Int
                   /\ d[n] = g[n] - c[n] /\ d[n] \in -1..1 /\ d[n] \in Int
                   /\ n \notin T => d[n] = 0 /\ g[n] = 0
    <2> SUFFICES ASSUME NEW n \in N
                 PROVE  /\ g[n] = PostedShares(h, n) /\ g[n] \in Int
                        /\ c[n] = q[n] - q[n - 1] /\ c[n] \in Int
                        /\ d[n] = g[n] - c[n] /\ d[n] \in -1..1 /\ d[n] \in Int
                        /\ n \notin T => d[n] = 0 /\ g[n] = 0
        OBVIOUS
    <2>1. /\ n \in 1..Len(facts) /\ n \in 0..at /\ n - 1 \in 0..at
          /\ g[n] = PostedShares(h, n) /\ c[n] = q[n] - q[n - 1] /\ d[n] = g[n] - c[n]
        BY <1>0
    <2>2. n \notin T => ~Touches(n, h)
        BY DEF Touching
    <2>3. /\ q[n] = SharesIn(h, n) /\ q[n] \in Nat
          /\ q[n - 1] = SharesIn(h, n - 1) /\ q[n - 1] \in Nat
        BY <1>3, <2>1
    <2>4. /\ PostedShares(h, n) \in Int
          /\ PostedShares(h, n) - (SharesIn(h, n) - SharesIn(h, n - 1)) \in -1..1
          /\ ~Touches(n, h) =>
                 /\ PostedShares(h, n) - (SharesIn(h, n) - SharesIn(h, n - 1)) = 0
                 /\ PostedShares(h, n) = 0
        BY <1>0, <2>1, PostedIsChange
    <2>5. d[n] = PostedShares(h, n) - (SharesIn(h, n) - SharesIn(h, n - 1))
        BY <2>1, <2>3
    <2>6. c[n] \in Int
        BY <2>1, <2>3
    <2> QED BY <2>1, <2>2, <2>4, <2>5, <2>6
<1>5. /\ \A e \in V : f[e] \in Int /\ b[e] = e.block /\ b[e] \in N /\ g[b[e]] = f[e]
      /\ {b[e] : e \in V} = T
      /\ \A x, y \in V : b[x] = b[y] => x = y
    <2>2. {e.block : e \in V} = T /\ \A x, y \in V : x.block = y.block => x = y
        BY FactsAreKept
    <2>3. \A e \in V : b[e] = e.block /\ e.block \in T
        BY <2>2
    <2>4. {b[e] : e \in V} = T
        <3> HIDE DEF V, T, b
        <3> QED BY <2>2, <2>3
    <2>5. \A e \in V : f[e] = PostedShares(h, e.block)
        BY OwnPostings
    <2>6. \A e \in V : g[e.block] = PostedShares(h, e.block) /\ e.block \in N
        BY <1>1, <1>4, <2>3
    <2> HIDE DEF V, T, b, f, g, N
    <2> QED BY <1>1, <1>2, <2>2, <2>3, <2>4, <2>5, <2>6
<1>6. T = {b[e] : e \in V} /\ q[0] = 0 /\ q[at] = SharesIn(h, at) /\ q[at] \in Nat
    <2>1. 0 \in 0..at /\ at \in 0..at
        BY <1>0
    <2>2. SharesIn(h, 0) = 0
        <3>1. RawIn(facts, h, 0) = 0 /\ MultIn(facts, 0) = Wad
            BY RawOfNothing, MultAtFirst
        <3>2. Shares(0, Wad) = 0
            BY DEF Shares
        <3> QED BY <3>1, <3>2 DEF SharesIn
    <2> QED BY <1>3, <1>5, <2>1, <2>2
<1>7. \A n \in 0..at : q[n] \in Int
    BY <1>3
<1> HIDE DEF V, T, f, b, g, q, c, d
<1>8. SumOver(f, V) = SumOver(g, T)
    <2>1. /\ \A e \in V : f[e] \in Int
          /\ \A e \in V : g[b[e]] = f[e]
          /\ \A x, y \in V : b[x] = b[y] => x = y
        BY <1>5
    <2>2. IsFiniteSet(V)
        BY <1>1
    <2>3. SumOver(f, V) = SumOver(g, {b[e] : e \in V})
        BY <2>1, <2>2, SumReindexed
    <2> QED BY <1>6, <2>3
<1>9. SumOver(c, N) = q[at] - q[0]
    <2>1. \A n \in 1..at : c[n] = q[n] - q[n - 1]
        BY <1>4
    <2> QED BY <1>0, <1>7, <2>1, SumTelescopes
<1>10. SumOver(g, N) = SumOver(g, T) /\ SumOver(d, N) = SumOver(d, T)
    <2>1. /\ \A n \in N : g[n] \in Int
          /\ \A n \in N \ T : g[n] = 0
          /\ \A n \in N : d[n] \in Int
          /\ \A n \in N \ T : d[n] = 0
        BY <1>4
    <2> QED BY <1>1, <2>1, SumIgnoresZeros
<1>11. SumOver(d, N) = SumOver(g, N) - SumOver(c, N)
    <2>1. /\ \A n \in N : g[n] \in Int
          /\ \A n \in N : c[n] \in Int
          /\ \A n \in N : d[n] = g[n] - c[n]
        BY <1>4
    <2> QED BY <1>1, <2>1, SumSubtracts
<1>12. /\ -Cardinality(T) <= SumOver(d, T) /\ SumOver(d, T) <= Cardinality(T)
       /\ Cardinality(T) \in Nat /\ SumOver(d, T) \in Int
    <2>1. \A n \in T : d[n] \in -1..1
        BY <1>1, <1>4
    <2> QED BY <1>1, <2>1, SumWithin
<1>13. Cardinality(T) <= Cardinality(Own(h, at)) /\ Cardinality(Own(h, at)) \in Nat
    <2>1. b \in Surjection(V, T)
        BY <1>5 DEF b, Surjection
    <2>2. Cardinality(T) <= Cardinality(V)
        BY <1>1, <2>1, FS_Surjection
    <2>3. Cardinality(V) <= Cardinality(Own(h, at))
        BY <1>1, FS_Subset
    <2>4. Cardinality(V) \in Nat /\ Cardinality(Own(h, at)) \in Nat /\ Cardinality(T) \in Nat
        BY <1>1, FS_CardinalityType
    <2> QED BY <2>2, <2>3, <2>4
<1>14. SumOver(g, N) \in Int
    <2>1. \A n \in N : g[n] \in Int
        BY <1>4
    <2> QED BY <1>1, <2>1, SumIsInt
<1>15. SumOver(f, Own(h, at)) = SumOver(f, V) + 0
    BY <1>2, OwnSums, MistakesCancel DEF V, f
<1> DEFINE sum == SumOver(f, Own(h, at))
           s == SumOver(g, N)
           e == SumOver(d, T)
           card == Cardinality(Own(h, at))
           k == Cardinality(T)
           last == SharesIn(h, at)
<1>16. sum = s + 0 /\ s \in Int /\ e = s - last /\ last \in Nat /\ k \in Nat /\ card \in Nat
       /\ k <= card /\ e \in Int /\ -k <= e /\ e <= k
    <2>1. SumOver(c, N) = last
        BY <1>6, <1>9
    <2>2. e = s - last
        BY <1>10, <1>11, <2>1
    <2> QED BY <1>6, <1>8, <1>10, <1>12, <1>13, <1>14, <1>15, <2>2
<1> HIDE DEF sum, s, e, card, k, last
<1>17. sum \in Int /\ sum - last \in -card..card
    BY <1>16
<1> QED BY <1>16, <1>17 DEF sum, card, last, f

ValueOf(h, at) == [e \in Own(h, at) |-> PostingOf(e, h).value]

\* A projected position is what the holder's entries add up to.
LEMMA PositionIs ==
    ASSUME NEW at, NEW h \in Holders
    PROVE  LET position == ProjectPositions(inbox, at)[h]
           IN  /\ position.raw = SumOver(RawOf(h, at), Own(h, at))
               /\ position.shares = SumOver(SharesOf(h, at), Own(h, at))
               /\ position.count = Cardinality(Own(h, at))
               /\ position.value # None =>
                      /\ \A e \in Own(h, at) : PostingOf(e, h).priced
                      /\ position.value = SumOver(ValueOf(h, at), Own(h, at))
<1> DEFINE entries == UpToTime(DedupeEntries(inbox), at)
           own == Own(h, at)
           raws == RawOf(h, at)
           shares == SharesOf(h, at)
           values == ValueOf(h, at)
           priced == AllPriced({PostingOf(e, h) : e \in own})
           position == ProjectPositions(inbox, at)[h]
<1>1. position = Position(entries, h)
    BY DEF ProjectPositions, Accounts
<1>2. own = {e \in entries : \E p \in e.postings : p.account = h}
    BY DEF Own
<1>3. /\ raws = [e \in own |-> PostingOf(e, h).raw]
      /\ shares = [e \in own |-> PostingOf(e, h).shares]
      /\ values = [e \in own |-> PostingOf(e, h).value]
      /\ DOMAIN raws = own /\ DOMAIN shares = own /\ DOMAIN values = own
    BY DEF RawOf, SharesOf, ValueOf
<1> HIDE DEF own, entries, position
<1>4. position = [raw |-> SumFunction(raws), shares |-> SumFunction(shares),
                  value |-> IF own # {} /\ priced THEN SumFunction(values) ELSE None,
                  count |-> Cardinality(own)]
    BY <1>1, <1>2, <1>3 DEF Position
<1> HIDE DEF raws, shares, values
<1>5. /\ SumFunction(raws) = SumOver(raws, own) /\ SumFunction(shares) = SumOver(shares, own)
      /\ SumFunction(values) = SumOver(values, own)
    BY <1>3, SumFunctionIsSum
<1>6. priced => \A e \in own : PostingOf(e, h).priced
    BY DEF AllPriced
<1> HIDE DEF priced
<1>7. /\ position.raw = SumOver(raws, own) /\ position.shares = SumOver(shares, own)
      /\ position.count = Cardinality(own)
      /\ position.value # None => priced /\ position.value = SumOver(values, own)
    BY <1>4, <1>5
<1> QED BY <1>6, <1>7 DEF own, raws, shares, values, position

\* LedgerFollowsChain.  Of every fact exactly one entry is kept, and of every mistake one and one
\* that takes it back, so a settled ledger conserves raw units and has the chain's raw
\* balances; a posted amount of shares differs from the change it stands for by at most the
\* one unit that a floor costs (packages/equity-ledger/src/postings.ts:318-436).
THEOREM PositionsFollowChain == Spec => []LedgerFollowsChain
<1>1. LedgerHolds => LedgerFollowsChain
    <2> SUFFICES ASSUME LedgerHolds, NEW at \in 0..Len(facts), Settled(at)
                 PROVE  /\ CheckConservation(DedupeEntries(inbox))
                        /\ \A h \in Holders :
                              LET position == ProjectPositions(inbox, at)[h]
                              IN  /\ position.raw = RawAt(h, at)
                                  /\ Abs(position.shares - Shares(RawAt(h, at), MultiplierAt(at)))
                                         <= position.count
        BY DEF LedgerFollowsChain
    <2>1. CheckConservation(DedupeEntries(inbox))
        BY Conserved
    <2>2. ASSUME NEW h \in Holders
          PROVE  LET position == ProjectPositions(inbox, at)[h]
                 IN  /\ position.raw = RawAt(h, at)
                     /\ Abs(position.shares - Shares(RawAt(h, at), MultiplierAt(at)))
                            <= position.count
        <3> DEFINE position == ProjectPositions(inbox, at)[h]
                   last == SharesIn(h, at)
                   sum == SumOver(SharesOf(h, at), Own(h, at))
                   count == Cardinality(Own(h, at))
        <3>1. ChainHolds /\ at \in Nat
            BY DEF LedgerHolds, ChainHolds
        <3>2. RawAt(h, at) = RawIn(facts, h, at)
            BY <3>1, RawAtIsSum
        <3>3. Shares(RawAt(h, at), MultiplierAt(at)) = last
            BY <3>2, MultIsAt DEF SharesIn
        <3>4. /\ position.raw = SumOver(RawOf(h, at), Own(h, at))
              /\ position.shares = sum /\ position.count = count
            BY PositionIs
        <3>5. position.raw = RawAt(h, at)
            BY <3>2, <3>4, RawFollows
        <3>6. sum \in Int /\ last \in Nat /\ count \in Nat /\ sum - last \in -count..count
            BY SharesFollow
        <3> HIDE DEF position, last, sum, count
        <3>7. Abs(sum - last) <= count
            BY <3>6 DEF Abs
        <3>8. Abs(position.shares - Shares(RawAt(h, at), MultiplierAt(at))) <= position.count
            BY <3>3, <3>4, <3>7
        <3> QED BY <3>5, <3>8 DEF position
    <2> QED BY <2>1, <2>2
<1> QED BY <1>1, LedgerInvariant, PTL DEF Spec

\* ValueIsWhole.  A settled position that has a value has that of its whole balance
\* (packages/equity-ledger/src/postings.ts:261-269).
THEOREM ValuesAreWhole == Spec => []ValueIsWhole
<1>1. LedgerHolds => ValueIsWhole
    <2> SUFFICES ASSUME LedgerHolds, NEW at \in 0..Len(facts), Settled(at), NEW h \in Holders,
                        ProjectPositions(inbox, at)[h].value # None
                 PROVE  ProjectPositions(inbox, at)[h].value = RawAt(h, at) * Total
        BY DEF ValueIsWhole
    <2> DEFINE own == Own(h, at)
               raws == RawOf(h, at)
               values == ValueOf(h, at)
    <2>1. /\ \A e \in own : PostingOf(e, h).priced
          /\ ProjectPositions(inbox, at)[h].value = SumOver(values, own)
        BY PositionIs
    <2>2. at \in Nat
        BY DEF LedgerHolds, ChainHolds
    <2>3. \A e \in own : e \in Verified(h, at)
        <3> SUFFICES ASSUME NEW e \in own, e \notin Verified(h, at) PROVE FALSE
            OBVIOUS
        <3>1. e \in Mistaken(h, at) \/ e \in Corrections(h, at)
            BY OwnSplits
        <3>2. PostingOf(e, h).priced = FALSE
            BY <3>1, OwnPostings
        <3>3. PostingOf(e, h).priced
            BY <2>1
        <3> QED BY <3>2, <3>3
    <2>4. \A e \in own : raws[e] \in Int /\ values[e] = raws[e] * Total
        <3> SUFFICES ASSUME NEW e \in own PROVE raws[e] \in Int /\ values[e] = raws[e] * Total
            OBVIOUS
        <3>1. e \in Verified(h, at) /\ e \in Own(h, at) /\ e.classification = "VERIFIED"
            BY <2>3 DEF Verified
        <3>2. PostsFact(e, h)
            BY <3>1, OwnIs
        <3>3. PostingOf(e, h).priced
            BY <2>1
        <3>4. PostingOf(e, h).value = PostingOf(e, h).raw * Total
            BY <3>2, <3>3 DEF PostsFact
        <3>5. raws[e] = PostingOf(e, h).raw /\ raws[e] \in Int
            BY <3>1, OwnPostings
        <3>6. values[e] = PostingOf(e, h).value
            BY DEF ValueOf
        <3> QED BY <3>4, <3>5, <3>6
    <2>5. IsFiniteSet(own) /\ Total \in Int
        BY OwnSplits
    <2>6. SumOver(raws, own) = RawAt(h, at)
        BY <2>2, RawFollows, RawAtIsSum
    <2> HIDE DEF own, raws, values
    <2>7. SumOver(values, own) = SumOver(raws, own) * Total
        BY <2>4, <2>5, SumScaled
    <2> QED BY <2>1, <2>6, <2>7
<1> QED BY <1>1, LedgerInvariant, PTL DEF Spec

=============================================================================
