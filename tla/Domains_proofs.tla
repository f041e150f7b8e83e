---------------------------- MODULE Domains_proofs ----------------------------
(***************************************************************************)
(* Proofs about Domains for any number of requests, keys, organisations,   *)
(* domains and primitives: the invariant behind what requests see of the   *)
(* registrations, why a registration may fail at its INSERT, that the      *)
(* answers computed by the score's loop agree, and the gaps of a transfer; *)
(* and the range of a score and how it follows the similarities.           *)
(***************************************************************************)
EXTENDS Domains, WellFoundedInduction, TLAPS

(***************************************************************************)
(* Arithmetic of products and quotients.                                   *)
(***************************************************************************)

\* The numbers scores are made of: halves and tenths of One are whole, and so
\* are the digits of its tenth and of the cap.
LEMMA Scale ==
  /\ Digit = 10 /\ One \in Nat /\ Cap \in Nat
  /\ One \div 2 \in Nat /\ 2 * (One \div 2) = One
  /\ \E j \in Nat : One \div 10 = j * Digit /\ One = 10 * (j * Digit)
  /\ \E k \in Nat : Cap = k * Digit
BY DEF Digit, One, Cap

\* Products grow with their factors.
LEMMA ProductsGrow ==
  ASSUME NEW a \in Nat, NEW b \in Nat, NEW c \in Nat, a <= b
  PROVE  c * a <= c * b /\ c * a \in Nat
<1>1. PICK e \in Nat : b = a + e
  <2>1. b - a \in Nat /\ b = a + (b - a)
    OBVIOUS
  <2>2. QED
    BY <2>1
<1>2. c * b = c * a + c * e /\ c * a \in Nat /\ c * e \in Nat
  BY <1>1
<1>3. QED
  BY <1>2

\* Quotients grow with what is divided.
LEMMA QuotientsGrow ==
  ASSUME NEW a \in Nat, NEW b \in Nat, NEW c \in Nat \ {0}, a <= b
  PROVE  a \div c \in Nat /\ a \div c <= b \div c
<1> DEFINE p == a \div c
           q == b \div c
<1>1. p \in Nat /\ q \in Nat /\ c * p <= a /\ b < c * (q + 1)
  OBVIOUS
<1> HIDE DEF p, q
<1>2. ~(q + 1 <= p)
  BY <1>1, ProductsGrow
<1>3. QED
  BY <1>1, <1>2 DEF p, q

\* A quotient that is at most k stays so.
LEMMA QuotientBounded ==
  ASSUME NEW a \in Nat, NEW c \in Nat \ {0}, NEW k \in Nat, a < c * (k + 1)
  PROVE  a \div c <= k
<1> DEFINE p == a \div c
<1>1. p \in Nat /\ c * p <= a
  OBVIOUS
<1> HIDE DEF p
<1>2. ~(k + 1 <= p)
  BY <1>1, ProductsGrow
<1>3. QED
  BY <1>1, <1>2 DEF p

\* So does a product with its other factor.
LEMMA FactorsGrow ==
  ASSUME NEW a \in Nat, NEW b \in Nat, NEW w \in {3, 4, 5}, a <= b
  PROVE  a * w \in Nat /\ b * w \in Nat /\ a * w <= b * w
OBVIOUS

\* A weighted sum of numbers that are at most m, and one more term.
LEMMA TermBounded ==
  ASSUME NEW m \in Nat, NEW a \in Nat, NEW b \in Nat, NEW x \in 0..m, NEW w \in {3, 4, 5},
         a <= m * b
  PROVE  a + x * w \in Nat /\ b + w \in Nat \ {0} /\ a + x * w <= m * (b + w)
<1>1. x * w \in Nat /\ x * w <= m * w
  BY FactorsGrow
<1>2. m * (b + w) = m * b + m * w /\ m * b \in Nat /\ m * w \in Nat
  OBVIOUS
<1>3. QED
  BY <1>1, <1>2

\* A rounded quotient is at most the whole digits that bound it.
LEMMA RoundedBounded ==
  ASSUME NEW n \in Nat, NEW d \in Nat \ {0}, NEW k \in Nat, n <= k * Digit * d
  PROVE  Rounded(n, d) \in Nat /\ Rounded(n, d) <= k * Digit
<1> DEFINE a == 2 * n + d * 10
           c == 2 * d * 10
           e == k * d
<1>1. e \in Nat /\ n <= 10 * e
  BY Scale
<1>2. c * (k + 1) = 20 * e + 20 * d
  OBVIOUS
<1>3. a \in Nat /\ c \in Nat \ {0}
  OBVIOUS
<1>4. a < c * (k + 1)
  <2> HIDE DEF e, c
  <2>1. QED
    BY <1>1, <1>2
<1> HIDE DEF a, c
<1>5. a \div c \in Nat /\ a \div c <= k
  BY <1>3, <1>4, QuotientBounded, QuotientsGrow
<1>6. Rounded(n, d) = (a \div c) * 10
  BY Scale DEF Rounded, a, c
<1>7. QED
  BY <1>5, <1>6, Scale

\* Rounding keeps the order of quotients of one divisor.
LEMMA RoundedGrows ==
  ASSUME NEW n \in Nat, NEW m \in Nat, NEW d \in Nat \ {0}, n <= m
  PROVE  Rounded(n, d) \in Nat /\ Rounded(m, d) \in Nat /\ Rounded(n, d) <= Rounded(m, d)
<1> DEFINE a == 2 * n + d * 10
           b == 2 * m + d * 10
           c == 2 * d * 10
<1>1. a \in Nat /\ b \in Nat /\ a <= b /\ c \in Nat \ {0}
  OBVIOUS
<1>2. Rounded(n, d) = (a \div c) * 10 /\ Rounded(m, d) = (b \div c) * 10
  BY Scale DEF Rounded
<1> HIDE DEF a, b, c
<1>3. a \div c \in Nat /\ b \div c \in Nat /\ a \div c <= b \div c
  BY <1>1, QuotientsGrow
<1>4. QED
  BY <1>2, <1>3

\* So does the cap, which is never exceeded.
LEMMA CappedInRange ==
  ASSUME NEW n \in Nat, NEW d \in Nat \ {0}
  PROVE  Capped(n, d) \in 0..Cap
<1>1. CASE n >= Cap * d
  BY <1>1, Scale DEF Capped
<1>2. CASE ~(n >= Cap * d)
  <2>1. PICK k \in Nat : Cap = k * Digit
    BY Scale
  <2>2. n <= k * Digit * d
    <3>1. Cap * d \in Nat
      BY Scale
    <3>2. QED
      BY <1>2, <2>1, <3>1
  <2>3. Rounded(n, d) \in Nat /\ Rounded(n, d) <= Cap
    BY <2>1, <2>2, RoundedBounded
  <2>4. QED
    BY <1>2, <2>3, Scale DEF Capped
<1>3. QED
  BY <1>1, <1>2

LEMMA CappedGrows ==
  ASSUME NEW n \in Nat, NEW m \in Nat, NEW d \in Nat \ {0}, n <= m
  PROVE  Capped(n, d) <= Capped(m, d)
<1> DEFINE e == Cap * d
<1>1. e \in Nat
  BY Scale
<1>2. /\ Capped(n, d) = IF n >= e THEN Cap ELSE Rounded(n, d)
      /\ Capped(m, d) = IF m >= e THEN Cap ELSE Rounded(m, d)
  BY DEF Capped
<1> HIDE DEF e
<1>3. CASE m >= e
  <2>1. Capped(m, d) = Cap /\ Capped(n, d) \in 0..Cap
    BY <1>2, <1>3, CappedInRange
  <2>2. QED
    BY <2>1, Scale
<1>4. CASE ~(m >= e)
  <2>1. ~(n >= e)
    BY <1>1, <1>4
  <2>2. QED
    BY <1>2, <1>4, <2>1, RoundedGrows
<1>5. QED
  BY <1>3, <1>4

\* A capped quotient is at most its rounded bound.
LEMMA CappedBounded ==
  ASSUME NEW n \in Nat, NEW d \in Nat \ {0}, NEW k \in Nat, n <= k * Digit * d
  PROVE  Capped(n, d) <= k * Digit
<1>1. CASE n >= Cap * d
  <2>1. Cap * d <= (k * Digit) * d
    <3>1. Cap * d \in Nat
      BY Scale
    <3>2. QED
      BY <1>1, <3>1, Scale
  <2>2. Cap <= k * Digit
    <3> DEFINE e == k * Digit
    <3>1. e \in Nat
      BY Scale
    <3> HIDE DEF e
    <3>2. Cap * d <= e * d
      BY <2>1 DEF e
    <3>3. ~(e + 1 <= Cap)
      <4>1. SUFFICES ASSUME e + 1 <= Cap PROVE FALSE
        OBVIOUS
      <4>2. d * (e + 1) <= d * Cap
        BY <3>1, <4>1, ProductsGrow, Scale
      <4>3. d * (e + 1) = e * d + d /\ d * Cap = Cap * d /\ e * d \in Nat /\ Cap * d \in Nat
        BY <3>1, Scale
      <4>4. QED
        BY <3>2, <4>2, <4>3
    <3>4. Cap <= e
      BY <3>1, <3>3, Scale
    <3>5. QED
      BY <3>4 DEF e
  <2>3. QED
    BY <1>1, <2>2 DEF Capped
<1>2. CASE ~(n >= Cap * d)
  BY <1>2, RoundedBounded DEF Capped
<1>3. QED
  BY <1>1, <1>2

USE DomainConstants, ScoringConstants DEF requestVars

(***************************************************************************)
(* Induction over the numbers, from the least element of a set of them:    *)
(* what the recursive functions of Scoring compute.                        *)
(***************************************************************************)

\* A set of numbers that is not empty has a least one.
LEMMA LeastElement ==
  ASSUME NEW T, T \subseteq Nat, T # {}
  PROVE  \E n \in T : \A m \in T : n <= m
<1> DEFINE R == OpToRel(<, Nat)
<1>1. IsWellFoundedOn(R, Nat)
  BY NatLessThanWellFounded
<1>2. \A m, n \in Nat : m < n => <<m, n>> \in R
  BY DEF OpToRel
<1> HIDE DEF R
<1>3. PICK n \in T : \A m \in T : ~(<<m, n>> \in R)
  BY <1>1, WFMin
<1>4. \A m \in T : m \in Nat /\ n \in Nat /\ ~(m < n)
  BY <1>2, <1>3
<1>5. QED
  BY <1>4

\* A set that has 0, and with a number the next, has them all.
LEMMA SetInduction ==
  ASSUME NEW S, 0 \in S, \A n \in Nat : n \in S => n + 1 \in S
  PROVE  Nat \subseteq S
<1>1. SUFFICES ASSUME Nat \ S # {} PROVE FALSE
  OBVIOUS
<1>2. PICK n \in Nat \ S : \A m \in Nat \ S : n <= m
  BY <1>1, LeastElement
<1>3. n # 0 /\ n - 1 \in Nat /\ n - 1 \in S
  BY <1>2
<1>4. QED
  BY <1>2, <1>3

\* Nothing of a list is missing in the list itself.
LEMMA NothingMissing ==
  ASSUME NEW s, Len(s) \in Nat, DOMAIN s = 1..Len(s)
  PROVE  Missing(s, s) = <<>>
<1> DEFINE n == Len(s)
           P(g) == g = [i \in 0..n |->
                          IF i = 0 THEN <<>>
                          ELSE IF s[i] \in Elements(s) THEN g[i - 1]
                               ELSE Append(g[i - 1], s[i])]
           kept == CHOOSE g : P(g)
<1>1. \A i \in 0..n : i # 0 => s[i] \in Elements(s)
  BY DEF Elements
<1>2. P([i \in 0..n |-> <<>>])
  BY <1>1
<1>3. P(kept)
  <2> HIDE DEF P
  <2>1. QED
    BY <1>2
<1>4. Missing(s, s) = kept[n]
  BY DEF Missing
<1>5. n \in Nat
  OBVIOUS
<1> HIDE DEF kept, n
<1>6. ASSUME NEW i \in 0..n
      PROVE  kept[i] = IF i = 0 THEN <<>>
                       ELSE IF s[i] \in Elements(s) THEN kept[i - 1]
                            ELSE Append(kept[i - 1], s[i])
  BY <1>3, Zenon
<1>7. kept[0] = <<>> /\ \A i \in 1..n : kept[i] = kept[i - 1]
  BY <1>1, <1>5, <1>6
<1> DEFINE S == {k \in Nat : k <= n => kept[k] = <<>>}
<1>8. 0 \in S
  BY <1>7
<1>9. ASSUME NEW k \in Nat, k \in S PROVE k + 1 \in S
  BY <1>5, <1>7, <1>9
<1>10. Nat \subseteq S
  <2> HIDE DEF S
  <2>1. QED
    BY <1>8, <1>9, SetInduction
<1>11. QED
  BY <1>4, <1>5, <1>10

\* A refinement with the primitives that are there changes nothing.
LEMMA MergedSame ==
  ASSUME NEW strategy \in Strategies, NEW s \in Seq(Prims)
  PROVE  Merged(strategy, s, s) = s
<1>1. Missing(s, s) = <<>>
  BY NothingMissing
<1>2. s \o <<>> = s
  OBVIOUS
<1>3. QED
  BY <1>1, <1>2 DEF Merged

\* What the loops of the score and of the matrix row compute, step by step.
Looped(s, raw, wts, loop) ==
  /\ WeightedSum(s) = raw[Len(s)] /\ WeightTotal(s) = wts[Len(s)]
  /\ \A base, blend : Cell(s, base, blend) =
       IF blend
       THEN Capped(6 * loop[Len(s)].raw + 4 * base * loop[Len(s)].w, 10 * loop[Len(s)].w)
       ELSE Capped(loop[Len(s)].raw, loop[Len(s)].w)
  /\ raw[0] = 0 /\ wts[0] = 0 /\ loop[0].raw = 0 /\ loop[0].w = 0
  /\ \A i \in 1..Len(s) :
       /\ raw[i] = raw[i - 1] + s[i] * Weight(i)
       /\ wts[i] = wts[i - 1] + Weight(i)
       /\ loop[i].raw = loop[i - 1].raw + s[i] * Weight(i)
       /\ loop[i].w = loop[i - 1].w + Weight(i)

LEMMA Loops ==
  ASSUME NEW s, Len(s) \in Nat
  PROVE  \E raw, wts, loop : Looped(s, raw, wts, loop)
<1> DEFINE n == Len(s)
           term(i) == s[i] * Weight(i)
           wt(i) == Weight(i)
           Raw(g) == g = [i \in 0..n |-> IF i = 0 THEN 0 ELSE g[i - 1] + term(i)]
           Wts(g) == g = [i \in 0..n |-> IF i = 0 THEN 0 ELSE g[i - 1] + wt(i)]
           Both(g, k) == g = [i \in 0..k |->
                            IF i = 0 THEN [raw |-> 0, w |-> 0]
                            ELSE [raw |-> g[i - 1].raw + term(i), w |-> g[i - 1].w + wt(i)]]
           raw == CHOOSE g : Raw(g)
           wts == CHOOSE g : Wts(g)
           loop == CHOOSE g : Both(g, n)
<1>1. /\ WeightedSum(s) = raw[n]
      /\ WeightTotal(s) = wts[n]
      /\ \A base, blend : Cell(s, base, blend) =
           IF blend THEN Capped(6 * loop[n].raw + 4 * base * loop[n].w, 10 * loop[n].w)
                    ELSE Capped(loop[n].raw, loop[n].w)
  BY DEF WeightedSum, WeightTotal, Cell
<1> HIDE DEF term, wt
<1> DEFINE S == {k \in Nat : \E g : Both(g, k)}
<1>2. 0 \in S
  <2>1. Both([i \in 0..0 |-> [raw |-> 0, w |-> 0]], 0)
    OBVIOUS
  <2>2. QED
    BY <2>1
<1>3. ASSUME NEW k \in Nat, k \in S PROVE k + 1 \in S
  <2>1. PICK g : Both(g, k)
    BY <1>3
  <2> DEFINE next == [raw |-> g[k].raw + term(k + 1), w |-> g[k].w + wt(k + 1)]
             h == [i \in 0..(k + 1) |-> IF i <= k THEN g[i] ELSE next]
  <2>2. ASSUME NEW i \in 0..(k + 1)
        PROVE  h[i] = IF i = 0 THEN [raw |-> 0, w |-> 0]
                      ELSE [raw |-> h[i - 1].raw + term(i), w |-> h[i - 1].w + wt(i)]
    <3>1. CASE i <= k
      BY <2>1, <3>1
    <3>2. CASE i = k + 1
      BY <3>2
    <3>3. QED
      BY <3>1, <3>2
  <2>3. Both(h, k + 1)
    BY <2>2
  <2> HIDE DEF Both
  <2>4. QED
    BY <2>3
<1>4. n \in S
  <2> HIDE DEF S
  <2>1. QED
    BY <1>2, <1>3, SetInduction
<1>5. Both(loop, n)
  <2>1. \E g : Both(g, n)
    BY <1>4
  <2> HIDE DEF Both
  <2>2. QED
    BY <2>1
<1>n. n \in Nat
  OBVIOUS
<1> HIDE DEF loop, n
<1>6. ASSUME NEW i \in 0..n
      PROVE  loop[i] = IF i = 0 THEN [raw |-> 0, w |-> 0]
                       ELSE [raw |-> loop[i - 1].raw + term(i),
                             w |-> loop[i - 1].w + wt(i)]
  BY <1>5, Zenon
<1>7. /\ loop[0].raw = 0 /\ loop[0].w = 0
      /\ \A i \in 1..n : /\ loop[i].raw = loop[i - 1].raw + term(i)
                         /\ loop[i].w = loop[i - 1].w + wt(i)
  <2> DEFINE first == [raw |-> 0, w |-> 0]
             next(i) == [raw |-> loop[i - 1].raw + term(i), w |-> loop[i - 1].w + wt(i)]
  <2>1. first.raw = 0 /\ first.w = 0
        /\ \A i : /\ next(i).raw = loop[i - 1].raw + term(i)
                  /\ next(i).w = loop[i - 1].w + wt(i)
    OBVIOUS
  <2>2. \A i \in 0..n : loop[i] = IF i = 0 THEN first ELSE next(i)
    BY <1>6
  <2> HIDE DEF first, next
  <2>3. loop[0] = first /\ \A i \in 1..n : loop[i] = next(i)
    BY <1>n, <2>2
  <2>4. QED
    BY <2>1, <2>3
<1>8. Raw(raw) /\ Wts(wts)
  <2> DEFINE f == [i \in 0..n |-> loop[i].raw]
             g == [i \in 0..n |-> loop[i].w]
  <2>1. ASSUME NEW i \in 0..n
        PROVE  /\ f[i] = IF i = 0 THEN 0 ELSE f[i - 1] + term(i)
               /\ g[i] = IF i = 0 THEN 0 ELSE g[i - 1] + wt(i)
    <3>1. i # 0 => i - 1 \in 0..n /\ i \in 1..n
      BY <1>n
    <3>2. CASE i = 0
      BY <1>7, <3>2
    <3>3. CASE i # 0
      BY <1>7, <3>1, <3>3
    <3>4. QED
      BY <3>2, <3>3
  <2>2. Raw(f) /\ Wts(g)
    <3>1. f = [i \in 0..n |-> f[i]] /\ g = [i \in 0..n |-> g[i]]
      OBVIOUS
    <3> HIDE DEF f, g
    <3>2. QED
      BY <2>1, <3>1
  <2> HIDE DEF f, g, Raw, Wts
  <2>3. QED
    BY <2>2
<1> HIDE DEF raw, wts
<1>9. /\ raw[0] = 0 /\ wts[0] = 0
      /\ \A i \in 1..n : raw[i] = raw[i - 1] + term(i) /\ wts[i] = wts[i - 1] + wt(i)
  BY <1>n, <1>8
<1>10. Looped(s, raw, wts, loop)
  BY <1>1, <1>7, <1>9 DEF Looped, n, term, wt
<1>11. QED
  BY <1>10, Zenon

\* The loop of the matrix row computes the two sums of the score.
LEMMA CellIsScore ==
  ASSUME NEW s, NEW base, NEW blend \in BOOLEAN, Len(s) \in Nat
  PROVE  Cell(s, base, blend) = Score(s, base, blend)
<1> DEFINE n == Len(s)
<1>1. PICK raw, wts, loop : Looped(s, raw, wts, loop)
  BY Loops
<1> USE DEF Looped
<1> DEFINE T == {k \in Nat : k <= n => loop[k].raw = raw[k] /\ loop[k].w = wts[k]}
<1>2. 0 \in T
  BY <1>1
<1>3. ASSUME NEW k \in Nat, k \in T PROVE k + 1 \in T
  <2>1. SUFFICES ASSUME k + 1 <= n
                 PROVE  loop[k + 1].raw = raw[k + 1] /\ loop[k + 1].w = wts[k + 1]
    OBVIOUS
  <2>2. loop[k].raw = raw[k] /\ loop[k].w = wts[k]
    BY <1>3, <2>1
  <2>3. /\ raw[k + 1] = raw[k] + s[k + 1] * Weight(k + 1)
        /\ wts[k + 1] = wts[k] + Weight(k + 1)
        /\ loop[k + 1].raw = loop[k].raw + s[k + 1] * Weight(k + 1)
        /\ loop[k + 1].w = loop[k].w + Weight(k + 1)
    BY <1>1, <2>1
  <2>4. QED
    BY <2>2, <2>3
<1>4. n \in T
  <2> HIDE DEF T
  <2>1. QED
    BY <1>2, <1>3, SetInduction
<1>5. loop[n].raw = raw[n] /\ loop[n].w = wts[n]
  BY <1>4
<1>6. QED
  BY <1>1, <1>5 DEF Score

(***************************************************************************)
(* The range of a score, and how it depends on the similarities.           *)
(***************************************************************************)

Similarities(s) == Len(s) \in Nat /\ Len(s) > 0 /\ \A i \in 1..Len(s) : s[i] \in 0..One

\* The weighted sum of similarities is at most that of as many ones.
LEMMA SumsBounded ==
  ASSUME NEW s, Similarities(s)
  PROVE  /\ WeightedSum(s) \in Nat /\ WeightTotal(s) \in Nat \ {0}
         /\ WeightedSum(s) <= One * WeightTotal(s)
<1> DEFINE n == Len(s)
<1>0. One \in Nat
  BY Scale
<1>1. n \in Nat /\ n > 0 /\ \A i \in 1..n : s[i] \in 0..One /\ Weight(i) \in {3, 4, 5}
  BY DEF Similarities, Weight
<1>2. PICK raw, wts, loop : Looped(s, raw, wts, loop)
  BY <1>1, Loops
<1> DEFINE Fine(k) == /\ raw[k] \in Nat /\ wts[k] \in Nat /\ (k > 0 => wts[k] > 0)
                      /\ raw[k] <= One * wts[k]
           T == {k \in Nat : k <= n => Fine(k)}
<1>3. 0 \in T
  <2>1. raw[0] = 0 /\ wts[0] = 0
    BY <1>2 DEF Looped
  <2>2. QED
    BY <1>0, <2>1
<1>4. ASSUME NEW k \in Nat, k \in T PROVE k + 1 \in T
  <2>1. SUFFICES ASSUME k + 1 <= n PROVE Fine(k + 1)
    OBVIOUS
  <2>2. Fine(k)
    BY <1>1, <1>4, <2>1
  <2>3. raw[k + 1] = raw[k] + s[k + 1] * Weight(k + 1) /\ wts[k + 1] = wts[k] + Weight(k + 1)
    BY <1>1, <1>2, <2>1 DEF Looped
  <2>4. s[k + 1] \in 0..One /\ Weight(k + 1) \in {3, 4, 5}
    BY <1>1, <2>1
  <2> DEFINE x == s[k + 1]
             w == Weight(k + 1)
             a == raw[k]
             b == wts[k]
  <2>5. a \in Nat /\ b \in Nat /\ a <= One * b /\ w \in {3, 4, 5} /\ x \in 0..One
    BY <2>2, <2>4
  <2> HIDE DEF x, w, a, b
  <2>6. a + x * w \in Nat /\ b + w \in Nat \ {0} /\ a + x * w <= One * (b + w)
    BY <1>0, <2>5, TermBounded
  <2>7. raw[k + 1] = a + x * w /\ wts[k + 1] = b + w
    BY <2>3 DEF x, w, a, b
  <2>8. QED
    BY <2>6, <2>7
<1>5. Fine(n)
  <2>1. n \in T
    <3> HIDE DEF T
    <3>1. QED
      BY <1>1, <1>3, <1>4, SetInduction
  <2>2. QED
    BY <2>1
<1>6. QED
  BY <1>1, <1>2, <1>5 DEF Looped

\* Where similarities are higher, so is their sum; the weights are the same.
LEMMA SumsGrow ==
  ASSUME NEW s, NEW t, Similarities(s), Similarities(t), Len(s) = Len(t),
         \A i \in 1..Len(s) : s[i] <= t[i]
  PROVE  WeightedSum(s) <= WeightedSum(t) /\ WeightTotal(s) = WeightTotal(t)
<1> DEFINE n == Len(s)
<1>0. One \in Nat
  BY Scale
<1>1. /\ n \in Nat
      /\ \A i \in 1..n : s[i] \in Nat /\ t[i] \in Nat /\ s[i] <= t[i] /\ Weight(i) \in {3, 4, 5}
  BY <1>0 DEF Similarities, Weight
<1>2. PICK raws, wtss, loops : Looped(s, raws, wtss, loops)
  BY <1>1, Loops
<1>3. PICK rawt, wtst, loopt : Looped(t, rawt, wtst, loopt)
  BY <1>1, Loops
<1> DEFINE Fine(k) == /\ raws[k] \in Nat /\ rawt[k] \in Nat /\ wtss[k] \in Nat
                      /\ raws[k] <= rawt[k] /\ wtss[k] = wtst[k]
           T == {k \in Nat : k <= n => Fine(k)}
<1>4. 0 \in T
  BY <1>2, <1>3 DEF Looped
<1>5. ASSUME NEW k \in Nat, k \in T PROVE k + 1 \in T
  <2>1. SUFFICES ASSUME k + 1 <= n PROVE Fine(k + 1)
    OBVIOUS
  <2>2. Fine(k)
    BY <1>1, <1>5, <2>1
  <2>3. raws[k + 1] = raws[k] + s[k + 1] * Weight(k + 1) /\ wtss[k + 1] = wtss[k] + Weight(k + 1)
    BY <1>1, <1>2, <2>1 DEF Looped
  <2>4. rawt[k + 1] = rawt[k] + t[k + 1] * Weight(k + 1) /\ wtst[k + 1] = wtst[k] + Weight(k + 1)
    BY <1>1, <1>3, <2>1 DEF Looped
  <2>5. s[k + 1] \in Nat /\ t[k + 1] \in Nat /\ s[k + 1] <= t[k + 1] /\ Weight(k + 1) \in {3, 4, 5}
    BY <1>1, <2>1
  <2>6. /\ s[k + 1] * Weight(k + 1) \in Nat /\ t[k + 1] * Weight(k + 1) \in Nat
        /\ s[k + 1] * Weight(k + 1) <= t[k + 1] * Weight(k + 1)
    BY <2>5, FactorsGrow
  <2> DEFINE x == s[k + 1] * Weight(k + 1)
             y == t[k + 1] * Weight(k + 1)
  <2> HIDE DEF x, y
  <2>7. /\ raws[k + 1] = raws[k] + x /\ rawt[k + 1] = rawt[k] + y
        /\ x \in Nat /\ y \in Nat /\ x <= y
    BY <2>3, <2>4, <2>6 DEF x, y
  <2>8. raws[k + 1] \in Nat /\ rawt[k + 1] \in Nat /\ raws[k + 1] <= rawt[k + 1]
    <3> DEFINE a == raws[k]
               b == rawt[k]
    <3>1. a \in Nat /\ b \in Nat /\ a <= b /\ raws[k + 1] = a + x /\ rawt[k + 1] = b + y
      BY <2>2, <2>7
    <3> HIDE DEF a, b
    <3>2. QED
      BY <2>7, <3>1
  <2>9. wtss[k + 1] \in Nat /\ wtss[k + 1] = wtst[k + 1]
    <3> DEFINE a == wtss[k]
               w == Weight(k + 1)
    <3>1. a \in Nat /\ wtst[k] = a
      BY <2>2
    <3>2. wtss[k + 1] = a + w /\ wtst[k + 1] = wtst[k] + w
      BY <2>3, <2>4, Zenon
    <3>3. w \in Nat
      BY <2>5
    <3> HIDE DEF a, w
    <3>4. QED
      BY <3>1, <3>2, <3>3
  <2>10. QED
    BY <2>8, <2>9
<1>6. Fine(n)
  <2>1. n \in T
    <3> HIDE DEF T
    <3>1. QED
      BY <1>1, <1>4, <1>5, SetInduction
  <2>2. QED
    BY <2>1
<1>7. QED
  BY <1>1, <1>2, <1>3, <1>6 DEF Looped

\* The sums of a blended score: 60% of the mean and 40% of the base.
LEMMA BlendFacts ==
  ASSUME NEW sum \in Nat, NEW total \in Nat \ {0}, NEW base \in Nat
  PROVE  6 * sum + 4 * base * total \in Nat /\ 10 * total \in Nat \ {0}
<1> DEFINE z == 4 * base * total
<1>1. z \in Nat
  <2>1. 4 * base \in Nat
    OBVIOUS
  <2>2. QED
    BY <2>1, ProductsGrow
<1> HIDE DEF z
<1>2. 6 * sum + z \in Nat /\ 10 * total \in Nat \ {0}
  BY <1>1
<1>3. QED
  BY <1>2 DEF z

\* The similarities of a skill with a profile, position by position.
LEMMA SimsFacts ==
  ASSUME NEW skill \in Seq(Prims) \ {<<>>}, NEW v \in Profiles
  PROVE  /\ Similarities(Sims(skill, v)) /\ Len(Sims(skill, v)) = Len(skill)
         /\ \A i \in 1..Len(skill) : skill[i] \in Elements(skill) /\ skill[i] \in Prims
                                     /\ Sims(skill, v)[i] = Sim[v][skill[i]]
<1>1. Len(skill) \in Nat /\ Len(skill) > 0 /\ DOMAIN skill = 1..Len(skill)
      /\ \A i \in 1..Len(skill) : skill[i] \in Prims
  OBVIOUS
<1> DEFINE n == Len(skill)
<1>2. Sims(skill, v) = [i \in 1..n |-> Sim[v][skill[i]]]
  BY <1>1 DEF Sims
<1>3. \A i \in 1..n : Sim[v][skill[i]] \in 0..One
  BY <1>1
<1>4. Len(Sims(skill, v)) = n
  BY <1>1, <1>2
<1>5. QED
  BY <1>1, <1>2, <1>3, <1>4 DEF Similarities, Elements

\* The base compatibility is a number between zero and one.
LEMMA BaseFacts ==
  ASSUME NEW id
  PROVE  BaseCompat(id) \in Nat
<1>1. \A x \in 0..One : x \in Nat
  BY Scale
<1>2. CASE id \in BuiltIn
  BY <1>1, <1>2 DEF BaseCompat
<1>3. CASE id \notin BuiltIn
  BY <1>3, Scale DEF BaseCompat
<1>4. QED
  BY <1>2, <1>3

(***************************************************************************)
(* Operations and rows.                                                    *)
(***************************************************************************)

\* What an operation is made of.
LEMMA OpFacts ==
  ASSUME NEW o \in Ops
  PROVE  /\ o.kind \in {"register", "score", "compat", "transfer", "refine"}
         /\ o.kind = "register" => o.id \in Ids /\ o.profile \in Registered
         /\ o.kind \in {"score", "transfer"} => o.target \in Ids
         /\ o.kind = "score" => o.matrix \in BOOLEAN
         /\ o.kind = "transfer" => o.threshold \in Thresholds
BY DEF Ops, Registers, Scores, Compats, Transfers, Refines

\* The clients send nothing else.
LEMMA SentOps == Sent \subseteq Ops
<1>1. 1..Len(versions) \subseteq Nat
  OBVIOUS
<1>2. Asked \subseteq Ids
  BY DEF Ids
<1>3. QED
  BY <1>1, <1>2 DEF Sent, Ops, Registers, Scores, Compats, Transfers, Refines

\* A request that has begun asks for something.
LEMMA Begun ==
  ASSUME TypeOK, NEW r \in Requests, stage[r] # "new"
  PROVE  /\ op[r] \in Ops
         /\ op[r].kind \in {"register", "score", "compat", "transfer", "refine"}
         /\ op[r].kind = "register" => op[r].id \in Ids /\ op[r].profile \in Registered
         /\ op[r].kind \in {"score", "transfer"} => op[r].target \in Ids
BY OpFacts DEF TypeOK

\* Where a request has not begun it asks for nothing.
LEMMA KindKnown ==
  ASSUME TypeOK, NEW r \in Requests, op[r].kind # "none"
  PROVE  stage[r] # "new"
BY DEF TypeOK, NoOp

\* A request belongs to an organisation.
LEMMA OrgFacts ==
  ASSUME TypeOK, NEW r \in Requests
  PROVE  Org(r) \in Orgs /\ Org(r) # NoOrg
BY DEF TypeOK, RequestsOK, Org, Orgs

\* The rows of the table.
LEMMA RowFacts ==
  ASSUME TypeOK, NEW id \in Custom
  PROVE  /\ domain[id] = Free \/ domain[id] \in [org : Orgs, profile : Registered]
         /\ domain[id] # Free => domain[id].org # NoOrg /\ domain[id].profile # None
                                 /\ domain[id].profile \in Profiles
<1>1. domain[id] = Free \/ domain[id] \in [org : Orgs, profile : Registered]
  BY DEF TypeOK
<1>2. ASSUME domain[id] \in [org : Orgs, profile : Registered]
      PROVE  domain[id].org \in Orgs /\ domain[id].profile \in Registered
  BY <1>2
<1>3. NoOrg \notin Orgs /\ Registered \subseteq Profiles /\ None \notin Profiles
  BY DEF Orgs
<1>4. QED
  BY <1>1, <1>2, <1>3

\* What a lookup returns, and that it has been seen.
LEMMA VisibleFacts ==
  ASSUME TypeOK, NEW r \in Requests, NEW id \in Ids
  PROVE  /\ Visible(Org(r), id) \in Profiles \cup {None}
         /\ Visible(Org(r), id) # None => Seen(r, id, Visible(Org(r), id))
         /\ \A v : Seen(r, id, v) => Visible(Org(r), id) = v
<1>1. CASE id \in BuiltIn
  BY <1>1 DEF Visible, Seen
<1>2. CASE id \notin BuiltIn
  <2>1. id \in Custom
    BY <1>2 DEF Ids
  <2>2. Org(r) # NoOrg /\ Org(r) \in Orgs
    BY OrgFacts
  <2>3. CASE domain[id].org = Org(r)
    <3>1. domain[id] \in [org : Orgs, profile : Registered]
      BY <2>1, <2>2, <2>3, RowFacts DEF Free
    <3>2. domain[id] = [org |-> Org(r), profile |-> domain[id].profile]
      BY <2>3, <3>1
    <3>3. QED
      BY <1>2, <2>3, <3>1, <3>2 DEF Visible, Seen
  <2>4. CASE domain[id].org # Org(r)
    BY <1>2, <2>4 DEF Visible, Seen
  <2>5. QED
    BY <2>3, <2>4
<1>3. QED
  BY <1>1, <1>2

(***************************************************************************)
(* The invariant, conjunct by conjunct.                                    *)
(***************************************************************************)

\* Every step keeps the types.
LEMMA TypeStep ==
  ASSUME TypeOK, Placed, [Next]_vars
  PROVE  TypeOK'
<1> USE DEF TypeOK, RequestsOK, Reach, Stages, tables, locals
<1>1. ASSUME NEW r \in Requests, NEW o \in Sent, Begin(r, o) PROVE TypeOK'
  <2>1. o \in Ops
    BY SentOps
  <2>2. First(o) \in {"check", "exists", "list", "answer"}
    BY <2>1, OpFacts DEF First
  <2>3. QED
    BY <1>1, <2>1, <2>2 DEF Begin, Authenticated
<1>2. ASSUME NEW r \in Requests, Check(r) \/ Exists(r) PROVE TypeOK'
  BY <1>2 DEF Check, Exists, Goto
<1>3. ASSUME NEW r \in Requests, Resolve(r) PROVE TypeOK'
  <2>1. op[r].kind \in {"score", "transfer"} /\ op[r].target \in Ids
    BY <1>3, Begun DEF Resolve, Placed
  <2>2. Visible(Org(r), op[r].target) \in Profiles \cup {None}
    BY <2>1, VisibleFacts
  <2>3. vec' \in [Requests -> Profiles \cup {None}]
    BY <1>3, <2>2 DEF Resolve
  <2>4. at' \in [Requests -> {"check", "insert", "exists", "vector", "verdict", "list",
                              "answer", "error"}]
    BY <1>3, <2>1 DEF Resolve, Goto
  <2>5. QED
    BY <1>3, <2>3, <2>4 DEF Resolve, Goto
<1>4. ASSUME NEW r \in Requests, ResolveImpls(r) PROVE TypeOK'
  <2>1. op[r].kind = "transfer" /\ op[r].target \in Ids
    BY <1>4, Begun DEF ResolveImpls, Placed
  <2>2. Visible(Org(r), op[r].target) \in Profiles \cup {None}
    BY <2>1, VisibleFacts
  <2>3. QED
    BY <1>4, <2>2 DEF ResolveImpls, Goto
<1>5. ASSUME NEW r \in Requests, List(r) PROVE TypeOK'
  <2>1. [id \in Ids |-> Visible(Org(r), id)] \in [Ids -> Profiles \cup {None}]
    BY VisibleFacts
  <2>2. QED
    BY <1>5, <2>1 DEF List, Goto
<1>6. ASSUME NEW r \in Requests, Refuse(r) PROVE TypeOK'
  BY <1>6 DEF Refuse, Refused, Leave
<1>7. ASSUME NEW r \in Requests, Insert(r) PROVE TypeOK'
  BY <1>7 DEF Insert
<1>8. ASSUME NEW r \in Requests, InsertRaises(r) PROVE TypeOK'
  BY <1>8 DEF InsertRaises, Leave
<1>9. ASSUME NEW r \in Requests, Answer(r) PROVE TypeOK'
  BY <1>9 DEF Answer
<1>10. ASSUME NEW r \in Requests, Commit(r) PROVE TypeOK'
  <2>1. domain' \in [Custom -> {Free} \cup [org : Orgs, profile : Registered]]
    <3>1. CASE op[r].kind = "register"
      <4>1. Org(r) \in Orgs /\ op[r].profile \in Registered
        BY <1>10, <3>1, OrgFacts, Begun DEF Commit, Committed
      <4>2. domain' = [domain EXCEPT ![op[r].id] =
                         [org |-> Org(r), profile |-> op[r].profile]]
        BY <1>10, <3>1 DEF Commit
      <4>3. QED
        BY <4>1, <4>2
    <3>2. CASE op[r].kind # "register"
      BY <1>10, <3>2 DEF Commit
    <3>3. QED
      BY <3>1, <3>2
  <2>2. QED
    BY <1>10, <2>1 DEF Commit, Committed
<1>11. ASSUME NEW r \in Requests, Abort(r) PROVE TypeOK'
  BY <1>11 DEF Abort, RolledBack, InTransaction, Leave
<1>12. CASE UNCHANGED vars
  BY <1>12 DEF vars
<1>13. QED
  BY <1>1, <1>2, <1>3, <1>4, <1>5, <1>6, <1>7, <1>8, <1>9, <1>10, <1>11, <1>12
     DEF Next, Proceed

\* A request takes its key only while nobody holds it.
LEMMA KeysStep ==
  ASSUME TypeOK, KeysInTurn, [Next]_vars
  PROVE  KeysInTurn'
<1> USE DEF TypeOK, RequestsOK, Reach, InTransaction, KeysInTurn
<1>1. ASSUME NEW r \in Requests, NEW o \in Sent, Begin(r, o) PROVE KeysInTurn'
  BY <1>1 DEF Begin, Authenticated, KeyFree
<1>2. ASSUME NEW r \in Requests, Proceed(r) \/ Abort(r) PROVE KeysInTurn'
  BY <1>2 DEF Proceed, Check, Exists, Resolve, ResolveImpls, List, Goto, Refuse, Refused,
     Insert, InsertRaises, Answer, Commit, Committed, Abort, RolledBack
<1>3. CASE UNCHANGED <<stage, key>>
  BY <1>3
<1>4. QED
  BY <1>1, <1>2, <1>3 DEF Next, vars

\* Only a commit touches the tables, and it ends its request only.
LEMMA TablesStay ==
  ASSUME NEW r \in Requests, Check(r) \/ Exists(r) \/ Resolve(r) \/ ResolveImpls(r)
         \/ List(r) \/ Refuse(r) \/ Insert(r) \/ InsertRaises(r) \/ Answer(r) \/ Abort(r)
         \/ \E o \in Sent : Begin(r, o)
  PROVE  domain' = domain /\ key' = key
BY DEF Check, Exists, Resolve, ResolveImpls, List, Goto, Refuse, Refused, Leave, Insert,
   InsertRaises, Answer, Abort, RolledBack, Begin, Authenticated, Reach, tables

\* Only the beginning sets what a request asks for.
LEMMA OpStays ==
  ASSUME NEW r \in Requests, Proceed(r) \/ Abort(r)
  PROVE  op' = op /\ key' = key
BY DEF Proceed, Check, Exists, Resolve, ResolveImpls, List, Goto, Refuse, Refused, Leave,
   Insert, InsertRaises, Answer, Commit, Committed, Abort, RolledBack, Reach

\* A handler stays where its request belongs.
LEMMA PlacedStep ==
  ASSUME TypeOK, Placed, [Next]_vars
  PROVE  Placed'
<1> USE DEF TypeOK, RequestsOK, Placed, Reach
<1>1. ASSUME NEW r \in Requests, NEW o \in Sent, Begin(r, o) PROVE Placed'
  <2>1. o.kind \in {"register", "score", "compat", "transfer", "refine"}
    BY SentOps, OpFacts
  <2>2. /\ o.kind = "register" => First(o) = "check"
        /\ o.kind \in {"score", "transfer"} => First(o) = "exists"
        /\ o.kind = "compat" => First(o) = "list"
        /\ o.kind = "refine" => First(o) = "answer"
    BY <2>1 DEF First
  <2>3. stage[r] = "new" /\ stage' = [stage EXCEPT ![r] = "open"]
        /\ op' = [op EXCEPT ![r] = o] /\ at' = [at EXCEPT ![r] = First(o)]
    BY <1>1 DEF Begin, Authenticated
  <2>4. QED
    BY <2>1, <2>2, <2>3
<1>2. ASSUME NEW r \in Requests, Check(r) PROVE Placed'
  <2>1. op[r].id \in Custom
    <3>1. op[r].kind = "register" /\ op[r].id \in Ids
      BY <1>2, Begun DEF Check
    <3>2. op[r].id \notin BuiltIn
      BY <1>2 DEF Check, Visible
    <3>3. QED
      BY <3>1, <3>2 DEF Ids
  <2>2. QED
    BY <1>2, <2>1 DEF Check, Goto
<1>3. ASSUME NEW r \in Requests, Exists(r) PROVE Placed'
  BY <1>3 DEF Exists, Goto
<1>4. ASSUME NEW r \in Requests, Resolve(r) PROVE Placed'
  BY <1>4 DEF Resolve, Goto
<1>5. ASSUME NEW r \in Requests, ResolveImpls(r) PROVE Placed'
  BY <1>5 DEF ResolveImpls, Goto
<1>6. ASSUME NEW r \in Requests, List(r) PROVE Placed'
  BY <1>6 DEF List, Goto
<1>7. ASSUME NEW r \in Requests, Refuse(r) PROVE Placed'
  BY <1>7 DEF Refuse, Refused, Leave
<1>8. ASSUME NEW r \in Requests, Insert(r) PROVE Placed'
  BY <1>8 DEF Insert
<1>9. ASSUME NEW r \in Requests, InsertRaises(r) PROVE Placed'
  BY <1>9 DEF InsertRaises, Leave
<1>10. ASSUME NEW r \in Requests, Answer(r) PROVE Placed'
  BY <1>10 DEF Answer
<1>11. ASSUME NEW r \in Requests, Commit(r) PROVE Placed'
  BY <1>11 DEF Commit, Committed
<1>12. ASSUME NEW r \in Requests, Abort(r) PROVE Placed'
  BY <1>12 DEF Abort, RolledBack, InTransaction, Leave
<1>13. CASE UNCHANGED vars
  BY <1>13 DEF vars
<1>14. QED
  BY <1>1, <1>2, <1>3, <1>4, <1>5, <1>6, <1>7, <1>8, <1>9, <1>10, <1>11, <1>12, <1>13
     DEF Next, Proceed

\* A registration commits a row of its own under an id that is still free.
LEMMA CommitRegister ==
  ASSUME TypeOK, Placed, RegistrationKept, NEW r \in Requests, Commit(r),
         op[r].kind = "register"
  PROVE  /\ op[r].id \in Custom /\ domain[op[r].id] = Free
         /\ domain' = [domain EXCEPT ![op[r].id] =
                         [org |-> Org(r), profile |-> op[r].profile]]
         /\ [org |-> Org(r), profile |-> op[r].profile] # Free
<1>1. stage[r] = "written"
  BY DEF Commit, Committed
<1>2. op[r].id \in Custom /\ domain[op[r].id] = Free
  BY <1>1 DEF Placed, RegistrationKept
<1>3. Org(r) # NoOrg
  BY OrgFacts
<1>4. QED
  BY <1>2, <1>3 DEF Commit, Free

\* A row, once there, stays as it is.
LEMMA RowsStay ==
  ASSUME TypeOK, Placed, RegistrationKept, [Next]_vars,
         NEW id \in Custom, domain[id] # Free
  PROVE  domain'[id] = domain[id]
<1> USE DEF TypeOK
<1>1. ASSUME NEW r \in Requests, Commit(r) PROVE domain'[id] = domain[id]
  <2>1. CASE op[r].kind = "register"
    BY <1>1, <2>1, CommitRegister
  <2>2. CASE op[r].kind # "register"
    BY <1>1, <2>2 DEF Commit
  <2>3. QED
    BY <2>1, <2>2
<1>2. CASE UNCHANGED vars
  BY <1>2 DEF vars
<1>3. QED
  BY <1>1, <1>2, TablesStay DEF Next, Proceed

\* What a request is about, and to which organisation it belongs, is fixed
\* once it has begun.
LEMMA Fixed ==
  ASSUME TypeOK, [Next]_vars, NEW r \in Requests
  PROVE  /\ stage[r] # "new" => op'[r] = op[r] /\ stage'[r] # "new"
         /\ key'[r] = key[r] /\ Org(r)' = Org(r)
         /\ stage[r] = "done" => stage'[r] = "done"
<1> USE DEF TypeOK, RequestsOK, Reach, InTransaction
<1>1. ASSUME NEW q \in Requests, NEW o \in Sent, Begin(q, o)
      PROVE  /\ stage[r] # "new" => op'[r] = op[r] /\ stage'[r] # "new"
             /\ key' = key /\ (stage[r] = "done" => stage'[r] = "done")
  BY <1>1 DEF Begin, Authenticated
<1>2. ASSUME NEW q \in Requests, Proceed(q) \/ Abort(q)
      PROVE  /\ stage[r] # "new" => op'[r] = op[r] /\ stage'[r] # "new"
             /\ key' = key /\ (stage[r] = "done" => stage'[r] = "done")
  <2>1. op' = op /\ key' = key
    BY <1>2, OpStays
  <2>2. stage' = stage \/ \E s \in Stages \ {"new"} :
          stage' = [stage EXCEPT ![q] = s] /\ stage[q] # "done"
    BY <1>2 DEF Proceed, Check, Exists, Resolve, ResolveImpls, List, Goto, Refuse,
       Refused, Insert, InsertRaises, Answer, Commit, Committed, Abort, RolledBack, Stages
  <2>3. QED
    BY <2>1, <2>2
<1>3. CASE UNCHANGED vars
  BY <1>3 DEF vars, Org
<1>4. QED
  BY <1>1, <1>2, <1>3 DEF Next, Org

\* An id is inserted by one transaction at a time, and its row stays.
LEMMA RegistrationStep ==
  ASSUME TypeOK, Placed, RegistrationKept, [Next]_vars
  PROVE  RegistrationKept'
<1> USE DEF TypeOK, RequestsOK, Reach, InTransaction, RegistrationKept, MustWait, Taking
<1>1. ASSUME NEW r \in Requests, NEW o \in Sent, Begin(r, o) PROVE RegistrationKept'
  BY <1>1 DEF Begin, Authenticated, tables, Org
<1>2. ASSUME NEW r \in Requests, Insert(r) PROVE RegistrationKept'
  BY <1>2 DEF Insert, tables, Org
<1>3. ASSUME NEW r \in Requests, Answer(r) PROVE RegistrationKept'
  <2>1. op[r].kind # "register"
    BY <1>3 DEF Answer, Placed
  <2>2. QED
    BY <1>3, <2>1 DEF Answer, tables, Org
<1>4. ASSUME NEW r \in Requests, Commit(r) PROVE RegistrationKept'
  <2>1. stage[r] = "written" /\ stage' = [stage EXCEPT ![r] = "done"]
        /\ op' = op /\ key' = key
    BY <1>4 DEF Commit, Committed
  <2>2. CASE op[r].kind = "register"
    <3>1. op[r].id \in Custom /\ domain[op[r].id] = Free
          /\ domain' = [domain EXCEPT ![op[r].id] =
                          [org |-> Org(r), profile |-> op[r].profile]]
      BY <1>4, <2>2, CommitRegister
    <3>2. ASSUME NEW p \in Requests, op[p].kind = "register", p # r
          PROVE  /\ stage[p] = "done" =>
                      domain'[op[p].id] = [org |-> Org(p), profile |-> op[p].profile]
                 /\ stage[p] = "written" => domain'[op[p].id] = Free
      <4>1. CASE stage[p] = "done"
        <5>1. domain[op[p].id] = [org |-> Org(p), profile |-> op[p].profile]
          BY <3>2, <4>1
        <5>2. domain[op[p].id] # Free
          BY <5>1, OrgFacts DEF Free
        <5>3. QED
          BY <3>1, <4>1, <5>1, <5>2
      <4>2. CASE stage[p] = "written"
        <5>1. op[p].id # op[r].id
          <6>1. ~MustWait(p)
            BY <3>2, <4>2
          <6>2. ~Taking(r, op[p].id)
            BY <3>2, <6>1
          <6>3. QED
            BY <2>1, <2>2, <6>2
        <5>2. domain[op[p].id] = Free
          BY <3>2, <4>2
        <5>3. QED
          BY <3>1, <4>2, <5>1, <5>2
      <4>3. QED
        BY <4>1, <4>2
    <3>3. domain'[op[r].id] = [org |-> Org(r), profile |-> op[r].profile]
      BY <3>1
    <3>4. ASSUME NEW id \in Custom, domain'[id] # Free
          PROVE  \E q \in Requests : op'[q].kind = "register" /\ op'[q].id = id
                                     /\ stage'[q] = "done"
      BY <2>1, <2>2, <3>1, <3>4
    <3>5. QED
      BY <2>1, <2>2, <3>2, <3>3, <3>4 DEF Org
  <2>3. CASE op[r].kind # "register"
    <3>1. domain' = domain
      BY <1>4, <2>3 DEF Commit
    <3>2. QED
      BY <2>1, <2>3, <3>1 DEF Org
  <2>4. QED
    BY <2>2, <2>3
<1>5. ASSUME NEW r \in Requests, Check(r) \/ Exists(r) \/ Resolve(r) \/ ResolveImpls(r)
             \/ List(r) PROVE RegistrationKept'
  <2>1. UNCHANGED <<stage, key, op, domain>>
    BY <1>5 DEF Check, Exists, Resolve, ResolveImpls, List, Goto, tables
  <2>2. QED
    BY <2>1 DEF Org
<1>6. ASSUME NEW r \in Requests, Refuse(r) \/ InsertRaises(r) \/ Abort(r)
      PROVE  RegistrationKept'
  <2>1. UNCHANGED <<key, op, domain>> /\ stage[r] # "done"
        /\ \E s \in {"refused", "failed"} : stage' = [stage EXCEPT ![r] = s]
    BY <1>6 DEF Refuse, Refused, InsertRaises, Abort, RolledBack, Leave, tables
  <2>2. QED
    BY <2>1 DEF Org
<1>7. CASE UNCHANGED vars
  BY <1>7 DEF vars, Org
<1>8. QED
  BY <1>1, <1>2, <1>3, <1>4, <1>5, <1>6, <1>7 DEF Next, Proceed

\* A registration with the same key is over before the check, which sees it,
\* or begins after the INSERT.
LEMMA RivalsStep ==
  ASSUME TypeOK, KeysInTurn, Placed, RegistrationKept, RivalsElsewhere, [Next]_vars
  PROVE  RivalsElsewhere'
<1> USE DEF TypeOK, RequestsOK, Reach, RivalsElsewhere, Rival
<1>1. ASSUME NEW r \in Requests, NEW o \in Sent, Begin(r, o) PROVE RivalsElsewhere'
  <2>1. First(o) \notin {"insert", "error"}
    BY SentOps, OpFacts DEF First
  <2>2. QED
    BY <1>1, <2>1 DEF Begin, Authenticated, tables
<1>2. ASSUME NEW r \in Requests, Check(r) PROVE RivalsElsewhere'
  <2>1. stage[r] = "open" /\ op[r].kind = "register" /\ op[r].id \in Ids
        /\ Visible(Org(r), op[r].id) = None
    BY <1>2, Begun DEF Check, Placed
  <2>2. ASSUME NEW q \in Requests, Rival(q, r) PROVE key[q] # key[r]
    <3>1. domain[op[r].id] = [org |-> Org(q), profile |-> op[q].profile]
          /\ op[q].profile \in Registered
      BY <2>2, Begun DEF RegistrationKept
    <3>2. op[r].id \notin BuiltIn
      BY <2>1 DEF Visible
    <3>3. domain[op[r].id].org # Org(r)
      BY <2>1, <3>1, <3>2 DEF Visible
    <3>4. QED
      BY <3>1, <3>3 DEF Org
  <2>3. QED
    BY <1>2, <2>1, <2>2 DEF Check, Goto, tables
<1>3. ASSUME NEW r \in Requests, Exists(r) \/ ResolveImpls(r) \/ List(r)
      PROVE  RivalsElsewhere'
  BY <1>3 DEF Exists, ResolveImpls, List, Goto, tables
<1>4. ASSUME NEW r \in Requests, Resolve(r) PROVE RivalsElsewhere'
  <2>1. op[r].kind \in {"score", "transfer"}
    BY <1>4 DEF Resolve, Placed
  <2>2. QED
    BY <1>4, <2>1 DEF Resolve, Goto, tables
<1>5. ASSUME NEW r \in Requests, Refuse(r) \/ Abort(r) PROVE RivalsElsewhere'
  <2>1. UNCHANGED <<key, op, domain>> /\ at' = [at EXCEPT ![r] = "answer"]
        /\ \E s \in {"refused", "failed"} : stage' = [stage EXCEPT ![r] = s]
    BY <1>5 DEF Refuse, Refused, Abort, RolledBack, Leave, tables
  <2>2. QED
    BY <2>1
<1>6. ASSUME NEW r \in Requests, Insert(r) \/ Answer(r) PROVE RivalsElsewhere'
  <2>1. UNCHANGED <<key, op, domain, at>> /\ stage' = [stage EXCEPT ![r] = "written"]
    BY <1>6 DEF Insert, Answer, tables
  <2>2. QED
    BY <2>1
<1>7. ASSUME NEW r \in Requests, InsertRaises(r) PROVE RivalsElsewhere'
  BY <1>7 DEF InsertRaises, Leave, tables
<1>8. ASSUME NEW r \in Requests, Commit(r) PROVE RivalsElsewhere'
  <2>1. stage[r] = "written" /\ stage' = [stage EXCEPT ![r] = "done"]
        /\ op' = op /\ key' = key /\ at' = at
    BY <1>8 DEF Commit, Committed
  <2>2. ASSUME NEW p \in Requests, stage'[p] = "open", at[p] = "insert",
               NEW q \in Requests, Rival(q, p)'
        PROVE  key[q] # key[p]
    <3>1. stage[p] = "open"
      BY <2>1, <2>2
    <3>2. CASE q = r
      BY <2>1, <2>2, <3>1, <3>2 DEF KeysInTurn, InTransaction
    <3>3. CASE q # r
      BY <2>1, <2>2, <3>1, <3>3
    <3>4. QED
      BY <3>2, <3>3
  <2>3. ASSUME NEW p \in Requests, at[p] = "error" PROVE domain'[op[p].id] # Free
    <3>1. domain[op[p].id] # Free /\ op[p].id \in Custom
      BY <2>3 DEF Placed
    <3> DEFINE d == op[p].id
    <3> HIDE DEF d
    <3>2. CASE op[r].kind = "register"
      <4>1. domain[d] # Free /\ d \in Custom
        BY <3>1 DEF d
      <4>2. domain'[d] # Free
        BY <1>8, <3>2, <4>1, CommitRegister
      <4>3. QED
        BY <4>2 DEF d
    <3>3. CASE op[r].kind # "register"
      BY <1>8, <3>1, <3>3 DEF Commit
    <3>4. QED
      BY <3>2, <3>3
  <2>4. QED
    BY <2>1, <2>2, <2>3
<1>9. CASE UNCHANGED vars
  BY <1>9 DEF vars
<1>10. QED
  BY <1>1, <1>2, <1>3, <1>4, <1>5, <1>6, <1>7, <1>8, <1>9 DEF Next, Proceed

\* What a request has seen remains so.
LEMMA SeenKept ==
  ASSUME TypeOK, Placed, RegistrationKept, [Next]_vars,
         NEW r \in Requests, NEW id \in Ids, NEW v, v # None, Seen(r, id, v)
  PROVE  Seen(r, id, v)'
<1>1. CASE id \in BuiltIn
  BY <1>1 DEF Seen
<1>2. CASE id \notin BuiltIn
  <2>1. id \in Custom /\ domain[id] = [org |-> Org(r), profile |-> v]
    BY <1>2 DEF Ids, Seen
  <2>2. domain[id] # Free
    BY <2>1, OrgFacts DEF Free
  <2>3. domain'[id] = domain[id] /\ Org(r)' = Org(r)
    BY <2>1, <2>2, RowsStay, Fixed
  <2>4. QED
    BY <1>2, <2>1, <2>3 DEF Seen
<1>3. QED
  BY <1>1, <1>2

\* A step that leaves a request alone leaves what it has seen as it was.
LEMMA SeenAlone ==
  ASSUME TypeOK, Placed, RegistrationKept, [Next]_vars, NEW r \in Requests, SeenBy(r),
         at'[r] = at[r], vec'[r] = vec[r], impls'[r] = impls[r], table'[r] = table[r],
         op'[r] = op[r],
         stage'[r] = stage[r] \/ stage[r] = "open" \/ stage[r] = "written",
         stage'[r] # "new" \/ stage[r] = "new"
  PROVE  SeenBy(r)'
<1>1. ASSUME at[r] \in {"vector", "verdict"}
      PROVE  \E v \in Profiles : Seen(r, op[r].target, v)'
  <2>1. PICK v \in Profiles : Seen(r, op[r].target, v)
    BY <1>1 DEF SeenBy
  <2>2. op[r].target \in Ids
    BY <1>1, KindKnown, Begun DEF Placed
  <2>3. Seen(r, op[r].target, v)'
    <3>1. \A id \in Ids : Seen(r, id, v) => Seen(r, id, v)'
      BY SeenKept
    <3>2. QED
      BY <2>1, <2>2, <3>1 DEF Seen
  <2>4. QED
    BY <2>3
<1>2. ASSUME vec[r] # None PROVE Seen(r, op[r].target, vec[r])'
  <2>1. op[r].target \in Ids /\ Seen(r, op[r].target, vec[r])
    BY <1>2, KindKnown, Begun DEF SeenBy
  <2>2. \A id \in Ids : Seen(r, id, vec[r]) => (Seen(r, id, vec[r]))'
    <3>1. \A id \in Ids : \A v : v # None /\ Seen(r, id, v) => Seen(r, id, v)'
      BY SeenKept
    <3>2. QED
      BY <1>2, <3>1 DEF Seen
  <2>3. QED
    BY <2>1, <2>2 DEF Seen
<1>3. ASSUME NEW id \in Ids, table[r][id] # None PROVE Seen(r, id, table[r][id])'
  <2>1. Seen(r, id, table[r][id])
    BY <1>3 DEF SeenBy
  <2>2. \A v : v # None /\ Seen(r, id, v) => Seen(r, id, v)'
    BY SeenKept
  <2>3. QED
    BY <1>3, <2>1, <2>2 DEF Seen
<1>4. QED
  BY <1>1, <1>2, <1>3 DEF SeenBy

\* No step forgets or loses what a request has seen.
LEMMA SeenStep ==
  ASSUME TypeOK, Placed, RegistrationKept, SeenStays, [Next]_vars
  PROVE  SeenStays'
<1> USE DEF TypeOK, RequestsOK, Reach, InTransaction
<1>1. ASSUME NEW p \in Requests PROVE SeenBy(p)
  BY DEF SeenStays
<1>2. ASSUME NEW r \in Requests, NEW o \in Sent, Begin(r, o) PROVE SeenStays'
  <2>1. stage[r] = "new" /\ stage' = [stage EXCEPT ![r] = "open"]
        /\ op' = [op EXCEPT ![r] = o] /\ at' = [at EXCEPT ![r] = First(o)]
        /\ UNCHANGED <<vec, impls, table, key, domain>>
    BY <1>2 DEF Begin, Authenticated, locals, tables
  <2>2. ASSUME NEW p \in Requests, p # r PROVE SeenBy(p)'
    BY <1>1, <2>1, <2>2, SeenAlone
  <2>3. SeenBy(r)'
    <3>1. o.kind \in {"score", "transfer"} => First(o) = "exists"
      BY DEF First
    <3>2. First(o) \notin {"vector", "verdict"}
      BY SentOps, OpFacts DEF First
    <3>3. vec[r] = None /\ impls[r] = None /\ \A id \in Ids : table[r][id] = None
      BY <1>1, <2>1 DEF SeenBy
    <3>4. QED
      BY <2>1, <3>1, <3>2, <3>3 DEF SeenBy
  <2>4. QED
    BY <2>2, <2>3 DEF SeenStays
<1>3. ASSUME NEW r \in Requests,
             Check(r) \/ Exists(r) \/ Resolve(r) \/ ResolveImpls(r) \/ List(r)
      PROVE  SeenStays'
  <2>1. stage[r] = "open" /\ UNCHANGED <<stage, op, key, domain>>
        /\ \A p \in Requests \ {r} : at'[p] = at[p] /\ vec'[p] = vec[p]
                                     /\ impls'[p] = impls[p] /\ table'[p] = table[p]
    BY <1>3 DEF Check, Exists, Resolve, ResolveImpls, List, Goto, tables, locals
  <2>2. ASSUME NEW p \in Requests, p # r PROVE SeenBy(p)'
    BY <1>1, <2>1, <2>2, SeenAlone
  <2>3. Org(r)' = Org(r)
    BY <2>1 DEF Org
  <2>4. SeenBy(r)
    BY <1>1
  <2>5. ASSUME Check(r) PROVE SeenBy(r)'
    <3>1. op[r].kind = "register" /\ at'[r] = "insert" /\ UNCHANGED <<vec, impls, table>>
      BY <2>5 DEF Check, Goto, Placed, locals
    <3>2. QED
      BY <2>1, <2>3, <2>4, <3>1 DEF SeenBy, Seen, Org
  <2>6. ASSUME Exists(r) PROVE SeenBy(r)'
    <3>1. op[r].kind \in {"score", "transfer"} /\ op[r].target \in Ids
          /\ at'[r] = "vector" /\ UNCHANGED <<vec, impls, table>>
      BY <2>6, Begun DEF Exists, Goto, Placed, locals
    <3>2. Visible(Org(r), op[r].target) # None
      BY <2>6 DEF Exists
    <3>3. \E v \in Profiles : Seen(r, op[r].target, v)
      BY <3>1, <3>2, VisibleFacts
    <3>4. QED
      BY <2>1, <2>3, <2>4, <3>1, <3>3 DEF SeenBy, Seen, Org
  <2>7. ASSUME Resolve(r) PROVE SeenBy(r)'
    <3>1. op[r].kind \in {"score", "transfer"} /\ op[r].target \in Ids
          /\ UNCHANGED <<impls, table>>
          /\ vec'[r] = Visible(Org(r), op[r].target)
      BY <2>7, Begun DEF Resolve, Goto, Placed
    <3>2. PICK v \in Profiles : Seen(r, op[r].target, v)
      BY <2>4, <2>7 DEF Resolve, SeenBy
    <3>3. vec'[r] = v /\ v # None
      BY <3>1, <3>2, VisibleFacts
    <3>4. ASSUME impls[r] # None PROVE impls[r] = v
      <4>1. impls[r] = vec[r] /\ Seen(r, op[r].target, vec[r])
        BY <2>4, <3>4 DEF SeenBy
      <4>2. QED
        BY <3>1, <3>3, <4>1, VisibleFacts
    <3>5. at'[r] = "answer" => ~(op[r].kind = "score" /\ op[r].matrix)
      BY <2>7 DEF Resolve, Goto
    <3>6. QED
      BY <2>1, <2>3, <2>4, <3>1, <3>2, <3>3, <3>4, <3>5 DEF SeenBy, Seen, Org
  <2>8. ASSUME ResolveImpls(r) PROVE SeenBy(r)'
    <3>1. op[r].kind = "transfer" /\ op[r].target \in Ids
          /\ UNCHANGED <<vec, table>> /\ at'[r] = "answer"
          /\ impls'[r] = Visible(Org(r), op[r].target)
      BY <2>8, Begun DEF ResolveImpls, Goto, Placed
    <3>2. vec[r] # None /\ Seen(r, op[r].target, vec[r])
      BY <2>1, <2>4, <2>8, <3>1 DEF ResolveImpls, SeenBy
    <3>3. impls'[r] = vec[r]
      BY <3>1, <3>2, VisibleFacts
    <3>4. QED
      BY <2>1, <2>3, <2>4, <3>1, <3>2, <3>3 DEF SeenBy, Seen, Org
  <2>9. ASSUME List(r) PROVE SeenBy(r)'
    <3>1. op[r].kind \in {"score", "compat"} /\ at[r] = "list" /\ at'[r] = "answer"
          /\ UNCHANGED <<vec, impls>>
          /\ table'[r] = [id \in Ids |-> Visible(Org(r), id)]
      BY <2>9 DEF List, Goto, Placed
    <3>2. \A id \in Ids : table'[r][id] # None => Seen(r, id, table'[r][id])
      BY <3>1, VisibleFacts
    <3>3. ASSUME op[r].kind = "score" PROVE table'[r][op[r].target] # None
      <4>1. op[r].target \in Ids
        BY <3>3, KindKnown, Begun
      <4>2. vec[r] # None /\ Seen(r, op[r].target, vec[r])
        BY <2>1, <2>4, <3>1, <3>3 DEF SeenBy
      <4>3. QED
        BY <3>1, <4>1, <4>2, VisibleFacts
    <3>4. QED
      BY <2>1, <2>3, <2>4, <3>1, <3>2, <3>3 DEF SeenBy, Seen, Org
  <2>10. QED
    BY <1>3, <2>2, <2>5, <2>6, <2>7, <2>8, <2>9 DEF SeenStays
<1>4. ASSUME NEW r \in Requests, Refuse(r) \/ InsertRaises(r) \/ Abort(r)
      PROVE  SeenStays'
  <2>1. /\ UNCHANGED <<key, op, domain>>
        /\ \E s \in {"refused", "failed"} : stage' = [stage EXCEPT ![r] = s]
        /\ \E s \in {"answer", "error"} : at' = [at EXCEPT ![r] = s]
        /\ vec' = [vec EXCEPT ![r] = None] /\ impls' = [impls EXCEPT ![r] = None]
        /\ table' = [table EXCEPT ![r] = [id \in Ids |-> None]]
    BY <1>4 DEF Refuse, Refused, InsertRaises, Abort, RolledBack, Leave, tables
  <2>2. ASSUME NEW p \in Requests, p # r PROVE SeenBy(p)'
    BY <1>1, <2>1, <2>2, SeenAlone
  <2>3. SeenBy(r)'
    BY <2>1 DEF SeenBy
  <2>4. QED
    BY <2>2, <2>3 DEF SeenStays
<1>5. ASSUME NEW r \in Requests, Insert(r) \/ Answer(r) \/ Commit(r) PROVE SeenStays'
  <2>1. /\ UNCHANGED <<key, op, at, vec, impls, table>>
        /\ stage[r] \in {"open", "written"}
        /\ \E s \in {"written", "done"} : stage' = [stage EXCEPT ![r] = s]
    BY <1>5 DEF Insert, Answer, Commit, Committed, tables, locals
  <2>2. QED
    BY <1>1, <2>1, SeenAlone DEF SeenStays
<1>6. CASE UNCHANGED vars
  BY <1>1, <1>6, SeenAlone DEF vars, SeenStays
<1>7. QED
  BY <1>2, <1>3, <1>4, <1>5, <1>6 DEF Next, Proceed

\* An extraction is a list of primitives.
LEMMA ExtractedSeq ==
  ASSUME NEW d \in Depths
  PROVE  Extracted(d) \in Seq(Prims)
<1>1. Steps(d) \in Nat
  BY DEF Depths, Steps
<1>2. Len(Defaults) \in Nat /\ Defaults \in Seq(Prims)
  OBVIOUS
<1> DEFINE n == Least(Len(Defaults), Steps(d) + 4)
<1>3. n \in 1..Len(Defaults)
  BY <1>1, <1>2 DEF Least
<1>4. \A i \in 1..n : Defaults[i] \in Prims
  BY <1>2, <1>3
<1> HIDE DEF n
<1>5. SubSeq(Defaults, 1, n) \in Seq(Prims)
  BY <1>2, <1>3, <1>4
<1>6. QED
  BY <1>5 DEF Extracted, n

\* A refinement adds the primitives of the extraction once more, and nothing
\* else touches the versions.
LEMMA VersionsStep ==
  ASSUME TypeOK, VersionsOK, RefinesKeep, [Next]_vars
  PROVE  VersionsOK' /\ RefinesKeep'
<1> DEFINE Versioned == {"score", "compat", "transfer", "refine"}
<1>1. Len(versions) \in Nat /\ versions \in Seq(Seq(Prims))
  BY DEF VersionsOK
<1>2. ASSUME NEW r \in Requests, NEW o \in Sent, Begin(r, o) PROVE VersionsOK' /\ RefinesKeep'
  <2>1. UNCHANGED <<versions, depth>> /\ op' = [op EXCEPT ![r] = o]
    BY <1>2 DEF Begin, tables
  <2>2. o.kind \in Versioned => o.version \in 1..Len(versions)
    BY DEF Sent
  <2>3. VersionsOK'
    BY <2>1, <2>2 DEF VersionsOK, TypeOK
  <2>4. QED
    BY <2>1, <2>3 DEF RefinesKeep
<1>3. ASSUME NEW r \in Requests, Commit(r), op[r].kind = "refine"
      PROVE  VersionsOK' /\ RefinesKeep'
  <2>1. op[r].version \in 1..Len(versions) /\ op[r].strategy \in Strategies
    <3>1. op[r] \in Ops
      BY <1>3, KindKnown, Begun
    <3>2. QED
      BY <1>3, <3>1 DEF VersionsOK, Ops, Registers, Scores, Compats, Transfers, Refines
  <2>2. Skill(r) = Extracted(depth) /\ Extracted(depth) \in Seq(Prims)
    <3>1. depth \in Depths
      BY DEF TypeOK
    <3>2. QED
      BY <2>1, <3>1, ExtractedSeq DEF Skill, RefinesKeep
  <2>3. Merged(op[r].strategy, Skill(r), Extracted(depth)) = Extracted(depth)
    BY <2>1, <2>2, MergedSame
  <2>4. /\ versions' = Append(versions, Extracted(depth))
        /\ UNCHANGED <<op, depth>>
    BY <1>3, <2>3 DEF Commit
  <2>5. /\ versions' \in Seq(Seq(Prims)) /\ Len(versions') = Len(versions) + 1
        /\ \A n \in 1..Len(versions) : versions'[n] = versions[n]
        /\ versions'[Len(versions) + 1] = Extracted(depth)
    BY <1>1, <2>2, <2>4
  <2>6. VersionsOK'
    BY <1>1, <2>4, <2>5 DEF VersionsOK
  <2>7. RefinesKeep'
    <3>1. \A n \in 1..Len(versions) : versions[n] = Extracted(depth)
      BY DEF RefinesKeep
    <3> DEFINE e == Extracted(depth)
               m == Len(versions)
    <3>2. m \in Nat
      BY <1>1
    <3>3. ASSUME NEW n \in 1..(m + 1) PROVE versions'[n] = e
      <4> HIDE DEF e, m
      <4>1. n \in 1..m \/ n = m + 1
        BY <3>2
      <4>2. QED
        BY <2>5, <3>1, <4>1 DEF e, m
    <3>4. Extracted(depth)' = e
      BY <2>4
    <3>5. QED
      BY <2>5, <3>3, <3>4 DEF RefinesKeep
  <2>8. QED
    BY <2>6, <2>7
<1>4. ASSUME NEW r \in Requests, Proceed(r) \/ Abort(r), ~(Commit(r) /\ op[r].kind = "refine")
      PROVE  VersionsOK' /\ RefinesKeep'
  <2>1. op' = op
    BY <1>4, OpStays
  <2>2. UNCHANGED <<versions, depth>>
    BY <1>4 DEF Proceed, Check, Exists, Resolve, ResolveImpls, List, Goto, Refuse, Leave,
       Insert, InsertRaises, Answer, Commit, Abort, tables
  <2>3. QED
    BY <2>1, <2>2 DEF VersionsOK, RefinesKeep
<1>5. CASE UNCHANGED vars
  BY <1>5 DEF vars, VersionsOK, RefinesKeep
<1>6. QED
  BY <1>2, <1>3, <1>4, <1>5 DEF Next, Proceed

(***************************************************************************)
(* The theorems.                                                           *)
(***************************************************************************)

\* What the handlers see of the registrations: the invariant, however
\* requests of any organisations interleave (Domains, the handlers of
\* routers/domains.py and routers/skills.py with domain_resolver.py).
THEOREM InvHolds == Spec => []DomainInv
<1>1. Init => DomainInv
  <2> SUFFICES ASSUME Init PROVE DomainInv
    OBVIOUS
  <2> USE DEF Init, RequestsInit
  <2>1. TypeOK
    BY DEF TypeOK, RequestsOK, Stages
  <2>2. KeysInTurn
    BY DEF KeysInTurn, InTransaction
  <2>3. Placed /\ RegistrationKept /\ RivalsElsewhere
    BY DEF Placed, NoOp, RegistrationKept, RivalsElsewhere
  <2>4. SeenStays
    BY DEF SeenStays, SeenBy, NoOp
  <2>5. Extracted(depth) \in Seq(Prims)
    BY ExtractedSeq
  <2>6. VersionsOK /\ RefinesKeep
    BY <2>5 DEF VersionsOK, RefinesKeep, NoOp
  <2>7. QED
    BY <2>1, <2>2, <2>3, <2>4, <2>6 DEF DomainInv
<1>2. DomainInv /\ [Next]_vars => DomainInv'
  BY TypeStep, KeysStep, PlacedStep, RegistrationStep, RivalsStep, SeenStep, VersionsStep
     DEF DomainInv
<1>3. QED
  BY <1>1, <1>2, PTL DEF Spec

\* A registration that its check let through fails at its INSERT only because
\* of a row its check could not see (routers/domains.py, register_domain).
THEOREM ConflictsHidden == Spec => []ConflictsExplained
<1> DEFINE Errors == \A r \in Requests : at[r] = "error" =>
             /\ domain[op[r].id] # Free
             /\ \/ domain[op[r].id].org # Org(r)
                \/ \E q \in Requests : Rival(q, r) /\ key[q] # key[r]
<1>1. Init => Errors
  BY DEF Init
<1>2. DomainInv /\ Errors /\ [Next]_vars => Errors'
  <2> SUFFICES ASSUME DomainInv, Errors, [Next]_vars, NEW r \in Requests, at'[r] = "error"
               PROVE  /\ domain'[op'[r].id] # Free
                      /\ \/ domain'[op'[r].id].org # Org(r)'
                         \/ \E q \in Requests : Rival(q, r)' /\ key'[q] # key'[r]
    BY DEF Rival, Org
  <2> USE DEF DomainInv, TypeOK, RequestsOK
  <2>1. CASE at[r] = "error"
    <3>1. stage[r] # "new" /\ op[r].id \in Custom
      BY <2>1 DEF Placed
    <3>2. op'[r] = op[r] /\ key'[r] = key[r] /\ Org(r)' = Org(r)
      BY <3>1, Fixed
    <3>3. domain'[op[r].id] = domain[op[r].id]
      BY <2>1, <3>1, RowsStay
    <3>4. ASSUME NEW q \in Requests, Rival(q, r), key[q] # key[r]
          PROVE  Rival(q, r)' /\ key'[q] # key'[r]
      BY <3>2, <3>4, Fixed DEF Rival
    <3>5. QED
      BY <2>1, <3>2, <3>3, <3>4
  <2>2. CASE at[r] # "error"
    <3>1. InsertRaises(r)
      <4>1. ASSUME NEW q \in Requests, NEW o \in Sent, Begin(q, o) PROVE FALSE
        <5>1. First(o) # "error"
          BY SentOps, OpFacts DEF First
        <5>2. QED
          BY <2>2, <4>1, <5>1 DEF Begin
      <4>2. ASSUME NEW q \in Requests, Resolve(q) PROVE FALSE
        <5>1. op[q].kind \in {"score", "transfer"}
          BY <4>2 DEF Resolve, Placed
        <5>2. QED
          BY <2>2, <4>2, <5>1 DEF Resolve, Goto
      <4>3. ASSUME NEW q \in Requests, Check(q) \/ Exists(q) \/ ResolveImpls(q)
                   \/ List(q) \/ Refuse(q) \/ Insert(q) \/ Answer(q) \/ Commit(q) \/ Abort(q)
            PROVE  FALSE
        BY <2>2, <4>3 DEF Check, Exists, ResolveImpls, List, Goto, Refuse, Leave, Insert,
           Answer, Commit, Abort
      <4>4. ASSUME NEW q \in Requests, InsertRaises(q) PROVE q = r
        BY <2>2, <4>4 DEF InsertRaises, Leave
      <4>5. ~UNCHANGED vars
        BY <2>2 DEF vars
      <4>6. QED
        BY <4>1, <4>2, <4>3, <4>4, <4>5 DEF Next, Proceed
    <3>2. /\ UNCHANGED <<op, key, domain>> /\ domain[op[r].id] # Free
          /\ stage[r] = "open" /\ at[r] = "insert"
      BY <3>1 DEF InsertRaises, Leave, Reach, tables
    <3>3. op[r].id \in Custom
      BY <3>2 DEF Placed
    <3>4. PICK q \in Requests : Rival(q, r)
      BY <3>2, <3>3 DEF RegistrationKept, Rival
    <3>5. key[q] # key[r] /\ q # r
      BY <3>2, <3>4 DEF RivalsElsewhere, Rival
    <3>6. stage'[q] = "done"
      BY <3>4, Fixed DEF Rival
    <3>7. QED
      BY <3>2, <3>4, <3>5, <3>6 DEF Rival
  <2>3. QED
    BY <2>1, <2>2
<1>3. Errors => ConflictsExplained
  BY DEF ConflictsExplained
<1>4. QED
  BY <1>1, <1>2, <1>3, InvHolds, PTL DEF Spec

\* The skill-adjusted matrix and the scores of the same version agree, for
\* every table of similarities (domains.py lines 172-222, scorer.py).
THEOREM MatrixHasScores == Spec => []MatricesAgree
<1>1. DomainInv => MatricesAgree
  <2> SUFFICES ASSUME DomainInv, NEW q \in Requests, NEW r \in Requests,
                      Answered(q, "compat"), Answered(r, "score") \/ Answered(r, "transfer"),
                      Org(q) = Org(r), op[q].version = op[r].version,
                      op[r].target # Source, table[q][op[r].target] # None
               PROVE  AdjustedOf(q, op[r].target) = ScoreOf(r, TRUE)
    BY DEF MatricesAgree
  <2>1. op[r].kind \in {"score", "transfer"} /\ stage[r] = "done" /\ op[r].target \in Ids
    BY Begun DEF Answered, DomainInv
  <2>2. vec[r] # None /\ Seen(r, op[r].target, vec[r])
    BY <2>1 DEF DomainInv, Placed, SeenStays, SeenBy
  <2>3. Seen(q, op[r].target, table[q][op[r].target])
    BY <2>1 DEF DomainInv, SeenStays, SeenBy
  <2>4. table[q][op[r].target] = vec[r]
    BY <2>2, <2>3 DEF Seen
  <2>5. Skill(q) = Skill(r)
    BY DEF Skill
  <2>6. QED
    BY <2>4, <2>5 DEF AdjustedOf, ScoreOf
<1>2. QED
  BY <1>1, InvHolds, PTL

\* A refinement, with whichever strategy and of whichever version, leaves the
\* primitives as they were (routers/skills.py, refine_skill; extractor.py).
THEOREM RefinesChangeNothing == Spec => []RefinesKeep
<1>1. DomainInv => RefinesKeep
  BY DEF DomainInv
<1>2. QED
  BY <1>1, InvHolds, PTL

\* The row and the score of an answer agree, and the answers with each other,
\* for every table of similarities and any number of primitives (scorer.py,
\* the loops of lines 117 and 170; domains.py lines 172-222).
THEOREM AnswersConsistent == Spec => []AnswersAgree
<1>1. DomainInv => RowsAgree
  <2> SUFFICES ASSUME DomainInv, NEW r \in Requests, Answered(r, "score"), op[r].matrix,
                      NEW blend \in BOOLEAN
               PROVE  /\ table[r][op[r].target] # None
                      /\ RowOf(r, op[r].target, blend) = ScoreOf(r, blend)
    BY DEF RowsAgree
  <2>1. op[r].kind = "score" /\ stage[r] = "done" /\ op[r].target \in Ids
    BY Begun DEF Answered, DomainInv
  <2>2. at[r] = "answer" /\ SeenBy(r)
    BY <2>1 DEF DomainInv, Placed, SeenStays
  <2>3. table[r][op[r].target] # None /\ vec[r] # None
    BY <2>1, <2>2 DEF SeenBy
  <2>4. /\ Seen(r, op[r].target, vec[r])
        /\ Seen(r, op[r].target, table[r][op[r].target])
    BY <2>1, <2>2, <2>3 DEF SeenBy
  <2>5. table[r][op[r].target] = vec[r]
    BY <2>4 DEF Seen
  <2>6. Len(Sims(Skill(r), vec[r])) \in Nat
    <3>1. op[r].version \in 1..Len(versions) /\ versions \in Seq(Seq(Prims))
      BY <2>1 DEF DomainInv, VersionsOK
    <3>2. Skill(r) \in Seq(Prims)
      BY <3>1 DEF Skill
    <3>3. Sims(Skill(r), vec[r]) = [i \in 1..Len(Skill(r)) |-> Sim[vec[r]][Skill(r)[i]]]
          /\ Len(Skill(r)) \in Nat
      BY <3>2 DEF Sims
    <3>4. QED
      BY <3>3
  <2>7. RowOf(r, op[r].target, blend) = ScoreOf(r, blend)
    BY <2>5, <2>6, CellIsScore DEF RowOf, ScoreOf
  <2>8. QED
    BY <2>3, <2>7
<1>2. QED
  BY <1>1, InvHolds, MatrixHasScores, PTL DEF AnswersAgree

\* Rounding to four decimals moves a similarity by half of the last at most.
LEMMA RoundedNear ==
  ASSUME NEW x \in Nat
  PROVE  /\ Rounded(x, 1) \in Nat
         /\ 2 * x <= 2 * Rounded(x, 1) + Digit /\ 2 * Rounded(x, 1) <= 2 * x + Digit
BY DEF Rounded, Digit

\* Two numbers within the rounding of each other have the same severity, and
\* are on the same side of a threshold, unless one of the limits is between.
LEMMA SeverityNear ==
  ASSUME NEW x \in Nat, NEW c \in Nat, NEW t \in Nat,
         2 * x <= 2 * c + Digit, 2 * c <= 2 * x + Digit,
         ~Near(x, t), ~Near(x, High), ~Near(x, Medium)
  PROVE  (x < t <=> c < t) /\ Severity(x) = Severity(c)
<1>1. ASSUME NEW b \in Nat, ~Near(x, b) PROVE x < b <=> c < b
  BY <1>1 DEF Near, Digit
<1>2. High \in Nat /\ Medium \in Nat
  BY DEF High, Medium, Digit
<1>3. (x < High <=> c < High) /\ (x < Medium <=> c < Medium)
  BY <1>1, <1>2
<1>4. QED
  BY <1>1, <1>3 DEF Severity

\* The gaps of a transfer and its adapter log agree for every similarity and
\* threshold, but within the rounding (scorer.py, adapter.py).
THEOREM LogsAgree == Spec => []FlagsAgree
<1>1. DomainInv => FlagsAgree
  <2> SUFFICES ASSUME DomainInv, NEW r \in Requests, Answered(r, "transfer"),
                      NEW p \in Prims,
                      \A b \in {op[r].threshold, High, Medium} : ~Near(Sim[vec[r]][p], b)
               PROVE  GapSeverity(Sim[vec[r]][p], op[r].threshold)
                      = LogSeverity(Sim[vec[r]][p], op[r].threshold)
    BY DEF FlagsAgree
  <2>1. op[r].kind = "transfer" /\ stage[r] = "done" /\ op[r] \in Ops
    BY Begun DEF Answered, DomainInv
  <2>2. op[r].threshold \in Nat
    BY <2>1, OpFacts
  <2>3. vec[r] \in Profiles
    <3>1. at[r] = "answer"
      BY <2>1 DEF DomainInv, Placed
    <3>2. SeenBy(r)
      BY DEF DomainInv, SeenStays
    <3>3. vec[r] # None
      BY <2>1, <3>1, <3>2 DEF SeenBy
    <3>4. vec[r] \in Profiles \cup {None}
      BY DEF DomainInv, TypeOK
    <3>5. QED
      BY <3>3, <3>4
  <2>4. Sim[vec[r]][p] \in Nat
    <3>1. Sim[vec[r]][p] \in 0..One
      BY <2>3
    <3>2. QED
      BY <3>1
  <2> DEFINE x == Sim[vec[r]][p]
             c == Rounded(x, 1)
             t == op[r].threshold
  <2>5. /\ c \in Nat /\ 2 * x <= 2 * c + Digit /\ 2 * c <= 2 * x + Digit
    BY <2>4, RoundedNear
  <2>6. (x < t <=> c < t) /\ Severity(x) = Severity(c)
    <3> HIDE DEF x, c, t
    <3>1. /\ x \in Nat /\ t \in Nat
          /\ ~Near(x, t) /\ ~Near(x, High) /\ ~Near(x, Medium)
      BY <2>2, <2>4 DEF x, t
    <3>2. QED
      BY <2>5, <3>1, SeverityNear
  <2>7. QED
    <3>1. GapSeverity(x, t) = LogSeverity(x, t)
      <4> HIDE DEF x, t
      <4>1. QED
        BY <2>6 DEF c, GapSeverity, LogSeverity
    <3>2. QED
      BY <3>1
<1>2. QED
  BY <1>1, InvHolds, PTL

\* A score lies between 0.00 and 0.99, blended or not, whatever the skill and
\* the domain are (scorer.py lines 149-153).
THEOREM ScoresInRange ==
  \A id : \A skill \in Seq(Prims) \ {<<>>}, v \in Profiles, blend \in BOOLEAN :
    Score(Sims(skill, v), BaseCompat(id), blend) \in 0..Cap
<1> TAKE id
<1> TAKE skill \in Seq(Prims) \ {<<>>}, v \in Profiles, blend \in BOOLEAN
<1> DEFINE sum == WeightedSum(Sims(skill, v))
           total == WeightTotal(Sims(skill, v))
           base == BaseCompat(id)
<1>1. sum \in Nat /\ total \in Nat \ {0} /\ base \in Nat
  BY SimsFacts, SumsBounded, BaseFacts
<1>2. Score(Sims(skill, v), base, blend) =
        IF blend THEN Capped(6 * sum + 4 * base * total, 10 * total) ELSE Capped(sum, total)
  BY DEF Score
<1> HIDE DEF sum, total, base
<1>3. CASE blend
  <2>1. 6 * sum + 4 * base * total \in Nat /\ 10 * total \in Nat \ {0}
    BY <1>1, BlendFacts
  <2>2. Capped(6 * sum + 4 * base * total, 10 * total) \in 0..Cap
    BY <2>1, CappedInRange
  <2>3. QED
    BY <1>2, <1>3, <2>2 DEF base
<1>4. CASE ~blend
  <2>1. Capped(sum, total) \in 0..Cap
    BY <1>1, CappedInRange
  <2>2. QED
    BY <1>2, <1>4, <2>1 DEF base
<1>5. QED
  BY <1>3, <1>4

\* The blended score of a skill on a custom domain is at most 0.80, because
\* its base compatibility is the neutral 0.50 (data/bcm.py via scorer.py): a
\* transfer there with a higher threshold has a score that is too low.
THEOREM CustomScoresCapped ==
  \A id : \A skill \in Seq(Prims) \ {<<>>}, v \in Profiles :
    id \notin BuiltIn => Score(Sims(skill, v), BaseCompat(id), TRUE) <= 8 * (One \div 10)
<1> SUFFICES ASSUME NEW skill \in Seq(Prims) \ {<<>>}, NEW v \in Profiles, NEW id,
                    id \notin BuiltIn
             PROVE  Score(Sims(skill, v), BaseCompat(id), TRUE) <= 8 * (One \div 10)
  OBVIOUS
<1> DEFINE sum == WeightedSum(Sims(skill, v))
           total == WeightTotal(Sims(skill, v))
           base == BaseCompat(id)
           n == 6 * sum + 4 * base * total
<1>1. sum \in Nat /\ total \in Nat \ {0} /\ sum <= One * total
  BY SimsFacts, SumsBounded
<1>2. base \in Nat /\ 2 * base = One
  BY Scale DEF BaseCompat
<1>3. Score(Sims(skill, v), base, TRUE) = Capped(n, 10 * total)
  BY DEF Score
<1>4. PICK j \in Nat : One \div 10 = j * Digit /\ One = 10 * (j * Digit)
  BY Scale
<1> HIDE DEF sum, total, base
<1>5. n \in Nat /\ 10 * total \in Nat \ {0}
  BY <1>1, <1>2, BlendFacts
<1>6. n <= (8 * j) * Digit * (10 * total)
  <2> DEFINE x == base * total
             y == One * total
             z == j * total
  <2>1. x \in Nat /\ y \in Nat /\ z \in Nat /\ y = 2 * x /\ n = 6 * sum + 4 * x
    BY <1>1, <1>2, Scale
  <2>2. y = 100 * z /\ (8 * j) * Digit * (10 * total) = 800 * z
    BY <1>1, <1>4, Scale
  <2>3. sum <= y
    BY <1>1
  <2> HIDE DEF x, y, z, n
  <2>4. n <= 8 * y
    BY <1>1, <2>1, <2>3
  <2>5. n <= 800 * z
    BY <2>1, <2>2, <2>4
  <2>6. QED
    BY <2>2, <2>5
<1> HIDE DEF n
<1>7. 8 * j \in Nat
  BY <1>4
<1>8. Capped(n, 10 * total) <= (8 * j) * Digit
  BY <1>5, <1>6, <1>7, CappedBounded
<1>9. (8 * j) * Digit = 8 * (One \div 10)
  BY <1>4, Scale
<1>10. QED
  BY <1>3, <1>8, <1>9 DEF base

\* A domain to which every primitive of a skill is at least as similar as to
\* another does not score lower, for the same base compatibility: rounding,
\* capping and blending keep the order (scorer.py lines 117-153).
THEOREM CloserScoresHigher ==
  \A id : \A skill \in Seq(Prims) \ {<<>>}, u, v \in Profiles, blend \in BOOLEAN :
    (\A p \in Elements(skill) : Sim[u][p] <= Sim[v][p]) =>
      Score(Sims(skill, u), BaseCompat(id), blend) <= Score(Sims(skill, v), BaseCompat(id), blend)
<1> SUFFICES ASSUME NEW skill \in Seq(Prims) \ {<<>>}, NEW u \in Profiles, NEW v \in Profiles,
                    NEW id, NEW blend \in BOOLEAN,
                    \A p \in Elements(skill) : Sim[u][p] <= Sim[v][p]
             PROVE  Score(Sims(skill, u), BaseCompat(id), blend)
                      <= Score(Sims(skill, v), BaseCompat(id), blend)
  OBVIOUS
<1>a. /\ Similarities(Sims(skill, u)) /\ Len(Sims(skill, u)) = Len(skill)
      /\ \A i \in 1..Len(skill) : skill[i] \in Elements(skill) /\ skill[i] \in Prims
                                  /\ Sims(skill, u)[i] = Sim[u][skill[i]]
  BY SimsFacts
<1>b. /\ Similarities(Sims(skill, v)) /\ Len(Sims(skill, v)) = Len(skill)
      /\ \A i \in 1..Len(skill) : skill[i] \in Elements(skill) /\ skill[i] \in Prims
                                  /\ Sims(skill, v)[i] = Sim[v][skill[i]]
  BY SimsFacts
<1> DEFINE s == Sims(skill, u)
           t == Sims(skill, v)
           base == BaseCompat(id)
<1>1. /\ Similarities(s) /\ Similarities(t) /\ Len(s) = Len(t)
      /\ \A i \in 1..Len(s) : s[i] <= t[i]
  <2> HIDE DEF s, t
  <2>1. ASSUME NEW i \in 1..Len(skill) PROVE s[i] <= t[i]
    <3>1. skill[i] \in Elements(skill) /\ s[i] = Sim[u][skill[i]]
      BY <1>a DEF s
    <3>2. t[i] = Sim[v][skill[i]]
      BY <1>b DEF t
    <3>3. QED
      BY <3>1, <3>2
  <2>2. Similarities(s) /\ Similarities(t) /\ Len(s) = Len(skill) /\ Len(t) = Len(skill)
    BY <1>a, <1>b DEF s, t
  <2>3. QED
    BY <2>1, <2>2
<1>2. base \in Nat
  BY BaseFacts
<1> HIDE DEF s, t, base
<1> DEFINE a == WeightedSum(s)
           b == WeightedSum(t)
           total == WeightTotal(s)
<1>3. a \in Nat /\ b \in Nat /\ total \in Nat \ {0} /\ a <= b /\ WeightTotal(t) = total
  BY <1>1, SumsBounded, SumsGrow
<1>4. /\ Score(s, base, blend) =
           IF blend THEN Capped(6 * a + 4 * base * total, 10 * total) ELSE Capped(a, total)
      /\ Score(t, base, blend) =
           IF blend THEN Capped(6 * b + 4 * base * total, 10 * total) ELSE Capped(b, total)
  BY <1>3 DEF Score
<1> HIDE DEF a, b, total
<1>5. CASE blend
  <2> DEFINE x == 6 * a + 4 * base * total
             y == 6 * b + 4 * base * total
             d == 10 * total
  <2>1. x \in Nat /\ y \in Nat /\ d \in Nat \ {0}
    BY <1>2, <1>3, BlendFacts
  <2>2. x <= y
    <3> DEFINE z == 4 * base * total
    <3>1. z \in Nat
      BY <1>2, <1>3, ProductsGrow
    <3> HIDE DEF z
    <3>2. 6 * a + z <= 6 * b + z
      BY <1>3, <3>1
    <3>3. QED
      BY <3>2 DEF z
  <2> HIDE DEF x, y, d
  <2>3. Capped(x, d) <= Capped(y, d)
    BY <2>1, <2>2, CappedGrows
  <2>4. QED
    BY <1>4, <1>5, <2>3 DEF x, y, d, s, t, base
<1>6. CASE ~blend
  BY <1>3, <1>4, <1>6, CappedGrows DEF s, t, base
<1>7. QED
  BY <1>5, <1>6
=============================================================================
