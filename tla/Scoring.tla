------------------------------- MODULE Scoring -------------------------------
(***************************************************************************)
(* What the services compute about a skill and a domain: the primitives of *)
(* an extraction (src/app/services/extractor.py), their merge in a refine  *)
(* (src/app/routers/skills.py), the score (src/app/services/scorer.py) and *)
(* the adapter log of a transfer (src/app/services/adapter.py).            *)
(*                                                                         *)
(* A score is an integer: One is 1.0, and Digit is the last of the four    *)
(* decimals answers are rounded to.  The cosine of a primitive's vector    *)
(* and a domain's is given (Sim); ties are rounded up.                     *)
(***************************************************************************)
EXTENDS Naturals, Sequences, FiniteSets

CONSTANTS
  Prims,     \* primitives
  Defaults,  \* the default primitives of the skill's source domain, in order
  Profiles,  \* feature vectors; the one of a built-in domain bears its name
  BuiltIn,   \* the built-in domains
  Source,    \* the skill's source domain
  Sim,       \* profile -> primitive -> cosine similarity
  Bcm        \* the source domain's row of the base compatibility matrix

Digit == 10
One == 10000 * Digit
Cap == 9900 * Digit

ASSUME ScoringConstants ==
  /\ Defaults \in Seq(Prims) /\ Len(Defaults) > 0
  /\ \A i, j \in 1..Len(Defaults) : Defaults[i] = Defaults[j] => i = j
  /\ Sim \in [Profiles -> [Prims -> 0..One]]
  /\ BuiltIn \subseteq Profiles /\ Source \in BuiltIn
  /\ Bcm \in [BuiltIn -> 0..One]

(***************************************************************************)
(* Extraction and refinement.                                              *)
(***************************************************************************)

Depths == {"shallow", "standard", "deep"}
Steps(depth) == CASE depth = "shallow" -> 4 [] depth = "standard" -> 7 [] depth = "deep" -> 8

Least(a, b) == IF a <= b THEN a ELSE b

\* The skill keeps the first primitives of its domain, four more than the
\* depth has steps.
Extracted(depth) == SubSeq(Defaults, 1, Least(Len(Defaults), Steps(depth) + 4))

Strategies == {"replace", "additive", "weighted_avg"}
Elements(s) == {s[i] : i \in DOMAIN s}

\* The primitives of new that old does not have, in order.
Missing(old, new) ==
  LET kept[i \in 0..Len(new)] ==
        IF i = 0 THEN <<>>
        ELSE IF new[i] \in Elements(old) THEN kept[i - 1] ELSE Append(kept[i - 1], new[i])
  IN kept[Len(new)]

\* additive does not look at what is there already.
Merged_Appends(strategy, old, new) ==
  CASE strategy = "replace" -> new
    [] strategy = "additive" -> old \o new
    [] strategy = "weighted_avg" -> old \o Missing(old, new)

\* additive and weighted_avg keep the old order and append what is new; the
\* averages the latter makes of weights and confidences are left out.
Merged(strategy, old, new) ==
  IF strategy = "replace" THEN new ELSE old \o Missing(old, new)

(***************************************************************************)
(* The score.                                                              *)
(***************************************************************************)

\* The similarities of a skill's primitives with a profile, in order.
Sims(skill, v) == [i \in DOMAIN skill |-> Sim[v][skill[i]]]

\* A custom domain has the neutral base compatibility.
BaseCompat(id) == IF id \in BuiltIn THEN Bcm[id] ELSE One \div 2

\* In fifths, by position.
Weight(i) == IF i <= 3 THEN 5 ELSE IF i <= 6 THEN 4 ELSE 3

\* The loop over the primitives: weighted_sum and weight_total.
WeightedSum(s) ==
  LET sum[i \in 0..Len(s)] == IF i = 0 THEN 0 ELSE sum[i - 1] + s[i] * Weight(i)
  IN sum[Len(s)]
WeightTotal(s) ==
  LET sum[i \in 0..Len(s)] == IF i = 0 THEN 0 ELSE sum[i - 1] + Weight(i)
  IN sum[Len(s)]

\* n/d, but 0.99 at most, rounded to four decimals.
Rounded(n, d) == ((2 * n + d * Digit) \div (2 * d * Digit)) * Digit
Capped(n, d) == IF n >= Cap * d THEN Cap ELSE Rounded(n, d)

\* score: the weighted mean, or a blend of 60% of it with 40% of the base.
Score(s, base, blend) ==
  LET sum == WeightedSum(s)
      total == WeightTotal(s)
  IN IF blend THEN Capped(6 * sum + 4 * base * total, 10 * total)
              ELSE Capped(sum, total)

\* The matrix row forgets the weights.
Cell_Unweighted(s, base, blend) ==
  LET sum[i \in 0..Len(s)] == IF i = 0 THEN 0 ELSE sum[i - 1] + s[i]
  IN IF blend THEN Capped(6 * sum[Len(s)] + 4 * base * Len(s), 10 * Len(s))
              ELSE Capped(sum[Len(s)], Len(s))

\* A cell of the matrix row, computed by a loop of its own.
Cell(s, base, blend) ==
  LET loop[i \in 0..Len(s)] ==
        IF i = 0 THEN [raw |-> 0, w |-> 0]
        ELSE LET last == loop[i - 1]
             IN [raw |-> last.raw + s[i] * Weight(i), w |-> last.w + Weight(i)]
      end == loop[Len(s)]
  IN IF blend THEN Capped(6 * end.raw + 4 * base * end.w, 10 * end.w)
              ELSE Capped(end.raw, end.w)

(***************************************************************************)
(* Gaps.                                                                   *)
(***************************************************************************)

High == 5000 * Digit
Medium == 6500 * Digit
Severity(x) == IF x < High THEN "HIGH" ELSE IF x < Medium THEN "MEDIUM" ELSE "LOW"

\* The gap report of score_skill: the severity of the similarity, below the
\* threshold.
GapSeverity(x, threshold) == IF x < threshold THEN Severity(x) ELSE "none"

\* The adapter log rounds to two decimals.
LogSeverity_Coarse(x, threshold) ==
  LET confidence == ((2 * x + 100 * Digit) \div (200 * Digit)) * 100 * Digit
  IN IF confidence < threshold THEN Severity(confidence) ELSE "none"

\* The same in build_adapter_log, which rounds first.
LogSeverity(x, threshold) ==
  LET confidence == Rounded(x, 1)
  IN IF confidence < threshold THEN Severity(confidence) ELSE "none"
=============================================================================
