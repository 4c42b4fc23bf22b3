---------------------------- MODULE Aggregation ----------------------------
(***************************************************************************)
(* The statistics of bench-results/scripts over the records an ablation    *)
(* writes: the pairing of two arms, the signed-rank test of Wilcoxon, and  *)
(* the Benjamini-Hochberg procedure over its p-values.                     *)
(*                                                                         *)
(* Numbers are exact: a p-value is a count of Units, a mid-rank is kept    *)
(* twice as large as it is, an adjusted p-value Exact times.               *)
(***************************************************************************)
EXTENDS Ranking, SequencesExt

CONSTANTS
  Unit,      \* the p-value 1
  Alpha,     \* the level, in Units
  Exact,     \* a common multiple of the ranks 1 .. MaxTests
  MaxTests,  \* bound: tests of one family
  MaxPairs,  \* bound: pairs of one sample
  MaxCounted,  \* 25: pairs whose sign assignments are enumerated
  Value,     \* the numbers a sample may hold
  Null       \* JSON's null: an infinite q-error, or nothing yet

ASSUME UnitAssumption == Unit \in Nat \ {0} /\ Alpha \in 0 .. Unit /\ {MaxTests, MaxPairs} \subseteq Nat \ {0} /\ MaxCounted \in Nat
ASSUME ExactAssumption == Exact \in Nat \ {0} /\ \A r \in 1 .. MaxTests : Exact % r = 0
ASSUME ValueAssumption == Value \subseteq Int /\ Null \notin Value

VARIABLE script  \* a script by itself: its name, its input, its output;
                 \* whether Python finds SciPy

Total(f) == FoldFunction(+, 0, f)

----------------------------------------------------------------------------
(* aggregate_ablation_16.py                                                *)

KeyOf(r) == <<r.query, r.replicate, r.seed>>

\* A later record of one key and arm replaces an earlier one.
GroupByKey(records) ==
  LET of(k) == {i \in DOMAIN records : KeyOf(records[i]) = k}
  IN [k \in {KeyOf(records[i]) : i \in DOMAIN records} |->
        [a \in {records[i].arm : i \in of(k)} |-> records[Max({i \in of(k) : records[i].arm = a})]]]

\* The keys both arms have; each stands for the pair of their records.
PairVector(groups, a, b) == {k \in DOMAIN groups : {a, b} \subseteq DOMAIN groups[k]}

----------------------------------------------------------------------------
(* wilcoxon_paired.py                                                      *)

Abs(x) == IF x < 0 THEN 0 - x ELSE x

\* Mutant: ties are ranked as they come.
RankOrdinal(values) ==
  [i \in DOMAIN values |->
     2 * Cardinality({j \in DOMAIN values : values[j] < values[i] \/ (values[j] = values[i] /\ j <= i)})]

\* _rank_average, doubled: the first and the last place of a run of ties.
RankAverage(values) ==
  LET sorted == Sorted(values)
      places(x) == {r \in DOMAIN sorted : sorted[r] = x}
  IN [i \in DOMAIN values |-> Min(places(values[i])) + Max(places(values[i]))]

SignedSum(ranks, chosen) == Total([i \in chosen |-> ranks[i]])

\* The share of the sign assignments at least as far out, of 2^n.
CountedTail(ranks, w, total) ==
  [by |-> "count", of |-> 2 ^ Len(ranks),
   tail |-> Cardinality({s \in SUBSET DOMAIN ranks :
                           SignedSum(ranks, s) <= w \/ SignedSum(ranks, s) >= total - w})]

Certain == [by |-> "count", tail |-> 1, of |-> 1]

\* Mutant: the variance without its correction for ties.
NormalTailUntied(sizes, w) ==
  LET n == Len(sizes)
  IN [by |-> "normal", w |-> w, mu |-> (n * (n + 1)) \div 2, var |-> 2 * n * (n + 1) * (2 * n + 1)]

\* The normal approximation: what the distribution function is asked about,
\* the deviation of w from mu in units of the root of var.  Of the sums of
\* doubled ranks mu is the mean and var twelve times the variance.
NormalTail(sizes, w) ==
  LET n == Len(sizes)
      t == [x \in {sizes[i] : i \in DOMAIN sizes} |-> Cardinality({i \in DOMAIN sizes : sizes[i] = x})]
      var == 2 * n * (n + 1) * (2 * n + 1) - Total([x \in DOMAIN t |-> t[x] * t[x] * t[x] - t[x]])
  IN IF var <= 0 THEN Certain ELSE [by |-> "normal", w |-> w, mu |-> (n * (n + 1)) \div 2, var |-> var]

Nonzero(diffs) == At(diffs, {i \in DOMAIN diffs : diffs[i] # 0})

WilcoxonHandrolled(diffs) ==
  LET nonzero == Nonzero(diffs)
      sizes == [i \in DOMAIN nonzero |-> Abs(nonzero[i])]
      ranks == RankAverage(sizes)
      plus == SignedSum(ranks, {i \in DOMAIN nonzero : nonzero[i] > 0})
      minus == SignedSum(ranks, {i \in DOMAIN nonzero : nonzero[i] < 0})
      w == Min({plus, minus})
  IN IF Len(nonzero) <= MaxCounted THEN CountedTail(ranks, w, plus + minus) ELSE NormalTail(sizes, w)

\* scipy.stats.wilcoxon chooses a method of its own, and its p-value is its own.
WilcoxonOfScipy(diffs) == IF Nonzero(diffs) = <<>> THEN Certain ELSE [by |-> "scipy"]

\* Each array is loaded by itself, without its nulls.
Loaded(array) == At(array, {i \in DOMAIN array : array[i] # Null})

Mismatch == [by |-> "error"]

WilcoxonPaired(treatment, baseline, scipy) ==
  IF Len(treatment) # Len(baseline) THEN Mismatch
  ELSE LET diffs == [i \in DOMAIN treatment |-> treatment[i] - baseline[i]]
       IN IF scipy THEN WilcoxonOfScipy(diffs) ELSE WilcoxonHandrolled(diffs)

----------------------------------------------------------------------------
(* benjamini_hochberg.py                                                   *)

\* Indexed is sorted(enumerate(pvals)).
Admits(pvals, rank) == Len(pvals) * pvals[Indexed(pvals)[rank]] <= rank * Alpha

\* Mutant: the search stops at the first rank that fails.
FirstRun(pvals) == Max({0} \cup {rank \in DOMAIN pvals : \A r \in 1 .. rank : Admits(pvals, r)})

\* The largest rank that passes, or 0.
MaxK(pvals) == Max({0} \cup {rank \in DOMAIN pvals : Admits(pvals, rank)})

\* q_(i) = min over j >= i of min(1, m * p_(j) / j), times Exact
AdjustedAt(pvals, rank) ==
  Min({Exact * Unit} \cup {(Exact \div j) * Len(pvals) * pvals[Indexed(pvals)[j]] : j \in rank .. Len(pvals)})

BenjaminiHochberg(pvals) ==
  [rejected |-> {i \in DOMAIN pvals : Place(pvals, i) <= MaxK(pvals)},
   adjusted |-> [i \in DOMAIN pvals |-> AdjustedAt(pvals, Place(pvals, i))]]

----------------------------------------------------------------------------
Script(name, input, scipy) == [name |-> name, input |-> input, scipy |-> scipy, output |-> Null]
NoScript == Script("none", <<>>, FALSE)

ScriptInit ==
  \/ \E m \in 1 .. MaxTests : \E p \in [1 .. m -> 0 .. Unit] : script = Script("bh", p, FALSE)
  \/ \E n \in 1 .. MaxPairs : \E t, b \in [1 .. n -> Value \cup {Null}], scipy \in BOOLEAN :
       script = Script("wilcoxon", <<t, b>>, scipy)

\* A script reads its input, prints, and ends.
RunScript ==
  /\ script.name # "none" /\ script.output = Null
  /\ script' = [script EXCEPT !.output =
                  IF script.name = "bh" THEN BenjaminiHochberg(script.input)
                  ELSE WilcoxonPaired(Loaded(script.input[1]), Loaded(script.input[2]), script.scipy)]

----------------------------------------------------------------------------
\* benjamini_hochberg.py controls the false discoveries over the transitions
\* of an ablation.  Whatever the order and the ties of the p-values, it
\* rejects the union of all sets in which every p-value is at most the
\* set's share of the level, and those are the ones whose adjusted p-value
\* is within the level.
StepUp ==
  script.name = "bh" /\ script.output # Null =>
    LET p == script.input
        m == Len(p)
        consistent(s) == \A i \in s : m * p[i] <= Cardinality(s) * Alpha
    IN /\ script.output.rejected = UNION {s \in SUBSET DOMAIN p : consistent(s)}
       /\ script.output.rejected = {i \in DOMAIN p : script.output.adjusted[i] <= Exact * Alpha}

\* The differences of a sample, the pairs that differ, and twice their mean
\* rank: one more than the smaller ones and a half of the equal ones.
Delta(i) == script.input[1][i] - script.input[2][i]
Differing == {i \in DOMAIN script.input[1] : Delta(i) # 0}
MidRank(i) == 1 + Cardinality({j \in Differing : Abs(Delta(j)) = Abs(Delta(i))})
                + 2 * Cardinality({j \in Differing : Abs(Delta(j)) < Abs(Delta(i))})

\* The pairs are those of arrays without nulls: of two with one each, the
\* loader keeps what stands next to each other, not what was measured together.
PrintedByHand ==
  /\ script.name = "wilcoxon" /\ ~script.scipy /\ script.output # Null
  /\ Null \notin Range(script.input[1]) \cup Range(script.input[2])

\* Where there is no SciPy, and at most 25 pairs differ, the p-value of
\* wilcoxon_paired.py is the share of the sign assignments whose signed
\* ranks, of ties the mean rank, sum to at least as much, up to the sign, as
\* those observed; so it is the same with the arms swapped, and a sample
\* without a difference decides nothing.
ExactTail ==
  PrintedByHand /\ Cardinality(Differing) <= MaxCounted =>
    LET statistic(sign) == Abs(Total([i \in Differing |-> sign[i] * MidRank(i)]))
        observed == [i \in Differing |-> IF Delta(i) > 0 THEN 1 ELSE -1]
        asFar == {sign \in [Differing -> {1, -1}] : statistic(sign) >= statistic(observed)}
    IN script.output.tail * 2 ^ Cardinality(Differing) = Cardinality(asFar) * script.output.of

\* With more pairs the test takes the smaller sum of ranks for one of a
\* normal distribution.  Its formulas, with the correction for ties, are the
\* mean and the variance that this sum has over all sign assignments.
NormalMoments ==
  PrintedByHand /\ Cardinality(Differing) > MaxCounted =>
    LET sum == [s \in SUBSET Differing |-> Total([i \in s |-> MidRank(i)])]
        positive == {i \in Differing : Delta(i) > 0}
        out == script.output
    IN /\ out.w = Min({sum[positive], sum[Differing \ positive]})
       /\ out.mu * Cardinality(DOMAIN sum) = Total(sum)
       /\ out.var * Cardinality(DOMAIN sum) =
            12 * Total([s \in DOMAIN sum |-> (sum[s] - out.mu) * (sum[s] - out.mu)])
=============================================================================
