---------------------------- MODULE FilterBounds ----------------------------
(***************************************************************************)
(* The match ceilings of samkhya-qdrant/src/lib.rs: a collection of points *)
(* is indexed into one Count-Min sketch for every payload field, and a     *)
(* filter over the fields is bounded from the sketches, which decides      *)
(* whether its matches are materialised or the whole index is searched.    *)
(*                                                                         *)
(* A builder of CountMin stands for the field it counts.  A collection is  *)
(* indexed from scratch, or the sketches live on as CountMin has it.       *)
(***************************************************************************)
EXTENDS CountMin, SequencesExt

CONSTANTS
  Absent,   \* the value of a field that a point's payload lacks
  Payload,  \* the payloads of points
  Filter,   \* the filters searched with
  Fraction  \* values of prefilter_max_fraction, as <<numerator, denominator>>

Field == Builder

ASSUME PayloadAssumption == Absent \notin Item /\ Payload \subseteq [Field -> Item \cup {Absent}]

Match(field, value) == [kind |-> "match", field |-> field, values |-> <<value>>]
AnyOf(field, values) == [kind |-> "any", field |-> field, values |-> values]
Unbounded == [kind |-> "unbounded"]

\* All of must hold, one of should, and none of must_not.
FilterOf(must, should, mustNot) == [must |-> must, should |-> should, must_not |-> mustNot]

Condition == {Unbounded} \cup [kind : {"match", "any"}, field : Field, values : Seq(Item)]
ASSUME FilterAssumption ==
  Filter \subseteq [must : Seq(Condition), should : Seq(Condition), must_not : Seq(Condition)]
ASSUME FractionAssumption == Fraction \subseteq Nat \X Nat

VARIABLE points  \* how many points of the collection have each payload

filterVars == <<vars, points>>
NoPoints == [p \in Payload |-> 0]

\* The points of the collection, of each payload the first, the second ...
Point == UNION {{p} \X (1 .. points[p]) : p \in Payload}
Total == Cardinality(Point)

FilterInit == Init /\ points = NoPoints

\* A point comes in and each field it has is counted, one entry per point.
Index(p) ==
  /\ \A b \in Field : sketch[b] # None /\ (points = NoPoints => stream[b] = Empty)
  /\ sidecar = None /\ Total < MaxRows
  /\ points' = [points EXCEPT ![p] = @ + 1]
  /\ sketch' = [b \in Field |-> IF p[b] = Absent THEN sketch[b] ELSE AddTo(sketch[b], p[b], 1)]
  /\ stream' = [b \in Field |-> IF p[b] = Absent THEN stream[b] ELSE [stream[b] EXCEPT ![p[b]] = @ + 1]]
  /\ UNCHANGED <<sidecar, stored>>

\* choose_strategy is a pure function of the sketches.
Search == points # NoPoints /\ UNCHANGED filterVars

FilterNext == (points = NoPoints /\ Next /\ UNCHANGED points) \/ Search \/ \E p \in Payload : Index(p)

FilterSpec == FilterInit /\ [][FilterNext]_filterVars

----------------------------------------------------------------------------
(* PayloadStats over the fields that have a sketch.                        *)

Capped(n) == IF n > Total THEN Total ELSE n

\* Mutant: an estimate is a bound as it comes.
RawEstimate(indexed, field, value) ==
  IF field \notin indexed THEN Total ELSE Capped(Estimate(sketch[field], value))

BoundValue(indexed, field, value) ==
  IF field \notin indexed \/ IsSaturated(sketch[field]) THEN Total ELSE Capped(Estimate(sketch[field], value))

\* A union is no larger than the sum of its parts, nor than the collection.
Sum(bounds) ==
  LET upTo[i \in 0 .. Len(bounds)] == IF i = 0 THEN 0 ELSE Capped(upTo[i - 1] + bounds[i])
  IN  upTo[Len(bounds)]

BoundCondition(indexed, c) ==
  IF c.kind = "unbounded" THEN Total
  ELSE Sum([i \in DOMAIN c.values |-> BoundValue(indexed, c.field, c.values[i])])

\* An empty should is no clause; must_not cannot tighten the bound.
BoundMatches(indexed, f) ==
  LET bounds(conditions) == [i \in DOMAIN conditions |-> BoundCondition(indexed, conditions[i])]
  IN Min({Total} \cup Range(bounds(f.must)) \cup (IF f.should = <<>> THEN {} ELSE {Sum(bounds(f.should))}))

PreFilters(indexed, f, maxPoints, fraction) ==
  LET bound == BoundMatches(indexed, f)
  IN bound <= maxPoints \/ (Total # 0 /\ bound * fraction[2] <= Total * fraction[1])

----------------------------------------------------------------------------
(* Properties.                                                             *)

Holds(c, p) == c.kind = "unbounded" \/ p[c.field] \in Range(c.values)

Matching(f) ==
  {at \in Point :
    /\ \A c \in Range(f.must) : Holds(c, at[1])
    /\ f.should = <<>> \/ \E c \in Range(f.should) : Holds(c, at[1])
    /\ ~ \E c \in Range(f.must_not) : Holds(c, at[1])}

Matches(f) == Cardinality(Matching(f))

\* "A PreFilter recommendation means the matching set provably fits in this
\* budget", whichever fields have a sketch, with keys that collide, counters
\* that have saturated, and conditions that share points or repeat.
PreFilterFits ==
  points # NoPoints =>
    \A f \in Filter, indexed \in SUBSET Field, maxPoints \in 0 .. MaxRows, fraction \in Fraction :
      PreFilters(indexed, f, maxPoints, fraction) =>
        Matches(f) <= maxPoints \/ Matches(f) * fraction[2] <= Total * fraction[1]
=============================================================================
