---------------------------- MODULE HyperLogLog ----------------------------
(***************************************************************************)
(* HllSketch (samkhya-core/src/sketches/hll.rs): registers that hold the   *)
(* largest rank of the hashes that fell on them.  As in CountMin, sketches *)
(* of partitions are merged, stored and loaded in any order, and each      *)
(* carries the keys it stands for.  The number of nonzero registers is the *)
(* distinct-count floor AttributeDegree::from_hll_floor trusts.            *)
(***************************************************************************)
EXTENDS Integers, FiniteSetsExt

CONSTANTS
  Builder,
  Item,        \* keys of the column
  Bits,        \* width of the hash: 64
  Precisions,  \* the precisions try_new and validate() accept: 4 .. 18
  Asked,       \* the precisions callers ask for
  Hash,        \* Hash[i]: the hash of item i
  Malformed    \* decoded payloads that are no sketch's bytes

None == [precision |-> -1, registers |-> <<>>]

ASSUME BitsAssumption == Bits \in Nat /\ Precisions \subseteq 1 .. Bits - 1
ASSUME ItemAssumption ==
  IsFiniteSet(Item) /\ \A i \in Item : Hash[i] \in 0 .. 2^Bits - 1

VARIABLES
  sketch,    \* sketch[b]: the sketch builder b holds, or None
  seen,      \* seen[b]: the keys it was fed, directly or by merges
  sidecar,   \* the decoded payload of the stored bytes
  stored     \* the keys it stands for

vars == <<sketch, seen, sidecar, stored>>

----------------------------------------------------------------------------
(* The sketch.                                                             *)

Slots(p) == 0 .. 2^p - 1

\* h >> (64 - p)
Index(p, i) == Hash[i] \div 2^(Bits - p)

\* h << p
Rest(p, i) == (Hash[i] * 2^p) % 2^Bits

LeadingZeros(w) == CHOOSE z \in 0 .. Bits - 1 : 2^(Bits - 1 - z) <= w /\ w < 2^(Bits - z)

\* The rank; a rest of zeros is one more than the longest other run.
Rank(p, i) == Min({255, IF Rest(p, i) = 0 THEN Bits - p + 1 ELSE LeadingZeros(Rest(p, i)) + 1})

Fresh(p) == [precision |-> p, registers |-> [j \in Slots(p) |-> 0]]

AddLatest(s, i) ==
  [s EXCEPT !.registers = [j \in DOMAIN s.registers |->
                             IF j = Index(s.precision, i) THEN Rank(s.precision, i)
                             ELSE s.registers[j]]]

AddTo(s, i) ==
  [s EXCEPT !.registers = [j \in DOMAIN s.registers |->
                             IF j = Index(s.precision, i) /\ Rank(s.precision, i) > s.registers[j]
                             THEN Rank(s.precision, i) ELSE s.registers[j]]]

Merged(s, o) ==
  [s EXCEPT !.registers = [j \in DOMAIN s.registers |->
                             IF o.registers[j] > s.registers[j]
                             THEN o.registers[j] ELSE s.registers[j]]]

\* The highest rank's point estimate: two-sided, where a floor is needed.
PointEstimate(s) == 2^Max({s.registers[j] : j \in DOMAIN s.registers})

NonzeroRegisters(s) == Cardinality({j \in DOMAIN s.registers : s.registers[j] # 0})

\* AttributeDegree::from_distinct, as in JoinCeiling.
FromDistinctOffByOne(rows, distinct) ==
  IF distinct = 0 \/ distinct > rows THEN rows ELSE rows - distinct

FromDistinct(rows, distinct) ==
  IF distinct = 0 \/ distinct > rows THEN rows ELSE rows - distinct + 1

FromHllFloor(rows, s) == FromDistinct(rows, NonzeroRegisters(s))

\* validate(): what from_bytes accepts.
Valid(s) ==
  /\ s.precision \in Precisions
  /\ DOMAIN s.registers = Slots(s.precision)

ASSUME MalformedAssumption ==
  \A p \in Malformed :
    p.precision \notin Precisions \/ DOMAIN p.registers # Slots(p.precision)

----------------------------------------------------------------------------
(* The callers' operations.                                                *)

Init ==
  /\ sketch = [b \in Builder |-> None]
  /\ seen = [b \in Builder |-> {}]
  /\ sidecar = None
  /\ stored = {}

\* try_new, which rejects other precisions.
New(b, p) ==
  /\ p \in Precisions
  /\ sketch' = [sketch EXCEPT ![b] = Fresh(p)]
  /\ seen' = [seen EXCEPT ![b] = {}]
  /\ UNCHANGED <<sidecar, stored>>

Add(b, i) ==
  /\ sketch[b] # None
  /\ sketch' = [sketch EXCEPT ![b] = AddTo(sketch[b], i)]
  /\ seen' = [seen EXCEPT ![b] = @ \cup {i}]
  /\ UNCHANGED <<sidecar, stored>>

\* merge; another precision is an error that leaves both as they were.
Merge(b, o) ==
  /\ sketch[b] # None /\ sketch[o] # None
  /\ sketch[b].precision = sketch[o].precision
  /\ sketch' = [sketch EXCEPT ![b] = Merged(sketch[b], sketch[o])]
  /\ seen' = [seen EXCEPT ![b] = @ \cup seen[o]]
  /\ UNCHANGED <<sidecar, stored>>

\* to_bytes into a sidecar.
Store(b) ==
  /\ sketch[b] # None
  /\ sidecar' = sketch[b] /\ stored' = seen[b]
  /\ UNCHANGED <<sketch, seen>>

\* The stored bytes are replaced by some that decode to no sketch.
Damage(p) ==
  /\ sidecar' = p /\ stored' = {}
  /\ UNCHANGED <<sketch, seen>>

\* from_bytes; a payload that fails validate() is an error.
Load(b) ==
  /\ Valid(sidecar)
  /\ sketch' = [sketch EXCEPT ![b] = sidecar]
  /\ seen' = [seen EXCEPT ![b] = stored]
  /\ UNCHANGED <<sidecar, stored>>

Next ==
  \/ \E b \in Builder, p \in Asked : New(b, p)
  \/ \E b \in Builder, i \in Item : Add(b, i)
  \/ \E b, o \in Builder : Merge(b, o)
  \/ \E b \in Builder : Store(b)
  \/ \E p \in Malformed : Damage(p)
  \/ \E b \in Builder : Load(b)

Spec == Init /\ [][Next]_vars

----------------------------------------------------------------------------
(* Properties.                                                             *)

\* nonzero_registers is "a sound lower bound on the number of distinct values
\* added", whatever collides.
FloorSound ==
  \A b \in Builder : sketch[b] # None =>
    NonzeroRegisters(sketch[b]) <= Cardinality(seen[b])

\* from_hll_floor is no less than the degree of any column with these keys:
\* rows - distinct + 1 of them can share a key when every other key has one.
HllDegreeSound ==
  \A b \in Builder : (sketch[b] # None /\ seen[b] # {}) =>
    \A rows \in Cardinality(seen[b]) .. 2 * Cardinality(seen[b]) :
      FromHllFloor(rows, sketch[b]) >= rows - Cardinality(seen[b]) + 1
=============================================================================
