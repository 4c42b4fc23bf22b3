------------------------------ MODULE CountMin ------------------------------
(***************************************************************************)
(* CountMinSketch (samkhya-core/src/sketches/cms.rs): partitions of a      *)
(* column are counted by sketches that are merged, stored in a sidecar and *)
(* loaded again in any order, each of them a u32 counter that saturates.   *)
(* Each sketch carries, unseen by the code, the stream it stands for, and  *)
(* the properties compare the two: this is the obligation a Count-Min      *)
(* degree owes to the join ceiling (JoinCeiling, FromUpperBound).          *)
(***************************************************************************)
EXTENDS Integers, FiniteSetsExt, Functions

CONSTANTS
  Builder,     \* the places a sketch can be held in
  Item,        \* keys of the column
  Dims,        \* dimensions to build: records [depth, width]
  Hash,        \* Hash[i][row]: the 64-bit hash of item i under the row's seed
  Count,       \* occurrences one add() call carries
  Malformed,   \* decoded payloads that are no sketch's bytes
  MaxU32,      \* u32::MAX
  MaxU64,      \* u64::MAX
  MaxRows      \* bound: rows of one stream

Stream == [Item -> Nat]

Empty == [i \in Item |-> 0]

Plus(f, g) == [i \in Item |-> f[i] + g[i]]

None == [depth |-> 0, width |-> 0, counters |-> <<>>, total |-> 0]

ASSUME DimsAssumption ==
  \A d \in Dims : d = [depth |-> d.depth, width |-> d.width] /\ d.depth \in Nat /\ d.width \in Nat
ASSUME HashAssumption ==
  \A i \in Item, d \in Dims : \A row \in 0 .. d.depth - 1 : Hash[i][row] \in Nat
ASSUME LimitAssumption == MaxU32 \in Nat \ {0} /\ MaxU64 \in Nat /\ MaxRows \in Nat
ASSUME CountAssumption == Count \subseteq 0 .. MaxU32

VARIABLES
  sketch,    \* sketch[b]: the sketch builder b holds, or None
  stream,    \* stream[b]: the rows it was fed, directly or by merges
  sidecar,   \* the decoded payload of the stored bytes
  stored     \* the stream it stands for

vars == <<sketch, stream, sidecar, stored>>

----------------------------------------------------------------------------
(* The sketch.                                                             *)

Cells(depth, width) == 0 .. depth * width - 1

SaturatingAdd(a, b, max) == IF a + b >= max THEN max ELSE a + b

Pos(s, i, row) == row * s.width + (Hash[i][row] % s.width)

Hits(s, i) == {Pos(s, i, row) : row \in 0 .. s.depth - 1}

Fresh(depth, width) ==
  [depth |-> depth, width |-> width, counters |-> [c \in Cells(depth, width) |-> 0], total |-> 0]

AddToFirstRow(s, i, n) ==
  [s EXCEPT !.counters[Pos(s, i, 0)] = SaturatingAdd(@, n, MaxU32),
            !.total = SaturatingAdd(s.total, n, MaxU64)]

AddTo(s, i, n) ==
  [s EXCEPT !.counters = [c \in DOMAIN s.counters |->
                            IF c \in Hits(s, i)
                            THEN SaturatingAdd(s.counters[c], n, MaxU32) ELSE s.counters[c]],
            !.total = SaturatingAdd(s.total, n, MaxU64)]

Estimate(s, i) == Min({s.counters[c] : c \in Hits(s, i)})

NeverSaturated(s) == FALSE

IsSaturated(s) == \E c \in DOMAIN s.counters : s.counters[c] = MaxU32

Largest(s) == Max({s.counters[c] : c \in DOMAIN s.counters})

\* AttributeDegree::from_count_min: max_frequency_bound, capped by the row
\* count; a saturated sketch falls back to the row count.
FromCountMin(rows, s) ==
  IF IsSaturated(s) \/ Largest(s) >= rows THEN rows ELSE Largest(s)


Merged(s, o) ==
  [s EXCEPT !.counters = [c \in DOMAIN s.counters |->
                            SaturatingAdd(s.counters[c], o.counters[c], MaxU32)],
            !.total = SaturatingAdd(s.total, o.total, MaxU64)]

SameDims(s, o) == s.depth = o.depth /\ s.width = o.width

\* validate(): what from_bytes accepts.
ValidDims(s) == s.depth # 0 /\ s.width # 0

Valid(s) ==
  /\ s.depth # 0 /\ s.width # 0
  /\ DOMAIN s.counters = Cells(s.depth, s.width)

ASSUME MalformedAssumption ==
  \A p \in Malformed :
    p.depth = 0 \/ p.width = 0 \/ DOMAIN p.counters # Cells(p.depth, p.width)

----------------------------------------------------------------------------
(* The callers' operations.                                                *)

Init ==
  /\ sketch = [b \in Builder |-> None]
  /\ stream = [b \in Builder |-> Empty]
  /\ sidecar = None
  /\ stored = Empty

\* try_new, which rejects a zero dimension.
New(b, d) ==
  /\ d.depth # 0 /\ d.width # 0
  /\ sketch' = [sketch EXCEPT ![b] = Fresh(d.depth, d.width)]
  /\ stream' = [stream EXCEPT ![b] = Empty]
  /\ UNCHANGED <<sidecar, stored>>

Add(b, i, n) ==
  /\ sketch[b] # None
  /\ SumFunction(stream[b]) + n <= MaxRows
  /\ sketch' = [sketch EXCEPT ![b] = AddTo(sketch[b], i, n)]
  /\ stream' = [stream EXCEPT ![b][i] = @ + n]
  /\ UNCHANGED <<sidecar, stored>>

\* merge; o may be a clone of b itself.  Other dimensions are an error that
\* leaves both sketches as they were.
Merge(b, o) ==
  /\ sketch[b] # None /\ sketch[o] # None
  /\ SameDims(sketch[b], sketch[o])
  /\ SumFunction(stream[b]) + SumFunction(stream[o]) <= MaxRows
  /\ sketch' = [sketch EXCEPT ![b] = Merged(sketch[b], sketch[o])]
  /\ stream' = [stream EXCEPT ![b] = Plus(stream[b], stream[o])]
  /\ UNCHANGED <<sidecar, stored>>

\* to_bytes into a sidecar.
Store(b) ==
  /\ sketch[b] # None
  /\ sidecar' = sketch[b] /\ stored' = stream[b]
  /\ UNCHANGED <<sketch, stream>>

\* The stored bytes are replaced by some that decode to no sketch.
Damage(p) ==
  /\ sidecar' = p /\ stored' = Empty
  /\ UNCHANGED <<sketch, stream>>

\* from_bytes; a payload that fails validate() is an error.
Load(b) ==
  /\ Valid(sidecar)
  /\ sketch' = [sketch EXCEPT ![b] = sidecar]
  /\ stream' = [stream EXCEPT ![b] = stored]
  /\ UNCHANGED <<sidecar, stored>>

Next ==
  \/ \E b \in Builder, d \in Dims : New(b, d)
  \/ \E b \in Builder, i \in Item, n \in Count : Add(b, i, n)
  \/ \E b, o \in Builder : Merge(b, o)
  \/ \E b \in Builder : Store(b)
  \/ \E p \in Malformed : Damage(p)
  \/ \E b \in Builder : Load(b)

Spec == Init /\ [][Next]_vars

----------------------------------------------------------------------------
(* Properties.                                                             *)

IsSketch(s) ==
  /\ s = [depth |-> s.depth, width |-> s.width, counters |-> s.counters, total |-> s.total]
  /\ s.depth \in Nat \ {0} /\ s.width \in Nat \ {0}
  /\ [depth |-> s.depth, width |-> s.width] \in Dims
  /\ s.counters \in [Cells(s.depth, s.width) -> 0 .. MaxU32]
  /\ s.total \in 0 .. MaxU64

\* A held sketch has one u32 counter per cell of nonzero dimensions that were
\* asked for, whatever bytes were loaded or merged into it (cms.rs 88-105).
TypeOK ==
  /\ sketch = [b \in Builder |-> sketch[b]]
  /\ \A b \in Builder : sketch[b] = None \/ IsSketch(sketch[b])
  /\ stream \in [Builder -> Stream]
  /\ sidecar \in {None} \cup Malformed \/ IsSketch(sidecar)
  /\ stored \in Stream

\* A sketch is a function of the stream it stands for alone: every counter
\* is the capped number of rows that hit it and total the capped number of
\* rows, however they were partitioned, merged, stored and loaded.
SketchOfStream ==
  \A b \in Builder : sketch[b] # None =>
    /\ \A c \in DOMAIN sketch[b].counters :
         sketch[b].counters[c]
           = SaturatingAdd(0, SumFunctionOnSet(stream[b], {i \in Item : c \in Hits(sketch[b], i)}), MaxU32)
    /\ sketch[b].total = SaturatingAdd(0, SumFunction(stream[b]), MaxU64)

\* estimate() "never undercounts, provided no counter has saturated".
NeverUndercounts ==
  \A b \in Builder : (sketch[b] # None /\ ~IsSaturated(sketch[b])) =>
    \A i \in Item : Estimate(sketch[b], i) >= stream[b][i]

\* from_count_min bounds every key's degree in the column the sketch stands
\* for, saturated or not, against any row count that covers the column.
CountMinDegreeSound ==
  \A b \in Builder : sketch[b] # None =>
    \A rows \in 0 .. MaxRows :
      (\A i \in Item : stream[b][i] <= rows) =>
         \A i \in Item : stream[b][i] <= FromCountMin(rows, sketch[b])
=============================================================================
