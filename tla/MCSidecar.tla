----------------------------- MODULE MCSidecar -----------------------------
(***************************************************************************)
(* Two places for sidecars, one perhaps holding a file another tool left:  *)
(* one that can be read, and ones with half the snapshot metadata, with a  *)
(* range that leaves the payload region, with a later schema version.      *)
(***************************************************************************)
EXTENDS Sidecar

MCPath == {1, 2}
MCSupported == {"hll", "histogram"}
MCSize == [hll |-> 2, histogram |-> 1, bloom |-> 1]

B(kind, fields, codec) == [kind |-> kind, fields |-> fields, codec |-> codec]

\* Blobs of callers that say which field a sketch is of.
MCBlob == {B("hll", <<1>>, "none"), B("hll", <<2>>, "zstd"), B("bloom", <<1>>, "none")}

\* A file with one sketch of field 1 and a footer that describes it so.
Described(meta, version) ==
  <<Magic>> \o Raw(Sketch("hll", <<1>>, 0)) \o
  <<Magic, Json(<<meta>>, version), Length(1), Flags(0), Magic>>

MetaOf(snapshot, sequence, offset) ==
  [kind |-> "hll", fields |-> <<1>>, snapshot |-> snapshot, sequence |-> sequence,
   offset |-> offset, length |-> 2, codec |-> "none"]

Foreign ==
  {Described(MetaOf(None, None, 1), "none"),
   Described(MetaOf(None, 1, 1), "1"),
   Described(MetaOf(Unassigned, Unassigned, 2), "1"),
   Described(MetaOf(1, 1, 1), "2")}

MCInitial == {<<Missing, f>> : f \in {Missing} \cup Foreign}

\* Nothing depends on what happens after a load.
Bounded == load.pc \in {"idle", "busy"}

MCPathLists == {<<2, 1>>, <<1, 1>>}
MCExpected == {None, 2}
MCSchemas == {<<2, 1>>, <<2>>, <<0, 1>>}
============================================================================
