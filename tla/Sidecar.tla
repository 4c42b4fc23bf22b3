------------------------------ MODULE Sidecar ------------------------------
(***************************************************************************)
(* Puffin sidecars (samkhya-core/src/puffin.rs), the portable statistics   *)
(* decoded from them (portable.rs) and the snapshot-aware loaders          *)
(* (samkhya-iceberg/src/loader.rs, snapshot.rs).                           *)
(*                                                                         *)
(* Writers append blobs to a file and close it with a footer that says     *)
(* where each blob lies; they may be killed in any write.  A loader opens  *)
(* the sidecars of one snapshot one after another and reads the blobs it   *)
(* knows, while the table moves on to later snapshots and writers run.     *)
(* Files are sequences of cells: a magic number, the footer's JSON, its    *)
(* length and the flags are one cell each, and so is every part of a       *)
(* payload, so that offsets and lengths count cells.                       *)
(***************************************************************************)
EXTENDS Integers, SequencesExt, FiniteSets

CONSTANTS
  Path,          \* places sidecars are written to: naturals, in the order of their names
  Supported,     \* the kinds with a typed projection: HLL and equi-depth histogram
  Hll,           \* the kind the distinct count comes from
  Size,          \* Size[kind]: cells of a payload of that kind
  Blob,          \* blobs writers add: [kind, fields, codec]
  Initial,       \* what may be at the paths at first: nothing, or a file another tool
                 \* left, which may be damaged
  PathLists,     \* the lists of local paths callers pass
  Expected,      \* the snapshots they pass with them
  Schemas,       \* the fields of a table's schema, as sequences of ids
  MaxBlobs,      \* MAX_BLOB_COUNT
  MaxSnapshot,   \* bound: snapshots of the table
  MaxAdded,      \* bound: blobs added by all writers
  MaxTorn,       \* bound: files left unfinished
  MaxAttached    \* bound: statistics entries

Unassigned == -1      \* the snapshot id and sequence number add_blob writes
None == -2            \* Option::None
Missing == <<>>       \* there is no file, or an empty one

ASSUME PathAssumption == Path \subseteq Nat /\ PathLists \subseteq Seq(Path)
ASSUME KindAssumption == Hll \in Supported /\ DOMAIN Size \subseteq STRING /\ \A k \in DOMAIN Size : Size[k] \in Nat \ {0}
ASSUME BlobAssumption == Blob \subseteq [kind : DOMAIN Size, fields : Seq(Int), codec : {"none", "zstd"}]

\* A sketch of a column as it was at one snapshot.
Sketch(kind, fields, about) == [kind |-> kind, fields |-> fields, about |-> about]

Magic == [cell |-> "magic"]
Flags(n) == [cell |-> "flags", value |-> n]
Length(n) == [cell |-> "length", value |-> n]
Json(blobs, version) == [cell |-> "json", blobs |-> blobs, version |-> version]
Data(sketch, codec, part) == [cell |-> "data", sketch |-> sketch, codec |-> codec, part |-> part]

\* What a footer and a cell may hold, whoever wrote them: names are any strings.
Codec == {"none", "zstd"} \cup STRING
Version == {"none", "1"} \cup STRING
Meta ==
  [kind : STRING, fields : Seq(Int), snapshot : Int, sequence : Int, offset : Nat, length : Nat, codec : Codec]
Sketches == [kind : DOMAIN Size, fields : Seq(Int), about : Nat]
Cell ==
  {Magic} \cup [cell : {"flags", "length"}, value : Nat] \cup [cell : {"json"}, blobs : Seq(Meta), version : Version]
  \cup [cell : {"data"}, sketch : Sketches, codec : Codec, part : Nat]

ASSUME InitialAssumption == Initial \subseteq [Path -> Seq(Cell)]

VARIABLES
  file,      \* file[p]: the cells at path p
  writer,    \* writer[p]: the PuffinWriter on p
  given,     \* given[p]: what a writer was given that finished p; <<>> for other files
  finished,  \* the paths whose writer finished
  added,     \* blobs added so far, to bound them
  current,   \* the table's current snapshot, 0 for none
  attached,  \* statistics entries of the table's metadata: [snapshot, path]
  request,   \* what a load was asked for
  load       \* the load, from its call to what it returned

sidecarVars == <<file, writer, given, finished, added, current, attached, request, load>>

NoWriter == [pc |-> "none", pos |-> 0, head |-> FALSE, blobs |-> <<>>, given |-> <<>>]

\* load.sidecar of the sidecars asked for are opened, load.next is the next blob
\* of the last one's footer; blob i of sidecar n is load.blobs[<<n, i>>].
NoRequest == [strict |-> FALSE, expected |-> None, sequence |-> None, asked |-> <<>>]
Loading(pc, blobs) == [pc |-> pc, sidecar |-> 0, footer |-> <<>>, end |-> 0, next |-> 1, blobs |-> blobs, loadable |-> FALSE]
NoBlobs == [at \in {} |-> None]

SidecarInit ==
  /\ file \in Initial
  /\ writer = [p \in Path |-> NoWriter]
  /\ given = [p \in Path |-> <<>>]
  /\ finished = {}
  /\ added = 0
  /\ current = 0
  /\ attached = {}
  /\ request = NoRequest
  /\ load = Loading("idle", NoBlobs)

----------------------------------------------------------------------------
(* Writing.                                                                *)

\* The caller creates a file and a PuffinWriter over it.
Create(p) ==
  /\ writer[p].pc \in {"none", "killed"} /\ file[p] = Missing
  /\ writer' = [writer EXCEPT ![p] = [NoWriter EXCEPT !.pc = "open"]]
  /\ UNCHANGED <<file, given, finished, added, current, attached, request, load>>

Raw(sketch) == [k \in 1 .. Size[sketch.kind] |-> Data(sketch, "none", k)]

\* What a codec makes of a payload: zstd leaves one cell.
EncodedPayload(sketch, codec) ==
  IF codec = "zstd" THEN <<Data(sketch, "zstd", 1)>> ELSE Raw(sketch)

\* ensure_head
EnsureHead(w) == IF w.head THEN <<>> ELSE <<Magic>>

\* The position after a payload.
Advanced(w, cells) == w.pos + Len(EnsureHead(w)) + Len(cells)

BlobCells(w, b) == EnsureHead(w) \o EncodedPayload(Sketch(b.kind, b.fields, current), b.codec)

FooterCells(w) ==
  EnsureHead(w) \o <<Magic, Json(w.blobs, "1"), Length(1), Flags(0), Magic>>

\* add_blob_compressed_for_snapshot: the blob is written at the writer's
\* position and recorded for the footer.  A plain add_blob leaves the snapshot
\* unassigned.
AddBlob(p, b, known) ==
  /\ writer[p].pc = "open" /\ added < MaxAdded
  /\ known => current > 0
  /\ file' = [file EXCEPT ![p] = @ \o BlobCells(writer[p], b)]
  /\ LET w == writer[p]
         sketch == Sketch(b.kind, b.fields, current)
         cells == EncodedPayload(sketch, b.codec)
         id == IF known THEN current ELSE Unassigned
         meta == [kind |-> b.kind, fields |-> b.fields, snapshot |-> id, sequence |-> id,
                  offset |-> w.pos + Len(EnsureHead(w)), length |-> Len(cells), codec |-> b.codec]
     IN  writer' = [writer EXCEPT ![p] =
           [pc |-> "open", pos |-> Advanced(w, cells), head |-> TRUE,
            blobs |-> Append(w.blobs, meta),
            given |-> Append(w.given, [sketch |-> sketch, snapshot |-> id])]]
  /\ added' = added + 1
  /\ UNCHANGED <<given, finished, current, attached, request, load>>

\* finish: the footer, between two magic numbers.
Finish(p) ==
  /\ writer[p].pc = "open"
  /\ file' = [file EXCEPT ![p] = @ \o FooterCells(writer[p])]
  /\ writer' = [writer EXCEPT ![p] = NoWriter]
  /\ given' = [given EXCEPT ![p] = writer[p].given]
  /\ finished' = finished \cup {p}
  /\ UNCHANGED <<added, current, attached, request, load>>

Torn == {p \in Path : writer[p].pc = "killed"}

\* The process is killed, or a write fails and the caller drops the writer,
\* when some of what an operation writes has reached the file.  Before the
\* last cell of a footer a reader makes nothing of a file (Opens), so what it
\* sees of an operation under way is what this leaves.
Killed(p) ==
  /\ writer[p].pc = "open" /\ Cardinality(Torn) < MaxTorn
  /\ \E cells \in Prefixes(Front(FooterCells(writer[p])))
                  \cup UNION {Prefixes(BlobCells(writer[p], b)) : b \in Blob} :
       file' = [file EXCEPT ![p] = @ \o cells]
  /\ writer' = [writer EXCEPT ![p] = [NoWriter EXCEPT !.pc = "killed"]]
  /\ UNCHANGED <<given, finished, added, current, attached, request, load>>

----------------------------------------------------------------------------
(* The table.                                                              *)

\* A new snapshot becomes the current one; its sequence number is its id.
Commit ==
  /\ current < MaxSnapshot
  /\ current' = current + 1
  /\ UNCHANGED <<file, writer, given, finished, added, attached, request, load>>

\* Somebody attaches a statistics file to the current snapshot.
AttachFile(p) ==
  /\ current > 0 /\ file[p] # Missing
  /\ [snapshot |-> current, path |-> p] \notin attached /\ Cardinality(attached) < MaxAttached
  /\ attached' = attached \cup {[snapshot |-> current, path |-> p]}
  /\ UNCHANGED <<file, writer, given, finished, added, current, request, load>>

----------------------------------------------------------------------------
(* Reading.                                                                *)

\* PuffinReader::open
Opens(f) ==
  /\ Len(f) >= 6
  /\ f[Len(f)] = Magic
  /\ f[Len(f) - 1] = Flags(0)
  /\ f[Len(f) - 2] = Length(1)
  /\ f[Len(f) - 3].cell = "json"
  /\ f[Len(f) - 4] = Magic
  /\ f[1] = Magic
  /\ Len(f[Len(f) - 3].blobs) <= MaxBlobs

\* blob_data_end
DataEnd(f) == Len(f) - 5

\* validate_samkhya_schema_version: a file without a version is accepted.
KnownVersion(version) == version \in {"none", "1"}

BothOrNeither(meta) == (meta.snapshot = None) <=> (meta.sequence = None)

\* Unassigned and absent metadata match every snapshot.
OnlyOfSnapshot(expected, actual) == expected = None \/ actual = expected
OfSnapshot(expected, actual) == expected = None \/ actual \in {Unassigned, None, expected}

\* validate_snapshot_metadata; the table's loader also compares sequence numbers.
SnapshotMatches(meta) ==
  /\ BothOrNeither(meta)
  /\ OfSnapshot(request.expected, meta.snapshot)
  /\ request.strict => OfSnapshot(request.sequence, meta.sequence)

\* read_blob: the range must lie between the head and the footer.
InRange(meta) == meta.offset >= 1 /\ meta.offset + meta.length <= load.end

ReadBlob(meta, f) == SubSeq(f, meta.offset + 1, meta.offset + meta.length)

\* read_blob_decompressed: whether the codec can decode the bytes, and into what.
Decompresses(codec, cells) ==
  \/ codec = "none"
  \/ codec = "zstd" /\ Len(cells) = 1 /\ cells[1].cell = "data" /\ cells[1].codec = "zstd"

Decompressed(codec, cells) == IF codec = "zstd" THEN Raw(cells[1].sketch) ELSE cells

\* from_bytes of a supported kind.  Nothing in a payload says that its parts
\* belong together: a header of the kind and the right length will do.
DecodeKnown(kind, cells) ==
  /\ Len(cells) = Size[kind]
  /\ \A k \in 1 .. Len(cells) : cells[k].cell = "data" /\ cells[k].codec = "none"
  /\ cells[1].sketch.kind = kind /\ cells[1].part = 1

\* PortableStatsSnapshot::validate
ValidateEach(blobs) ==
  \A at \in DOMAIN blobs :
    /\ Len(blobs[at].fields) = 1 /\ blobs[at].fields[1] >= 0
    /\ DecodeKnown(blobs[at].kind, blobs[at].payload)

Validate(blobs) ==
  /\ ValidateEach(blobs)
  /\ \A at, other \in DOMAIN blobs :
       blobs[at].kind = blobs[other].kind /\ blobs[at].fields = blobs[other].fields => at = other

\* History: what writers were given that finished the sidecars asked for.
Given(at) == given[request.asked[at[1]]][at[2]]

SupportedGiven ==
  {at \in UNION {{n} \X DOMAIN given[request.asked[n]] : n \in DOMAIN request.asked} : Given(at).sketch.kind \in Supported}

\* History: whether there is nothing wrong with the sidecars that are asked
\* for.  Each was finished by its writer, with no more blobs than a reader
\* accepts; the supported ones name one field, are of this snapshot, or
\* unassigned, and of different columns or kinds.
Loadable ==
  /\ \A p \in Range(request.asked) : p \in finished /\ Len(given[p]) <= MaxBlobs
  /\ \A at \in SupportedGiven :
       /\ Len(Given(at).sketch.fields) = 1 /\ Given(at).sketch.fields[1] >= 0
       /\ request.expected = None \/ Given(at).snapshot \in {Unassigned, request.expected}
  /\ \A at, other \in SupportedGiven :
       Given(at).sketch.kind = Given(other).sketch.kind /\ Given(at).sketch.fields = Given(other).sketch.fields
         => at = other

Start(strict, id, paths) ==
  /\ load.pc = "idle"
  /\ request' = [strict |-> strict, expected |-> id, sequence |-> IF strict THEN id ELSE None, asked |-> paths]
  /\ load' = Loading("busy", NoBlobs)
  /\ UNCHANGED <<file, writer, given, finished, added, current, attached>>

\* load_portable_stats, on paths and a snapshot the caller names.
LoadLocal(paths, expected) == Start(FALSE, expected, paths)

\* load_portable_stats_from_table, which keeps the table it was handed:
\* discover_puffin_sidecars finds what is attached to its current snapshot, in
\* the order of the names.
DiscoverPuffinSidecars ==
  LET found == {s.path : s \in {s \in attached : s.snapshot = current}}
  IN {paths \in UNION {[1 .. n -> found] : n \in 0 .. Cardinality(attached)} :
        Range(paths) = found /\ \A i, j \in DOMAIN paths : i < j => paths[i] < paths[j]}

LoadTable == \E paths \in DiscoverPuffinSidecars : Start(TRUE, IF current = 0 THEN None ELSE current, paths)

Ended(pc, blobs) == load' = [Loading(pc, blobs) EXCEPT !.loadable = Loadable]

\* An error discards everything read so far.
FailOpen == Ended("ok", load.blobs)
Fail == Ended("failed", NoBlobs)

Reading(n, footer, end, i, blobs) ==
  [pc |-> "busy", sidecar |-> n, footer |-> footer, end |-> end, next |-> i, blobs |-> blobs, loadable |-> FALSE]

\* The next sidecar is opened and its footer kept.  The table's reader also
\* wants every blob to carry a snapshot.
OpenSidecar ==
  /\ load.pc = "busy" /\ load.next > Len(load.footer) /\ load.sidecar < Len(request.asked)
  /\ LET f == file[request.asked[load.sidecar + 1]]
         json == f[Len(f) - 3]
     IN  IF /\ Opens(f)
            /\ KnownVersion(json.version)
            /\ request.strict => \A m \in Range(json.blobs) : m.snapshot # None /\ m.sequence # None
         THEN load' = Reading(load.sidecar + 1, json.blobs, DataEnd(f), 1, load.blobs)
         ELSE Fail
  /\ UNCHANGED <<file, writer, given, finished, added, current, attached, request>>

NextBlob == load.footer[load.next]

\* Blobs of other kinds are skipped, and not read.
SkipBlob ==
  /\ load.pc = "busy" /\ load.next <= Len(load.footer) /\ NextBlob.kind \notin Supported
  /\ load' = Reading(load.sidecar, load.footer, load.end, load.next + 1, load.blobs)
  /\ UNCHANGED <<file, writer, given, finished, added, current, attached, request>>

LoadBlob ==
  /\ load.pc = "busy" /\ load.next <= Len(load.footer) /\ NextBlob.kind \in Supported
  /\ LET meta == NextBlob
         cells == ReadBlob(meta, file[request.asked[load.sidecar]])
         at == <<load.sidecar, load.next>>
         blob == [kind |-> meta.kind, fields |-> meta.fields, snapshot |-> meta.snapshot,
                  payload |-> Decompressed(meta.codec, cells)]
     IN  IF SnapshotMatches(meta) /\ InRange(meta) /\ Decompresses(meta.codec, cells)
         THEN load' = Reading(load.sidecar, load.footer, load.end, load.next + 1,
                       [o \in DOMAIN load.blobs \cup {at} |-> IF o = at THEN blob ELSE load.blobs[o]])
         ELSE Fail
  /\ UNCHANGED <<file, writer, given, finished, added, current, attached, request>>

\* All blobs are read: they are validated together and published.
Publish ==
  /\ load.pc = "busy" /\ load.next > Len(load.footer) /\ load.sidecar = Len(request.asked)
  /\ IF Validate(load.blobs) THEN Ended("ok", load.blobs) ELSE Fail
  /\ UNCHANGED <<file, writer, given, finished, added, current, attached, request>>

\* try_column_stats_from_paths: whether a schema fits, and for each of its
\* fields the sketch its distinct count is estimated from.
ValidateSchema(schema) ==
  /\ \A f \in Range(schema) : f > 0
  /\ \A b \in Range(load.blobs) : b.fields[1] \in Range(schema)

Fits(schema) == load.pc = "ok" /\ ValidateSchema(schema)

NoStats == <<>>

\* The last one read is taken.
DecodeColumn(f) ==
  LET hlls == {at \in DOMAIN load.blobs : load.blobs[at].fields = <<f>> /\ load.blobs[at].kind = Hll}
      last == CHOOSE at \in hlls : \A o \in hlls : o[1] < at[1] \/ (o[1] = at[1] /\ o[2] <= at[2])
  IN  IF hlls = {} THEN NoStats ELSE load.blobs[last].payload

\* column_stats_from_paths, which makes an error of them no statistics.
ColumnStatsFromPaths(schema) ==
  [f \in {f \in Range(schema) : f > 0} |-> IF Fits(schema) THEN DecodeColumn(f) ELSE NoStats]

----------------------------------------------------------------------------

Write(p) == Create(p) \/ (\E b \in Blob, known \in BOOLEAN : AddBlob(p, b, known)) \/ Finish(p) \/ Killed(p)

Load ==
  \/ \E paths \in PathLists, expected \in Expected : LoadLocal(paths, expected)
  \/ LoadTable
  \/ OpenSidecar \/ SkipBlob \/ LoadBlob \/ Publish

SidecarNext == (\E p \in Path : Write(p) \/ AttachFile(p)) \/ Commit \/ Load

SidecarSpec == SidecarInit /\ [][SidecarNext]_sidecarVars

----------------------------------------------------------------------------
(* Properties.                                                             *)

\* A blob as the loader should find it.
Delivered(g) ==
  [kind |-> g.sketch.kind, fields |-> g.sketch.fields, snapshot |-> g.snapshot,
   payload |-> Raw(g.sketch)]

OfSidecar(n, places) == {at \in places : at[1] = n}

\* A load that succeeds has read whole files only, and of each that one of our
\* writers made exactly the supported blobs it was given, in order and bit by
\* bit, wherever they lie and however they are compressed; a load that fails
\* hands out nothing.  No file a killed writer left is ever read from.
LoadsExactlyWhatWasWritten ==
  /\ load.pc = "ok" =>
       \A n \in DOMAIN request.asked :
         /\ writer[request.asked[n]].pc = "none"
         /\ request.asked[n] \in finished =>
              /\ OfSidecar(n, DOMAIN load.blobs) = OfSidecar(n, SupportedGiven)
              /\ \A at \in OfSidecar(n, SupportedGiven) : load.blobs[at] = Delivered(Given(at))
  /\ load.pc = "failed" => load.blobs = NoBlobs

\* Statistics that are loaded for a snapshot describe the table as it was at
\* that snapshot, whatever was committed and attached in the meantime, unless
\* their writer did not say of which snapshot they are.
SnapshotConsistent ==
  load.pc = "ok" /\ request.expected # None =>
    \A at \in DOMAIN load.blobs :
      request.asked[at[1]] \in finished /\ load.blobs[at].snapshot # Unassigned =>
        load.blobs[at].payload[1].sketch.about = request.expected

\* The distinct count of a column comes from a sketch of that column, and from
\* the only one there is in all the sidecars that were asked for: never from
\* one of two that disagree.
DistinctCountIsOfItsColumn ==
  Range(request.asked) \subseteq finished =>
    \A schema \in Schemas :
      LET stats == ColumnStatsFromPaths(schema)
      IN  \A f \in DOMAIN stats : stats[f] # NoStats =>
            \E at \in SupportedGiven :
              /\ stats[f] = Raw(Given(at).sketch)
              /\ \A o \in SupportedGiven : Given(o).sketch.fields = <<f>> /\ Given(o).sketch.kind = Hll <=> o = at

\* A load does not fail when every sidecar asked for was finished by its
\* writer, for this snapshot or for none, and no two blobs claim the same kind
\* of the same column.
FailsForAReason == load.loadable => load.pc = "ok"
============================================================================
