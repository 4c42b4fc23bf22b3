--------------------------- MODULE StorageProofs ---------------------------
(***************************************************************************)
(* What reaches a disk, for any number of processes, files, crashes and    *)
(* busy or torn writes.                                                    *)
(*                                                                         *)
(* The feedback store: a handle is of a fully migrated store, a newer      *)
(* build's store is left alone, an acknowledged observation keeps its row, *)
(* and the histories read from the file are exactly what was recorded.     *)
(*                                                                         *)
(* The sidecars: a load returns what was written, of one snapshot, and     *)
(* fails for a reason.                                                     *)
(***************************************************************************)
EXTENDS FeedbackStore, Sidecar, SequenceTheorems, FiniteSetTheorems, TLAPS

----------------------------------------------------------------------------
(* The feedback store.                                                     *)

Connection ==
  [pc : {"closed", "version", "stamp", "inspect", "migrate", "open", "inserted"},
   seen : SUBSET FeatureColumn, next : 1 .. Len(FeatureColumns) + 1,
   id : Nat, obs : Observation \cup {Null}]

\* What each phase of open has established, and no other process undoes.
Migrating ==
  \A c \in Client :
    /\ conn[c].pc # "closed" => table
    /\ conn[c].pc = "stamp" => version <= Current
    /\ conn[c].pc \in {"inspect", "migrate", "open", "inserted"} => version = Current
    /\ conn[c].pc = "migrate" =>
         /\ conn[c].seen \subseteq columns
         /\ \A k \in 1 .. conn[c].next - 1 : FeatureColumns[k] \in columns
    /\ conn[c].pc \in {"open", "inserted"} => columns = FeatureColumn

\* Row k stores the k-th observation ever inserted, and a connection remembers
\* the row of its own insert.
Stored ==
  /\ Len(rows) = Len(log)
  /\ \A k \in 1 .. Len(log) : rows[k] = Encoded(log[k])
  /\ \A c \in Client : conn[c].pc = "inserted" =>
       conn[c].id \in 1 .. Len(log) /\ log[conn[c].id] = conn[c].obs

IInv == TypeOK /\ Migrating /\ Stored /\ AcksHold

LEMMA ColumnsTyped ==
  /\ Len(FeatureColumns) \in Nat
  /\ \A k \in 1 .. Len(FeatureColumns) : FeatureColumns[k] \in FeatureColumn
  /\ \A column \in FeatureColumn : \E k \in 1 .. Len(FeatureColumns) : FeatureColumns[k] = column
<1>1. FeatureColumns \in Seq(FeatureColumn)
  BY ColumnAssumption
<1>2. Len(FeatureColumns) \in Nat
  BY <1>1, LenProperties
<1>. QED  BY <1>2 DEF FeatureColumn

\* What is inserted fits SQLite's columns.
LEMMA EncodedTyped ==
  ASSUME NEW obs \in Observation
  PROVE  Encoded(obs) \in Row
<1>1. obs \in Observations
  BY ObservationAssumption
<1>2. obs.template \in Template /\ obs.featured \in BOOLEAN /\ obs.est \in U64
      /\ obs.left \in U64 \cup {Null} /\ obs.predicates \in U32
  BY <1>1 DEF Observations
<1>3. ASSUME NEW v \in U64 PROVE AsI64(v) \in I64
  BY WordAssumption DEF AsI64, U64, I64, MaxU64
<1>4. obs.predicates \in I64
  BY <1>2, WordAssumption DEF U32, I64
<1>5. AsI64(obs.est) \in I64
  BY <1>2, <1>3
<1>6. (IF obs.featured /\ obs.left # Null THEN AsI64(obs.left) ELSE Null) \in I64 \cup {Null}
  BY <1>2, <1>3
<1>7. (IF obs.featured THEN obs.predicates ELSE Null) \in I64 \cup {Null}
  BY <1>4
<1>. QED  BY <1>2, <1>5, <1>6, <1>7 DEF Encoded, Row

LEMMA Initially == Init => IInv
<1>. SUFFICES ASSUME Init PROVE IInv
  OBVIOUS
<1>. PICK s \in Store :
       /\ table = s.table /\ version = s.version /\ columns = s.columns
       /\ log = s.log
       /\ rows = [k \in 1 .. Len(s.log) |-> Encoded(s.log[k])]
  BY DEF Init
<1>1. table \in BOOLEAN /\ version \in Int /\ columns \subseteq FeatureColumn /\ log \in Seq(Observation)
  BY StoreAssumption
<1>2. Len(log) \in Nat /\ \A k \in 1 .. Len(log) : log[k] \in Observation
  BY <1>1, LenProperties, ElementOfSeq
<1>3. \A k \in 1 .. Len(log) : Encoded(log[k]) \in Row
  BY <1>2, EncodedTyped
<1>4. rows \in Seq(Row) /\ Len(rows) = Len(log)
  BY <1>2, <1>3, IsASeq, LenProperties
<1>5. Closed \in Connection /\ Closed.pc = "closed"
  BY ColumnsTyped DEF Closed, Handle, Connection
<1>6. \A c \in Client : conn[c] = Closed
  BY DEF Init
<1>7. conn \in [Client -> Connection]
  BY <1>5 DEF Init
<1>8. TypeOK
  BY <1>1, <1>4, <1>7, BoundAssumption DEF TypeOK, Init, Connection
<1>9. Migrating
  BY <1>5, <1>6 DEF Migrating
<1>10. Stored
  BY <1>4, <1>5, <1>6 DEF Stored
<1>11. AcksHold
  BY DEF AcksHold, Init
<1>. QED  BY <1>8, <1>9, <1>10, <1>11 DEF IInv

\* What the invariant says of one connection, given the file.
Safe(k) ==
  /\ k \in Connection
  /\ k.pc # "closed" => table'
  /\ k.pc = "stamp" => version' <= Current
  /\ k.pc \in {"inspect", "migrate", "open", "inserted"} => version' = Current
  /\ k.pc = "migrate" =>
       /\ k.seen \subseteq columns'
       /\ \A j \in 1 .. k.next - 1 : FeatureColumns[j] \in columns'
  /\ k.pc \in {"open", "inserted"} => columns' = FeatureColumn
  /\ k.pc = "inserted" => k.id \in 1 .. Len(log') /\ log'[k.id] = k.obs

\* A statement that moves one connection and leaves the rows alone.  The file
\* only grows: no other connection loses what it relies on.
LEMMA OneMoves ==
  ASSUME IInv, NEW c \in Client, NEW k,
         conn' = [conn EXCEPT ![c] = k], Safe(k),
         table => table', table' \in BOOLEAN,
         version' \in {version, Current}, version <= Current \/ version' = version,
         columns \subseteq columns', columns' \subseteq FeatureColumn,
         rows' = rows, log' = log,
         refused' \in [Client -> {"no", "newer", "busy", "duplicate"}],
         faults' \in 0 .. MaxFaults,
         acked' \in SUBSET [id : Nat, obs : Observation]
  PROVE  TypeOK' /\ Migrating' /\ Stored'
<1>1. conn \in [Client -> Connection] /\ conn' \in [Client -> Connection]
  BY DEF IInv, TypeOK, Safe, Connection
<1>2. \A d \in Client : conn'[d] = IF d = c THEN k ELSE conn[d]
  BY <1>1
<1>3. rows' \in Seq(Row) /\ log' \in Seq(Observation) /\ version' \in Int
  BY VersionAssumption DEF IInv, TypeOK
<1>4. ASSUME NEW d \in Client, d # c PROVE Safe(conn[d])
  <2>1. conn[d] \in Connection /\ columns \subseteq FeatureColumn
    BY <1>1 DEF IInv, TypeOK
  <2>2. /\ conn[d].pc # "closed" => table
        /\ conn[d].pc = "stamp" => version <= Current
        /\ conn[d].pc \in {"inspect", "migrate", "open", "inserted"} => version = Current
        /\ conn[d].pc = "migrate" =>
             /\ conn[d].seen \subseteq columns
             /\ \A j \in 1 .. conn[d].next - 1 : FeatureColumns[j] \in columns
        /\ conn[d].pc \in {"open", "inserted"} => columns = FeatureColumn
    BY DEF IInv, Migrating
  <2>3. conn[d].pc = "inserted" => conn[d].id \in 1 .. Len(log) /\ log[conn[d].id] = conn[d].obs
    BY DEF IInv, Stored
  <2>4. version' <= Current \/ version' = version
    BY VersionAssumption
  <2>. QED  BY <2>1, <2>2, <2>3, <2>4, VersionAssumption DEF Safe
<1>5. \A d \in Client : Safe(conn'[d])
  BY <1>2, <1>4
<1>6. TypeOK'
  BY <1>1, <1>3 DEF TypeOK, Connection
<1>7. Migrating'
  BY <1>5 DEF Migrating, Safe
<1>8. Stored'
  BY <1>5 DEF Stored, Safe, IInv
<1>. QED  BY <1>6, <1>7, <1>8

\* The rows stay, so the acknowledged ones do.
LEMMA AcksStay ==
  ASSUME AcksHold, rows' = rows, log' = log, acked' = acked
  PROVE  AcksHold'
BY DEF AcksHold

LEMMA Fields ==
  ASSUME NEW k \in Connection
  PROVE  /\ k = [pc |-> k.pc, seen |-> k.seen, next |-> k.next, id |-> k.id, obs |-> k.obs]
         /\ k.seen \subseteq FeatureColumn /\ k.next \in 1 .. Len(FeatureColumns) + 1
         /\ k.id \in Nat /\ k.obs \in Observation \cup {Null}
BY DEF Connection

LEMMA NextUpdate ==
  ASSUME NEW k \in Connection, NEW x
  PROVE  [k EXCEPT !.next = x] = [pc |-> k.pc, seen |-> k.seen, next |-> x, id |-> k.id, obs |-> k.obs]
BY DEF Connection

LEMMA Invariance == IInv /\ [Next]_vars => IInv'
<1>. SUFFICES ASSUME IInv, [Next]_vars PROVE IInv'
  OBVIOUS
<1>. USE DEF disk
<1>1. CASE UNCHANGED vars
  BY <1>1 DEF vars, IInv, TypeOK, Migrating, Stored, AcksHold
<1>2. ASSUME NEW c \in Client, Step(c) PROVE IInv'
  <2>0. /\ conn \in [Client -> Connection] /\ conn[c] \in Connection
        /\ refused \in [Client -> {"no", "newer", "busy", "duplicate"}]
        /\ acked \in SUBSET [id : Nat, obs : Observation]
        /\ table \in BOOLEAN /\ version \in Int /\ columns \subseteq FeatureColumn
        /\ faults \in 0 .. MaxFaults /\ AcksHold
        /\ rows \in Seq(Row) /\ log \in Seq(Observation)
    BY DEF IInv, TypeOK, Connection
  <2>C. Safe(Closed)
    BY ColumnsTyped DEF Safe, Closed, Handle, Connection
  <2>1. CASE Open(c)
    <3>. DEFINE k == [conn[c] EXCEPT !.pc = "version"]
    <3>1. conn' = [conn EXCEPT ![c] = k]
      BY <2>1 DEF Open
    <3>2. Safe(k)
      BY <2>0, <2>1 DEF Safe, Open, Connection
    <3>. HIDE DEF k
    <3>. QED  BY <2>0, <2>1, <3>1, <3>2, OneMoves, AcksStay, VersionAssumption DEF Open, IInv
  <2>2. CASE CheckVersion(c)
    <3>1. CASE version > Current
      BY <2>0, <2>2, <3>1, <2>C, OneMoves, AcksStay DEF CheckVersion, Refuse, IInv
    <3>2. CASE ~(version > Current)
      <4>. DEFINE k == [pc |-> IF version < Current THEN "stamp" ELSE "inspect",
                  seen |-> conn[c].seen, next |-> conn[c].next, id |-> conn[c].id, obs |-> conn[c].obs]
      <4>1. conn' = [conn EXCEPT ![c] = k]
        BY <2>0, <2>2, <3>2, Fields DEF CheckVersion
      <4>2. table
        BY <2>2 DEF CheckVersion, IInv, Migrating
      <4>3. Safe(k)
        BY <2>0, <2>2, <3>2, <4>2, Fields, VersionAssumption DEF Safe, CheckVersion, Connection
      <4>. HIDE DEF k
      <4>. QED  BY <2>0, <2>2, <3>2, <4>1, <4>3, OneMoves, AcksStay DEF CheckVersion, IInv
    <3>. QED  BY <3>1, <3>2
  <2>3. CASE Stamp(c)
    <3>. DEFINE k == [conn[c] EXCEPT !.pc = "inspect"]
    <3>1. conn' = [conn EXCEPT ![c] = k]
      BY <2>3 DEF Stamp
    <3>2. table /\ version <= Current
      BY <2>3 DEF Stamp, IInv, Migrating
    <3>3. Safe(k)
      BY <2>0, <2>3, <3>2 DEF Safe, Stamp, Connection
    <3>. HIDE DEF k
    <3>. QED  BY <2>0, <2>3, <3>1, <3>2, <3>3, OneMoves, AcksStay DEF Stamp, IInv
  <2>4. CASE Inspect(c)
    <3>. DEFINE k == Handle("migrate", columns, 0, Null)
    <3>1. conn' = [conn EXCEPT ![c] = k]
      BY <2>4 DEF Inspect
    <3>2. table /\ version = Current
      BY <2>4 DEF Inspect, IInv, Migrating
    <3>3. k = [pc |-> "migrate", seen |-> columns, next |-> 1, id |-> 0, obs |-> Null]
      BY DEF Handle
    <3>. HIDE DEF k
    <3>4. Safe(k)
      BY <2>0, <2>4, <3>2, <3>3, ColumnsTyped DEF Safe, Inspect, Connection
    <3>. QED  BY <2>0, <2>4, <3>1, <3>4, OneMoves, AcksStay DEF Inspect, IInv
  <2>5. CASE AddColumn(c)
    <3>. DEFINE column == FeatureColumns[conn[c].next]
                k == [pc |-> conn[c].pc, seen |-> conn[c].seen, next |-> conn[c].next + 1, id |-> conn[c].id, obs |-> conn[c].obs]
    <3>1. /\ conn[c].pc = "migrate" /\ conn[c].next \in 1 .. Len(FeatureColumns)
          /\ column \in FeatureColumn
      BY <2>0, <2>5, ColumnsTyped DEF AddColumn, Connection
    <3>2. /\ table /\ version = Current /\ conn[c].seen \subseteq columns
          /\ \A j \in 1 .. conn[c].next - 1 : FeatureColumns[j] \in columns
      BY <3>1 DEF IInv, Migrating
    <3>3. CASE columns' = columns \/ columns' = columns \cup {column}
      <4>1. CASE conn' = [conn EXCEPT ![c] = Closed]
        BY <2>0, <2>5, <2>C, <3>1, <3>3, <4>1, OneMoves, AcksStay DEF AddColumn, Refuse, IInv
      <4>2. CASE conn' = [conn EXCEPT ![c].next = @ + 1] /\ column \in columns' /\ UNCHANGED refused
        <5>1. conn' = [conn EXCEPT ![c] = k]
          <6>1. [conn[c] EXCEPT !.next = @ + 1] = k
            BY <2>0, NextUpdate
          <6>. QED  BY <4>2, <6>1
        <5>2. \A j \in 1 .. conn[c].next : FeatureColumns[j] \in columns'
          BY <3>1, <3>2, <3>3, <4>2
        <5>3. k \in Connection
          BY <2>0, <3>1, ColumnsTyped, Fields DEF Connection
        <5>4. k.pc = "migrate" /\ k.seen = conn[c].seen /\ k.next = conn[c].next + 1
          BY <2>0, <3>1 DEF Connection
        <5>5. table' /\ version' = Current
          BY <2>5, <3>2 DEF AddColumn
        <5>6. Safe(k)
          BY <3>1, <3>2, <3>3, <5>2, <5>3, <5>4, <5>5 DEF Safe
        <5>. HIDE DEF k
        <5>. QED  BY <2>0, <2>5, <3>1, <3>3, <4>2, <5>1, <5>6, OneMoves, AcksStay DEF AddColumn, IInv
      <4>. QED  BY <2>5, <3>2, <3>3, <4>1, <4>2 DEF AddColumn, Seen, Refuse
    <3>. QED  BY <2>5, <3>3 DEF AddColumn, Refuse
  <2>6. CASE Opened(c)
    <3>. DEFINE k == Idle
    <3>1. conn' = [conn EXCEPT ![c] = k]
      BY <2>6 DEF Opened
    <3>2. table /\ version = Current /\ \A j \in 1 .. Len(FeatureColumns) : FeatureColumns[j] \in columns
      BY <2>0, <2>6, ColumnsTyped DEF Opened, IInv, Migrating, Connection
    <3>3. columns = FeatureColumn
      BY <2>0, <3>2, ColumnsTyped
    <3>4. Safe(k)
      BY <2>6, <3>2, <3>3, ColumnsTyped DEF Opened, disk, Safe, Idle, Handle, Connection
    <3>. HIDE DEF k
    <3>. QED  BY <2>0, <2>6, <3>1, <3>4, OneMoves, AcksStay DEF Opened, IInv
  <2>7. ASSUME NEW obs \in Observation, Insert(c, obs) PROVE IInv'
    <3>1. /\ Len(rows) = Len(log) /\ Len(rows) \in Nat
          /\ rows' \in Seq(Row) /\ log' \in Seq(Observation)
          /\ Len(rows') = Len(rows) + 1 /\ Len(log') = Len(log) + 1
          /\ rows'[Len(rows) + 1] = Encoded(obs) /\ log'[Len(log) + 1] = obs
          /\ \A j \in 1 .. Len(rows) : rows'[j] = rows[j] /\ log'[j] = log[j]
      BY <2>0, <2>7, EncodedTyped, AppendProperties, LenProperties DEF Insert, IInv, Stored
    <3>2. /\ conn[c].pc = "open" /\ table /\ version = Current /\ columns = FeatureColumn
      BY <2>7 DEF Insert, IInv, Migrating
    <3>. DEFINE k == Handle("inserted", {}, Len(rows) + 1, obs)
    <3>3. conn' = [conn EXCEPT ![c] = k]
      BY <2>7 DEF Insert
    <3>3a. k = [pc |-> "inserted", seen |-> {}, next |-> 1, id |-> Len(rows) + 1, obs |-> obs]
      BY DEF Handle
    <3>. HIDE DEF k
    <3>4. k \in Connection /\ k.pc = "inserted" /\ k.id = Len(rows) + 1 /\ k.obs = obs
      BY <3>1, <3>3a, ColumnsTyped DEF Connection
    <3>5. \A d \in Client : conn'[d] = IF d = c THEN k ELSE conn[d]
      BY <2>0, <3>3
    <3>6. conn' \in [Client -> Connection]
      BY <2>0, <3>3, <3>4
    <3>7. TypeOK'
      BY <2>0, <2>7, <3>1, <3>6 DEF Insert, TypeOK, Connection
    <3>8. Migrating'
      BY <2>7, <3>2, <3>4, <3>5 DEF Insert, IInv, Migrating
    <3>9. Stored'
      BY <3>1, <3>4, <3>5 DEF IInv, Stored
    <3>10. AcksHold'
      BY <2>0, <2>7, <3>1 DEF AcksHold, Insert
    <3>. QED  BY <3>7, <3>8, <3>9, <3>10 DEF IInv
  <2>8. CASE Return(c)
    <3>. DEFINE k == Idle
    <3>1. conn' = [conn EXCEPT ![c] = k]
      BY <2>8 DEF Return
    <3>2. table /\ version = Current /\ columns = FeatureColumn
      BY <2>8 DEF Return, IInv, Migrating
    <3>3. Safe(k)
      BY <2>8, <3>2, ColumnsTyped DEF Return, disk, Safe, Idle, Handle, Connection
    <3>4. /\ conn[c].id \in 1 .. Len(rows) /\ log[conn[c].id] = conn[c].obs
          /\ rows[conn[c].id] = Encoded(conn[c].obs) /\ Len(log) \in Nat
      BY <2>0, <2>8, LenProperties DEF Return, IInv, Stored
    <3>5. conn[c].obs \in Observation /\ conn[c].id \in Nat
      BY <2>0, <3>4, ElementOfSeq DEF IInv, Stored, Connection
    <3>6. acked' \in SUBSET [id : Nat, obs : Observation]
      BY <2>0, <2>8, <3>5 DEF Return, LastInsertRowid
    <3>7. AcksHold'
      BY <2>0, <2>8, <3>4 DEF Return, LastInsertRowid, AcksHold
    <3>. HIDE DEF k
    <3>. QED  BY <2>0, <2>8, <3>1, <3>3, <3>6, <3>7, OneMoves DEF Return, IInv
  <2>9. CASE Close(c)
    BY <2>0, <2>9, <2>C, OneMoves, AcksStay DEF Close, IInv
  <2>10. CASE Crash(c)
    <3>1. faults' \in 0 .. MaxFaults
      BY <2>0, <2>10, BoundAssumption DEF Crash
    <3>2. refused' \in [Client -> {"no", "newer", "busy", "duplicate"}]
      BY <2>0, <2>10 DEF Crash
    <3>. QED  BY <2>0, <2>10, <2>C, <3>1, <3>2, OneMoves, AcksStay DEF Crash, IInv
  <2>11. CASE Busy(c)
    <3>1. faults' \in 0 .. MaxFaults
      BY <2>0, <2>11, BoundAssumption DEF Busy
    <3>2. refused' \in [Client -> {"no", "newer", "busy", "duplicate"}]
      BY <2>0, <2>11 DEF Busy, Refuse
    <3>. QED  BY <2>0, <2>11, <2>C, <3>1, <3>2, OneMoves, AcksStay DEF Busy, Refuse, IInv
  <2>. QED
    BY <1>2, <2>1, <2>2, <2>3, <2>4, <2>5, <2>6, <2>7, <2>8, <2>9, <2>10, <2>11 DEF Step
<1>. QED  BY <1>1, <1>2 DEF Next

----------------------------------------------------------------------------
(* The histories.                                                          *)

\* The sign a u64 takes in SQLite's column is undone on the way back.
LEMMA WordRoundTrip == \A v \in U64 : AsI64(v) \in I64 /\ AsU64(AsI64(v)) = v
<1>. DEFINE m == MaxU64 + 1
<1>1. MaxI64 \in Nat /\ m = 2 * MaxI64 + 2 /\ m \in Nat \ {0}
  BY WordAssumption DEF MaxU64
<1>. SUFFICES ASSUME NEW v \in U64 PROVE AsI64(v) \in I64 /\ AsU64(AsI64(v)) = v
  OBVIOUS
<1>2. v \in 0 .. m - 1
  BY <1>1 DEF U64, MaxU64
<1>. HIDE DEF m
<1>3. CASE v > MaxI64
  <2>1. AsI64(v) = v - m
    BY <1>3 DEF AsI64, m
  <2>2. (v - m) % m = v
    BY <1>1, <1>2
  <2>. QED  BY <1>1, <1>2, <1>3, <2>1, <2>2 DEF AsU64, I64, m
<1>4. CASE ~(v > MaxI64)
  <2>1. AsI64(v) = v
    BY <1>4 DEF AsI64
  <2>2. v % m = v
    BY <1>1, <1>2
  <2>. QED  BY <1>1, <1>2, <1>4, <2>1, <2>2 DEF AsU64, I64, m
<1>. QED  BY <1>3, <1>4

LEMMA CountRoundTrip == \A n \in U32 : AsU32(n) = n
BY WordAssumption DEF U32, AsU32

\* A row carries features exactly when its observation does, and gives back
\* the values that were recorded.
LEMMA Decodes ==
  ASSUME NEW obs \in Observation
  PROVE  LET row == Encoded(obs) IN
         /\ row.template = obs.template
         /\ AsU64(row.est) = obs.est
         /\ HasFeatures(row) <=> obs.featured
         /\ obs.featured => /\ (IF row.left = Null THEN Null ELSE AsU64(row.left)) = obs.left
                            /\ AsU32(row.predicates) = obs.predicates
<1>1. /\ obs.est \in U64 /\ obs.left \in U64 \cup {Null} /\ obs.predicates \in U32
  BY ObservationAssumption DEF Observations
<1>2. obs.predicates # Null
  BY <1>1, NullAssumption, WordAssumption DEF U32
<1>3. obs.left # Null => AsI64(obs.left) # Null /\ AsU64(AsI64(obs.left)) = obs.left
  BY <1>1, WordRoundTrip, NullAssumption, WordAssumption DEF I64
<1>4. HasFeatures(Encoded(obs)) <=> obs.featured
  BY <1>2 DEF HasFeatures, Encoded
<1>5. AsU64(Encoded(obs).est) = obs.est
  BY <1>1, WordRoundTrip DEF Encoded
<1>6. ASSUME obs.featured
      PROVE  /\ (IF Encoded(obs).left = Null THEN Null ELSE AsU64(Encoded(obs).left)) = obs.left
             /\ AsU32(Encoded(obs).predicates) = obs.predicates
  BY <1>1, <1>3, <1>6, CountRoundTrip DEF Encoded
<1>7. Encoded(obs).template = obs.template
  BY DEF Encoded
<1>. QED  BY <1>4, <1>5, <1>6, <1>7

LEMMA HistoriesFaithful == TypeOK /\ Stored => HistoryFaithful
<1>. SUFFICES ASSUME TypeOK, Stored, NEW t \in Template
     PROVE  /\ PlanHistory(t) =
                 [k \in Featured(t) |-> [est |-> log[k].est, left |-> log[k].left, predicates |-> log[k].predicates]]
            /\ History(t) = [k \in OfTemplate(t) |-> log[k].est]
  BY DEF HistoryFaithful
<1>1. DOMAIN rows = DOMAIN log /\ DOMAIN log = 1 .. Len(log)
  BY LenProperties DEF TypeOK, Stored
<1>2. \A k \in DOMAIN log : log[k] \in Observation /\ rows[k] = Encoded(log[k])
  BY <1>1, ElementOfSeq DEF TypeOK, Stored
<1>3. ASSUME NEW k \in DOMAIN log
      PROVE  /\ rows[k].template = log[k].template
             /\ AsU64(rows[k].est) = log[k].est
             /\ HasFeatures(rows[k]) <=> log[k].featured
             /\ log[k].featured => /\ (IF rows[k].left = Null THEN Null ELSE AsU64(rows[k].left)) = log[k].left
                                   /\ AsU32(rows[k].predicates) = log[k].predicates
  <2>. DEFINE obs == log[k]
  <2>1. obs \in Observation /\ rows[k] = Encoded(obs)
    BY <1>2
  <2>. HIDE DEF obs
  <2>. QED  BY <2>1, Decodes DEF obs
<1>4. {k \in DOMAIN rows : rows[k].template = t} = OfTemplate(t)
  BY <1>1, <1>3 DEF OfTemplate
<1>5. {k \in DOMAIN rows : rows[k].template = t /\ HasFeatures(rows[k])} = Featured(t)
  BY <1>1, <1>3 DEF OfTemplate, Featured
<1>6. Featured(t) \subseteq DOMAIN log /\ OfTemplate(t) \subseteq DOMAIN log
  BY DEF Featured, OfTemplate
<1>7. History(t) = [k \in OfTemplate(t) |-> log[k].est]
  BY <1>3, <1>4, <1>6 DEF History
<1>8. \A k \in Featured(t) :
        [est |-> AsU64(rows[k].est),
         left |-> IF rows[k].left = Null THEN Null ELSE AsU64(rows[k].left),
         predicates |-> AsU32(rows[k].predicates)]
        = [est |-> log[k].est, left |-> log[k].left, predicates |-> log[k].predicates]
  BY <1>3, <1>6 DEF Featured
<1>9. PlanHistory(t) =
        [k \in Featured(t) |-> [est |-> log[k].est, left |-> log[k].left, predicates |-> log[k].predicates]]
  BY <1>5, <1>8 DEF PlanHistory, ReadPlan
<1>. QED  BY <1>7, <1>9

----------------------------------------------------------------------------
(* The theorems.                                                           *)

LEMMA Invariant == Spec => []IInv
<1>. QED  BY Initially, Invariance, PTL DEF Spec

\* The state keeps its types; what is stored fits SQLite's 64-bit columns.
THEOREM Typed == Spec => []TypeOK
<1>1. IInv => TypeOK
  BY DEF IInv
<1>. QED  BY <1>1, Invariant, PTL

\* A handle that open returned is of a fully migrated store.
THEOREM HandlesAreMigrated == Spec => []OpenMeansMigrated
<1>1. IInv => OpenMeansMigrated
  BY DEF IInv, Migrating, OpenMeansMigrated
<1>. QED  BY <1>1, Invariant, PTL

\* An acknowledged observation keeps its row.
THEOREM AcksAreDurable == Spec => []AcksHold
<1>1. IInv => AcksHold
  BY DEF IInv
<1>. QED  BY <1>1, Invariant, PTL

\* What plan_history and history return is what was recorded, in order and
\* with the 64-bit values intact.
THEOREM HistoriesAreFaithful == Spec => []HistoryFaithful
<1>1. IInv => HistoryFaithful
  BY HistoriesFaithful DEF IInv
<1>. QED  BY <1>1, Invariant, PTL

\* A row is read as it was told.
LEMMA ToldBack ==
  ASSUME NEW obs \in Observation
  PROVE  ReadBack(Encoded(obs)) = Told(obs)
<1>. DEFINE row == Encoded(obs)
<1>1. /\ row.template = obs.template /\ AsU64(row.est) = obs.est /\ (HasFeatures(row) <=> obs.featured)
      /\ obs.featured => /\ (IF row.left = Null THEN Null ELSE AsU64(row.left)) = obs.left
                         /\ AsU32(row.predicates) = obs.predicates
  BY Decodes
<1>. HIDE DEF row
<1>2. ASSUME obs.featured PROVE ReadBack(row) = Told(obs)
  <2>1. HasFeatures(row) /\ ReadPlan(row) = [est |-> obs.est, left |-> obs.left, predicates |-> obs.predicates]
    BY <1>1, <1>2 DEF ReadPlan
  <2>2. ReadBack(row) = [template |-> row.template, est |-> AsU64(row.est), plan |-> ReadPlan(row)]
    BY <2>1 DEF ReadBack
  <2>3. Told(obs) = [template |-> obs.template, est |-> obs.est,
                     plan |-> [est |-> obs.est, left |-> obs.left, predicates |-> obs.predicates]]
    BY <1>2 DEF Told
  <2>. QED  BY <1>1, <2>1, <2>2, <2>3
<1>3. ASSUME ~obs.featured PROVE ReadBack(row) = Told(obs)
  <2>1. ~HasFeatures(row)
    BY <1>1, <1>3
  <2>2. ReadBack(row) = [template |-> row.template, est |-> AsU64(row.est), plan |-> Null]
    BY <2>1 DEF ReadBack
  <2>3. Told(obs) = [template |-> obs.template, est |-> obs.est, plan |-> Null]
    BY <1>3 DEF Told
  <2>. QED  BY <1>1, <2>2, <2>3
<1>. QED  BY <1>2, <1>3 DEF row

LEMMA RecordedTold ==
  ASSUME TypeOK, Stored
  PROVE  /\ Len(log) \in Nat /\ DOMAIN rows = 1 .. Len(log)
         /\ Recorded = [k \in 1 .. Len(log) |-> Told(log[k])]
         /\ Recorded \in Seq({Told(obs) : obs \in Observation}) /\ Len(Recorded) = Len(log)
<1>1. Len(log) \in Nat /\ DOMAIN rows = 1 .. Len(log)
  BY LenProperties DEF TypeOK, Stored
<1>2. ASSUME NEW k \in 1 .. Len(log)
      PROVE  log[k] \in Observation /\ ReadBack(rows[k]) = Told(log[k])
  <2>. DEFINE obs == log[k]
  <2>1. obs \in Observation /\ rows[k] = Encoded(obs)
    BY ElementOfSeq DEF TypeOK, Stored
  <2>. HIDE DEF obs
  <2>. QED  BY <2>1, ToldBack DEF obs
<1>3. Recorded = [k \in 1 .. Len(log) |-> Told(log[k])]
  BY <1>1, <1>2 DEF Recorded
<1>. DEFINE T == {Told(obs) : obs \in Observation}
<1>4. \A k \in 1 .. Len(log) : Told(log[k]) \in T
  BY <1>2
<1>. HIDE DEF T
<1>5. Recorded \in [1 .. Len(log) -> T]
  BY <1>3, <1>4
<1>6. Recorded \in Seq(T) /\ Len(Recorded) = Len(log)
  BY <1>1, <1>5, SeqDef, LenProperties
<1>. QED  BY <1>1, <1>3, <1>6 DEF T

\* What a step of one connection makes of the callers that wait.
LEMMA PendingMoves ==
  ASSUME NEW c \in Client, \A d \in Client : d # c => conn'[d] = conn[d]
  PROVE  Pending' = [Pending EXCEPT ![c] = IF conn'[c].pc = "inserted" THEN conn'[c].id ELSE 0]
BY DEF Pending

LEMMA PendingStays ==
  ASSUME NEW c \in Client, \A d \in Client : d # c => conn'[d] = conn[d],
         conn[c].pc # "inserted", conn'[c].pc # "inserted"
  PROVE  Pending' = Pending
BY DEF Pending

\* A step of the store is one of the log, or the log does not see it.
LEMMA LogStep ==
  ASSUME IInv, IInv', [Next]_vars
  PROVE  [Log!Next]_Log!vars
<1>0. conn \in [Client -> Connection] /\ TypeOK /\ Stored /\ TypeOK' /\ Stored'
  BY DEF IInv, TypeOK, Connection
<1>1. CASE UNCHANGED vars
  BY <1>1 DEF vars, disk, Log!vars, Recorded, Pending, Answered
<1>2. ASSUME NEW c \in Client, Step(c) PROVE [Log!Next]_Log!vars
  <2>1. CASE Open(c) \/ CheckVersion(c) \/ Stamp(c) \/ Inspect(c) \/ AddColumn(c) \/ Opened(c) \/ Close(c) \/ Busy(c)
    <3>1. rows' = rows /\ acked' = acked /\ conn[c].pc # "inserted"
      BY <2>1 DEF Open, CheckVersion, Stamp, Inspect, AddColumn, Opened, Close, Busy, disk
    <3>2. /\ \A d \in Client : d # c => conn'[d] = conn[d]
          /\ conn'[c].pc # "inserted"
      BY <1>0, <2>1 DEF Open, CheckVersion, Stamp, Inspect, AddColumn, Opened, Close, Busy, Refuse, Closed, Idle, Handle, Connection
    <3>. QED  BY <3>1, <3>2, PendingStays DEF Log!vars, Recorded, Answered
  <2>2. CASE Crash(c)
    <3>1. rows' = rows /\ acked' = acked /\ conn' = [conn EXCEPT ![c] = Closed]
      BY <2>2 DEF Crash, disk
    <3>2. (\A d \in Client : d # c => conn'[d] = conn[d]) /\ conn'[c].pc = "closed"
      BY <1>0, <3>1 DEF Closed, Handle
    <3>3. Recorded' = Recorded /\ Answered' = Answered
      BY <3>1 DEF Recorded, Answered
    <3>4. CASE conn[c].pc # "inserted"
      BY <3>2, <3>3, <3>4, PendingStays DEF Log!vars
    <3>5. CASE conn[c].pc = "inserted"
      <4>1. Pending' = [Pending EXCEPT ![c] = 0]
        BY <3>2, PendingMoves
      <4>2. Pending[c] # 0
        BY <1>0, <3>5 DEF Pending, Stored
      <4>. QED  BY <3>3, <4>1, <4>2 DEF Log!Next, Log!Die
    <3>. QED  BY <3>4, <3>5
  <2>3. ASSUME NEW obs \in Observation, Insert(c, obs) PROVE [Log!Next]_Log!vars
    <3>1. /\ rows' = Append(rows, Encoded(obs)) /\ log' = Append(log, obs) /\ acked' = acked
          /\ conn[c].pc = "open" /\ conn' = [conn EXCEPT ![c] = Handle("inserted", {}, Len(rows) + 1, obs)]
      BY <2>3 DEF Insert
    <3>2. /\ \A d \in Client : d # c => conn'[d] = conn[d]
          /\ conn'[c].pc = "inserted" /\ conn'[c].id = Len(rows) + 1
      BY <1>0, <3>1 DEF Handle
    <3>3. /\ Recorded \in Seq({Told(o) : o \in Observation}) /\ DOMAIN rows = 1 .. Len(rows)
          /\ Len(Recorded) = Len(rows) /\ Len(rows) \in Nat
      BY <1>0, RecordedTold DEF Stored
    <3>4. /\ Len(rows') = Len(rows) + 1 /\ DOMAIN rows' = 1 .. Len(rows) + 1
          /\ \A k \in 1 .. Len(rows) + 1 : rows'[k] = IF k <= Len(rows) THEN rows[k] ELSE Encoded(obs)
      BY <1>0, <3>1, <3>3, AppendProperties DEF TypeOK
    <3>5. Recorded' = Append(Recorded, Told(obs)) /\ Len(Recorded') = Len(rows) + 1
      <4>1. Recorded' = [k \in 1 .. Len(rows) + 1 |-> IF k <= Len(rows) THEN Recorded[k] ELSE Told(obs)]
        BY <3>3, <3>4, ToldBack DEF Recorded
      <4>. DEFINE T == {Told(o) : o \in Observation}
                  e == Told(obs)
      <4>2. Recorded \in Seq(T) /\ e \in T
        BY <3>3
      <4>. HIDE DEF T, e
      <4>3. /\ Append(Recorded, e) \in Seq(T) /\ Len(Append(Recorded, e)) = Len(rows) + 1
            /\ \A k \in 1 .. Len(rows) + 1 : Append(Recorded, e)[k] = IF k <= Len(rows) THEN Recorded[k] ELSE e
        BY <3>3, <4>2, AppendProperties
      <4>4. DOMAIN Append(Recorded, e) = 1 .. Len(rows) + 1 /\ Append(Recorded, e) = [k \in DOMAIN Append(Recorded, e) |-> Append(Recorded, e)[k]]
        BY <4>3, LenProperties
      <4>5. Recorded' = [k \in 1 .. Len(rows) + 1 |-> IF k <= Len(rows) THEN Recorded[k] ELSE e]
        BY <4>1 DEF e
      <4>6. Recorded' = Append(Recorded, e)
        BY <4>3, <4>4, <4>5
      <4>. QED  BY <4>3, <4>6 DEF e
    <3>6. Pending' = [Pending EXCEPT ![c] = Len(Recorded')] /\ Pending[c] = 0
      BY <3>1, <3>2, <3>5, PendingMoves DEF Pending
    <3>7. Answered' = Answered
      BY <3>1 DEF Answered
    <3>. QED  BY <3>5, <3>6, <3>7 DEF Log!Next, Log!Record
  <2>4. CASE Return(c)
    <3>1. /\ rows' = rows /\ conn[c].pc = "inserted" /\ conn' = [conn EXCEPT ![c] = Idle]
          /\ acked' = acked \cup {[id |-> conn[c].id, obs |-> conn[c].obs]}
      BY <2>4 DEF Return, disk, LastInsertRowid
    <3>2. (\A d \in Client : d # c => conn'[d] = conn[d]) /\ conn'[c].pc = "open"
      BY <1>0, <3>1 DEF Idle, Handle
    <3>3. conn[c].id \in 1 .. Len(log) /\ log[conn[c].id] = conn[c].obs
      BY <1>0, <3>1 DEF Stored
    <3>4. Pending[c] = conn[c].id /\ Pending[c] # 0 /\ Pending' = [Pending EXCEPT ![c] = 0]
      BY <1>0, <3>1, <3>2, <3>3, PendingMoves DEF Pending
    <3>5. Recorded[Pending[c]] = Told(conn[c].obs) /\ Recorded' = Recorded
      BY <1>0, <3>1, <3>3, <3>4, RecordedTold DEF Recorded
    <3>6. Answered' = Answered \cup {[id |-> conn[c].id, outcome |-> Told(conn[c].obs)]}
      <4>. DEFINE told == [id |-> conn[c].id, obs |-> conn[c].obs]
      <4>1. told.id = conn[c].id /\ told.obs = conn[c].obs /\ acked' = acked \cup {told}
        BY <3>1
      <4>. HIDE DEF told
      <4>2. Answered' = {[id |-> a.id, outcome |-> Told(a.obs)] : a \in acked \cup {told}}
        BY <4>1 DEF Answered
      <4>3. Answered' = Answered \cup {[id |-> told.id, outcome |-> Told(told.obs)]}
        BY <4>2, Zenon DEF Answered
      <4>. QED  BY <4>1, <4>3
    <3>7. Log!Acknowledge(c)
      BY <3>4, <3>5, <3>6 DEF Log!Acknowledge
    <3>. QED  BY <3>7 DEF Log!Next
  <2>. QED  BY <1>2, <2>1, <2>2, <2>3, <2>4 DEF Step
<1>. QED  BY <1>1, <1>2 DEF Next

\* To everybody who records in it or reads it the store is an append-only log
\* of whole observations, whoever opens, migrates, dies or is busy meanwhile.
THEOREM StoreIsALog == Spec => AppendOnlyLog
<1>1. Init => Log!Init
  <2>. SUFFICES ASSUME Init PROVE Log!Init
    OBVIOUS
  <2>1. TypeOK /\ Stored
    BY Initially DEF IInv
  <2>2. Recorded \in Seq({Told(obs) : obs \in Observation})
    BY <2>1, RecordedTold
  <2>3. Pending = [c \in Client |-> 0]
    BY DEF Init, Pending, Closed, Handle
  <2>4. Answered = {}
    BY DEF Init, Answered
  <2>. QED  BY <2>2, <2>3, <2>4 DEF Log!Init
<1>2. IInv /\ IInv' /\ [Next]_vars => [Log!Next]_Log!vars
  BY LogStep
<1>. QED  BY <1>1, <1>2, Invariant, PTL DEF Spec, AppendOnlyLog, Log!Spec

\* Nothing changes the stamp, the columns or a row of a newer build's store,
\* whose table is at most created where it is missing.
THEOREM NewerStoresAreLeft == Spec => NewerUntouched
<1>1. IInv /\ [Next]_vars => [version > Current => UNCHANGED <<version, columns, rows>> /\ (table => table')]_vars
  <2>. SUFFICES ASSUME IInv, Next, version > Current
                PROVE  UNCHANGED <<version, columns, rows>> /\ (table => table')
    BY DEF vars
  <2>. PICK c \in Client : Step(c)
    BY DEF Next
  <2>1. /\ conn[c].pc \notin {"stamp", "inspect", "migrate", "open", "inserted"}
    BY VersionAssumption DEF IInv, TypeOK, Migrating
  <2>2. UNCHANGED <<version, columns, rows>>
    BY <2>1 DEF Step, disk, Open, CheckVersion, Stamp, Inspect, AddColumn, Opened, Insert, Return, Close, Crash, Busy
  <2>3. table' = TRUE \/ table' = table
    BY <2>1 DEF Step, disk, Open, CheckVersion, Stamp, Inspect, AddColumn, Opened, Insert, Return, Close, Crash, Busy
  <2>. QED  BY <2>2, <2>3
<1>. QED  BY <1>1, Invariant, PTL DEF Spec, NewerUntouched

----------------------------------------------------------------------------
(* The sidecars.  A file is one its writer finished, one under an open     *)
(* writer, what a killed writer left, or somebody else's; a load knows     *)
(* what it has passed of those that were finished.                         *)

Gave == [sketch : Sketches, snapshot : Int]

\* m describes where the payload of g lies in f, before end.
Accounts(f, end, m, g) ==
  /\ g.snapshot \in {Unassigned, g.sketch.about}
  /\ m.kind = g.sketch.kind /\ m.fields = g.sketch.fields
  /\ m.snapshot = g.snapshot /\ m.sequence = g.snapshot
  /\ m.codec \in {"none", "zstd"}
  /\ m.length = Len(EncodedPayload(g.sketch, m.codec))
  /\ m.offset >= 1 /\ m.offset + m.length <= end
  /\ \A k \in 1 .. m.length : f[m.offset + k] = EncodedPayload(g.sketch, m.codec)[k]

Ledger(f, end, metas, gave) ==
  /\ Len(metas) = Len(gave)
  /\ \A i \in 1 .. Len(gave) : Accounts(f, end, metas[i], gave[i])

\* A file its writer finished.
Whole(f, gave) ==
  /\ Len(f) >= 6 /\ f[1] = Magic /\ f[Len(f)] = Magic /\ f[Len(f) - 1] = Flags(0) /\ f[Len(f) - 2] = Length(1)
  /\ f[Len(f) - 3].cell = "json" /\ f[Len(f) - 3].version = "1" /\ f[Len(f) - 4] = Magic
  /\ Ledger(f, DataEnd(f), f[Len(f) - 3].blobs, gave)

\* A file under an open writer, as far as it got.
UnderWay(f, w) ==
  /\ w.blobs \in Seq(Meta) /\ w.given \in Seq(Gave) /\ w.head \in BOOLEAN
  /\ w.pos = Len(f)
  /\ w.head => Len(f) >= 1 /\ f[1] = Magic
  /\ ~w.head => f = Missing /\ w.given = <<>>
  /\ \A i \in 1 .. Len(f) : f[i] # Flags(0)
  /\ Ledger(f, Len(f), w.blobs, w.given)

FileInv(p) ==
  /\ writer[p].pc \in {"none", "open", "killed"}
  /\ writer[p].pc = "open" => UnderWay(file[p], writer[p])
  /\ writer[p].pc = "killed" => \A i \in 1 .. Len(file[p]) - 1 : file[p][i] # Flags(0)
  /\ p \in finished => writer[p].pc = "none" /\ Whole(file[p], given[p])

\* Nobody writes p any more.
Sealed(p) == writer[p].pc = "none" /\ file[p] # Missing

SidecarTyped ==
  /\ file \in [Path -> Seq(Cell)] /\ writer = [p \in Path |-> writer[p]] /\ given \in [Path -> Seq(Gave)]
  /\ finished \subseteq Path /\ current \in Nat /\ attached \subseteq [snapshot : Nat, path : Path]
  /\ request.asked \in Seq(Path)

Passed(at, n, i) == at[1] < n \/ (at[1] = n /\ at[2] < i)

\* Of the sidecars up to n, and of the n-th up to blob i, the supported blobs
\* are loaded.
ReadUpTo(n, i) ==
  /\ \A k \in DOMAIN request.asked : k <= n => Sealed(request.asked[k])
  /\ \A at \in DOMAIN load.blobs :
       /\ at[1] \in DOMAIN request.asked /\ at[1] <= n
       /\ request.asked[at[1]] \in finished =>
            /\ at \in SupportedGiven /\ Passed(at, n, i)
            /\ load.blobs[at] = Delivered(Given(at))
            /\ request.expected = None \/ Given(at).snapshot \in {Unassigned, request.expected}
  /\ \A at \in SupportedGiven :
       request.asked[at[1]] \in finished /\ Passed(at, n, i) => at \in DOMAIN load.blobs

LoadInv ==
  /\ load.pc \in {"idle", "busy", "ok", "failed"}
  /\ load.loadable => load.pc = "ok"
  /\ load.pc = "failed" => load.blobs = NoBlobs
  /\ request.strict => request.sequence = request.expected
  /\ load.pc = "ok" => (\A n \in {Len(request.asked) + 1} : ReadUpTo(n, 1)) /\ Validate(load.blobs)
  /\ load.pc = "busy" =>
       /\ load.sidecar \in 0 .. Len(request.asked) /\ (load.sidecar = 0 => load.footer = <<>>)
       /\ load.footer \in Seq(Meta) /\ load.next \in 1 .. Len(load.footer) + 1
       /\ load.sidecar > 0 /\ request.asked[load.sidecar] \in finished =>
            LET f == file[request.asked[load.sidecar]] IN load.footer = f[Len(f) - 3].blobs /\ load.end = DataEnd(f)
       /\ \A n \in {load.sidecar}, i \in {load.next} : ReadUpTo(n, i)

SidecarInv == SidecarTyped /\ (\A p \in Path : FileInv(p)) /\ LoadInv

-----------------------------------------------------------------------------
(* What writers leave in files.                                            *)

\* A payload is cells of data, as many as the kind or the codec makes.
LEMMA PayloadOf ==
  ASSUME NEW s \in Sketches, NEW codec \in {"none", "zstd"}
  PROVE  /\ Raw(s) \in Seq(Cell) /\ Len(Raw(s)) = Size[s.kind] /\ Size[s.kind] \in Nat \ {0}
         /\ \A k \in 1 .. Size[s.kind] : Raw(s)[k] = Data(s, "none", k)
         /\ EncodedPayload(s, codec) \in Seq(Cell)
         /\ Len(EncodedPayload(s, codec)) \in Nat \ {0}
         /\ \A k \in 1 .. Len(EncodedPayload(s, codec)) : EncodedPayload(s, codec)[k].cell = "data"
<1>. DEFINE n == Size[s.kind]
<1>1. n \in Nat \ {0}
  BY KindAssumption DEF Sketches
<1>2. \A k \in Nat, c \in {"none", "zstd"} : Data(s, c, k) \in Cell /\ Data(s, c, k).cell = "data"
  BY DEF Data, Cell, Codec
<1>3. Raw(s) \in [1 .. n -> Cell] /\ \A k \in 1 .. n : Raw(s)[k] = Data(s, "none", k)
  BY <1>2 DEF Raw
<1>. HIDE DEF n
<1>4. Raw(s) \in Seq(Cell)
  BY <1>1, <1>3, SeqDef
<1>5. Len(Raw(s)) = n
  BY <1>1, <1>3, <1>4, LenProperties
<1>6. \A k \in 1 .. n : Raw(s)[k].cell = "data"
  BY <1>2, <1>3
<1>7. CASE codec = "none"
  <2>1. EncodedPayload(s, codec) = Raw(s)
    BY <1>7 DEF EncodedPayload
  <2>. QED  BY <1>1, <1>3, <1>4, <1>5, <1>6, <2>1 DEF n
<1>8. CASE codec = "zstd"
  <2>1. EncodedPayload(s, codec) = <<Data(s, "zstd", 1)>>
    BY <1>8 DEF EncodedPayload
  <2>2. Data(s, "zstd", 1) \in Cell /\ Data(s, "zstd", 1).cell = "data"
    BY <1>2
  <2>. QED  BY <1>1, <1>3, <1>4, <1>5, <2>1, <2>2 DEF n
<1>. QED  BY <1>7, <1>8

LEMMA Joined ==
  ASSUME NEW x \in Seq(Cell), NEW y \in Seq(Cell)
  PROVE  /\ x \o y \in Seq(Cell) /\ Len(x \o y) = Len(x) + Len(y)
         /\ \A i \in 1 .. Len(x) : (x \o y)[i] = x[i]
         /\ \A i \in 1 .. Len(y) : (x \o y)[Len(x) + i] = y[i]
         /\ \A i \in 1 .. Len(x) + Len(y) : i \in 1 .. Len(x) \/ (i - Len(x) \in 1 .. Len(y) /\ (x \o y)[i] = y[i - Len(x)])
         /\ \A z \in Seq(Cell) : (x \o y) \o z = x \o (y \o z)
<1>1. Len(x) \in Nat /\ Len(y) \in Nat
  BY LenProperties
<1>2. /\ x \o y \in Seq(Cell) /\ Len(x \o y) = Len(x) + Len(y)
      /\ \A i \in 1 .. Len(x) + Len(y) : (x \o y)[i] = IF i <= Len(x) THEN x[i] ELSE y[i - Len(x)]
  BY ConcatProperties
<1>3. \A z \in Seq(Cell) : (x \o y) \o z = x \o (y \o z)
  BY ConcatAssociative
<1>4. ASSUME NEW i \in 1 .. Len(y) PROVE (x \o y)[Len(x) + i] = y[i]
  <2>1. Len(x) + i \in 1 .. Len(x) + Len(y) /\ ~(Len(x) + i <= Len(x)) /\ Len(x) + i - Len(x) = i
    BY <1>1
  <2>. QED  BY <1>2, <2>1
<1>5. \A i \in 1 .. Len(x) : (x \o y)[i] = x[i]
  BY <1>1, <1>2
<1>6. \A i \in 1 .. Len(x) + Len(y) : i \in 1 .. Len(x) \/ (i - Len(x) \in 1 .. Len(y) /\ (x \o y)[i] = y[i - Len(x)])
  BY <1>1, <1>2
<1>. QED  BY <1>2, <1>3, <1>4, <1>5, <1>6

LEMMA CellsDiffer ==
  /\ Magic \in Cell /\ Flags(0) \in Cell /\ Length(1) \in Cell
  /\ Magic # Flags(0) /\ Length(1) # Flags(0)
  /\ \A c : c.cell = "data" \/ c.cell = "json" => c # Flags(0)
<1>1. Magic \in Cell /\ Flags(0) \in Cell /\ Length(1) \in Cell
  BY DEF Magic, Flags, Length, Cell
<1>2. Magic.cell = "magic" /\ Flags(0).cell = "flags" /\ Length(1).cell = "length"
  BY DEF Magic, Flags, Length
<1>. QED  BY <1>1, <1>2

\* A reader makes nothing of a file under a writer, or of one it left torn.
LEMMA NothingToOpen ==
  ASSUME NEW f \in Seq(Cell), \A i \in 1 .. Len(f) - 1 : f[i] # Flags(0)
  PROVE  ~Opens(f)
<1>1. Len(f) \in Nat
  BY LenProperties
<1>. QED  BY <1>1 DEF Opens

LEMMA HeadOf ==
  ASSUME NEW f \in Seq(Cell), NEW w, UnderWay(f, w)
  PROVE  /\ EnsureHead(w) \in Seq(Cell) /\ Len(EnsureHead(w)) \in {0, 1}
         /\ \A i \in 1 .. Len(EnsureHead(w)) : EnsureHead(w)[i] = Magic
         /\ Len(f) + Len(EnsureHead(w)) >= 1
         /\ (f \o EnsureHead(w)) \in Seq(Cell)
         /\ Len(f \o EnsureHead(w)) = Len(f) + Len(EnsureHead(w))
         /\ (f \o EnsureHead(w))[1] = Magic
         /\ \A i \in 1 .. Len(f) : (f \o EnsureHead(w))[i] = f[i]
         /\ \A i \in 1 .. Len(f) + Len(EnsureHead(w)) : (f \o EnsureHead(w))[i] # Flags(0)
<1>1. Len(f) \in Nat
  BY LenProperties
<1>2. w.head \in BOOLEAN /\ (w.head => Len(f) >= 1 /\ f[1] = Magic) /\ (~w.head => f = <<>>)
      /\ \A i \in 1 .. Len(f) : f[i] # Flags(0)
  BY DEF UnderWay, Missing
<1>3. <<Magic>> \in Seq(Cell) /\ Len(<<Magic>>) = 1 /\ <<Magic>>[1] = Magic /\ <<>> \in Seq(Cell) /\ Len(<<>>) = 0
  BY CellsDiffer
<1>4. CASE w.head
  <2>1. EnsureHead(w) = <<>>
    BY <1>4 DEF EnsureHead
  <2>2. f \o <<>> = f
    BY ConcatEmptySeq
  <2>. QED  BY <1>1, <1>2, <1>3, <1>4, <2>1, <2>2
<1>5. CASE ~w.head
  <2>1. EnsureHead(w) = <<Magic>> /\ f = <<>> /\ Len(f) = 0
    BY <1>2, <1>3, <1>5 DEF EnsureHead
  <2>2. <<>> \o <<Magic>> = <<Magic>>
    BY <1>3, ConcatEmptySeq
  <2>. QED  BY <1>3, <2>1, <2>2, CellsDiffer
<1>. QED  BY <1>2, <1>4, <1>5

\* What was recorded of a file stays true of what is appended to it.
LEMMA LedgerKept ==
  ASSUME NEW f \in Seq(Cell), NEW more \in Seq(Cell), NEW metas \in Seq(Meta), NEW gave \in Seq(Gave),
         Ledger(f, Len(f), metas, gave), NEW end \in Int, end >= Len(f)
  PROVE  Ledger(f \o more, end, metas, gave)
<1>1. Len(f) \in Nat /\ Len(more) \in Nat /\ Len(metas) \in Nat /\ Len(gave) \in Nat /\ Len(metas) = Len(gave)
  BY LenProperties DEF Ledger
<1>2. SUFFICES ASSUME NEW i \in 1 .. Len(gave), Accounts(f, Len(f), metas[i], gave[i])
               PROVE  Accounts(f \o more, end, metas[i], gave[i])
  BY <1>1 DEF Ledger
<1>3. metas[i] \in Meta /\ gave[i] \in Gave
  BY <1>1, ElementOfSeq
<1>. DEFINE m == metas[i]
            g == gave[i]
<1>4. m.length \in Nat /\ m.offset \in Nat
  BY <1>3 DEF Meta
<1>. HIDE DEF m, g
<1>5. \A k \in 1 .. Len(f) : (f \o more)[k] = f[k]
  BY <1>1, ConcatProperties
<1>6. \A k \in 1 .. m.length : (f \o more)[m.offset + k] = f[m.offset + k]
  BY <1>1, <1>2, <1>4, <1>5 DEF Accounts, m
<1>7. \A k \in 1 .. m.length : (f \o more)[m.offset + k] = EncodedPayload(g.sketch, m.codec)[k]
  BY <1>2, <1>6 DEF Accounts, m, g
<1>8. m.offset + m.length <= end
  BY <1>1, <1>2, <1>4 DEF Accounts, m
<1>. QED  BY <1>2, <1>7, <1>8 DEF Accounts, m, g

Written(w, b, id) ==
  LET sketch == Sketch(b.kind, b.fields, current)
      cells == EncodedPayload(sketch, b.codec)
  IN [pc |-> "open", pos |-> Advanced(w, cells), head |-> TRUE,
      blobs |-> Append(w.blobs, [kind |-> b.kind, fields |-> b.fields, snapshot |-> id, sequence |-> id,
                                 offset |-> w.pos + Len(EnsureHead(w)), length |-> Len(cells), codec |-> b.codec]),
      given |-> Append(w.given, [sketch |-> sketch, snapshot |-> id])]

LEMMA AfterBlob ==
  ASSUME NEW f \in Seq(Cell), NEW w, UnderWay(f, w), NEW b \in Blob, current \in Nat,
         NEW id \in {Unassigned, current}
  PROVE  /\ f \o BlobCells(w, b) \in Seq(Cell)
         /\ BlobCells(w, b) \in Seq(Cell)
         /\ \A i \in 1 .. Len(f \o BlobCells(w, b)) : (f \o BlobCells(w, b))[i] # Flags(0)
         /\ UnderWay(f \o BlobCells(w, b), Written(w, b, id))
<1>. DEFINE sketch == Sketch(b.kind, b.fields, current)
            cells == EncodedPayload(sketch, b.codec)
            head == EnsureHead(w)
            g == f \o head
            all == f \o BlobCells(w, b)
            meta == [kind |-> b.kind, fields |-> b.fields, snapshot |-> id, sequence |-> id,
                     offset |-> w.pos + Len(head), length |-> Len(cells), codec |-> b.codec]
            gave == [sketch |-> sketch, snapshot |-> id]
<1>1. b.kind \in DOMAIN Size /\ b.fields \in Seq(Int) /\ b.codec \in {"none", "zstd"} /\ b.kind \in STRING
  BY BlobAssumption, KindAssumption
<1>2. sketch \in Sketches /\ sketch.kind = b.kind /\ sketch.fields = b.fields /\ sketch.about = current
  BY <1>1 DEF Sketch, Sketches
<1>3. Len(f) \in Nat
  BY LenProperties
<1>4. w.blobs \in Seq(Meta) /\ w.given \in Seq(Gave) /\ w.pos = Len(f) /\ Len(w.blobs) = Len(w.given)
  BY DEF UnderWay, Ledger
<1>. HIDE DEF sketch
<1>5. /\ cells \in Seq(Cell) /\ Len(cells) \in Nat \ {0}
      /\ \A k \in 1 .. Len(cells) : cells[k].cell = "data"
  BY <1>1, <1>2, PayloadOf
<1>. HIDE DEF cells
<1>6. /\ head \in Seq(Cell) /\ Len(head) \in {0, 1} /\ Len(f) + Len(head) >= 1
      /\ g \in Seq(Cell) /\ Len(g) = Len(f) + Len(head) /\ g[1] = Magic
      /\ \A i \in 1 .. Len(g) : g[i] # Flags(0)
  BY HeadOf
<1>7. BlobCells(w, b) = head \o cells
  BY DEF BlobCells, cells, sketch
<1>. HIDE DEF head
<1>8. all = g \o cells /\ head \o cells \in Seq(Cell)
  <2>1. (f \o head) \o cells = f \o (head \o cells)
    <3>1. \A x, y, z \in Seq(Cell) : (x \o y) \o z = x \o (y \o z)
      BY ConcatAssociative
    <3>. QED  BY <1>5, <1>6, <3>1
  <2>2. head \o cells \in Seq(Cell)
    BY <1>5, <1>6, ConcatProperties
  <2>. QED  BY <1>7, <2>1, <2>2
<1>. HIDE DEF g, all
<1>9. /\ all \in Seq(Cell) /\ Len(all) = Len(g) + Len(cells)
      /\ \A i \in 1 .. Len(all) : all[i] = IF i <= Len(g) THEN g[i] ELSE cells[i - Len(g)]
  <2>1. /\ g \o cells \in Seq(Cell) /\ Len(g \o cells) = Len(g) + Len(cells)
        /\ \A i \in 1 .. Len(g) + Len(cells) : (g \o cells)[i] = IF i <= Len(g) THEN g[i] ELSE cells[i - Len(g)]
    BY <1>5, <1>6, ConcatProperties
  <2>. QED  BY <1>8, <2>1
<1>10. \A i \in 1 .. Len(all) : all[i] # Flags(0)
  <2>. SUFFICES ASSUME NEW i \in 1 .. Len(all) PROVE all[i] # Flags(0)
    OBVIOUS
  <2>1. CASE i <= Len(g)
    BY <1>3, <1>6, <1>9, <2>1
  <2>2. CASE i > Len(g)
    <3>1. i - Len(g) \in 1 .. Len(cells)
      BY <1>3, <1>5, <1>6, <1>9, <2>2
    <3>2. all[i] = cells[i - Len(g)]
      BY <1>3, <1>6, <1>9, <2>2
    <3>3. all[i].cell = "data"
      BY <1>5, <3>1, <3>2
    <3>. QED  BY <3>3, CellsDiffer
  <2>. QED  BY <1>3, <1>6, <2>1, <2>2
<1>11. meta \in Meta /\ gave \in Gave
  <2>1. id \in Int
    BY DEF Unassigned
  <2>2. w.pos + Len(head) \in Nat
    BY <1>3, <1>4, <1>6
  <2>. QED  BY <1>1, <1>2, <1>5, <2>1, <2>2 DEF Meta, Gave, Codec
<1>12. Accounts(all, Len(all), meta, gave)
  <2>1. gave.snapshot \in {Unassigned, gave.sketch.about}
    BY <1>2
  <2>2. meta.length = Len(EncodedPayload(gave.sketch, meta.codec))
    BY DEF cells
  <2>3. meta.offset >= 1 /\ meta.offset + meta.length <= Len(all)
    BY <1>3, <1>4, <1>5, <1>6, <1>9
  <2>4. \A k \in 1 .. meta.length : all[meta.offset + k] = EncodedPayload(gave.sketch, meta.codec)[k]
    <3>. SUFFICES ASSUME NEW k \in 1 .. Len(cells) PROVE all[Len(g) + k] = cells[k]
      BY <1>4, <1>6 DEF cells
    <3>1. Len(g) + k \in 1 .. Len(all) /\ ~(Len(g) + k <= Len(g)) /\ (Len(g) + k) - Len(g) = k
      BY <1>3, <1>5, <1>6, <1>9
    <3>. QED  BY <1>9, <3>1
  <2>. QED  BY <1>1, <1>2, <2>1, <2>2, <2>3, <2>4 DEF Accounts
<1>13. Ledger(all, Len(all), w.blobs, w.given)
  <2>1. Ledger(f, Len(f), w.blobs, w.given)
    BY DEF UnderWay
  <2>2. head \o cells \in Seq(Cell) /\ all = f \o (head \o cells)
    BY <1>5, <1>6, <1>7, ConcatProperties DEF all
  <2>3. Len(all) \in Int /\ Len(all) >= Len(f)
    BY <1>3, <1>5, <1>6, <1>9
  <2>. QED  BY <1>4, <2>1, <2>2, <2>3, LedgerKept
<1>. DEFINE metas == Append(w.blobs, meta)
            gaves == Append(w.given, gave)
<1>14. /\ metas \in Seq(Meta) /\ gaves \in Seq(Gave) /\ Len(metas) = Len(w.blobs) + 1 /\ Len(gaves) = Len(w.given) + 1
       /\ Len(w.given) \in Nat
       /\ \A i \in 1 .. Len(w.blobs) : metas[i] = w.blobs[i]
       /\ \A i \in 1 .. Len(w.given) : gaves[i] = w.given[i]
       /\ metas[Len(w.blobs) + 1] = meta /\ gaves[Len(w.given) + 1] = gave
  BY <1>4, <1>11, AppendProperties, LenProperties
<1>. HIDE DEF metas, gaves, meta, gave
<1>15. Ledger(all, Len(all), metas, gaves)
  <2>. SUFFICES ASSUME NEW i \in 1 .. Len(gaves) PROVE Accounts(all, Len(all), metas[i], gaves[i])
    BY <1>4, <1>14 DEF Ledger
  <2>1. CASE i = Len(w.given) + 1
    BY <1>4, <1>12, <1>14, <2>1
  <2>2. CASE i # Len(w.given) + 1
    <3>1. i \in 1 .. Len(w.given)
      BY <1>14, <2>2
    <3>. QED  BY <1>4, <1>13, <1>14, <3>1 DEF Ledger
  <2>. QED  BY <2>1, <2>2
<1>16. UnderWay(all, Written(w, b, id))
  <2>1. Written(w, b, id) = [pc |-> "open", pos |-> w.pos + Len(head) + Len(cells), head |-> TRUE, blobs |-> metas, given |-> gaves]
    BY DEF Written, Advanced, head, cells, sketch, metas, gaves, meta, gave
  <2>2. Len(all) >= 1 /\ all[1] = Magic /\ w.pos + Len(head) + Len(cells) = Len(all)
    BY <1>3, <1>4, <1>5, <1>6, <1>9
  <2>. QED  BY <1>10, <1>14, <1>15, <2>1, <2>2 DEF UnderWay
<1>17. BlobCells(w, b) \in Seq(Cell) /\ all \in Seq(Cell) /\ \A i \in 1 .. Len(all) : all[i] # Flags(0)
  BY <1>5, <1>6, <1>7, <1>9, <1>10, ConcatProperties
<1>. QED  BY <1>16, <1>17 DEF all

LEMMA FooterOf ==
  ASSUME NEW f \in Seq(Cell), NEW w, UnderWay(f, w)
  PROVE  /\ FooterCells(w) \in Seq(Cell) /\ Len(FooterCells(w)) \in Nat /\ Len(FooterCells(w)) >= 5
         /\ \A j \in 1 .. Len(FooterCells(w)) - 2 : FooterCells(w)[j] # Flags(0)
         /\ f \o FooterCells(w) \in Seq(Cell)
         /\ Whole(f \o FooterCells(w), w.given)
<1>. DEFINE head == EnsureHead(w)
            json == Json(w.blobs, "1")
            foot == <<Magic, json, Length(1), Flags(0), Magic>>
            g == f \o head
            all == f \o FooterCells(w)
<1>1. Len(f) \in Nat /\ w.blobs \in Seq(Meta) /\ w.given \in Seq(Gave)
  BY LenProperties DEF UnderWay
<1>2. json \in Cell /\ json.cell = "json" /\ json.version = "1" /\ json.blobs = w.blobs
  BY <1>1 DEF Json, Cell, Version
<1>. HIDE DEF json
<1>3. /\ head \in Seq(Cell) /\ Len(head) \in {0, 1} /\ Len(f) + Len(head) >= 1
      /\ g \in Seq(Cell) /\ Len(g) = Len(f) + Len(head) /\ g[1] = Magic
      /\ \A i \in 1 .. Len(head) : head[i] = Magic
  BY HeadOf
<1>4. /\ foot \in Seq(Cell) /\ Len(foot) = 5
      /\ foot[1] = Magic /\ foot[2] = json /\ foot[3] = Length(1) /\ foot[4] = Flags(0) /\ foot[5] = Magic
  BY <1>2, CellsDiffer
<1>5. Magic # Flags(0) /\ json # Flags(0) /\ Length(1) # Flags(0)
  BY <1>2, CellsDiffer
<1>6. FooterCells(w) = head \o foot
  BY DEF FooterCells, head, foot, json
<1>. HIDE DEF head, foot
<1>7. Len(head) \in Nat /\ head \o foot \in Seq(Cell) /\ Len(head \o foot) = Len(head) + 5
  <2>1. Len(head) \in Nat
    BY <1>3
  <2>2. head \o foot \in Seq(Cell) /\ Len(head \o foot) = Len(head) + Len(foot)
    BY <1>3, <1>4, Joined
  <2>. QED  BY <1>4, <2>1, <2>2
<1>8. ASSUME NEW j \in 1 .. Len(head) + 3 PROVE (head \o foot)[j] # Flags(0)
  <2>1. CASE j \in 1 .. Len(head)
    BY <1>3, <1>4, <1>5, <2>1, Joined
  <2>2. CASE j \notin 1 .. Len(head)
    <3>1. j - Len(head) \in {1, 2, 3}
      BY <1>7, <2>2
    <3>2. (head \o foot)[j] = foot[j - Len(head)]
      <4>1. \A k \in 1 .. Len(foot) : (head \o foot)[Len(head) + k] = foot[k]
        BY <1>3, <1>4, Joined
      <4>2. j - Len(head) \in 1 .. Len(foot) /\ Len(head) + (j - Len(head)) = j
        BY <1>4, <1>7, <3>1
      <4>3. \A k \in 1 .. Len(foot) : Len(head) + k = j => (head \o foot)[j] = foot[k]
        BY <4>1
      <4>. QED  BY <4>2, <4>3
    <3>3. foot[1] # Flags(0) /\ foot[2] # Flags(0) /\ foot[3] # Flags(0)
      BY <1>4, <1>5
    <3>4. foot[j - Len(head)] # Flags(0)
      <4>. DEFINE k == j - Len(head)
      <4>1. k = 1 \/ k = 2 \/ k = 3
        BY <3>1
      <4>. HIDE DEF k
      <4>2. foot[k] # Flags(0)
        BY <3>3, <4>1
      <4>. QED  BY <4>2 DEF k
    <3>. QED  BY <3>2, <3>4
  <2>. QED  BY <2>1, <2>2
<1>9. all = g \o foot
  <2>1. (f \o head) \o foot = f \o (head \o foot)
    BY <1>3, <1>4, Joined
  <2>. QED  BY <1>6, <2>1
<1>10. Ledger(g, Len(g), w.blobs, w.given)
  <2>1. Ledger(f, Len(f), w.blobs, w.given)
    BY DEF UnderWay
  <2>2. Len(g) \in Int /\ Len(g) >= Len(f)
    BY <1>1, <1>3
  <2>. QED  BY <1>1, <1>3, <2>1, <2>2, LedgerKept
<1>. HIDE DEF g, all
<1>11. /\ all \in Seq(Cell) /\ Len(all) = Len(g) + 5 /\ Len(g) \in Nat /\ Len(g) >= 1
       /\ \A i \in 1 .. Len(g) : all[i] = g[i]
       /\ \A i \in 1 .. 5 : all[Len(g) + i] = foot[i]
  <2>1. Len(g) \in Nat /\ Len(g) >= 1
    BY <1>1, <1>3
  <2>2. g \in Seq(Cell) /\ foot \in Seq(Cell) /\ Len(foot) = 5
    BY <1>3, <1>4
  <2>3. g \o foot \in Seq(Cell) /\ Len(g \o foot) = Len(g) + Len(foot)
    BY <2>2, Joined
  <2>4. \A i \in 1 .. Len(g) : (g \o foot)[i] = g[i]
    BY <2>2, Joined
  <2>5. \A i \in 1 .. Len(foot) : (g \o foot)[Len(g) + i] = foot[i]
    BY <2>2, Joined
  <2>6. \A i \in 1 .. 5 : (g \o foot)[Len(g) + i] = foot[i]
    BY <2>2, <2>5
  <2>7. all \in Seq(Cell) /\ Len(all) = Len(g) + 5
    BY <1>9, <2>2, <2>3
  <2>8. (\A i \in 1 .. Len(g) : all[i] = g[i]) /\ \A i \in 1 .. 5 : all[Len(g) + i] = foot[i]
    BY <1>9, <2>4, <2>6
  <2>. QED  BY <2>1, <2>7, <2>8
<1>12. Ledger(all, Len(g), w.blobs, w.given)
  <2>1. g \in Seq(Cell) /\ foot \in Seq(Cell) /\ w.blobs \in Seq(Meta) /\ w.given \in Seq(Gave)
    BY <1>1, <1>3, <1>4
  <2>2. Len(g) \in Int /\ Len(g) >= Len(g)
    BY <1>11
  <2>3. Ledger(g \o foot, Len(g), w.blobs, w.given)
    BY <1>10, <2>1, <2>2, LedgerKept
  <2>. QED  BY <1>9, <2>3
<1>13. /\ Len(all) - 5 = Len(g) /\ Len(all) - 4 = Len(g) + 1 /\ Len(all) - 3 = Len(g) + 2 /\ Len(all) - 2 = Len(g) + 3
       /\ Len(all) - 1 = Len(g) + 4 /\ Len(all) = Len(g) + 5
  BY <1>11
<1>14. Whole(all, w.given)
  <2>1. all[Len(all) - 3] = json /\ all[1] = Magic /\ Len(all) >= 6
    BY <1>3, <1>4, <1>11, <1>13
  <2>2. all[Len(all)] = Magic /\ all[Len(all) - 1] = Flags(0) /\ all[Len(all) - 2] = Length(1) /\ all[Len(all) - 4] = Magic
    BY <1>4, <1>11, <1>13
  <2>. QED  BY <1>2, <1>12, <1>13, <2>1, <2>2 DEF Whole, DataEnd
<1>. QED
  <2>1. FooterCells(w) \in Seq(Cell) /\ Len(FooterCells(w)) = Len(head) + 5
    BY <1>6, <1>7
  <2>2. Len(head) + 5 \in Nat /\ Len(head) + 5 >= 5 /\ Len(head) + 5 - 2 = Len(head) + 3
    BY <1>3
  <2>3. \A j \in 1 .. Len(FooterCells(w)) - 2 : FooterCells(w)[j] # Flags(0)
    BY <1>6, <1>8, <2>1, <2>2
  <2>. QED  BY <1>11, <1>14, <2>1, <2>2, <2>3 DEF all

\* A write that is cut short leaves a last cell of any kind and no flags before.
LEMMA CutShort ==
  ASSUME NEW f \in Seq(Cell), \A i \in 1 .. Len(f) : f[i] # Flags(0),
         NEW c \in Seq(Cell), NEW l \in 0 .. Len(c), \A j \in 1 .. l - 1 : c[j] # Flags(0)
  PROVE  /\ f \o SubSeq(c, 1, l) \in Seq(Cell)
         /\ \A i \in 1 .. Len(f \o SubSeq(c, 1, l)) - 1 : (f \o SubSeq(c, 1, l))[i] # Flags(0)
<1>. DEFINE s == SubSeq(c, 1, l)
<1>1. Len(f) \in Nat /\ Len(c) \in Nat
  BY LenProperties
<1>2. \A i \in 1 .. l : c[i] \in Cell
  BY <1>1, ElementOfSeq
<1>3. s \in Seq(Cell) /\ Len(s) = l /\ \A i \in 1 .. l : s[i] = c[i]
  <2>1. l \in Int /\ 1 \in Int
    BY <1>1
  <2>2. /\ s \in Seq(Cell) /\ Len(s) = IF 1 <= l THEN l - 1 + 1 ELSE 0
        /\ \A i \in 1 .. l - 1 + 1 : s[i] = c[1 + i - 1]
    BY <1>2, <2>1, SubSeqProperties
  <2>3. l - 1 + 1 = l /\ \A i \in 1 .. l : 1 + i - 1 = i
    BY <2>1
  <2>. QED  BY <1>1, <2>2, <2>3
<1>. HIDE DEF s
<1>4. f \o s \in Seq(Cell) /\ Len(f \o s) = Len(f) + l
  BY <1>3, Joined
<1>5. ASSUME NEW i \in 1 .. Len(f) + l - 1 PROVE (f \o s)[i] # Flags(0)
  <2>1. CASE i \in 1 .. Len(f)
    BY <1>3, <2>1, Joined
  <2>2. CASE i \notin 1 .. Len(f)
    <3>1. i - Len(f) \in 1 .. l - 1 /\ i \in 1 .. Len(f) + l /\ i - Len(f) \in 1 .. l
      BY <1>1, <2>2
    <3>2. (f \o s)[i] = s[i - Len(f)]
      BY <1>3, <2>2, <3>1, Joined
    <3>. QED  BY <1>3, <3>1, <3>2
  <2>. QED  BY <2>1, <2>2
<1>. QED  BY <1>4, <1>5 DEF s

LEMMA AfterKill ==
  ASSUME NEW f \in Seq(Cell), NEW w, UnderWay(f, w), current \in Nat,
         NEW cells \in Prefixes(Front(FooterCells(w))) \cup UNION {Prefixes(BlobCells(w, b)) : b \in Blob}
  PROVE  f \o cells \in Seq(Cell) /\ \A i \in 1 .. Len(f \o cells) - 1 : (f \o cells)[i] # Flags(0)
<1>0. Len(f) \in Nat /\ \A i \in 1 .. Len(f) : f[i] # Flags(0)
  BY LenProperties DEF UnderWay
<1>1. CASE cells \in Prefixes(Front(FooterCells(w)))
  <2>. DEFINE c == FooterCells(w)
              front == SubSeq(c, 1, Len(c) - 1)
  <2>1. c \in Seq(Cell) /\ Len(c) \in Nat /\ Len(c) >= 5 /\ \A j \in 1 .. Len(c) - 2 : c[j] # Flags(0)
    BY FooterOf
  <2>2. PICK l \in 0 .. Len(front) : cells = SubSeq(front, 1, l)
    BY <1>1 DEF Prefixes, Front
  <2>. HIDE DEF c
  <2>3. front \in Seq(Cell) /\ Len(front) = Len(c) - 1 /\ \A j \in 1 .. Len(c) - 1 : front[j] = c[j]
    <3>1. \A i \in 1 .. Len(c) - 1 : c[i] \in Cell
      BY <2>1, ElementOfSeq
    <3>2. 1 \in Int /\ Len(c) - 1 \in Int /\ Len(c) - 1 >= 1 /\ Len(c) - 1 - 1 + 1 = Len(c) - 1
          /\ \A j \in 1 .. Len(c) - 1 : 1 + j - 1 = j
      BY <2>1
    <3>3. /\ front \in Seq(Cell) /\ Len(front) = IF 1 <= Len(c) - 1 THEN Len(c) - 1 - 1 + 1 ELSE 0
          /\ \A j \in 1 .. Len(c) - 1 - 1 + 1 : front[j] = c[1 + j - 1]
      BY <3>1, <3>2, SubSeqProperties
    <3>. QED  BY <3>2, <3>3
  <2>. HIDE DEF front
  <2>4. \A j \in 1 .. l - 1 : front[j] # Flags(0)
    <3>. SUFFICES ASSUME NEW j \in 1 .. l - 1 PROVE front[j] # Flags(0)
      OBVIOUS
    <3>1. j \in 1 .. Len(c) - 1 /\ j \in 1 .. Len(c) - 2
      BY <2>1, <2>2, <2>3
    <3>. QED  BY <2>1, <2>3, <3>1
  <2>. QED  BY <1>0, <2>2, <2>3, <2>4, CutShort
<1>2. CASE cells \in UNION {Prefixes(BlobCells(w, b)) : b \in Blob}
  <2>1. PICK b \in Blob : cells \in Prefixes(BlobCells(w, b))
    BY <1>2
  <2>. DEFINE c == BlobCells(w, b)
  <2>2. c \in Seq(Cell) /\ \A i \in 1 .. Len(f \o c) : (f \o c)[i] # Flags(0)
    BY AfterBlob
  <2>3. PICK l \in 0 .. Len(c) : cells = SubSeq(c, 1, l)
    BY <2>1 DEF Prefixes
  <2>. HIDE DEF c
  <2>4. ASSUME NEW j \in 1 .. l - 1 PROVE c[j] # Flags(0)
    <3>1. /\ Len(c) \in Nat /\ Len(f \o c) = Len(f) + Len(c)
          /\ \A i \in 1 .. Len(f) + Len(c) : (f \o c)[i] = IF i <= Len(f) THEN f[i] ELSE c[i - Len(f)]
      BY <2>2, ConcatProperties, LenProperties
    <3>2. Len(f) + j \in 1 .. Len(f) + Len(c) /\ ~(Len(f) + j <= Len(f)) /\ Len(f) + j - Len(f) = j
      BY <1>0, <2>3, <3>1
    <3>3. (f \o c)[Len(f) + j] = c[j]
      BY <3>1, <3>2
    <3>. QED  BY <2>2, <3>1, <3>2, <3>3
  <2>. QED  BY <1>0, <2>2, <2>3, <2>4, CutShort
<1>. QED  BY <1>1, <1>2

-----------------------------------------------------------------------------
(* The files.                                                              *)

\* A step changes the file at p and its writer, or none.
Kept(p) ==
  file'[p] = file[p] /\ writer'[p] = writer[p] /\ given'[p] = given[p] /\ (p \in finished' <=> p \in finished)

LEMMA KeptInv ==
  ASSUME NEW p, FileInv(p), Kept(p)
  PROVE  FileInv(p)'
BY DEF FileInv, Kept

LEMMA OthersKept ==
  ASSUME SidecarTyped, NEW p \in Path, NEW q \in Path, q # p, NEW f, NEW w,
         file' = [file EXCEPT ![p] = f], writer' = [writer EXCEPT ![p] = w],
         given' = given \/ \E g : given' = [given EXCEPT ![p] = g],
         finished' = finished \/ finished' = finished \cup {p}
  PROVE  Kept(q)
<1>1. file'[q] = file[q] /\ writer'[q] = writer[q]
  BY DEF SidecarTyped
<1>2. given'[q] = given[q]
  BY DEF SidecarTyped
<1>3. q \in finished' <=> q \in finished
  OBVIOUS
<1>. QED  BY <1>1, <1>2, <1>3 DEF Kept

LEMMA WriteStep ==
  ASSUME SidecarTyped, \A p \in Path : FileInv(p), NEW p \in Path, Write(p)
  PROVE  /\ SidecarTyped' /\ FileInv(p)' /\ (Sealed(p) => Kept(p))
         /\ \A q \in Path : q # p => Kept(q)
<1>0. /\ file \in [Path -> Seq(Cell)] /\ writer = [q \in Path |-> writer[q]] /\ given \in [Path -> Seq(Gave)]
      /\ finished \subseteq Path /\ current \in Nat /\ attached \subseteq [snapshot : Nat, path : Path]
      /\ request.asked \in Seq(Path)
  BY DEF SidecarTyped
<1>1. FileInv(p) /\ file[p] \in Seq(Cell) /\ (p \in finished => writer[p].pc = "none")
  BY <1>0 DEF FileInv
<1>2. CASE Create(p)
  <2>. DEFINE w == [NoWriter EXCEPT !.pc = "open"]
  <2>1. w.pc = "open" /\ w.pos = 0 /\ w.head = FALSE /\ w.blobs = <<>> /\ w.given = <<>>
    BY DEF NoWriter
  <2>2. /\ file[p] = <<>> /\ file' = file /\ writer' = [writer EXCEPT ![p] = w] /\ given' = given /\ finished' = finished
        /\ current' = current /\ attached' = attached /\ request' = request
    BY <1>2 DEF Create, Missing
  <2>. HIDE DEF w
  <2>3. writer'[p] = w /\ file'[p] = <<>> /\ given'[p] = given[p]
    BY <1>0, <2>2
  <2>4. <<>> \in Seq(Meta) /\ <<>> \in Seq(Gave) /\ Len(<<>>) = 0
    OBVIOUS
  <2>5. UnderWay(<<>>, w)
    <3>1. \A i : i \notin 1 .. Len(<<>>)
      BY <2>4
    <3>2. Ledger(<<>>, Len(<<>>), <<>>, <<>>)
      BY <3>1 DEF Ledger
    <3>3. w.blobs \in Seq(Meta) /\ w.given \in Seq(Gave) /\ w.head \in BOOLEAN /\ w.pos = Len(<<>>)
      BY <2>1, <2>4
    <3>4. Ledger(<<>>, Len(<<>>), w.blobs, w.given)
      BY <2>1, <3>2
    <3>. QED  BY <2>1, <3>1, <3>3, <3>4 DEF UnderWay, Missing
  <2>6. p \notin finished
    <3>1. p \in finished => Whole(<<>>, given[p])
      BY <1>1, <2>2 DEF FileInv
    <3>. QED  BY <2>4, <3>1 DEF Whole
  <2>7. FileInv(p)'
    BY <2>1, <2>2, <2>3, <2>5, <2>6 DEF FileInv
  <2>8. SidecarTyped'
    BY <1>0, <2>2 DEF SidecarTyped
  <2>9. file' = [file EXCEPT ![p] = file[p]]
    BY <1>0, <2>2
  <2>10. \A q \in Path : q # p => Kept(q)
    BY <2>2, <2>9, OthersKept
  <2>. QED  BY <2>2, <2>7, <2>8, <2>10 DEF Sealed, Missing
<1>3. ASSUME NEW b \in Blob, NEW known \in BOOLEAN, AddBlob(p, b, known)
      PROVE  SidecarTyped' /\ FileInv(p)' /\ (Sealed(p) => Kept(p)) /\ \A q \in Path : q # p => Kept(q)
  <2>. DEFINE id == IF known THEN current ELSE Unassigned
              w == Written(writer[p], b, id)
              f == file[p] \o BlobCells(writer[p], b)
  <2>1. writer[p].pc = "open" /\ UnderWay(file[p], writer[p]) /\ p \notin finished
    BY <1>1, <1>3 DEF AddBlob, FileInv
  <2>2. /\ file' = [file EXCEPT ![p] = f] /\ writer' = [writer EXCEPT ![p] = w] /\ given' = given /\ finished' = finished
        /\ current' = current /\ attached' = attached /\ request' = request
    BY <1>3 DEF AddBlob, Written
  <2>3. id \in {Unassigned, current} /\ w.pc = "open"
    BY DEF Written
  <2>. HIDE DEF id
  <2>4. f \in Seq(Cell) /\ UnderWay(f, w)
    BY <1>0, <1>1, <2>1, <2>3, AfterBlob
  <2>. HIDE DEF w, f
  <2>5. writer'[p] = w /\ file'[p] = f /\ given'[p] = given[p]
    BY <1>0, <2>2
  <2>6. FileInv(p)'
    BY <2>1, <2>2, <2>3, <2>4, <2>5 DEF FileInv
  <2>7. SidecarTyped'
    BY <1>0, <2>2, <2>4 DEF SidecarTyped
  <2>8. \A q \in Path : q # p => Kept(q)
    BY <2>2, OthersKept
  <2>. QED  BY <2>1, <2>6, <2>7, <2>8 DEF Sealed
<1>4. CASE Finish(p)
  <2>. DEFINE f == file[p] \o FooterCells(writer[p])
              g == writer[p].given
  <2>1. writer[p].pc = "open" /\ UnderWay(file[p], writer[p]) /\ g \in Seq(Gave)
    BY <1>1, <1>4 DEF Finish, FileInv, UnderWay
  <2>2. /\ file' = [file EXCEPT ![p] = f] /\ writer' = [writer EXCEPT ![p] = NoWriter] /\ given' = [given EXCEPT ![p] = g]
        /\ finished' = finished \cup {p} /\ current' = current /\ attached' = attached /\ request' = request
    BY <1>4 DEF Finish
  <2>3. f \in Seq(Cell) /\ Whole(f, g)
    BY <1>1, <2>1, FooterOf
  <2>4. NoWriter.pc = "none"
    BY DEF NoWriter
  <2>. HIDE DEF f, g
  <2>5. writer'[p] = NoWriter /\ file'[p] = f /\ given'[p] = g
    BY <1>0, <2>2
  <2>6. FileInv(p)'
    BY <2>3, <2>4, <2>5 DEF FileInv
  <2>7. SidecarTyped'
    BY <1>0, <2>1, <2>2, <2>3 DEF SidecarTyped
  <2>8. \A q \in Path : q # p => Kept(q)
    BY <2>2, OthersKept
  <2>. QED  BY <2>1, <2>6, <2>7, <2>8 DEF Sealed
<1>5. CASE Killed(p)
  <2>. DEFINE w == [NoWriter EXCEPT !.pc = "killed"]
  <2>1. writer[p].pc = "open" /\ UnderWay(file[p], writer[p]) /\ p \notin finished
    BY <1>1, <1>5 DEF Killed, FileInv
  <2>2. PICK cells \in Prefixes(Front(FooterCells(writer[p]))) \cup UNION {Prefixes(BlobCells(writer[p], b)) : b \in Blob} :
          file' = [file EXCEPT ![p] = file[p] \o cells]
    BY <1>5 DEF Killed
  <2>. DEFINE f == file[p] \o cells
  <2>3. /\ writer' = [writer EXCEPT ![p] = w] /\ given' = given /\ finished' = finished
        /\ current' = current /\ attached' = attached /\ request' = request
    BY <1>5 DEF Killed
  <2>4. f \in Seq(Cell) /\ \A i \in 1 .. Len(f) - 1 : f[i] # Flags(0)
    BY <1>0, <1>1, <2>1, AfterKill
  <2>5. w.pc = "killed"
    BY DEF NoWriter
  <2>6. file' = [file EXCEPT ![p] = f]
    BY <2>2
  <2>. HIDE DEF f, w
  <2>7. writer'[p] = w /\ file'[p] = f
    BY <1>0, <2>3, <2>6
  <2>8. FileInv(p)'
    BY <2>1, <2>3, <2>4, <2>5, <2>7 DEF FileInv
  <2>9. SidecarTyped'
    BY <1>0, <2>3, <2>4, <2>6 DEF SidecarTyped
  <2>10. \A q \in Path : q # p => Kept(q)
    BY <2>3, <2>6, OthersKept
  <2>. QED  BY <2>1, <2>8, <2>9, <2>10 DEF Sealed
<1>. QED  BY <1>2, <1>3, <1>4, <1>5 DEF Write

LEMMA PathsFound ==
  ASSUME SidecarTyped, NEW paths \in DiscoverPuffinSidecars
  PROVE  paths \in Seq(Path)
<1>. DEFINE found == {s.path : s \in {s \in attached : s.snapshot = current}}
<1>1. found \subseteq Path
  BY DEF SidecarTyped
<1>2. PICK n \in 0 .. Cardinality(attached) : paths \in [1 .. n -> found]
  BY DEF DiscoverPuffinSidecars
<1>. HIDE DEF found
<1>3. n \in Nat /\ paths \in [1 .. n -> Path]
  BY <1>1, <1>2
<1>. QED  BY <1>3, SeqDef

\* Files without a writer are left as they are, by every step.
LEMMA FilesStep ==
  ASSUME SidecarTyped, \A p \in Path : FileInv(p), [SidecarNext]_sidecarVars
  PROVE  /\ SidecarTyped'
         /\ \A p \in Path : FileInv(p)'
         /\ \A p \in Path : Sealed(p) => Kept(p)
<1>1. ASSUME NEW p \in Path, Write(p)
      PROVE  SidecarTyped' /\ (\A q \in Path : FileInv(q)') /\ \A q \in Path : Sealed(q) => Kept(q)
  BY <1>1, WriteStep, KeptInv
<1>2. ASSUME file' = file, writer' = writer, given' = given, finished' = finished, SidecarTyped'
      PROVE  SidecarTyped' /\ (\A q \in Path : FileInv(q)') /\ \A q \in Path : Sealed(q) => Kept(q)
  BY <1>2, KeptInv DEF Kept
<1>3. ASSUME NEW p \in Path, AttachFile(p)
      PROVE  file' = file /\ writer' = writer /\ given' = given /\ finished' = finished /\ SidecarTyped'
  BY <1>3 DEF AttachFile, SidecarTyped
<1>4. CASE Commit
  <2>1. file' = file /\ writer' = writer /\ given' = given /\ finished' = finished /\ SidecarTyped'
    BY <1>4 DEF Commit, SidecarTyped
  <2>. QED  BY <1>2, <2>1
<1>5. CASE Load
  <2>1. file' = file /\ writer' = writer /\ given' = given /\ finished' = finished /\ current' = current /\ attached' = attached
    BY <1>5 DEF Load, LoadLocal, LoadTable, Start, OpenSidecar, SkipBlob, LoadBlob, Publish
  <2>2. request'.asked \in Seq(Path)
    <3>1. ASSUME NEW strict, NEW id, NEW paths \in Seq(Path), Start(strict, id, paths) PROVE request'.asked \in Seq(Path)
      BY <3>1 DEF Start
    <3>2. ASSUME NEW paths \in PathLists, NEW expected \in Expected, LoadLocal(paths, expected) PROVE request'.asked \in Seq(Path)
      BY <3>1, <3>2, PathAssumption DEF LoadLocal
    <3>3. CASE LoadTable
      BY <3>1, <3>3, PathsFound DEF LoadTable
    <3>4. CASE OpenSidecar \/ SkipBlob \/ LoadBlob \/ Publish
      <4>1. request' = request
        BY <3>4 DEF OpenSidecar, SkipBlob, LoadBlob, Publish
      <4>. QED  BY <4>1 DEF SidecarTyped
    <3>. QED  BY <1>5, <3>2, <3>3, <3>4 DEF Load
  <2>3. SidecarTyped'
    BY <2>1, <2>2 DEF SidecarTyped
  <2>. QED  BY <1>2, <2>1, <2>3
<1>6. CASE UNCHANGED sidecarVars
  <2>1. file' = file /\ writer' = writer /\ given' = given /\ finished' = finished /\ SidecarTyped'
    BY <1>6 DEF sidecarVars, SidecarTyped
  <2>. QED  BY <1>2, <2>1
<1>. QED  BY <1>1, <1>2, <1>3, <1>4, <1>5, <1>6 DEF SidecarNext

-----------------------------------------------------------------------------
(* The load.                                                               *)

LEMMA Supports ==
  ASSUME NEW at
  PROVE  at \in SupportedGiven <=>
           /\ at = <<at[1], at[2]>>
           /\ at[1] \in DOMAIN request.asked /\ at[2] \in DOMAIN given[request.asked[at[1]]]
           /\ Given(at).sketch.kind \in Supported
BY DEF SupportedGiven

LEMMA SupportsNext ==
  ASSUME NEW at
  PROVE  at \in SupportedGiven' <=>
           /\ at = <<at[1], at[2]>>
           /\ at[1] \in DOMAIN request'.asked /\ at[2] \in DOMAIN given'[request'.asked[at[1]]]
           /\ Given(at)'.sketch.kind \in Supported
BY DEF SupportedGiven

\* What was read stays read, since nobody writes to sealed files.
LEMMA ReadKept ==
  ASSUME SidecarTyped, NEW n, NEW i, ReadUpTo(n, i), n \in Nat,
         load'.blobs = load.blobs, request' = request, \A p \in Path : Sealed(p) => Kept(p)
  PROVE  ReadUpTo(n, i)'
<1>1. /\ Len(request.asked) \in Nat /\ DOMAIN request.asked = 1 .. Len(request.asked)
      /\ \A k \in DOMAIN request.asked : request.asked[k] \in Path
  BY LenProperties, ElementOfSeq DEF SidecarTyped
<1>2. \A k \in DOMAIN request.asked : k <= n => Sealed(request.asked[k]) /\ Kept(request.asked[k])
  BY <1>1 DEF ReadUpTo
<1>3. \A k \in DOMAIN request.asked : k <= n => Sealed(request.asked[k])'
  BY <1>2 DEF Sealed, Kept
<1>4. \A at : at[1] \in DOMAIN request.asked /\ at[1] <= n =>
        (at \in SupportedGiven' <=> at \in SupportedGiven) /\ Given(at)' = Given(at)
        /\ (request.asked[at[1]] \in finished' <=> request.asked[at[1]] \in finished)
  <2>. SUFFICES ASSUME NEW at, at[1] \in DOMAIN request.asked, at[1] <= n
                PROVE  (at \in SupportedGiven' <=> at \in SupportedGiven) /\ Given(at)' = Given(at)
                       /\ (request.asked[at[1]] \in finished' <=> request.asked[at[1]] \in finished)
    OBVIOUS
  <2>1. Kept(request.asked[at[1]])
    BY <1>2
  <2>2. Given(at)' = Given(at)
    BY <2>1 DEF Given, Kept
  <2>3. at \in SupportedGiven' <=> at \in SupportedGiven
    BY <2>1, <2>2, Supports, SupportsNext DEF Kept
  <2>. QED  BY <2>1, <2>2, <2>3 DEF Kept
<1>5. \A at \in DOMAIN load.blobs :
        /\ at[1] \in DOMAIN request.asked /\ at[1] <= n
        /\ request.asked[at[1]] \in finished =>
             /\ at \in SupportedGiven /\ Passed(at, n, i)
             /\ load.blobs[at] = Delivered(Given(at))
             /\ request.expected = None \/ Given(at).snapshot \in {Unassigned, request.expected}
  BY DEF ReadUpTo
<1>6. \A at \in SupportedGiven : request.asked[at[1]] \in finished /\ Passed(at, n, i) => at \in DOMAIN load.blobs
  BY DEF ReadUpTo
<1>7. \A at \in DOMAIN load.blobs :
        /\ at[1] \in DOMAIN request.asked /\ at[1] <= n
        /\ request.asked[at[1]] \in finished' =>
             /\ at \in SupportedGiven' /\ Passed(at, n, i)
             /\ load.blobs[at] = Delivered(Given(at)')
             /\ request.expected = None \/ Given(at)'.snapshot \in {Unassigned, request.expected}
  BY <1>4, <1>5
<1>8. ASSUME NEW at \in SupportedGiven', request.asked[at[1]] \in finished', Passed(at, n, i)
      PROVE  at \in DOMAIN load.blobs
  <2>1. at[1] \in DOMAIN request.asked
    BY <1>8, SupportsNext
  <2>2. at[1] <= n
    BY <1>1, <1>8, <2>1 DEF Passed
  <2>. QED  BY <1>4, <1>6, <1>8, <2>1, <2>2
<1>. QED  BY <1>3, <1>7, <1>8 DEF ReadUpTo

LEMMA LoadKept ==
  ASSUME SidecarTyped, LoadInv, request' = request, load' = load, \A p \in Path : Sealed(p) => Kept(p)
  PROVE  LoadInv'
<1>1. Len(request.asked) \in Nat /\ \A k \in 1 .. Len(request.asked) : request.asked[k] \in Path
  BY LenProperties, ElementOfSeq DEF SidecarTyped
<1>2. CASE load.pc \in {"idle", "failed"}
  BY <1>2 DEF LoadInv
<1>3. CASE load.pc = "ok"
  <2>1. ASSUME NEW n \in {Len(request.asked) + 1} PROVE ReadUpTo(n, 1)'
    BY <1>1, <1>3, ReadKept DEF LoadInv
  <2>. QED  BY <1>3, <2>1 DEF LoadInv
<1>4. CASE load.pc = "busy"
  <2>1. load.sidecar \in Nat /\ load.sidecar <= Len(request.asked)
    BY <1>1, <1>4 DEF LoadInv
  <2>2. ASSUME NEW n \in {load.sidecar}, NEW i \in {load.next} PROVE ReadUpTo(n, i)'
    BY <1>4, <2>1, ReadKept DEF LoadInv
  <2>3. ASSUME load.sidecar > 0, request.asked[load.sidecar] \in finished'
        PROVE  request.asked[load.sidecar] \in finished /\ file'[request.asked[load.sidecar]] = file[request.asked[load.sidecar]]
    <3>1. load.sidecar \in DOMAIN request.asked /\ request.asked[load.sidecar] \in Path
      BY <1>1, <2>1, <2>3, LenProperties DEF SidecarTyped
    <3>2. Sealed(request.asked[load.sidecar])
      BY <1>4, <2>1, <3>1 DEF LoadInv, ReadUpTo
    <3>. QED  BY <2>3, <3>1, <3>2 DEF Kept
  <2>. QED  BY <1>4, <2>2, <2>3 DEF LoadInv
<1>. QED  BY <1>2, <1>3, <1>4 DEF LoadInv

\* A payload is read back as it was written, whatever the codec.
LEMMA ReadsBack ==
  ASSUME NEW f \in Seq(Cell), NEW end \in Int, end <= Len(f), NEW m \in Meta, NEW g \in Gave, Accounts(f, end, m, g)
  PROVE  Decompresses(m.codec, ReadBlob(m, f)) /\ Decompressed(m.codec, ReadBlob(m, f)) = Raw(g.sketch)
<1>. DEFINE coded == EncodedPayload(g.sketch, m.codec)
            cells == ReadBlob(m, f)
            o == m.offset
            l == m.length
<1>1. /\ m.codec \in {"none", "zstd"} /\ l = Len(coded) /\ o >= 1 /\ o + l <= end
      /\ \A k \in 1 .. l : f[o + k] = coded[k]
  BY DEF Accounts
<1>2. g.sketch \in Sketches /\ o \in Nat /\ l \in Nat /\ Len(f) \in Nat
  BY LenProperties DEF Gave, Meta
<1>3. coded \in Seq(Cell)
  BY <1>1, <1>2, PayloadOf
<1>4. cells = SubSeq(f, o + 1, o + l)
  BY DEF ReadBlob
<1>. HIDE DEF cells, o, l
<1>5. \A j \in o + 1 .. o + l : f[j] \in Cell
  <2>1. \A j \in o + 1 .. o + l : j \in 1 .. Len(f)
    BY <1>1, <1>2
  <2>. QED  BY <2>1, ElementOfSeq
<1>6. cells \in Seq(Cell) /\ Len(cells) = l /\ \A k \in 1 .. l : cells[k] = f[o + k]
  <2>. DEFINE a == o + 1
              b == o + l
  <2>1. a \in Int /\ b \in Int /\ b - a + 1 = l /\ (IF a <= b THEN b - a + 1 ELSE 0) = l
        /\ \A k \in 1 .. l : a + k - 1 = o + k
    BY <1>2
  <2>2. cells = SubSeq(f, a, b) /\ \A j \in a .. b : f[j] \in Cell
    BY <1>4, <1>5
  <2>. HIDE DEF a, b
  <2>3. /\ SubSeq(f, a, b) \in Seq(Cell)
        /\ Len(SubSeq(f, a, b)) = IF a <= b THEN b - a + 1 ELSE 0
        /\ \A k \in 1 .. b - a + 1 : SubSeq(f, a, b)[k] = f[a + k - 1]
    BY <2>1, <2>2, SubSeqProperties
  <2>. QED  BY <2>1, <2>2, <2>3
<1>7. cells = coded
  BY <1>1, <1>3, <1>6, SeqEqual
<1>8. CASE m.codec = "none"
  BY <1>7, <1>8 DEF EncodedPayload, Decompresses, Decompressed, cells
<1>9. CASE m.codec = "zstd"
  <2>1. cells = <<Data(g.sketch, "zstd", 1)>>
    BY <1>7, <1>9 DEF EncodedPayload
  <2>2. Len(cells) = 1 /\ cells[1] = Data(g.sketch, "zstd", 1)
    BY <2>1
  <2>3. cells[1].cell = "data" /\ cells[1].codec = "zstd" /\ cells[1].sketch = g.sketch
    BY <2>2 DEF Data
  <2>. QED  BY <1>9, <2>2, <2>3 DEF Decompresses, Decompressed, cells
<1>. QED  BY <1>1, <1>8, <1>9

LEMMA Snapshots ==
  ASSUME NEW f, NEW end, NEW m, NEW g \in Gave, Accounts(f, end, m, g), request.strict => request.sequence = request.expected
  PROVE  /\ SnapshotMatches(m) <=> request.expected = None \/ g.snapshot \in {Unassigned, request.expected}
         /\ m.snapshot # None /\ m.sequence # None
<1>1. m.snapshot = g.snapshot /\ m.sequence = g.snapshot /\ g.snapshot \in {Unassigned, g.sketch.about} /\ g.sketch.about \in Nat
  BY DEF Accounts, Gave, Sketches
<1>2. g.snapshot # None
  BY <1>1 DEF None, Unassigned
<1>. QED  BY <1>1, <1>2 DEF SnapshotMatches, BothOrNeither, OfSnapshot

\* A sketch that was added decodes.
LEMMA DecodesRaw ==
  ASSUME NEW s \in Sketches
  PROVE  DecodeKnown(s.kind, Raw(s)) /\ Raw(s)[1].sketch = s
<1>1. /\ Len(Raw(s)) = Size[s.kind] /\ Size[s.kind] \in Nat \ {0}
      /\ \A k \in 1 .. Size[s.kind] : Raw(s)[k] = Data(s, "none", k)
  BY PayloadOf
<1>2. \A k : Data(s, "none", k).cell = "data" /\ Data(s, "none", k).codec = "none" /\ Data(s, "none", k).sketch = s
             /\ Data(s, "none", k).part = k
  BY DEF Data
<1>. QED  BY <1>1, <1>2 DEF DecodeKnown

\* What the loader finds in a sidecar that was finished.
LEMMA Finished ==
  ASSUME SidecarTyped, \A p \in Path : FileInv(p), NEW p \in Path, p \in finished
  PROVE  LET f == file[p]
             metas == f[Len(f) - 3].blobs
         IN /\ f \in Seq(Cell) /\ Len(f) >= 6 /\ Len(f) \in Nat /\ given[p] \in Seq(Gave)
            /\ Len(given[p]) \in Nat /\ DOMAIN given[p] = 1 .. Len(given[p]) /\ Len(metas) = Len(given[p])
            /\ metas \in Seq(Meta)
            /\ f[Len(f) - 3].version = "1" /\ (Len(given[p]) <= MaxBlobs => Opens(f))
            /\ \A i \in 1 .. Len(given[p]) : metas[i] \in Meta /\ given[p][i] \in Gave /\ Accounts(f, DataEnd(f), metas[i], given[p][i])
<1>. DEFINE f == file[p]
            json == f[Len(f) - 3]
            metas == json.blobs
<1>1. f \in Seq(Cell) /\ given[p] \in Seq(Gave) /\ Whole(f, given[p])
  BY DEF SidecarTyped, FileInv
<1>. HIDE DEF f
<1>2. /\ Len(f) \in Nat /\ Len(given[p]) \in Nat /\ DOMAIN given[p] = 1 .. Len(given[p]) /\ Len(f) >= 6
      /\ json.cell = "json" /\ json.version = "1" /\ Ledger(f, DataEnd(f), metas, given[p])
  BY <1>1, LenProperties DEF Whole
<1>3. json \in Cell
  <2>1. Len(f) - 3 \in 1 .. Len(f)
    BY <1>2
  <2>. QED  BY <1>1, <2>1, ElementOfSeq
<1>. HIDE DEF json
<1>4. metas \in Seq(Meta)
  BY <1>2, <1>3 DEF Cell, Magic
<1>5. Len(metas) = Len(given[p]) /\ \A i \in 1 .. Len(given[p]) : Accounts(f, DataEnd(f), metas[i], given[p][i])
  BY <1>2 DEF Ledger
<1>6. \A i \in 1 .. Len(given[p]) : metas[i] \in Meta /\ given[p][i] \in Gave
  BY <1>1, <1>4, <1>5, ElementOfSeq
<1>7. Len(given[p]) <= MaxBlobs => Opens(f)
  BY <1>1, <1>5 DEF Opens, Whole, json
<1>. QED  BY <1>1, <1>2, <1>4, <1>5, <1>6, <1>7 DEF f, json

LEMMA EndsAs ==
  ASSUME NEW pc, NEW blobs, Ended(pc, blobs)
  PROVE  load'.pc = pc /\ load'.blobs = blobs /\ load'.loadable = Loadable
BY DEF Ended, Loading

\* Nothing is wrong with the sidecars of a load that is refused.
LEMMA RefusedForAReason ==
  ASSUME LoadInv, ~Loadable, load' = [Loading("failed", NoBlobs) EXCEPT !.loadable = Loadable], request' = request
  PROVE  LoadInv'
<1>1. load'.pc = "failed" /\ load'.blobs = NoBlobs /\ load'.loadable = FALSE
  BY DEF Loading
<1>2. "failed" # "ok" /\ "failed" # "busy"
  OBVIOUS
<1>3. (request.strict => request.sequence = request.expected)' 
  BY DEF LoadInv
<1>. QED  BY <1>1, <1>2, <1>3 DEF LoadInv

Static == UNCHANGED <<file, writer, given, finished, request>>

LEMMA ReadStatic ==
  ASSUME Static
  PROVE  /\ \A p : Sealed(p)' <=> Sealed(p)
         /\ SupportedGiven' = SupportedGiven /\ \A at : Given(at)' = Given(at)
BY DEF Static, Sealed, SupportedGiven, Given

\* What has been read after a step of the load, given what it changed.
LEMMA NextRead ==
  ASSUME Static, NEW blobs, load'.blobs = blobs, NEW n, NEW i,
         \A k \in DOMAIN request.asked : k <= n => Sealed(request.asked[k]),
         \A at \in DOMAIN blobs :
           /\ at[1] \in DOMAIN request.asked /\ at[1] <= n
           /\ request.asked[at[1]] \in finished =>
                /\ at \in SupportedGiven /\ Passed(at, n, i)
                /\ blobs[at] = Delivered(Given(at))
                /\ request.expected = None \/ Given(at).snapshot \in {Unassigned, request.expected},
         \A at \in SupportedGiven :
           request.asked[at[1]] \in finished /\ Passed(at, n, i) => at \in DOMAIN blobs
  PROVE  ReadUpTo(n, i)'
<1>1. request' = request /\ finished' = finished
  BY DEF Static
<1>2. SupportedGiven' = SupportedGiven
  BY ReadStatic
<1>3. \A at : Given(at)' = Given(at)
  BY ReadStatic
<1>4. \A p : Sealed(p)' <=> Sealed(p)
  BY ReadStatic
<1>5. (\A k \in DOMAIN request.asked : k <= n => Sealed(request.asked[k]))'
  <2>1. \A p : Sealed(p) => Sealed(p)'
    BY <1>4
  <2>. QED  BY <1>1, <2>1, ReadStatic DEF Sealed, Static
<1>. QED  BY <1>1, <1>2, <1>3, <1>5 DEF ReadUpTo

\* A file that opens is nobody's any more: its writer would still owe it the
\* flags of its footer.
LEMMA OpensSealed ==
  ASSUME NEW p, file[p] \in Seq(Cell), FileInv(p), Opens(file[p])
  PROVE  Sealed(p)
<1>1. Len(file[p]) \in Nat
  BY LenProperties
<1>2. ~ (\A i \in 1 .. Len(file[p]) - 1 : file[p][i] # Flags(0))
  BY NothingToOpen
<1>3. writer[p].pc # "killed"
  BY <1>2 DEF FileInv
<1>4. writer[p].pc # "open"
  <2>1. UnderWay(file[p], writer[p]) => \A i \in 1 .. Len(file[p]) : file[p][i] # Flags(0)
    BY DEF UnderWay
  <2>2. (\A i \in 1 .. Len(file[p]) : file[p][i] # Flags(0))
          => \A i \in 1 .. Len(file[p]) - 1 : file[p][i] # Flags(0)
    BY <1>1
  <2>. QED  BY <1>2, <2>1, <2>2 DEF FileInv
<1>5. file[p] # Missing
  <2>1. Len(Missing) = 0
    BY DEF Missing
  <2>2. Len(file[p]) >= 6
    BY DEF Opens
  <2>. QED  BY <2>1, <2>2
<1>6. writer[p].pc = "none"
  BY <1>3, <1>4 DEF FileInv
<1>. QED  BY <1>5, <1>6 DEF Sealed

\* The footer of a file that opens lists blobs.
LEMMA OpensBlobs ==
  ASSUME NEW f \in Seq(Cell), Opens(f)
  PROVE  f[Len(f) - 3].blobs \in Seq(Meta)
<1>. DEFINE json == f[Len(f) - 3]
<1>1. Len(f) \in Nat /\ Len(f) >= 6
  BY LenProperties DEF Opens
<1>2. Len(f) - 3 \in 1 .. Len(f)
  BY <1>1
<1>3. json \in Cell
  BY <1>2, ElementOfSeq
<1>4. json.cell = "json"
  BY DEF Opens
<1>. HIDE DEF json
<1>5. json.blobs \in Seq(Meta)
  BY <1>3, <1>4 DEF Cell, Magic
<1>. QED  BY <1>5 DEF json

\* The n-th sidecar can be opened and is nobody's any more.
LEMMA OpenStep ==
  ASSUME SidecarInv, OpenSidecar
  PROVE  LoadInv'
<1>. DEFINE n == load.sidecar
            p == request.asked[n + 1]
            f == file[p]
            json == f[Len(f) - 3]
            good == /\ Opens(f) /\ KnownVersion(json.version)
                    /\ request.strict => \A m \in Range(json.blobs) : m.snapshot # None /\ m.sequence # None
<1>1. /\ SidecarTyped /\ (\A q \in Path : FileInv(q)) /\ LoadInv /\ load.pc = "busy" /\ Static
      /\ request.asked \in Seq(Path) /\ Len(request.asked) \in Nat /\ DOMAIN request.asked = 1 .. Len(request.asked)
  BY LenProperties DEF SidecarInv, SidecarTyped, OpenSidecar, Static
<1>2. /\ n \in Nat /\ n < Len(request.asked) /\ load.next > Len(load.footer) /\ load.footer \in Seq(Meta)
      /\ (n = 0 => load.footer = <<>>) /\ load.next \in Nat /\ Len(load.footer) \in Nat
      /\ \A k \in {n}, i \in {load.next} : ReadUpTo(k, i)
  BY <1>1, LenProperties DEF LoadInv, OpenSidecar
<1>3. p \in Path /\ f \in Seq(Cell) /\ Len(f) \in Nat /\ FileInv(p) /\ n + 1 \in DOMAIN request.asked
  <2>1. n + 1 \in 1 .. Len(request.asked)
    BY <1>1, <1>2
  <2>. QED  BY <1>1, <2>1, ElementOfSeq, LenProperties DEF SidecarTyped
<1>4. CASE good
  <2>1. load' = Reading(n + 1, json.blobs, DataEnd(f), 1, load.blobs)
    BY <1>4 DEF OpenSidecar
  <2>2. Opens(f)
    BY <1>4
  <2>3. Sealed(p) /\ json.blobs \in Seq(Meta)
    <3>. HIDE DEF p
    <3>. QED  BY <1>3, <2>2, OpensSealed, OpensBlobs
  <2>4. \A k \in DOMAIN request.asked : k <= n + 1 => Sealed(request.asked[k])
    <3>1. \A k \in DOMAIN request.asked : k <= n => Sealed(request.asked[k])
      BY <1>2 DEF ReadUpTo
    <3>. QED  BY <1>1, <1>2, <2>3, <3>1
  <2>5. ASSUME NEW at \in DOMAIN load.blobs
        PROVE  /\ at[1] \in DOMAIN request.asked /\ at[1] <= n + 1
               /\ request.asked[at[1]] \in finished =>
                    /\ at \in SupportedGiven /\ Passed(at, n + 1, 1)
                    /\ load.blobs[at] = Delivered(Given(at))
                    /\ request.expected = None \/ Given(at).snapshot \in {Unassigned, request.expected}
    <3>1. at[1] \in DOMAIN request.asked /\ at[1] <= n
      BY <1>2 DEF ReadUpTo
    <3>2. at[1] <= n + 1 /\ Passed(at, n + 1, 1)
      BY <1>1, <1>2, <3>1 DEF Passed
    <3>. QED  BY <1>2, <3>1, <3>2 DEF ReadUpTo
  <2>6. ASSUME NEW at \in SupportedGiven, request.asked[at[1]] \in finished, Passed(at, n + 1, 1)
        PROVE  at \in DOMAIN load.blobs
    <3>1. at[1] \in DOMAIN request.asked /\ at[2] \in DOMAIN given[request.asked[at[1]]] /\ request.asked[at[1]] \in Path
      BY <1>1, Supports, ElementOfSeq
    <3>2. at[2] \in 1 .. Len(given[request.asked[at[1]]]) /\ Len(given[request.asked[at[1]]]) \in Nat
      BY <1>1, <2>6, <3>1, Finished
    <3>3. at[1] < n \/ at[1] = n
      BY <1>1, <1>2, <2>6, <3>1, <3>2 DEF Passed
    <3>4. Passed(at, n, load.next)
      <4>1. CASE at[1] < n
        BY <4>1 DEF Passed
      <4>2. CASE at[1] = n
        <5>1. load.footer = file[request.asked[n]][Len(file[request.asked[n]]) - 3].blobs
          BY <1>1, <1>2, <2>6, <3>1, <4>2 DEF LoadInv
        <5>2. Len(load.footer) = Len(given[request.asked[n]])
          BY <1>1, <2>6, <3>1, <4>2, <5>1, Finished
        <5>. QED  BY <1>2, <3>2, <4>2, <5>2 DEF Passed
      <4>. QED  BY <3>3, <4>1, <4>2
    <3>. QED  BY <1>2, <2>6, <3>4 DEF ReadUpTo
  <2>7. \A k \in {n + 1}, i \in {1} : ReadUpTo(k, i)'
    <3>. DEFINE blobs == load.blobs
    <3>1. load'.blobs = blobs
      BY <2>1 DEF Reading
    <3>. SUFFICES ASSUME NEW k, k = n + 1 PROVE ReadUpTo(k, 1)'
      OBVIOUS
    <3>. HIDE DEF n, blobs
    <3>2. \A j \in DOMAIN request.asked : j <= k => Sealed(request.asked[j])
      BY <2>4
    <3>3. \A at \in DOMAIN blobs :
            /\ at[1] \in DOMAIN request.asked /\ at[1] <= k
            /\ request.asked[at[1]] \in finished =>
                 /\ at \in SupportedGiven /\ Passed(at, k, 1)
                 /\ blobs[at] = Delivered(Given(at))
                 /\ request.expected = None \/ Given(at).snapshot \in {Unassigned, request.expected}
      BY <2>5 DEF blobs
    <3>4. \A at \in SupportedGiven :
            request.asked[at[1]] \in finished /\ Passed(at, k, 1) => at \in DOMAIN blobs
      BY <2>6 DEF blobs
    <3>. QED  BY <1>1, <3>1, <3>2, <3>3, <3>4, NextRead
  <2>8. 1 \in 1 .. Len(json.blobs) + 1 /\ n + 1 \in 0 .. Len(request.asked) /\ n + 1 # 0
    <3>1. Len(json.blobs) \in Nat
      BY <2>3, LenProperties
    <3>. HIDE DEF json
    <3>. QED  BY <1>1, <1>2, <3>1
  <2>9. file' = file /\ request' = request /\ finished' = finished
    BY <1>1 DEF Static
  <2>. HIDE DEF n, json, good
  <2>10. /\ load'.pc = "busy" /\ load'.sidecar = n + 1 /\ load'.footer = json.blobs /\ load'.end = DataEnd(f) /\ load'.next = 1
         /\ load'.blobs = load.blobs /\ load'.loadable = FALSE
    BY <2>1 DEF Reading
  <2>11. request'.asked[load'.sidecar] = p /\ file'[request'.asked[load'.sidecar]] = f
    BY <2>9, <2>10
  <2>12. (request.strict => request.sequence = request.expected)'
    BY <1>1, <2>9 DEF LoadInv
  <2>13. \A k \in {load'.sidecar}, i \in {load'.next} : ReadUpTo(k, i)'
    BY <2>7, <2>10
  <2>14. f[Len(f) - 3].blobs = json.blobs
    BY DEF json
  <2>. QED  BY <2>3, <2>8, <2>9, <2>10, <2>11, <2>12, <2>13, <2>14 DEF LoadInv
<1>5. CASE ~good
  <2>1. load' = [Loading("failed", NoBlobs) EXCEPT !.loadable = Loadable] /\ request' = request
    BY <1>5 DEF OpenSidecar, Fail, Ended
  <2>2. SUFFICES ASSUME Loadable PROVE FALSE
    BY <1>1, <2>1, RefusedForAReason
  <2>3. p \in finished /\ Len(given[p]) <= MaxBlobs
    <3>1. p \in Range(request.asked)
      BY <1>3 DEF Range
    <3>. HIDE DEF p
    <3>. QED  BY <2>2, <3>1 DEF Loadable
  <2>4. /\ Opens(f) /\ json.version = "1" /\ Len(json.blobs) = Len(given[p]) /\ json.blobs \in Seq(Meta)
        /\ \A i \in 1 .. Len(given[p]) : given[p][i] \in Gave /\ Accounts(f, DataEnd(f), json.blobs[i], given[p][i])
    BY <1>1, <1>3, <2>3, Finished
  <2>5. \A m \in Range(json.blobs) : m.snapshot # None /\ m.sequence # None
    <3>. SUFFICES ASSUME NEW i \in DOMAIN json.blobs
                  PROVE  json.blobs[i].snapshot # None /\ json.blobs[i].sequence # None
      BY DEF Range
    <3>1. i \in 1 .. Len(given[p])
      BY <2>4, LenProperties
    <3>2. request.strict => request.sequence = request.expected
      BY <1>1 DEF LoadInv
    <3>3. given[p][i] \in Gave /\ Accounts(f, DataEnd(f), json.blobs[i], given[p][i])
      BY <2>4, <3>1
    <3>. HIDE DEF p, f, json
    <3>. QED  BY <3>2, <3>3, Snapshots
  <2>6. KnownVersion(json.version)
    BY <2>4 DEF KnownVersion
  <2>. QED  BY <1>5, <2>4, <2>5, <2>6
<1>. QED  BY <1>4, <1>5

\* The blob that comes next, in its sidecar.
LEMMA AtBlob ==
  ASSUME SidecarInv, load.pc = "busy", load.next <= Len(load.footer)
  PROVE  LET n == load.sidecar
             i == load.next
             p == request.asked[n]
         IN /\ n \in DOMAIN request.asked /\ n \in Nat /\ i \in Nat /\ i \in 1 .. Len(load.footer) /\ p \in Path
            /\ NextBlob \in Meta /\ file[p] \in Seq(Cell) /\ request.asked \in Seq(Path)
            /\ (request.strict => request.sequence = request.expected)
            /\ \A k \in {n}, j \in {i} : ReadUpTo(k, j)
            /\ p \in finished =>
                 /\ given[p][i] \in Gave /\ Given(<<n, i>>) = given[p][i]
                 /\ Accounts(file[p], load.end, NextBlob, given[p][i])
                 /\ load.end \in Int /\ load.end <= Len(file[p])
                 /\ <<n, i>> \in SupportedGiven <=> NextBlob.kind \in Supported
<1>. DEFINE n == load.sidecar
            i == load.next
            p == request.asked[n]
            f == file[p]
            meta == load.footer[i]
<1>1. /\ SidecarTyped /\ (\A q \in Path : FileInv(q)) /\ LoadInv
      /\ request.asked \in Seq(Path) /\ Len(request.asked) \in Nat /\ DOMAIN request.asked = 1 .. Len(request.asked)
  BY LenProperties DEF SidecarInv, SidecarTyped
<1>2. /\ n \in 0 .. Len(request.asked) /\ (n = 0 => load.footer = <<>>) /\ load.footer \in Seq(Meta)
      /\ i \in 1 .. Len(load.footer) + 1 /\ \A k \in {n}, j \in {i} : ReadUpTo(k, j)
      /\ n > 0 /\ p \in finished => load.footer = f[Len(f) - 3].blobs /\ load.end = DataEnd(f)
      /\ request.strict => request.sequence = request.expected
  BY <1>1 DEF LoadInv
<1>3. /\ Len(load.footer) \in Nat /\ i \in 1 .. Len(load.footer) /\ i \in Nat /\ n \in Nat /\ n # 0 /\ n \in DOMAIN request.asked
  <2>1. Len(load.footer) \in Nat
    BY <1>2, LenProperties
  <2>2. i \in 1 .. Len(load.footer) /\ i \in Nat
    BY <1>2, <2>1
  <2>3. n # 0
    BY <1>2, <2>2
  <2>. QED  BY <1>1, <1>2, <2>1, <2>2, <2>3
<1>4. p \in Path /\ f \in Seq(Cell) /\ meta \in Meta
  <2>1. p \in Path
    BY <1>1, <1>3, ElementOfSeq
  <2>. QED  BY <1>1, <1>2, <1>3, <2>1, ElementOfSeq DEF SidecarTyped
<1>5. ASSUME p \in finished
      PROVE  /\ given[p][i] \in Gave /\ Given(<<n, i>>) = given[p][i]
             /\ Accounts(f, load.end, meta, given[p][i])
             /\ load.end \in Int /\ load.end <= Len(f)
             /\ <<n, i>> \in SupportedGiven <=> meta.kind \in Supported
  <2>1. load.footer = f[Len(f) - 3].blobs /\ load.end = DataEnd(f)
    BY <1>2, <1>3, <1>5
  <2>2. Len(f) \in Nat /\ Len(given[p]) = Len(load.footer) /\ DOMAIN given[p] = 1 .. Len(given[p])
    BY <1>1, <1>4, <1>5, <2>1, Finished
  <2>3. given[p][i] \in Gave /\ Accounts(f, DataEnd(f), meta, given[p][i])
    BY <1>1, <1>3, <1>4, <1>5, <2>1, <2>2, Finished
  <2>4. Given(<<n, i>>) = given[p][i]
    BY DEF Given
  <2>5. load.end \in Int /\ load.end <= Len(f)
    BY <2>1, <2>2 DEF DataEnd
  <2>6. <<n, i>> \in SupportedGiven <=> Given(<<n, i>>).sketch.kind \in Supported
    BY <1>3, <2>2, Supports
  <2>. QED  BY <2>1, <2>3, <2>4, <2>5, <2>6 DEF Accounts
<1>. QED  BY <1>1, <1>2, <1>3, <1>4, <1>5 DEF NextBlob

\* What is left to show of a step past a blob.
LEMMA PastBlob ==
  ASSUME SidecarInv, load.pc = "busy", load.next <= Len(load.footer), Static, NEW blobs,
         load' = Reading(load.sidecar, load.footer, load.end, load.next + 1, blobs),
         \A n \in {load.sidecar}, i \in {load.next + 1} : ReadUpTo(n, i)'
  PROVE  LoadInv'
<1>1. LoadInv /\ request' = request /\ file' = file /\ finished' = finished
  BY DEF SidecarInv, Static
<1>2. /\ load'.pc = "busy" /\ load'.sidecar = load.sidecar /\ load'.footer = load.footer /\ load'.end = load.end
      /\ load'.next = load.next + 1 /\ load'.blobs = blobs /\ load'.loadable = FALSE
  BY DEF Reading
<1>3. load.next + 1 \in 1 .. Len(load.footer) + 1
  <2>1. Len(load.footer) \in Nat /\ load.next \in Nat
    BY AtBlob, LenProperties DEF LoadInv, SidecarInv
  <2>. QED  BY <2>1
<1>4. (request.strict => request.sequence = request.expected)'
  BY <1>1 DEF LoadInv
<1>5. /\ load.sidecar \in 0 .. Len(request.asked) /\ (load.sidecar = 0 => load.footer = <<>>)
      /\ load.footer \in Seq(Meta)
      /\ load.sidecar > 0 /\ request.asked[load.sidecar] \in finished =>
           LET f == file[request.asked[load.sidecar]] IN load.footer = f[Len(f) - 3].blobs /\ load.end = DataEnd(f)
  BY <1>1 DEF LoadInv
<1>6. \A n \in {load'.sidecar}, i \in {load'.next} : ReadUpTo(n, i)'
  BY <1>2
<1>. QED  BY <1>1, <1>2, <1>3, <1>4, <1>5, <1>6 DEF LoadInv

LEMMA SkipStep ==
  ASSUME SidecarInv, SkipBlob
  PROVE  LoadInv'
<1>. DEFINE blobs == load.blobs
<1>1. load.pc = "busy" /\ load.next <= Len(load.footer) /\ NextBlob.kind \notin Supported /\ Static
  BY DEF SkipBlob, Static
<1>2. load' = Reading(load.sidecar, load.footer, load.end, load.next + 1, blobs)
  BY DEF SkipBlob
<1>3. load'.blobs = blobs
  BY <1>2 DEF Reading
<1>4. ASSUME NEW n, n = load.sidecar, NEW i, i = load.next, NEW j, j = i + 1 PROVE ReadUpTo(n, j)'
  <2>1. /\ ReadUpTo(n, i) /\ i \in Nat /\ n \in Nat /\ request.asked \in Seq(Path)
        /\ request.asked[n] \in finished => <<n, i>> \notin SupportedGiven
    BY <1>1, <1>4, AtBlob
  <2>2. \A at : Passed(at, n, i) /\ at[2] \in Int => Passed(at, n, j)
    BY <1>4, <2>1 DEF Passed
  <2>3. \A at \in SupportedGiven : request.asked[at[1]] \in finished => at = <<at[1], at[2]>> /\ at[2] \in Int
    <3>. SUFFICES ASSUME NEW at \in SupportedGiven, request.asked[at[1]] \in finished PROVE at = <<at[1], at[2]>> /\ at[2] \in Int
      OBVIOUS
    <3>1. at = <<at[1], at[2]>> /\ at[1] \in DOMAIN request.asked /\ at[2] \in DOMAIN given[request.asked[at[1]]]
      BY Supports
    <3>2. request.asked[at[1]] \in Path
      BY <2>1, <3>1, ElementOfSeq
    <3>3. at[2] \in 1 .. Len(given[request.asked[at[1]]])
      BY <3>1, <3>2, Finished DEF SidecarInv
    <3>. QED  BY <3>1, <3>3
  <2>4. \A k \in DOMAIN request.asked : k <= n => Sealed(request.asked[k])
    BY <2>1 DEF ReadUpTo
  <2>5. \A at \in DOMAIN blobs :
          /\ at[1] \in DOMAIN request.asked /\ at[1] <= n
          /\ request.asked[at[1]] \in finished =>
               /\ at \in SupportedGiven /\ Passed(at, n, j)
               /\ blobs[at] = Delivered(Given(at))
               /\ request.expected = None \/ Given(at).snapshot \in {Unassigned, request.expected}
    BY <2>1, <2>2, <2>3 DEF ReadUpTo
  <2>6. \A at \in SupportedGiven : request.asked[at[1]] \in finished /\ Passed(at, n, j) => at \in DOMAIN blobs
    <3>. SUFFICES ASSUME NEW at \in SupportedGiven, request.asked[at[1]] \in finished, Passed(at, n, j)
                  PROVE  Passed(at, n, i)
      BY <2>1 DEF ReadUpTo
    <3>1. at = <<at[1], at[2]>> /\ at[2] \in Int
      BY <2>3
    <3>2. at[1] = n => at[2] # i
      BY <2>1, <3>1
    <3>. QED  BY <1>4, <2>1, <3>1, <3>2 DEF Passed
  <2>. HIDE DEF blobs
  <2>. QED  BY <1>1, <1>3, <2>4, <2>5, <2>6, NextRead
<1>5. \A n \in {load.sidecar}, j \in {load.next + 1} : ReadUpTo(n, j)'
  BY <1>4
<1>. HIDE DEF blobs
<1>. QED  BY <1>1, <1>2, <1>5, PastBlob

LEMMA LoadBlobStep ==
  ASSUME SidecarInv, LoadBlob
  PROVE  LoadInv'
<1>. DEFINE p == request.asked[load.sidecar]
            cells == ReadBlob(NextBlob, file[p])
            here == <<load.sidecar, load.next>>
            blob == [kind |-> NextBlob.kind, fields |-> NextBlob.fields, snapshot |-> NextBlob.snapshot,
                     payload |-> Decompressed(NextBlob.codec, cells)]
            blobs == [o \in DOMAIN load.blobs \cup {here} |-> IF o = here THEN blob ELSE load.blobs[o]]
            good == SnapshotMatches(NextBlob) /\ InRange(NextBlob) /\ Decompresses(NextBlob.codec, cells)
<1>1. load.pc = "busy" /\ load.next <= Len(load.footer) /\ NextBlob.kind \in Supported /\ Static
  BY DEF LoadBlob, Static
<1>2. ASSUME p \in finished
      PROVE  /\ here \in SupportedGiven /\ InRange(NextBlob) /\ Decompresses(NextBlob.codec, cells)
             /\ blob = Delivered(Given(here))
             /\ SnapshotMatches(NextBlob) <=> request.expected = None \/ Given(here).snapshot \in {Unassigned, request.expected}
  <2>. DEFINE f == file[p]
              g == given[p][load.next]
              meta == NextBlob
  <2>1. /\ g \in Gave /\ Given(here) = g /\ Accounts(f, load.end, meta, g) /\ meta \in Meta /\ f \in Seq(Cell)
        /\ load.end \in Int /\ load.end <= Len(f) /\ here \in SupportedGiven
        /\ request.strict => request.sequence = request.expected
    BY <1>1, <1>2, AtBlob
  <2>. HIDE DEF f, g, meta, here
  <2>2. Decompresses(meta.codec, ReadBlob(meta, f)) /\ Decompressed(meta.codec, ReadBlob(meta, f)) = Raw(g.sketch)
    BY <2>1, ReadsBack
  <2>3. SnapshotMatches(meta) <=> request.expected = None \/ g.snapshot \in {Unassigned, request.expected}
    BY <2>1, Snapshots
  <2>4. InRange(meta) /\ meta.kind = g.sketch.kind /\ meta.fields = g.sketch.fields /\ meta.snapshot = g.snapshot
    BY <2>1 DEF InRange, Accounts
  <2>5. [kind |-> meta.kind, fields |-> meta.fields, snapshot |-> meta.snapshot,
         payload |-> Decompressed(meta.codec, ReadBlob(meta, f))] = Delivered(g)
    BY <2>2, <2>4 DEF Delivered
  <2>. QED  BY <2>1, <2>2, <2>3, <2>4, <2>5 DEF f, meta
<1>3. CASE good
  <2>1. load' = Reading(load.sidecar, load.footer, load.end, load.next + 1, blobs)
    BY <1>3 DEF LoadBlob
  <2>2. load'.blobs = blobs
    BY <2>1 DEF Reading
  <2>3. DOMAIN blobs = DOMAIN load.blobs \cup {here} /\ blobs[here] = blob /\ \A o \in DOMAIN load.blobs : o # here => blobs[o] = load.blobs[o]
    OBVIOUS
  <2>4. p \in finished => here \in SupportedGiven /\ blob = Delivered(Given(here))
                          /\ (request.expected = None \/ Given(here).snapshot \in {Unassigned, request.expected})
    BY <1>2, <1>3
  <2>5. ASSUME NEW n, n = load.sidecar, NEW i, i = load.next, NEW j, j = i + 1 PROVE ReadUpTo(n, j)'
    <3>1. ReadUpTo(n, i) /\ i \in Nat /\ n \in Nat /\ n \in DOMAIN request.asked /\ request.asked \in Seq(Path) /\ p = request.asked[n]
      BY <1>1, <2>5, AtBlob
    <3>2. here = <<n, i>> /\ here[1] = n /\ here[2] = i
      BY <2>5
    <3>. HIDE DEF blobs, blob, here, p
    <3>3. \A at \in SupportedGiven : request.asked[at[1]] \in finished => at = <<at[1], at[2]>> /\ at[2] \in Int
      <4>. SUFFICES ASSUME NEW at \in SupportedGiven, request.asked[at[1]] \in finished PROVE at = <<at[1], at[2]>> /\ at[2] \in Int
        OBVIOUS
      <4>1. at = <<at[1], at[2]>> /\ at[1] \in DOMAIN request.asked /\ at[2] \in DOMAIN given[request.asked[at[1]]]
        BY Supports
      <4>2. request.asked[at[1]] \in Path
        BY <3>1, <4>1, ElementOfSeq
      <4>3. at[2] \in 1 .. Len(given[request.asked[at[1]]])
        BY <4>1, <4>2, Finished DEF SidecarInv
      <4>. QED  BY <4>1, <4>3
    <3>4. \A k \in DOMAIN request.asked : k <= n => Sealed(request.asked[k])
      BY <3>1 DEF ReadUpTo
    <3>5. ASSUME NEW at \in DOMAIN blobs
          PROVE  /\ at[1] \in DOMAIN request.asked /\ at[1] <= n
                 /\ request.asked[at[1]] \in finished =>
                      /\ at \in SupportedGiven /\ Passed(at, n, j)
                      /\ blobs[at] = Delivered(Given(at))
                      /\ request.expected = None \/ Given(at).snapshot \in {Unassigned, request.expected}
      <4>1. CASE at = here
        <5>1. Passed(here, n, j)
          BY <2>5, <3>1, <3>2 DEF Passed
        <5>2. here[1] \in DOMAIN request.asked /\ here[1] <= n /\ request.asked[here[1]] = p
          BY <3>1, <3>2
        <5>. QED  BY <2>3, <2>4, <4>1, <5>1, <5>2
      <4>2. CASE at # here
        <5>1. at \in DOMAIN load.blobs /\ blobs[at] = load.blobs[at]
          BY <2>3, <4>2
        <5>2. at[2] \in Int /\ Passed(at, n, i) => Passed(at, n, j)
          BY <2>5, <3>1 DEF Passed
        <5>. QED  BY <3>1, <3>3, <5>1, <5>2 DEF ReadUpTo
      <4>. QED  BY <4>1, <4>2
    <3>6. \A at \in SupportedGiven : request.asked[at[1]] \in finished /\ Passed(at, n, j) => at \in DOMAIN blobs
      <4>. SUFFICES ASSUME NEW at \in SupportedGiven, request.asked[at[1]] \in finished, Passed(at, n, j)
                    PROVE  at \in DOMAIN blobs
        OBVIOUS
      <4>1. at = <<at[1], at[2]>> /\ at[2] \in Int
        BY <3>3
      <4>2. CASE at[1] = n /\ at[2] = i
        <5>1. at = here
          BY <3>2, <4>1, <4>2
        <5>. QED  BY <2>3, <5>1
      <4>3. CASE ~(at[1] = n /\ at[2] = i)
        <5>1. Passed(at, n, i)
          BY <2>5, <3>1, <4>1, <4>3 DEF Passed
        <5>. QED  BY <2>3, <3>1, <5>1 DEF ReadUpTo
      <4>. QED  BY <4>2, <4>3
    <3>. QED  BY <1>1, <2>2, <3>4, <3>5, <3>6, NextRead
  <2>6. \A n \in {load.sidecar}, j \in {load.next + 1} : ReadUpTo(n, j)'
    BY <2>5
  <2>. HIDE DEF blobs
  <2>. QED  BY <1>1, <2>1, <2>6, PastBlob
<1>4. CASE ~good
  <2>1. load' = [Loading("failed", NoBlobs) EXCEPT !.loadable = Loadable] /\ request' = request
    BY <1>4 DEF LoadBlob, Fail, Ended
  <2>2. SUFFICES ASSUME Loadable PROVE FALSE
    BY <2>1, RefusedForAReason DEF SidecarInv
  <2>3. p \in finished
    <3>1. p \in Range(request.asked)
      BY <1>1, AtBlob DEF Range
    <3>. HIDE DEF p
    <3>. QED  BY <2>2, <3>1 DEF Loadable
  <2>4. request.expected = None \/ Given(here).snapshot \in {Unassigned, request.expected}
    BY <1>2, <2>2, <2>3 DEF Loadable
  <2>. QED  BY <1>2, <1>4, <2>3, <2>4
<1>. QED  BY <1>3, <1>4

\* In a load that has come to its end, what was given to finished sidecars has
\* been passed.
LEMMA AllPassed ==
  ASSUME SidecarInv, load.pc = "busy", load.next > Len(load.footer), load.sidecar = Len(request.asked),
         NEW at \in SupportedGiven, request.asked[at[1]] \in finished
  PROVE  Passed(at, load.sidecar, load.next)
<1>. DEFINE n == load.sidecar
            p == request.asked[at[1]]
<1>1. /\ SidecarTyped /\ (\A q \in Path : FileInv(q)) /\ LoadInv
      /\ request.asked \in Seq(Path) /\ Len(request.asked) \in Nat /\ DOMAIN request.asked = 1 .. Len(request.asked)
  BY LenProperties DEF SidecarInv, SidecarTyped
<1>2. at[1] \in DOMAIN request.asked /\ at[2] \in DOMAIN given[p]
  BY Supports
<1>3. p \in Path
  BY <1>1, <1>2, ElementOfSeq
<1>4. Len(given[p]) \in Nat /\ at[2] \in 1 .. Len(given[p])
  BY <1>1, <1>2, <1>3, Finished
<1>5. CASE at[1] < n
  BY <1>5 DEF Passed
<1>6. CASE at[1] = n
  <2>1. load.footer = file[p][Len(file[p]) - 3].blobs /\ load.next \in 1 .. Len(load.footer) + 1
    BY <1>1, <1>2, <1>6 DEF LoadInv
  <2>2. Len(load.footer) = Len(given[p])
    BY <1>1, <1>3, <2>1, Finished
  <2>. QED  BY <1>4, <1>6, <2>1, <2>2 DEF Passed
<1>. QED  BY <1>1, <1>2, <1>5, <1>6

LEMMA PublishStep ==
  ASSUME SidecarInv, Publish
  PROVE  LoadInv'
<1>. DEFINE blobs == load.blobs
<1>1. /\ load.pc = "busy" /\ load.next > Len(load.footer) /\ load.sidecar = Len(request.asked) /\ Static
      /\ SidecarTyped /\ LoadInv /\ (\A q \in Path : FileInv(q))
      /\ request.asked \in Seq(Path) /\ Len(request.asked) \in Nat /\ DOMAIN request.asked = 1 .. Len(request.asked)
  BY LenProperties DEF Publish, Static, SidecarInv, SidecarTyped
<1>2. \A k \in {load.sidecar}, i \in {load.next} : ReadUpTo(k, i)
  BY <1>1 DEF LoadInv
<1>3. CASE Validate(blobs)
  <2>1. Ended("ok", blobs)
    BY <1>3 DEF Publish
  <2>2. load'.pc = "ok" /\ load'.blobs = blobs
    BY <2>1, EndsAs
  <2>3. ASSUME NEW n, n = Len(request.asked) + 1 PROVE ReadUpTo(n, 1)'
    <3>1. \A k \in DOMAIN request.asked : k <= n => Sealed(request.asked[k])
      <4>1. \A k \in DOMAIN request.asked : k <= load.sidecar
        BY <1>1
      <4>. QED  BY <1>2, <4>1 DEF ReadUpTo
    <3>2. ASSUME NEW at \in DOMAIN blobs
          PROVE  /\ at[1] \in DOMAIN request.asked /\ at[1] <= n
                 /\ request.asked[at[1]] \in finished =>
                      /\ at \in SupportedGiven /\ Passed(at, n, 1)
                      /\ blobs[at] = Delivered(Given(at))
                      /\ request.expected = None \/ Given(at).snapshot \in {Unassigned, request.expected}
      <4>1. at[1] \in DOMAIN request.asked
        BY <1>2 DEF ReadUpTo
      <4>2. at[1] <= n /\ Passed(at, n, 1)
        BY <1>1, <2>3, <4>1 DEF Passed
      <4>. QED  BY <1>2, <4>1, <4>2 DEF ReadUpTo
    <3>3. \A at \in SupportedGiven : request.asked[at[1]] \in finished /\ Passed(at, n, 1) => at \in DOMAIN blobs
      BY <1>1, <1>2, AllPassed DEF ReadUpTo
    <3>. HIDE DEF blobs
    <3>. QED  BY <1>1, <2>2, <3>1, <3>2, <3>3, NextRead
  <2>4. request' = request
    BY <1>1 DEF Static
  <2>5. \A n \in {Len(request'.asked) + 1} : ReadUpTo(n, 1)'
    BY <2>3, <2>4
  <2>6. Validate(load'.blobs)
    BY <1>3, <2>2
  <2>7. (request.strict => request.sequence = request.expected)'
    BY <1>1, <2>4 DEF LoadInv
  <2>8. Validate(load.blobs)'
    BY <2>6 DEF Validate, ValidateEach
  <2>. QED  BY <2>2, <2>5, <2>7, <2>8 DEF LoadInv
<1>4. CASE ~Validate(blobs)
  <2>1. load' = [Loading("failed", NoBlobs) EXCEPT !.loadable = Loadable] /\ request' = request
    BY <1>4 DEF Publish, Fail, Ended
  <2>2. SUFFICES ASSUME Loadable PROVE FALSE
    BY <1>1, <2>1, RefusedForAReason
  <2>3. ASSUME NEW at \in DOMAIN blobs
        PROVE  at \in SupportedGiven /\ Given(at) \in Gave /\ blobs[at] = Delivered(Given(at))
    <3>1. at[1] \in DOMAIN request.asked /\ request.asked[at[1]] \in Range(request.asked)
      BY <1>2 DEF ReadUpTo, Range
    <3>2. request.asked[at[1]] \in finished
      BY <2>2, <3>1 DEF Loadable
    <3>3. at \in SupportedGiven /\ blobs[at] = Delivered(Given(at))
      BY <1>2, <3>2 DEF ReadUpTo
    <3>4. request.asked[at[1]] \in Path /\ at[2] \in DOMAIN given[request.asked[at[1]]]
      BY <1>1, <3>1, <3>3, Supports, ElementOfSeq
    <3>5. Given(at) \in Gave
      BY <1>1, <3>2, <3>4, Finished DEF Given
    <3>. QED  BY <3>3, <3>5
  <2>4. ASSUME NEW at \in DOMAIN blobs
        PROVE  /\ blobs[at].kind = Given(at).sketch.kind /\ blobs[at].fields = Given(at).sketch.fields
               /\ Len(blobs[at].fields) = 1 /\ blobs[at].fields[1] >= 0
               /\ DecodeKnown(blobs[at].kind, blobs[at].payload)
    <3>. DEFINE g == Given(at)
    <3>1. g \in Gave /\ blobs[at] = Delivered(g) /\ Len(g.sketch.fields) = 1 /\ g.sketch.fields[1] >= 0
      BY <2>2, <2>3 DEF Loadable
    <3>. HIDE DEF g
    <3>2. blobs[at].kind = g.sketch.kind /\ blobs[at].fields = g.sketch.fields /\ blobs[at].payload = Raw(g.sketch)
      BY <3>1 DEF Delivered
    <3>3. DecodeKnown(g.sketch.kind, Raw(g.sketch))
      BY <3>1, DecodesRaw DEF Gave
    <3>. QED  BY <3>1, <3>2, <3>3 DEF g
  <2>5. ValidateEach(blobs)
    BY <2>4 DEF ValidateEach
  <2>6. ASSUME NEW at \in DOMAIN blobs, NEW other \in DOMAIN blobs,
               blobs[at].kind = blobs[other].kind, blobs[at].fields = blobs[other].fields
        PROVE  at = other
    <3>1. Given(at).sketch.kind = Given(other).sketch.kind /\ Given(at).sketch.fields = Given(other).sketch.fields
      BY <2>4, <2>6
    <3>2. at \in SupportedGiven /\ other \in SupportedGiven
      BY <2>3
    <3>. QED  BY <2>2, <3>1, <3>2 DEF Loadable
  <2>7. Validate(blobs)
    BY <2>5, <2>6 DEF Validate
  <2>. QED  BY <1>4, <2>7
<1>. QED  BY <1>3, <1>4

LEMMA StartStep ==
  ASSUME SidecarTyped, NEW strict \in BOOLEAN, NEW id, NEW paths \in Seq(Path), Start(strict, id, paths)
  PROVE  LoadInv'
<1>1. /\ request' = [strict |-> strict, expected |-> id, sequence |-> IF strict THEN id ELSE None, asked |-> paths]
      /\ load' = Loading("busy", NoBlobs)
  BY DEF Start
<1>2. /\ request'.asked = paths /\ request'.expected = id /\ request'.strict = strict
      /\ (strict => request'.sequence = request'.expected)
  BY <1>1
<1>3. /\ load'.pc = "busy" /\ load'.sidecar = 0 /\ load'.footer = <<>> /\ load'.next = 1 /\ load'.blobs = NoBlobs
      /\ load'.loadable = FALSE
  BY <1>1 DEF Loading
<1>4. Len(paths) \in Nat /\ DOMAIN paths = 1 .. Len(paths)
  BY LenProperties
<1>5. ASSUME NEW n, n = 0 PROVE ReadUpTo(n, 1)'
  <2>1. \A k \in DOMAIN request'.asked : ~(k <= n)
    BY <1>2, <1>4, <1>5
  <2>2. DOMAIN load'.blobs = {}
    BY <1>3 DEF NoBlobs
  <2>3. \A at \in SupportedGiven' : ~Passed(at, n, 1)
    <3>1. \A at \in SupportedGiven' : at[1] \in 1 .. Len(paths)
      BY <1>2, <1>4, SupportsNext
    <3>. QED  BY <1>4, <1>5, <3>1 DEF Passed
  <2>4. \A at : Passed(at, n, 1)' <=> Passed(at, n, 1)
    BY DEF Passed
  <2>. QED  BY <2>1, <2>2, <2>3, <2>4 DEF ReadUpTo
<1>6. \A n \in {load'.sidecar}, i \in {load'.next} : ReadUpTo(n, i)'
  BY <1>3, <1>5
<1>7. /\ load'.sidecar \in 0 .. Len(request'.asked) /\ ~(load'.sidecar > 0)
      /\ load'.footer \in Seq(Meta) /\ load'.next \in 1 .. Len(load'.footer) + 1
  <2>1. <<>> \in Seq(Meta) /\ Len(<<>>) = 0
    OBVIOUS
  <2>. QED  BY <1>2, <1>3, <1>4, <2>1
<1>. QED  BY <1>2, <1>3, <1>6, <1>7 DEF LoadInv

THEOREM SidecarInvariant == SidecarSpec => []SidecarInv
<1>1. SidecarInit => SidecarInv
  <2>. SUFFICES ASSUME SidecarInit PROVE SidecarInv
    OBVIOUS
  <2>1. SidecarTyped
    <3>1. file \in [Path -> Seq(Cell)]
      BY InitialAssumption DEF SidecarInit
    <3>2. request.asked \in Seq(Path) /\ given \in [Path -> Seq(Gave)]
      BY DEF SidecarInit, NoRequest
    <3>. QED  BY <3>1, <3>2 DEF SidecarInit, SidecarTyped
  <2>2. \A p \in Path : FileInv(p)
    <3>1. NoWriter.pc = "none"
      BY DEF NoWriter
    <3>. QED  BY <3>1 DEF SidecarInit, FileInv
  <2>3. LoadInv
    <3>1. load.pc = "idle" /\ load.loadable = FALSE /\ request.strict = FALSE
      BY DEF SidecarInit, Loading, NoRequest
    <3>. QED  BY <3>1 DEF LoadInv
  <2>. QED  BY <2>1, <2>2, <2>3 DEF SidecarInv
<1>2. SidecarInv /\ [SidecarNext]_sidecarVars => SidecarInv'
  <2>. SUFFICES ASSUME SidecarInv, [SidecarNext]_sidecarVars PROVE SidecarInv'
    OBVIOUS
  <2>1. SidecarTyped /\ LoadInv /\ \A p \in Path : FileInv(p)
    BY DEF SidecarInv
  <2>2. SidecarTyped' /\ (\A p \in Path : FileInv(p)') /\ \A p \in Path : Sealed(p) => Kept(p)
    BY <2>1, FilesStep
  <2>3. LoadInv'
    <3>1. CASE request' = request /\ load' = load
      BY <2>1, <2>2, <3>1, LoadKept
    <3>2. ASSUME NEW p \in Path, Write(p) \/ AttachFile(p) PROVE LoadInv'
      BY <3>1, <3>2 DEF Write, Create, AddBlob, Finish, Killed, AttachFile
    <3>3. CASE Commit
      BY <3>1, <3>3 DEF Commit
    <3>4. CASE UNCHANGED sidecarVars
      BY <3>1, <3>4 DEF sidecarVars
    <3>5. ASSUME NEW paths \in PathLists, NEW expected \in Expected, LoadLocal(paths, expected) PROVE LoadInv'
      <4>1. paths \in Seq(Path)
        BY PathAssumption
      <4>. QED  BY <2>1, <3>5, <4>1, StartStep DEF LoadLocal
    <3>6. CASE LoadTable
      <4>1. PICK paths \in DiscoverPuffinSidecars : Start(TRUE, IF current = 0 THEN None ELSE current, paths)
        BY <3>6 DEF LoadTable
      <4>2. paths \in Seq(Path)
        BY <2>1, PathsFound
      <4>. QED  BY <2>1, <4>1, <4>2, StartStep
    <3>7. CASE OpenSidecar \/ SkipBlob \/ LoadBlob \/ Publish
      BY <3>7, OpenStep, SkipStep, LoadBlobStep, PublishStep
    <3>. QED  BY <3>2, <3>3, <3>4, <3>5, <3>6, <3>7 DEF SidecarNext, Load
  <2>. QED  BY <2>2, <2>3 DEF SidecarInv
<1>. QED  BY <1>1, <1>2, PTL DEF SidecarSpec

\* What a load that succeeded returned.
LEMMA Loaded ==
  ASSUME SidecarInv, load.pc = "ok"
  PROVE  /\ Validate(load.blobs)
         /\ \A n \in DOMAIN request.asked : request.asked[n] \in Path /\ Sealed(request.asked[n])
         /\ \A at \in DOMAIN load.blobs :
              /\ at[1] \in DOMAIN request.asked
              /\ request.asked[at[1]] \in finished =>
                   /\ at \in SupportedGiven /\ load.blobs[at] = Delivered(Given(at)) /\ Given(at) \in Gave
                   /\ Given(at).snapshot \in {Unassigned, Given(at).sketch.about}
                   /\ request.expected = None \/ Given(at).snapshot \in {Unassigned, request.expected}
         /\ \A at \in SupportedGiven : at[1] \in DOMAIN request.asked /\ (request.asked[at[1]] \in finished => at \in DOMAIN load.blobs)
<1>1. /\ SidecarTyped /\ (\A p \in Path : FileInv(p)) /\ LoadInv
      /\ request.asked \in Seq(Path) /\ Len(request.asked) \in Nat /\ DOMAIN request.asked = 1 .. Len(request.asked)
  BY LenProperties DEF SidecarInv, SidecarTyped
<1>2. \A n \in {Len(request.asked) + 1} : ReadUpTo(n, 1)
  BY <1>1 DEF LoadInv
<1>3. \A n \in DOMAIN request.asked : request.asked[n] \in Path /\ Sealed(request.asked[n])
  <2>1. \A n \in DOMAIN request.asked : n <= Len(request.asked) + 1
    BY <1>1
  <2>. QED  BY <1>1, <1>2, <2>1, ElementOfSeq DEF ReadUpTo
<1>4. ASSUME NEW at \in DOMAIN load.blobs
      PROVE  /\ at[1] \in DOMAIN request.asked
             /\ request.asked[at[1]] \in finished =>
                  /\ at \in SupportedGiven /\ load.blobs[at] = Delivered(Given(at)) /\ Given(at) \in Gave
                  /\ Given(at).snapshot \in {Unassigned, Given(at).sketch.about}
                  /\ request.expected = None \/ Given(at).snapshot \in {Unassigned, request.expected}
  <2>1. at[1] \in DOMAIN request.asked
    BY <1>2 DEF ReadUpTo
  <2>2. ASSUME request.asked[at[1]] \in finished
        PROVE  /\ at \in SupportedGiven /\ load.blobs[at] = Delivered(Given(at))
               /\ request.expected = None \/ Given(at).snapshot \in {Unassigned, request.expected}
    BY <1>2, <2>2 DEF ReadUpTo
  <2>3. ASSUME request.asked[at[1]] \in finished
        PROVE  Given(at) \in Gave /\ Given(at).snapshot \in {Unassigned, Given(at).sketch.about}
    <3>. DEFINE p == request.asked[at[1]]
    <3>1. at[2] \in DOMAIN given[p] /\ p \in Path
      BY <1>3, <2>1, <2>2, <2>3, Supports
    <3>2. PICK f, end, m : Given(at) \in Gave /\ Accounts(f, end, m, Given(at))
      BY <1>1, <2>3, <3>1, Finished DEF Given
    <3>. QED  BY <3>2 DEF Accounts
  <2>. QED  BY <2>1, <2>2, <2>3
<1>5. \A at \in SupportedGiven : at[1] \in DOMAIN request.asked /\ (request.asked[at[1]] \in finished => at \in DOMAIN load.blobs)
  <2>1. \A at \in SupportedGiven : at[1] \in DOMAIN request.asked
    BY Supports
  <2>2. \A at \in SupportedGiven, n \in {Len(request.asked) + 1} : Passed(at, n, 1)
    BY <1>1, <2>1 DEF Passed
  <2>. QED  BY <1>2, <2>1, <2>2 DEF ReadUpTo
<1>6. Validate(load.blobs)
  BY <1>1 DEF LoadInv
<1>. QED  BY <1>3, <1>4, <1>5, <1>6

\* A load that succeeds has read whole files only, and of each that one of our
\* writers finished exactly the supported blobs it was given; one that fails
\* hands out nothing: for every history of writes, kills and commits.
THEOREM LoadsWhatWasWritten == SidecarSpec => []LoadsExactlyWhatWasWritten
<1>1. SidecarInv => LoadsExactlyWhatWasWritten
  <2>. SUFFICES ASSUME SidecarInv PROVE LoadsExactlyWhatWasWritten
    OBVIOUS
  <2>1. load.pc = "failed" => load.blobs = NoBlobs
    BY DEF SidecarInv, LoadInv
  <2>2. ASSUME load.pc = "ok", NEW n \in DOMAIN request.asked
        PROVE  /\ writer[request.asked[n]].pc = "none"
               /\ request.asked[n] \in finished =>
                    /\ OfSidecar(n, DOMAIN load.blobs) = OfSidecar(n, SupportedGiven)
                    /\ \A at \in OfSidecar(n, SupportedGiven) : load.blobs[at] = Delivered(Given(at))
    <3>1. writer[request.asked[n]].pc = "none"
      BY <2>2, Loaded DEF Sealed
    <3>. SUFFICES ASSUME request.asked[n] \in finished
                  PROVE  /\ OfSidecar(n, DOMAIN load.blobs) = OfSidecar(n, SupportedGiven)
                         /\ \A at \in OfSidecar(n, SupportedGiven) : load.blobs[at] = Delivered(Given(at))
      BY <3>1
    <3>2. \A at \in DOMAIN load.blobs : at[1] = n => at \in SupportedGiven /\ load.blobs[at] = Delivered(Given(at))
      BY <2>2, Loaded
    <3>3. \A at \in SupportedGiven : at[1] = n => at \in DOMAIN load.blobs
      BY <2>2, Loaded
    <3>. QED  BY <3>2, <3>3 DEF OfSidecar
  <2>. QED  BY <2>1, <2>2 DEF LoadsExactlyWhatWasWritten
<1>. QED  BY <1>1, SidecarInvariant, PTL

\* Statistics loaded for a snapshot are of that snapshot, unless their writer
\* did not say of which they are, whatever was committed in the meantime.
THEOREM LoadsOneSnapshot == SidecarSpec => []SnapshotConsistent
<1>1. SidecarInv => SnapshotConsistent
  <2>. SUFFICES ASSUME SidecarInv, load.pc = "ok", request.expected # None, NEW at \in DOMAIN load.blobs,
                       request.asked[at[1]] \in finished, load.blobs[at].snapshot # Unassigned
                PROVE  load.blobs[at].payload[1].sketch.about = request.expected
    BY DEF SnapshotConsistent
  <2>. DEFINE g == Given(at)
  <2>1. /\ load.blobs[at] = Delivered(g) /\ g \in Gave /\ g.snapshot \in {Unassigned, g.sketch.about}
        /\ g.snapshot \in {Unassigned, request.expected}
    BY Loaded
  <2>. HIDE DEF g
  <2>2. load.blobs[at].snapshot = g.snapshot /\ load.blobs[at].payload = Raw(g.sketch)
    BY <2>1 DEF Delivered
  <2>3. Raw(g.sketch)[1].sketch = g.sketch
    BY <2>1, DecodesRaw DEF Gave
  <2>. QED  BY <2>1, <2>2, <2>3
<1>. QED  BY <1>1, SidecarInvariant, PTL

\* The distinct count of a column comes from the only distinct-count sketch of
\* that column there is in the sidecars that were asked for.
THEOREM CountsItsOwnColumn == SidecarSpec => []DistinctCountIsOfItsColumn
<1>1. SidecarInv => DistinctCountIsOfItsColumn
  <2>. SUFFICES ASSUME SidecarInv, Range(request.asked) \subseteq finished, NEW schema \in Schemas,
                       NEW f \in {f \in Range(schema) : f > 0}, ColumnStatsFromPaths(schema)[f] # NoStats
                PROVE  \E at \in SupportedGiven :
                         /\ ColumnStatsFromPaths(schema)[f] = Raw(Given(at).sketch)
                         /\ \A o \in SupportedGiven : Given(o).sketch.fields = <<f>> /\ Given(o).sketch.kind = Hll <=> o = at
    BY DEF DistinctCountIsOfItsColumn, ColumnStatsFromPaths
  <2>. DEFINE blobs == load.blobs
              hlls == {at \in DOMAIN blobs : blobs[at].fields = <<f>> /\ blobs[at].kind = Hll}
              Latest(at) == \A o \in hlls : o[1] < at[1] \/ (o[1] = at[1] /\ o[2] <= at[2])
  <2>1. load.pc = "ok" /\ ColumnStatsFromPaths(schema)[f] = DecodeColumn(f)
    BY DEF ColumnStatsFromPaths, Fits
  <2>2. hlls # {} /\ DecodeColumn(f) = blobs[CHOOSE at \in hlls : Latest(at)].payload
    BY <2>1 DEF DecodeColumn
  <2>3. Validate(blobs)
    BY <2>1, Loaded
  <2>4. \A at \in DOMAIN blobs : at \in SupportedGiven /\ blobs[at] = Delivered(Given(at))
    <3>1. \A n \in DOMAIN request.asked : request.asked[n] \in finished
      BY DEF Range
    <3>. QED  BY <2>1, <3>1, Loaded
  <2>5. \A at \in SupportedGiven : at \in DOMAIN blobs
    <3>1. \A n \in DOMAIN request.asked : request.asked[n] \in finished
      BY DEF Range
    <3>. QED  BY <2>1, <3>1, Loaded
  <2>6. PICK only \in hlls : TRUE
    BY <2>2
  <2>7. \A o \in hlls : o = only
    BY <2>3 DEF Validate
  <2>8. only[2] \in Int
    <3>1. only \in DOMAIN blobs
      OBVIOUS
    <3>2. only \in SupportedGiven
      BY <2>4, <3>1
    <3>3. only[1] \in DOMAIN request.asked /\ only[2] \in DOMAIN given[request.asked[only[1]]]
      BY <3>2, Supports
    <3>4. request.asked[only[1]] \in Path /\ request.asked[only[1]] \in finished
      BY <2>1, <3>3, Loaded DEF Range
    <3>5. only[2] \in 1 .. Len(given[request.asked[only[1]]])
      BY <3>3, <3>4, Finished DEF SidecarInv
    <3>. QED  BY <3>5
  <2>9. Latest(only)
    BY <2>7, <2>8
  <2>10. (CHOOSE at \in hlls : Latest(at)) = only
    <3>1. (CHOOSE at \in hlls : Latest(at)) \in hlls
      BY <2>9
    <3>. HIDE DEF hlls, Latest
    <3>. QED  BY <2>7, <3>1
  <2>11. only \in DOMAIN blobs /\ blobs[only].fields = <<f>> /\ blobs[only].kind = Hll
    OBVIOUS
  <2>12. \A at \in DOMAIN blobs : blobs[at].fields = Given(at).sketch.fields /\ blobs[at].kind = Given(at).sketch.kind
                                  /\ blobs[at].payload = Raw(Given(at).sketch)
    <3>1. \A g : /\ Delivered(g).kind = g.sketch.kind /\ Delivered(g).fields = g.sketch.fields
                 /\ Delivered(g).payload = Raw(g.sketch)
      BY DEF Delivered
    <3>. HIDE DEF blobs
    <3>. QED  BY <2>4, <3>1
  <2>13. only \in SupportedGiven /\ ColumnStatsFromPaths(schema)[f] = Raw(Given(only).sketch)
    BY <2>1, <2>2, <2>4, <2>10, <2>11, <2>12
  <2>14. \A o \in SupportedGiven : Given(o).sketch.fields = <<f>> /\ Given(o).sketch.kind = Hll => o \in hlls
    BY <2>5, <2>12
  <2>15. Given(only).sketch.fields = <<f>> /\ Given(only).sketch.kind = Hll
    BY <2>11, <2>12
  <2>. HIDE DEF hlls
  <2>. QED  BY <2>7, <2>13, <2>14, <2>15
<1>. QED  BY <1>1, SidecarInvariant, PTL

\* A load whose sidecars are all right does not fail.
THEOREM LoadsWhatIsLoadable == SidecarSpec => []FailsForAReason
<1>1. SidecarInv => FailsForAReason
  BY DEF SidecarInv, LoadInv, FailsForAReason
<1>. QED  BY <1>1, SidecarInvariant, PTL

============================================================================
