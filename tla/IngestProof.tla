---------------------------- MODULE IngestProof -----------------------------
(***************************************************************************)
(* Proofs about cmd/ingest, for any number of ingests, readers and         *)
(* downloads.                                                              *)
(***************************************************************************)
EXTENDS IngestInvariant, TLAPS

LEMMA PathsDiffer == "gtfs" \in Paths /\ "timetable" \in Paths /\ "gtfs" # "timetable"
BY DEF Paths

-----------------------------------------------------------------------------
(***************************************************************************)
(* Types.                                                                  *)
(***************************************************************************)
LEMMA TypesInitially == Init => TypeOK
BY IngestAssumption DEF Init, TypeOK, Content, NoFile, Paths, IngestPc, Locals

(* What an ingest's locals and temporary files become. *)
LEMMA GotoType ==
  ASSUME TypeOK, NEW i \in Ingests, NEW pc \in IngestPc, Goto(i, pc)
  PROVE  /\ ingest' \in [Ingests -> Locals]
         /\ ingest' = [ingest EXCEPT ![i] = [ingest[i] EXCEPT !.pc = pc]]
BY DEF TypeOK, Goto, Locals

LEMMA TempType ==
  ASSUME TypeOK, NEW i \in Ingests, NEW p \in Paths, NEW c \in Content,
         temp' = [temp EXCEPT ![i][p] = c]
  PROVE  temp' \in [Ingests -> [Paths -> Content]]
BY DEF TypeOK

LEMMA PcType ==
  {"parse", "create", "encode", "rename", "remove", "stat", "done", "failed", "killed"}
    \subseteq IngestPc
BY DEF IngestPc, Ended

LEMMA NoFileType == NoFile \in Content
BY IngestAssumption DEF NoFile, Content

LEMMA OpenZipType ==
  ASSUME TypeOK, NEW i \in Ingests, OpenZip(i) PROVE TypeOK'
<1>1. zip.version \in 0..MaxVersion
  BY DEF TypeOK, Content
<1>2. ingest' \in [Ingests -> Locals]
  <2>1. ingest[i] \in Locals
    BY DEF TypeOK
  <2>2. [ingest[i] EXCEPT !.pc = IF zip.whole THEN "parse" ELSE "failed",
                          !.feed = zip.version] \in Locals
    BY <1>1, <2>1, PcType DEF Locals
  <2> QED
    BY <2>2 DEF OpenZip, TypeOK
<1>3. alone' \in [Ingests -> BOOLEAN]
  BY DEF OpenZip, TypeOK
<1> QED
  BY <1>2, <1>3 DEF OpenZip, TypeOK

LEMMA ParseZipType ==
  ASSUME TypeOK, NEW i \in Ingests, ParseZip(i) PROVE TypeOK'
<1>1. ingest' \in [Ingests -> Locals]
  BY GotoType, PcType DEF ParseZip
<1> QED
  BY <1>1 DEF ParseZip, TypeOK

LEMMA LocalPath ==
  ASSUME TypeOK, NEW i \in Ingests
  PROVE  /\ ingest[i] \in Locals
         /\ ingest[i].path \in Paths
         /\ ingest[i].feed \in 0..MaxVersion
         /\ ingest[i].pc \in IngestPc
BY DEF TypeOK, Locals

LEMMA CreateTempType ==
  ASSUME TypeOK, NEW i \in Ingests, CreateTemp(i) PROVE TypeOK'
<1>1. ingest' \in [Ingests -> Locals]
  BY GotoType, PcType DEF CreateTemp
<1>2. temp' \in [Ingests -> [Paths -> Content]]
  <2>1. [version |-> ingest[i].feed, whole |-> FALSE] \in Content
    BY LocalPath DEF Content
  <2> QED
    BY <2>1, TempType, LocalPath DEF CreateTemp, TypeOK
<1> QED
  BY <1>1, <1>2 DEF CreateTemp, TypeOK

(* The save has failed; the temporary file is to be removed. *)
LEMMA GiveUpType ==
  ASSUME TypeOK, NEW i \in Ingests,
         ingest' = [ingest EXCEPT ![i].pc = "remove", ![i].ok = FALSE]
  PROVE  /\ ingest' \in [Ingests -> Locals]
         /\ ingest' = [ingest EXCEPT ![i] = [ingest[i] EXCEPT !.pc = "remove", !.ok = FALSE]]
<1>1. [ingest[i] EXCEPT !.pc = "remove", !.ok = FALSE] \in Locals
  BY LocalPath, PcType DEF Locals
<1> QED
  BY <1>1 DEF TypeOK

LEMMA EncodeType ==
  ASSUME TypeOK, NEW i \in Ingests, Encode(i) PROVE TypeOK'
<1>1. ingest' \in [Ingests -> Locals]
  BY GotoType, GiveUpType, PcType DEF Encode
<1>2. temp' \in [Ingests -> [Paths -> Content]]
  <2>1. [version |-> ingest[i].feed, whole |-> TRUE] \in Content
    BY LocalPath DEF Content
  <2> QED
    BY <2>1, TempType, LocalPath DEF Encode, TypeOK
<1> QED
  BY <1>1, <1>2 DEF Encode, TypeOK

LEMMA RenameType ==
  ASSUME TypeOK, NEW i \in Ingests, Rename(i) PROVE TypeOK'
<1>1. ingest' \in [Ingests -> Locals]
  BY GotoType, GiveUpType, PcType DEF Rename
<1>2. temp' \in [Ingests -> [Paths -> Content]]
  BY NoFileType, TempType, LocalPath DEF Rename, TypeOK
<1>3. file' \in [Paths -> Content]
  BY LocalPath DEF Rename, TypeOK
<1> QED
  BY <1>1, <1>2, <1>3 DEF Rename, TypeOK

LEMMA RemoveTempType ==
  ASSUME TypeOK, NEW i \in Ingests, RemoveTemp(i) PROVE TypeOK'
<1>1. ingest' \in [Ingests -> Locals]
  BY GotoType, PcType DEF RemoveTemp
<1>2. temp' \in [Ingests -> [Paths -> Content]]
  BY NoFileType, TempType, LocalPath DEF RemoveTemp, TypeOK
<1> QED
  BY <1>1, <1>2 DEF RemoveTemp, TypeOK

LEMMA StatType ==
  ASSUME TypeOK, NEW i \in Ingests, Stat(i) PROVE TypeOK'
<1>1. [ingest[i] EXCEPT !.pc = "create", !.path = "timetable"] \in Locals
  BY LocalPath, PcType, PathsDiffer DEF Locals
<1>2. ingest' \in [Ingests -> Locals]
  BY <1>1, GotoType, PcType DEF Stat, TypeOK
<1> QED
  BY <1>2 DEF Stat, TypeOK

LEMMA LoadType ==
  ASSUME TypeOK, NEW r \in Readers, Load(r) PROVE TypeOK'
<1>1. file["timetable"].version \in 0..MaxVersion
  BY PathsDiffer DEF TypeOK, Content
<1>2. 0 \in 0..MaxVersion
  BY IngestAssumption
<1> QED
  BY <1>1, <1>2 DEF Load, TypeOK

LEMMA TypesStep == ASSUME TypeOK, [Next]_vars PROVE TypeOK'
<1>1. CASE StartFetch
  BY <1>1, IngestAssumption DEF StartFetch, Content, TypeOK
<1>2. CASE EndFetch
  BY <1>2 DEF EndFetch, Content, TypeOK
<1>3. ASSUME NEW i \in Ingests, Kill(i) PROVE TypeOK'
  BY <1>3, GotoType, PcType DEF Kill, TypeOK
<1>4. CASE UNCHANGED vars
  BY <1>4 DEF vars, TypeOK
<1> QED
  BY <1>1, <1>2, <1>3, <1>4, OpenZipType, ParseZipType, CreateTempType, EncodeType,
     RenameType, RemoveTempType, StatType, LoadType DEF Next, Step

-----------------------------------------------------------------------------
(***************************************************************************)
(* What a step changes.                                                    *)
(***************************************************************************)
(* A step of ingest i leaves the others where they are. *)
LEMMA OthersStay ==
  ASSUME TypeOK, NEW i \in Ingests, OpenZip(i) \/ Step(i) \/ Kill(i),
         NEW j \in Ingests, j # i
  PROVE  ingest'[j] = ingest[j] /\ temp'[j] = temp[j]
BY DEF OpenZip, Step, Kill, ParseZip, CreateTemp, Encode, Rename, RemoveTemp, Stat, Goto, TypeOK

(* It goes on with the feed it parsed, and only a step of an ingest that   *)
(* runs is a step at all.                                                  *)
LEMMA StaysRunning ==
  ASSUME TypeOK, NEW i \in Ingests, Step(i) \/ Kill(i)
  PROVE  /\ i \in Running /\ Running' \subseteq Running
         /\ ingest'[i].feed = ingest[i].feed
         /\ zip' = zip /\ reader' = reader /\ alone' = alone
<1>1. i \in Running
  BY DEF Step, Kill, ParseZip, CreateTemp, Encode, Rename, RemoveTemp, Stat, Running, Ended
<1>2. ingest'[i].feed = ingest[i].feed
  BY LocalPath DEF Step, Kill, ParseZip, CreateTemp, Encode, Rename, RemoveTemp, Stat, Goto,
     TypeOK, Locals
<1> QED
  BY <1>1, <1>2, OthersStay
     DEF Running, Step, Kill, ParseZip, CreateTemp, Encode, Rename, RemoveTemp, Stat

(* An ingest that starts overlaps with those that run. *)
LEMMA Opens ==
  ASSUME TypeOK, NEW i \in Ingests, OpenZip(i)
  PROVE  /\ Running' \subseteq Running \cup {i}
         /\ i \notin Running /\ ingest[i].pc = "ready"
         /\ ingest'[i].pc \in {"parse", "failed"}
         /\ ingest'[i].feed = zip.version /\ ingest'[i].path = ingest[i].path
         /\ \A j \in Ingests : alone'[j] => alone[j]
         /\ \A j \in Ingests : alone'[j] /\ j \in Running' => Running' = {j}
<1>1. i \notin Running /\ ingest[i].pc = "ready"
  BY DEF OpenZip, Running
<1>2. Running' \subseteq Running \cup {i}
  BY OthersStay DEF Running
<1>3. ASSUME NEW j \in Ingests, alone'[j], j \in Running' PROVE Running' = {j}
  <2>1. Running = {}
    BY <1>2, <1>3 DEF OpenZip
  <2> QED
    BY <1>2, <1>3, <2>1
<1>4. \A j \in Ingests : alone'[j] => alone[j]
  BY DEF OpenZip
<1>5. /\ ingest'[i].pc \in {"parse", "failed"}
      /\ ingest'[i].feed = zip.version /\ ingest'[i].path = ingest[i].path
  BY LocalPath DEF OpenZip, TypeOK, Locals
<1> QED
  BY <1>1, <1>2, <1>3, <1>4, <1>5

-----------------------------------------------------------------------------
(***************************************************************************)
(* Temporary files and the files they become.                              *)
(***************************************************************************)
LEMMA SaveInitially == Init => SaveInv
BY DEF Init, SaveInv, SaveOK, NeverTruncated, NoFile, Paths, Running, Ended

(* What a rename puts under the name is the feed its ingest parsed. *)
LEMMA Renamed ==
  ASSUME TypeOK, SaveInv, NEW i \in Ingests, Rename(i)
  PROVE  /\ ingest'[i].path = ingest[i].path /\ ingest'[i].pc = "remove"
         /\ \/ file' = [file EXCEPT ![ingest[i].path] = Saved(ingest[i].feed)]
            \/ file' = file /\ ~ingest'[i].ok
<1>1. temp[i][ingest[i].path] \in Content
  BY LocalPath DEF TypeOK
<1>2. temp[i][ingest[i].path] = Saved(ingest[i].feed)
  BY <1>1 DEF Rename, SaveInv, SaveOK, Content, Saved
<1> QED
  BY <1>2, LocalPath DEF Rename, Goto, TypeOK, Locals

LEMMA SaveStep == ASSUME TypeOK, zip.version > 0, SaveInv, [Next]_vars PROVE SaveInv'
<1>1. ASSUME NEW i \in Ingests, Step(i) \/ Kill(i), NeverTruncated',
             /\ ingest'[i].pc # "ready"
             /\ ingest'[i].pc = "rename" => temp'[i][ingest'[i].path].whole
             /\ ingest'[i].pc \in {"encode", "rename"}
                  => temp'[i][ingest'[i].path].version = ingest[i].feed
      PROVE  SaveInv'
  <2>1. ASSUME NEW j \in Ingests, j # i PROVE SaveOK(j)'
    BY <1>1, <2>1, OthersStay, StaysRunning DEF SaveOK, SaveInv, Running
  <2>2. SaveOK(i)'
    BY <1>1, StaysRunning DEF SaveOK, SaveInv
  <2> QED
    BY <1>1, <2>1, <2>2 DEF SaveInv
<1>2. CASE StartFetch \/ EndFetch
  <2>1. zip.version \in Nat /\ zip'.version \in Nat /\ zip'.version >= zip.version
    BY <1>2 DEF StartFetch, EndFetch, TypeOK, Content
  <2>2. 1..zip.version \subseteq 1..zip'.version
    BY <2>1
  <2> QED
    BY <1>2, <2>2 DEF StartFetch, EndFetch, SaveInv, SaveOK, NeverTruncated, Running
<1>3. ASSUME NEW r \in Readers, Load(r) PROVE SaveInv'
  BY <1>3 DEF Load, SaveInv, SaveOK, NeverTruncated, Running
<1>4. CASE UNCHANGED vars
  BY <1>4 DEF vars, SaveInv, SaveOK, NeverTruncated, Running
<1>5. ASSUME NEW i \in Ingests, OpenZip(i) PROVE SaveInv'
  <2>1. NeverTruncated' /\ zip' = zip
    BY <1>5 DEF OpenZip, SaveInv, NeverTruncated
  <2>2. zip.version \in 1..zip.version
    BY DEF TypeOK, Content
  <2>3. SaveOK(i)'
    BY <1>5, <2>1, <2>2, Opens DEF SaveOK, SaveInv
  <2>4. ASSUME NEW j \in Ingests, j # i PROVE SaveOK(j)'
    BY <1>5, <2>1, <2>4, OthersStay DEF SaveOK, SaveInv, Running
  <2> QED
    BY <2>1, <2>3, <2>4 DEF SaveInv
<1>6. ASSUME NEW i \in Ingests, ParseZip(i) PROVE SaveInv'
  BY <1>1, <1>6, LocalPath DEF Step, ParseZip, Goto, TypeOK, SaveInv, NeverTruncated, Locals
<1>7. ASSUME NEW i \in Ingests, CreateTemp(i) PROVE SaveInv'
  <2>1. NeverTruncated' /\ ingest'[i].path = ingest[i].path /\ ingest'[i].pc \in {"encode", "failed"}
    BY <1>7, LocalPath DEF CreateTemp, Goto, TypeOK, SaveInv, NeverTruncated, Locals
  <2>2. ingest'[i].pc = "encode" => temp'[i][ingest[i].path].version = ingest[i].feed
    <3>1. CASE temp' = [temp EXCEPT ![i][ingest[i].path] =
                          [version |-> ingest[i].feed, whole |-> FALSE]]
      BY <3>1, LocalPath DEF TypeOK
    <3>2. CASE Goto(i, "failed")
      BY <2>1, <3>2, LocalPath DEF Goto, TypeOK
    <3> QED
      BY <1>7, <3>1, <3>2 DEF CreateTemp
  <2> QED
    BY <1>1, <1>7, <2>1, <2>2 DEF Step
<1>8. ASSUME NEW i \in Ingests, Encode(i) PROVE SaveInv'
  <2>1. NeverTruncated' /\ ingest'[i].path = ingest[i].path /\ ingest'[i].pc \in {"rename", "remove"}
    BY <1>8, LocalPath DEF Encode, Goto, TypeOK, SaveInv, NeverTruncated, Locals
  <2>2. ingest'[i].pc = "rename" => temp'[i][ingest[i].path] = Saved(ingest[i].feed)
    BY <1>8, LocalPath DEF Encode, Goto, TypeOK, Saved, Locals
  <2> QED
    BY <1>1, <1>8, <2>1, <2>2 DEF Step, Saved
<1>9. ASSUME NEW i \in Ingests, Rename(i) PROVE SaveInv'
  <2>1. NeverTruncated'
    BY <1>9, LocalPath DEF Rename, TypeOK, SaveInv, SaveOK, NeverTruncated
  <2> QED
    BY <1>1, <1>9, <2>1, Renamed DEF Step
<1>10. ASSUME NEW i \in Ingests, RemoveTemp(i) PROVE SaveInv'
  BY <1>1, <1>10, LocalPath DEF Step, RemoveTemp, Goto, TypeOK, SaveInv, NeverTruncated, Locals
<1>11. ASSUME NEW i \in Ingests, Stat(i) PROVE SaveInv'
  <2>1. NeverTruncated' /\ ingest'[i].pc \in {"create", "done", "failed"}
    BY <1>11, LocalPath DEF Stat, Goto, TypeOK, SaveInv, NeverTruncated, Locals
  <2> QED
    BY <1>1, <1>11, <2>1 DEF Step
<1>12. ASSUME NEW i \in Ingests, Kill(i) PROVE SaveInv'
  BY <1>1, <1>12, LocalPath DEF Kill, Goto, TypeOK, SaveInv, NeverTruncated, Locals
<1> QED
  BY <1>2, <1>3, <1>4, <1>5, <1>6, <1>7, <1>8, <1>9, <1>10, <1>11, <1>12 DEF Next, Step

-----------------------------------------------------------------------------
(***************************************************************************)
(* Ingests that nobody overlaps.                                           *)
(***************************************************************************)
LEMMA AloneInitially == Init => AloneInv
BY DEF Init, AloneInv, Running, Ended

LEMMA AloneStep ==
  ASSUME TypeOK, SaveInv, AloneInv, [Next]_vars PROVE AloneInv'
<1>1. ASSUME NEW i \in Ingests, Step(i) \/ Kill(i),
             \/ i \notin Running'
             \/ /\ ingest'[i].path = "timetable" => file'["gtfs"] = Saved(ingest[i].feed)
                /\ ingest'[i].pc = "stat" \/ (ingest'[i].pc = "remove" /\ ingest'[i].ok)
                     => file'[ingest'[i].path] = Saved(ingest[i].feed)
             \/ ~AloneOK(i)
      PROVE  AloneInv'
  <2> SUFFICES ASSUME NEW j \in Running', alone[j] PROVE AloneOK(j)'
    BY <1>1, StaysRunning DEF AloneInv
  <2>1. j \in Running /\ AloneOK(j) /\ j \in Ingests
    BY <1>1, StaysRunning DEF AloneInv, Running
  <2>2. j = i
    BY <1>1, <2>1, StaysRunning DEF AloneOK
  <2>3. Running' = {i}
    BY <1>1, <2>1, <2>2, StaysRunning DEF AloneOK
  <2> QED
    BY <1>1, <2>1, <2>2, <2>3, StaysRunning DEF AloneOK
<1>2. ASSUME NEW i \in Ingests, ParseZip(i) PROVE AloneInv'
  <2>1. ingest'[i].path = ingest[i].path /\ ingest'[i].pc \in {"create", "failed"} /\ file' = file
    BY <1>2, LocalPath DEF ParseZip, Goto, TypeOK, Locals
  <2> QED
    BY <1>1, <1>2, <2>1 DEF Step, AloneOK
<1>3. ASSUME NEW i \in Ingests, CreateTemp(i) PROVE AloneInv'
  <2>1. ingest'[i].path = ingest[i].path /\ ingest'[i].pc \in {"encode", "failed"} /\ file' = file
    BY <1>3, LocalPath DEF CreateTemp, Goto, TypeOK, Locals
  <2> QED
    BY <1>1, <1>3, <2>1 DEF Step, AloneOK
<1>4. ASSUME NEW i \in Ingests, Encode(i) PROVE AloneInv'
  <2>1. /\ ingest'[i].path = ingest[i].path /\ file' = file
        /\ ingest'[i].pc = "rename" \/ (ingest'[i].pc = "remove" /\ ~ingest'[i].ok)
    BY <1>4, LocalPath DEF Encode, Goto, TypeOK, Locals
  <2> QED
    BY <1>1, <1>4, <2>1 DEF Step, AloneOK
<1>5. ASSUME NEW i \in Ingests, Rename(i) PROVE AloneInv'
  <2>1. ingest'[i].ok => file'[ingest'[i].path] = Saved(ingest[i].feed)
    BY <1>5, Renamed, LocalPath DEF TypeOK
  <2>2. AloneOK(i) /\ ingest'[i].path = "timetable" => file'["gtfs"] = Saved(ingest[i].feed)
    BY <1>5, Renamed, PathsDiffer DEF AloneOK, TypeOK
  <2> QED
    BY <1>1, <1>5, <2>1, <2>2, Renamed DEF Step
<1>6. ASSUME NEW i \in Ingests, RemoveTemp(i) PROVE AloneInv'
  <2>1. /\ ingest'[i].path = ingest[i].path /\ file' = file
        /\ ingest'[i].pc \in {"stat", "failed"} /\ (ingest'[i].pc = "stat" => ingest[i].ok)
        /\ ingest[i].pc = "remove"
    BY <1>6, LocalPath DEF RemoveTemp, Goto, TypeOK, Locals
  <2> QED
    BY <1>1, <1>6, <2>1 DEF Step, AloneOK
<1>7. ASSUME NEW i \in Ingests, Stat(i) PROVE AloneInv'
  <2>1. /\ file' = file /\ ingest[i].pc = "stat"
        /\ \/ /\ ingest[i].path = "gtfs"
              /\ ingest'[i].pc = "create" /\ ingest'[i].path = "timetable"
           \/ ingest'[i].pc \in Ended
    BY <1>7, LocalPath DEF Stat, Goto, TypeOK, Locals, Ended
  <2>2. CASE ingest'[i].pc \in Ended
    BY <1>1, <1>7, <2>2 DEF Step, Running
  <2>3. CASE ingest[i].path = "gtfs" /\ ingest'[i].pc = "create"
    BY <1>1, <1>7, <2>1, <2>3 DEF Step, AloneOK
  <2> QED
    BY <2>1, <2>2, <2>3
<1>8. ASSUME NEW i \in Ingests, Kill(i) PROVE AloneInv'
  <2>1. i \notin Running'
    BY <1>8, LocalPath DEF Kill, Goto, Running, Ended, TypeOK
  <2> QED
    BY <1>1, <1>8, <2>1
<1>9. ASSUME NEW i \in Ingests, OpenZip(i) PROVE AloneInv'
  <2> SUFFICES ASSUME NEW j \in Running', alone'[j] PROVE AloneOK(j)'
    BY DEF AloneInv
  <2>1. Running' = {j} /\ alone[j] /\ j \in Ingests
    BY <1>9, Opens DEF Running
  <2>2. CASE j = i
    BY <1>9, <2>1, <2>2, Opens, PathsDiffer DEF AloneOK, SaveInv, SaveOK
  <2>3. CASE j # i
    BY <1>9, <2>1, <2>3, Opens, OthersStay DEF AloneOK, AloneInv, OpenZip
  <2> QED
    BY <2>2, <2>3
<1>10. ASSUME UNCHANGED <<file, ingest, alone>> PROVE AloneInv'
  BY <1>10 DEF AloneInv, AloneOK, Running
<1> QED
  BY <1>2, <1>3, <1>4, <1>5, <1>6, <1>7, <1>8, <1>9, <1>10
     DEF Next, Step, StartFetch, EndFetch, Load, vars

-----------------------------------------------------------------------------
(***************************************************************************)
(* The versions of the files.                                              *)
(***************************************************************************)
LEMMA VersionTypes ==
  ASSUME TypeOK
  PROVE  /\ zip.version \in Nat
         /\ \A p \in Paths : file[p].version \in Nat
         /\ \A i \in Ingests : ingest[i].feed \in Nat
         /\ \A r \in Readers : reader[r].version \in Nat
BY DEF TypeOK, Content, Locals

LEMMA OrderInitially == Init => OrderInv /\ ReadInv /\ zip.version > 0
BY DEF Init, OrderInv, ReadInv, ReadOK, NoFile, Paths, Running, Ended

(* With a rename, no file gets older until ingests overlap, and one that   *)
(* is there stays.                                                         *)
LEMMA RenameInOrder ==
  ASSUME TypeOK, SaveInv, AloneInv, OrderInv, NEW i \in Ingests, Rename(i)
  PROVE  /\ file["timetable"].version > 0 => file'["timetable"].version > 0
         /\ NoOverlap =>
              /\ file["timetable"].version <= file'["timetable"].version
              /\ file'["timetable"].version <= file'["gtfs"].version
              /\ file["gtfs"].version <= file'["gtfs"].version
              /\ file'["gtfs"].version <= ingest[i].feed
              /\ file'["timetable"].version \in
                   {file["timetable"].version, file'["gtfs"].version}
              /\ Running = {i}
<1>1. i \in Running /\ ingest[i].feed \in 1..zip.version
  BY StaysRunning DEF Step, SaveInv, SaveOK
<1>2. ingest[i].feed > 0
  BY <1>1, VersionTypes
<1>3. NoOverlap => AloneOK(i) /\ file["gtfs"].version <= ingest[i].feed
  BY <1>1 DEF NoOverlap, AloneInv, OrderInv
<1>4. CASE file' = file
  BY <1>3, <1>4, VersionTypes, PathsDiffer DEF OrderInv, AloneOK
<1>5. CASE ingest[i].path = "gtfs" /\ file' = [file EXCEPT ![ingest[i].path] = Saved(ingest[i].feed)]
  <2>1. file'["gtfs"].version = ingest[i].feed /\ file'["timetable"] = file["timetable"]
    BY <1>5, PathsDiffer DEF TypeOK, Saved
  <2> QED
    BY <1>3, <2>1, VersionTypes, PathsDiffer DEF OrderInv, AloneOK
<1>6. CASE /\ ingest[i].path = "timetable"
           /\ file' = [file EXCEPT ![ingest[i].path] = Saved(ingest[i].feed)]
  <2>1. file'["timetable"].version = ingest[i].feed /\ file'["gtfs"] = file["gtfs"]
    BY <1>6, PathsDiffer DEF TypeOK, Saved
  <2>2. NoOverlap => file["gtfs"].version = ingest[i].feed
    BY <1>3, <1>6 DEF AloneOK, Saved
  <2> QED
    BY <1>2, <1>3, <2>1, <2>2, VersionTypes, PathsDiffer DEF OrderInv, AloneOK
<1> QED
  BY <1>4, <1>5, <1>6, Renamed, LocalPath DEF Paths

LEMMA OrderStep ==
  ASSUME TypeOK, zip.version > 0, SaveInv, AloneInv, OrderInv, [Next]_vars
  PROVE  OrderInv' /\ zip'.version > 0
<1>1. CASE StartFetch \/ EndFetch
  <2>1. zip'.version >= zip.version /\ zip'.version \in Nat
    BY <1>1 DEF StartFetch, EndFetch, TypeOK, Content
  <2>2. UNCHANGED <<file, ingest, alone>>
    BY <1>1 DEF StartFetch, EndFetch
  <2> QED
    BY <2>1, <2>2, VersionTypes, PathsDiffer DEF OrderInv, NoOverlap, Running
<1>2. ASSUME NEW i \in Ingests, OpenZip(i) PROVE OrderInv' /\ zip'.version > 0
  <2>1. NoOverlap' => NoOverlap
    BY <1>2, Opens DEF NoOverlap
  <2>2. file' = file /\ zip' = zip
    BY <1>2 DEF OpenZip
  <2>3. ASSUME NoOverlap', NEW j \in Running' PROVE file["gtfs"].version <= ingest'[j].feed
    <3>1. CASE j = i
      BY <1>2, <2>1, <2>3, <3>1, Opens DEF OrderInv
    <3>2. CASE j # i
      BY <1>2, <2>1, <2>3, <3>2, OthersStay DEF OrderInv, Running
    <3> QED
      BY <3>1, <3>2
  <2> QED
    BY <2>1, <2>2, <2>3 DEF OrderInv
<1>3. ASSUME NEW i \in Ingests, Rename(i) PROVE OrderInv' /\ zip'.version > 0
  <2>1. /\ zip' = zip /\ alone' = alone /\ Running' \subseteq Running
        /\ ingest'[i].feed = ingest[i].feed /\ i \in Running
    BY <1>3, StaysRunning DEF Step
  <2> SUFFICES ASSUME NoOverlap
               PROVE  /\ file'["timetable"].version <= file'["gtfs"].version
                      /\ file'["gtfs"].version <= zip.version
                      /\ \A j \in Running' : file'["gtfs"].version <= ingest'[j].feed
    BY <2>1 DEF OrderInv, NoOverlap
  <2>2. file'["gtfs"].version <= ingest[i].feed /\ file'["timetable"].version <= file'["gtfs"].version
    BY <1>3, RenameInOrder
  <2>3. ingest[i].feed \in 1..zip.version
    BY <2>1 DEF SaveInv, SaveOK
  <2>4. file'["gtfs"].version \in Nat
    BY <1>3, RenameType, PathsDiffer DEF TypeOK, Content
  <2>5. file'["gtfs"].version <= zip.version
    BY <2>2, <2>3, <2>4, VersionTypes
  <2>6. Running' \subseteq {i}
    BY <1>3, <2>1, RenameInOrder
  <2> QED
    BY <2>1, <2>2, <2>5, <2>6
<1>4. ASSUME NEW i \in Ingests, Step(i) \/ Kill(i), file' = file
      PROVE  OrderInv' /\ zip'.version > 0
  <2>1. /\ zip' = zip /\ alone' = alone /\ Running' \subseteq Running
        /\ ingest'[i].feed = ingest[i].feed
    BY <1>4, StaysRunning
  <2>2. \A j \in Running' : j \in Running /\ ingest'[j].feed = ingest[j].feed
    BY <1>4, <2>1, OthersStay DEF Running
  <2> QED
    BY <1>4, <2>1, <2>2 DEF OrderInv, NoOverlap
<1>5. ASSUME UNCHANGED <<zip, file, ingest, alone>> PROVE OrderInv' /\ zip'.version > 0
  BY <1>5 DEF OrderInv, NoOverlap, Running
<1> QED
  BY <1>1, <1>2, <1>3, <1>4, <1>5 DEF Next, Step, ParseZip, CreateTemp, Encode, RemoveTemp, Stat,
     Kill, Load, vars

LEMMA ReadStep ==
  ASSUME TypeOK, SaveInv, AloneInv, OrderInv, ReadInv, [Next]_vars PROVE ReadInv'
<1>1. ASSUME NEW i \in Ingests, Rename(i) PROVE ReadInv'
  <2>1. reader' = reader /\ alone' = alone
    BY <1>1 DEF Rename
  <2>2. file'["timetable"].version \in Nat
    BY <1>1, RenameType, PathsDiffer DEF TypeOK, Content
  <2>3. \A r \in Readers : ReadOK(r)'
    BY <1>1, <2>1, <2>2, RenameInOrder, VersionTypes, PathsDiffer DEF ReadInv, ReadOK, NoOverlap
  <2> QED
    BY <2>3 DEF ReadInv
<1>2. ASSUME NEW r \in Readers, Load(r) PROVE ReadInv'
  <2>1. file["timetable"] \in Content
    BY PathsDiffer DEF TypeOK
  <2>2. file["timetable"] # NoFile /\ file["timetable"].whole => file["timetable"].version > 0
    <3>1. file["timetable"] = [version |-> file["timetable"].version,
                               whole |-> file["timetable"].whole]
      BY <2>1 DEF Content
    <3>2. file["timetable"].version \in Nat /\ file["timetable"].whole \in BOOLEAN
      BY <2>1, VersionTypes, PathsDiffer DEF Content
    <3>3. file["timetable"].whole /\ file["timetable"].version = 0 => file["timetable"] = NoFile
      <4>1. file["timetable"].whole => file["timetable"].whole = TRUE
        BY <3>2
      <4> QED
        BY <3>1, <4>1 DEF NoFile
    <3> QED
      BY <3>2, <3>3
  <2>3. ReadOK(r)'
    BY <1>2, <2>2, VersionTypes, PathsDiffer DEF Load, ReadOK, TypeOK
  <2>4. \A q \in Readers : q # r => ReadOK(q)'
    BY <1>2 DEF Load, ReadInv, ReadOK, NoOverlap, TypeOK
  <2> QED
    BY <2>3, <2>4 DEF ReadInv
<1>3. ASSUME UNCHANGED <<file, reader>>, NoOverlap' => NoOverlap PROVE ReadInv'
  BY <1>3 DEF ReadInv, ReadOK
<1>4. ASSUME NEW i \in Ingests, OpenZip(i) PROVE NoOverlap' => NoOverlap
  BY <1>4, Opens DEF NoOverlap
<1> QED
  BY <1>1, <1>2, <1>3, <1>4 DEF Next, Step, StartFetch, EndFetch, OpenZip, ParseZip, CreateTemp,
     Encode, RemoveTemp, Stat, Kill, vars, NoOverlap

-----------------------------------------------------------------------------
(***************************************************************************)
(* The theorems.                                                           *)
(***************************************************************************)
LEMMA IngestInvariantHolds == Spec => []IngestIInv
<1>1. Init => IngestIInv
  BY TypesInitially, SaveInitially, AloneInitially, OrderInitially DEF IngestIInv
<1>2. IngestIInv /\ [Next]_vars => IngestIInv'
  BY TypesStep, SaveStep, AloneStep, OrderStep, ReadStep DEF IngestIInv
<1> QED
  BY <1>1, <1>2, PTL DEF Spec

(* Whatever is killed when, and however many ingests overlap, the file     *)
(* under a name that readers use is never truncated.                       *)
THEOREM CrashesNeverTruncate == Spec => []NeverTruncated
<1>1. IngestIInv => NeverTruncated
  BY DEF IngestIInv, SaveInv
<1> QED
  BY <1>1, IngestInvariantHolds, PTL

-----------------------------------------------------------------------------
(***************************************************************************)
(* Once one reader has loaded the timetable every later one loads it too,  *)
(* and until ingests overlap never an older one.                           *)
(***************************************************************************)
THEOREM LaterReadersKeepUp == Spec => ReadersKeepUp
<1>1. IngestIInv /\ [Next]_vars =>
        [\A q, r \in Readers :
           reader[q].pc = "loaded" /\ reader[r].pc = "ready" /\ reader'[r].pc # "ready" =>
             /\ reader'[r].pc = "loaded"
             /\ NoOverlap => reader[q].version <= reader'[r].version]_vars
  <2> SUFFICES ASSUME IngestIInv, Next, NEW q \in Readers, NEW r \in Readers,
                      reader[q].pc = "loaded", reader[r].pc = "ready", reader'[r].pc # "ready"
               PROVE  /\ reader'[r].pc = "loaded"
                      /\ NoOverlap => reader[q].version <= reader'[r].version
    OBVIOUS
  <2>1. PICK k \in Readers : Load(k)
    BY DEF Next, Step, StartFetch, EndFetch, OpenZip, ParseZip, CreateTemp, Encode, Rename,
       RemoveTemp, Stat, Kill
  <2>2. reader' = [reader EXCEPT ![k] = reader'[k]] /\ DOMAIN reader = Readers
    BY <2>1 DEF Load, IngestIInv, TypeOK
  <2>3. k = r
    BY <2>2
  <2>4. file["timetable"].whole
    BY PathsDiffer DEF IngestIInv, SaveInv, NeverTruncated
  <2>5. ReadOK(q)
    BY DEF IngestIInv, ReadInv
  <2>6. file["timetable"] # NoFile
    BY <2>5 DEF ReadOK, NoFile
  <2>7. reader'[r] = [pc |-> "loaded", version |-> file["timetable"].version]
    BY <2>1, <2>2, <2>3, <2>4, <2>6 DEF Load
  <2> QED
    BY <2>5, <2>7 DEF ReadOK
<1> QED
  BY <1>1, IngestInvariantHolds, PTL DEF Spec, ReadersKeepUp

-----------------------------------------------------------------------------
(***************************************************************************)
(* An ingest that ends with status 0 and was not overlapped has saved both *)
(* files, and nothing has replaced either since.                           *)
(***************************************************************************)
THEOREM DoneSavesBoth == Spec => DoneMeansBothSaved
<1>1. IngestIInv /\ [Next]_vars =>
        [\A i \in Ingests :
           ingest'[i].pc = "done" /\ ingest[i].pc # "done" /\ alone[i] =>
             \A p \in Paths : file'[p] = [version |-> ingest[i].feed, whole |-> TRUE]]_vars
  <2> SUFFICES ASSUME IngestIInv, Next, NEW i \in Ingests,
                      ingest'[i].pc = "done", ingest[i].pc # "done", alone[i]
               PROVE  \A p \in Paths : file'[p] = Saved(ingest[i].feed)
    BY DEF Saved
  <2>1. ingest' # ingest
    OBVIOUS
  <2>2. PICK j \in Ingests : OpenZip(j) \/ Step(j) \/ Kill(j)
    BY <2>1 DEF Next, StartFetch, EndFetch, Load
  <2>3. ingest' = [ingest EXCEPT ![j] = ingest'[j]] /\ DOMAIN ingest = Ingests
    BY <2>2 DEF OpenZip, Step, ParseZip, CreateTemp, Encode, Rename, RemoveTemp, Stat, Kill, Goto,
       IngestIInv, TypeOK
  <2>4. i = j
    BY <2>3
  <2>5. ingest[i] \in Locals
    BY LocalPath DEF IngestIInv
  <2>6. Stat(i) /\ ingest[i].pc = "stat" /\ ingest[i].path = "timetable" /\ file' = file
    BY <2>2, <2>3, <2>4, <2>5 DEF OpenZip, Step, ParseZip, CreateTemp, Encode, Rename, RemoveTemp, Stat,
       Kill, Goto, Locals
  <2>7. AloneOK(i)
    BY <2>6, StaysRunning DEF IngestIInv, AloneInv, Step
  <2> QED
    BY <2>6, <2>7 DEF AloneOK, Paths
<1> QED
  BY <1>1, IngestInvariantHolds, PTL DEF Spec, DoneMeansBothSaved

-----------------------------------------------------------------------------
(***************************************************************************)
(* Until ingests overlap, every step publishes the feed, publishes the     *)
(* timetable of the saved feed, or changes neither file.                   *)
(***************************************************************************)
LEMMA RenamePublishes ==
  ASSUME TypeOK, SaveInv, AloneInv, OrderInv, NoOverlap, NEW i \in Ingests, Rename(i)
  PROVE  [Files!Next]_Files!vars
<1>1. i \in Running /\ ingest[i].feed \in 1..zip.version
  BY StaysRunning DEF Step, SaveInv, SaveOK
<1>2. AloneOK(i) /\ file["gtfs"].version <= ingest[i].feed
  BY <1>1 DEF NoOverlap, AloneInv, OrderInv
<1>3. ingest[i].feed \in 1..MaxVersion
  <2>1. zip.version \in 0..MaxVersion
    BY DEF TypeOK, Content
  <2> QED
    BY <1>1, <2>1, IngestAssumption
<1>4. CASE ingest[i].path = "gtfs" /\ file' = [file EXCEPT ![ingest[i].path] = Saved(ingest[i].feed)]
  <2>1. file'["gtfs"].version = ingest[i].feed /\ file'["timetable"] = file["timetable"]
    BY <1>4, PathsDiffer DEF TypeOK, Saved
  <2> QED
    BY <1>2, <1>3, <2>1, VersionTypes, PathsDiffer DEF Files!Next, Files!PublishFeed
<1>5. CASE /\ ingest[i].path = "timetable"
           /\ file' = [file EXCEPT ![ingest[i].path] = Saved(ingest[i].feed)]
  <2>1. file'["timetable"].version = ingest[i].feed /\ file'["gtfs"] = file["gtfs"]
    BY <1>5, PathsDiffer DEF TypeOK, Saved
  <2>2. file["gtfs"].version = ingest[i].feed
    BY <1>2, <1>5 DEF AloneOK, Saved
  <2> QED
    BY <2>1, <2>2 DEF Files!Next, Files!PublishTimetable
<1>6. CASE file' = file
  BY <1>6 DEF Files!vars
<1> QED
  BY <1>4, <1>5, <1>6, Renamed, LocalPath DEF Paths

THEOREM IngestPublishes == Spec => PublishesInOrder
<1>1. Init => Files!Init
  BY PathsDiffer DEF Init, Files!Init, NoFile
<1>2. IngestIInv /\ [Next]_vars => [NoOverlap => [Files!Next]_Files!vars]_vars
  <2>1. ASSUME file' = file PROVE [Files!Next]_Files!vars
    BY <2>1 DEF Files!vars
  <2>2. ASSUME IngestIInv, NoOverlap, NEW i \in Ingests, Rename(i) PROVE [Files!Next]_Files!vars
    BY <2>2, RenamePublishes DEF IngestIInv
  <2> QED
    BY <2>1, <2>2 DEF Next, Step, StartFetch, EndFetch, OpenZip, ParseZip, CreateTemp, Encode,
       RemoveTemp, Stat, Kill, Load, vars
<1> QED
  BY <1>1, <1>2, IngestInvariantHolds, PTL DEF Spec, PublishesInOrder

=============================================================================
