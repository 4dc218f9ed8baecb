-------------------------- MODULE IngestInvariant ---------------------------
(***************************************************************************)
(* Why no crash leaves a truncated file, and why the two files follow each *)
(* other until ingests overlap: the inductive invariant.                   *)
(***************************************************************************)
EXTENDS IngestProperties

Saved(v) == [version |-> v, whole |-> TRUE]

(* A temporary file is whole when it is renamed, and of the feed that its  *)
(* maker parsed.  A file left by a failed removal is overwritten first.    *)
SaveOK(i) ==
  /\ ingest[i].pc = "ready" => ingest[i].path = "gtfs"
  /\ ingest[i].pc = "rename" => temp[i][ingest[i].path].whole
  /\ i \in Running => ingest[i].feed \in 1..zip.version
  /\ ingest[i].pc \in {"encode", "rename"}
       => temp[i][ingest[i].path].version = ingest[i].feed

SaveInv == NeverTruncated /\ \A i \in Ingests : SaveOK(i)

(* An ingest that nobody overlaps is the only one that runs; it has saved  *)
(* the feed when it turns to the timetable.                                *)
AloneOK(i) ==
  /\ Running = {i}
  /\ ingest[i].path = "timetable" => file["gtfs"] = Saved(ingest[i].feed)
  /\ ingest[i].pc = "stat" \/ (ingest[i].pc = "remove" /\ ingest[i].ok)
       => file[ingest[i].path] = Saved(ingest[i].feed)

AloneInv == \A i \in Running : alone[i] => AloneOK(i)

(* Until ingests overlap, no file is newer than what it is made from.      *)
OrderInv ==
  NoOverlap =>
    /\ file["timetable"].version <= file["gtfs"].version
    /\ file["gtfs"].version <= zip.version
    /\ \A i \in Running : file["gtfs"].version <= ingest[i].feed

(* A reader that loaded a timetable leaves it, or a newer one, behind.     *)
ReadOK(r) ==
  reader[r].pc = "loaded" =>
    /\ file["timetable"].version > 0
    /\ NoOverlap => reader[r].version <= file["timetable"].version

ReadInv == \A r \in Readers : ReadOK(r)

IngestIInv == TypeOK /\ zip.version > 0 /\ SaveInv /\ AloneInv /\ OrderInv /\ ReadInv

=============================================================================
