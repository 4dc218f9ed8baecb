-------------------------- MODULE IngestProperties --------------------------
(***************************************************************************)
(* What must hold of the files that cmd/ingest writes.                     *)
(***************************************************************************)
EXTENDS Ingest

IngestPc == {"ready", "parse", "create", "encode", "rename", "remove", "stat"} \cup Ended

Locals == [pc : IngestPc, feed : 0..MaxVersion, path : Paths, ok : BOOLEAN]

(* Every variable holds a value of its type. *)
TypeOK ==
  /\ zip \in Content
  /\ file \in [Paths -> Content]
  /\ temp \in [Ingests -> [Paths -> Content]]
  /\ ingest \in [Ingests -> Locals]
  /\ reader \in [Readers -> [pc : {"ready", "loaded", "failed"}, version : 0..MaxVersion]]
  /\ alone \in [Ingests -> BOOLEAN]

(* No two ingests have run at the same time so far. *)
NoOverlap == \A i \in Ingests : alone[i]

(* A crash at any moment never leaves a truncated file under a name that   *)
(* readers use (gob.go:11), however many ingests write at the same time.   *)
NeverTruncated == \A p \in Paths : file[p].whole

(* Once a reader has loaded the timetable, every reader that starts later  *)
(* loads one too, whichever ingests run, fail or die meanwhile: the name   *)
(* is never without a whole file again.  Until ingests overlap, it never   *)
(* loads an older timetable than a reader before it did.                   *)
ReadersKeepUp ==
  [][\A q, r \in Readers :
       reader[q].pc = "loaded" /\ reader[r].pc = "ready" /\ reader'[r].pc # "ready" =>
         /\ reader'[r].pc = "loaded"
         /\ NoOverlap => reader[q].version <= reader'[r].version]_vars

(* An ingest that was started ends. *)
IngestsEnd == \A i \in Ingests : i \in Running ~> ingest[i].pc \in Ended

-----------------------------------------------------------------------------
(***************************************************************************)
(* What overlapping ingests lose.                                          *)
(***************************************************************************)
(* An ingest that exits with status 0, and that no other overlapped,       *)
(* leaves both files made from the feed it parsed, whatever the ingests    *)
(* before it did or left.                                                  *)
DoneMeansBothSaved ==
  [][\A i \in Ingests :
       ingest'[i].pc = "done" /\ ingest[i].pc # "done" /\ alone[i] =>
         \A p \in Paths : file'[p] = [version |-> ingest[i].feed, whole |-> TRUE]]_vars

Files == INSTANCE Publication WITH
  Versions  <- 1..MaxVersion,
  feed      <- file["gtfs"].version,
  timetable <- file["timetable"].version

(* Until ingests overlap, the timetable only ever changes to the version   *)
(* of the saved feed, and neither file goes back to an older version,      *)
(* whatever fails or is killed on the way.                                 *)
PublishesInOrder == Files!Init /\ [][NoOverlap => [Files!Next]_Files!vars]_vars

=============================================================================
