------------------------------- MODULE Ingest -------------------------------
(***************************************************************************)
(* cmd/ingest: parse the feed's zip, then save the feed and the timetable  *)
(* built from it, each through a temporary file and a rename               *)
(* (internal/gtfs/gob.go and internal/timetable/gob.go).  Any I/O step may *)
(* fail, the process may be killed between any two steps, the zip may be   *)
(* downloaded anew meanwhile (Makefile, fetch), and readers load the       *)
(* timetable at any time.                                                  *)
(*                                                                         *)
(* A file's content is the version of the zip it was made from; version 0  *)
(* stands for a file that is not there.  os.CreateTemp gives each save a   *)
(* name of its own, so temporary files are told apart by who made them.    *)
(***************************************************************************)
EXTENDS Integers

CONSTANTS
  Ingests,       \* runs of cmd/ingest
  Readers,       \* processes that load the timetable when they start
  MaxVersion     \* bound on the number of downloads

ASSUME IngestAssumption == MaxVersion \in Nat \ {0}

VARIABLES
  zip,      \* the downloaded feed
  file,     \* the two files ingest writes
  temp,     \* temporary files, by ingest and file
  ingest,   \* where each ingest is, and its locals
  reader,   \* what each reader loaded
  alone     \* history: which ingests have not overlapped with another

vars == <<zip, file, temp, ingest, reader, alone>>

Paths == {"gtfs", "timetable"}

Content == [version : 0..MaxVersion, whole : BOOLEAN]

NoFile == [version |-> 0, whole |-> TRUE]

Ended == {"done", "failed", "killed"}

Running == {i \in Ingests : ingest[i].pc \notin Ended \cup {"ready"}}

Init ==
  /\ zip = [version |-> 1, whole |-> TRUE]
  /\ file = [p \in Paths |-> NoFile]
  /\ temp = [i \in Ingests |-> [p \in Paths |-> NoFile]]
  /\ ingest = [i \in Ingests |-> [pc |-> "ready", feed |-> 0, path |-> "gtfs", ok |-> TRUE]]
  /\ reader = [r \in Readers |-> [pc |-> "ready", version |-> 0]]
  /\ alone = [i \in Ingests |-> TRUE]

-----------------------------------------------------------------------------
(***************************************************************************)
(* curl -o truncates the zip, fills it, and may stop on the way.           *)
(***************************************************************************)
StartFetch ==
  /\ zip.version < MaxVersion
  /\ zip' = [version |-> zip.version + 1, whole |-> FALSE]
  /\ UNCHANGED <<file, temp, ingest, reader, alone>>

EndFetch ==
  /\ ~zip.whole
  /\ zip' = [zip EXCEPT !.whole = TRUE]
  /\ UNCHANGED <<file, temp, ingest, reader, alone>>

-----------------------------------------------------------------------------
Goto(i, pc) == ingest' = [ingest EXCEPT ![i].pc = pc]

(***************************************************************************)
(* ParseZip.  The archive's directory is at its end and every member has a *)
(* checksum: a zip that is incomplete or changes under the reader is an    *)
(* error, as is any malformed row.                                         *)
(***************************************************************************)
OpenZip(i) ==
  /\ ingest[i].pc = "ready"
  /\ ingest' = [ingest EXCEPT ![i].pc = IF zip.whole THEN "parse" ELSE "failed",
                              ![i].feed = zip.version]
  /\ alone' = [j \in Ingests |-> alone[j] /\ (Running = {} \/ j \notin Running \cup {i})]
  /\ UNCHANGED <<zip, file, temp, reader>>

ParseZip(i) ==
  /\ ingest[i].pc = "parse"
  /\ \/ zip = [version |-> ingest[i].feed, whole |-> TRUE] /\ Goto(i, "create")
     \/ Goto(i, "failed")
  /\ UNCHANGED <<zip, file, temp, reader, alone>>

(***************************************************************************)
(* Save, in three steps and a deferred one.                                *)
(***************************************************************************)
CreateTemp(i) ==
  /\ ingest[i].pc = "create"
  /\ \/ /\ Goto(i, "encode")
        /\ temp' = [temp EXCEPT ![i][ingest[i].path] =
                      [version |-> ingest[i].feed, whole |-> FALSE]]
     \/ Goto(i, "failed") /\ UNCHANGED temp
  /\ UNCHANGED <<zip, file, reader, alone>>

(* Mutant: the buffered writer is not flushed. *)
EncodeUnflushed(i) ==
  /\ ingest[i].pc = "encode"
  /\ \/ Goto(i, "rename")
     \/ ingest' = [ingest EXCEPT ![i].pc = "remove", ![i].ok = FALSE]
  /\ UNCHANGED <<zip, file, temp, reader, alone>>

Encode(i) ==
  /\ ingest[i].pc = "encode"
  /\ \/ /\ Goto(i, "rename")
        /\ temp' = [temp EXCEPT ![i][ingest[i].path] =
                      [version |-> ingest[i].feed, whole |-> TRUE]]
     \/ /\ ingest' = [ingest EXCEPT ![i].pc = "remove", ![i].ok = FALSE]
        /\ UNCHANGED temp
  /\ UNCHANGED <<zip, file, reader, alone>>

(* Mutant: the old file is removed to make room for the new one. *)
RemoveAndRename(i) ==
  LET p == ingest[i].path
  IN  /\ ingest[i].pc = "rename"
      /\ \/ /\ Goto(i, "remove")
            /\ file' = [file EXCEPT ![p] = temp[i][p]]
            /\ temp' = [temp EXCEPT ![i][p] = NoFile]
         \/ /\ ingest' = [ingest EXCEPT ![i].pc = "remove", ![i].ok = FALSE]
            /\ file' = [file EXCEPT ![p] = NoFile]
            /\ UNCHANGED temp
      /\ UNCHANGED <<zip, reader, alone>>

Rename(i) ==
  LET p == ingest[i].path
  IN  /\ ingest[i].pc = "rename"
      /\ \/ /\ Goto(i, "remove")
            /\ file' = [file EXCEPT ![p] = temp[i][p]]
            /\ temp' = [temp EXCEPT ![i][p] = NoFile]
         \/ /\ ingest' = [ingest EXCEPT ![i].pc = "remove", ![i].ok = FALSE]
            /\ UNCHANGED <<file, temp>>
      /\ UNCHANGED <<zip, reader, alone>>

(* Mutant: the error of a save is ignored. *)
IgnoreError(i) ==
  /\ ingest[i].pc = "remove"
  /\ temp' = [temp EXCEPT ![i][ingest[i].path] = NoFile]
  /\ Goto(i, "stat")
  /\ UNCHANGED <<zip, file, reader, alone>>

(* The removal may fail; its error is dropped, and the file stays. *)
RemoveTemp(i) ==
  /\ ingest[i].pc = "remove"
  /\ temp' = [temp EXCEPT ![i][ingest[i].path] = NoFile] \/ UNCHANGED temp
  /\ Goto(i, IF ingest[i].ok THEN "stat" ELSE "failed")
  /\ UNCHANGED <<zip, file, reader, alone>>

(***************************************************************************)
(* Back in main: stat the file, then build and save the timetable.         *)
(***************************************************************************)
(* Mutant: the ingest ends once the feed is saved. *)
StatFeedOnly(i) ==
  /\ ingest[i].pc = "stat"
  /\ Goto(i, "done") \/ Goto(i, "failed")
  /\ UNCHANGED <<zip, file, temp, reader, alone>>

(* Mutant: the feed is saved again instead of the timetable. *)
StatAgain(i) ==
  /\ ingest[i].pc = "stat"
  /\ \/ ingest[i].path = "gtfs" /\ Goto(i, "create")
     \/ ingest[i].path = "timetable" /\ Goto(i, "done")
     \/ Goto(i, "failed")
  /\ UNCHANGED <<zip, file, temp, reader, alone>>

Stat(i) ==
  /\ ingest[i].pc = "stat"
  /\ \/ /\ ingest[i].path = "gtfs"
        /\ ingest' = [ingest EXCEPT ![i].pc = "create", ![i].path = "timetable"]
     \/ ingest[i].path = "timetable" /\ Goto(i, "done")
     \/ Goto(i, "failed")
  /\ UNCHANGED <<zip, file, temp, reader, alone>>

(* Nothing deferred runs when the process is killed. *)
Kill(i) ==
  /\ i \in Running
  /\ Goto(i, "killed")
  /\ UNCHANGED <<zip, file, temp, reader, alone>>

-----------------------------------------------------------------------------
(***************************************************************************)
(* timetable.Load in cmd/server and cmd/route: the file opened stays the   *)
(* one read, as a rename replaces the name and not the content.            *)
(***************************************************************************)
Load(r) ==
  LET f == file["timetable"]
  IN  /\ reader[r].pc = "ready"
      /\ reader' = [reader EXCEPT ![r] =
                      IF f # NoFile /\ f.whole
                      THEN [pc |-> "loaded", version |-> f.version]
                      ELSE [pc |-> "failed", version |-> 0]]
      /\ UNCHANGED <<zip, file, temp, ingest, alone>>

-----------------------------------------------------------------------------
Step(i) ==
  \/ ParseZip(i) \/ CreateTemp(i) \/ Encode(i) \/ Rename(i)
  \/ RemoveTemp(i) \/ Stat(i)

Next ==
  \/ StartFetch \/ EndFetch
  \/ \E i \in Ingests : OpenZip(i) \/ Step(i) \/ Kill(i)
  \/ \E r \in Readers : Load(r)

Spec == Init /\ [][Next]_vars

(* A process that was started keeps running until it ends. *)
FairSpec == Spec /\ \A i \in Ingests : WF_vars(Step(i))

=============================================================================
