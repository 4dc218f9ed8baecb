------------------------------ MODULE MCIngest ------------------------------
(***************************************************************************)
(* Two runs of ingest, one after the other or overlapping, against a few   *)
(* downloads, and two readers.                                             *)
(***************************************************************************)
EXTENDS IngestInvariant

CONSTANTS i1, i2, r1, r2

MCIngests == {i1, i2}

MCReaders == {r1, r2}

=============================================================================
