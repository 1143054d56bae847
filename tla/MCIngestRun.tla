---------------------------- MODULE MCIngestRun ----------------------------
(* Small instances of the ingest: one pod scheduled again and again, or    *)
(* two pods at a time.                                                     *)
EXTENDS IngestRun

CONSTANTS nightly, manual
=============================================================================
