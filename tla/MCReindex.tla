----------------------------- MODULE MCReindex -----------------------------
(* Instances of Reindex for TLC. *)
EXTENDS Reindex

CONSTANTS a, b, old, new, nightly, manual

OneEach == [j \in Job |-> IF j = nightly THEN "ingest" ELSE "reindex"]
=============================================================================
