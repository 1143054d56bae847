--------------------------- MODULE MCIngestLease ---------------------------
(* Three processes: r1 and r2 are two attempts of one container, r3 is a   *)
(* run started by hand.                                                    *)
EXTENDS IngestLease

CONSTANTS r1, r2, r3

MCOwner == [r \in Run |-> IF r = r3 THEN "manual" ELSE "nightly"]
MCOwnerApart ==
  [r \in Run |-> CASE r = r1 -> "nightly" [] r = r2 -> "fill" [] r = r3 -> "manual"]
=============================================================================
