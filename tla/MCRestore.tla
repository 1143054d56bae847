----------------------------- MODULE MCRestore -----------------------------
(* Instances of Restore for TLC. *)
EXTENDS Restore

CONSTANT game

Good    == [keys |-> Keys, status |-> "complete", claims |-> {game}, vectors |-> {game},
            sidecar |-> "own", damaged |-> {}]
NoMeta  == [Good EXCEPT !.claims = {}, !.vectors = {},
                        !.keys = Keys \ {"mindb.snap.meta"}, !.sidecar = "none"]
Pending == [NoMeta EXCEPT !.status = "pending", !.claims = {game}]
Missing == [Good EXCEPT !.vectors = {}]
Damaged == [Good EXCEPT !.damaged = {"mindb.snap"}]

\* The older generation and the newer one.
SomeUploads == {<<Good, NoMeta>>, <<Missing, Good>>, <<Damaged, Pending>>}
=============================================================================
