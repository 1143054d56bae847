-------------------------------- MODULE Lock --------------------------------
(***************************************************************************)
(* What the ingest lease is for (CONTEXT.md, Ingest Lease; the docstring   *)
(* of lease.py): it is held by one job at a time, and passes from one job  *)
(* to the next only by being free in between.  Object storage has no       *)
(* compare-and-set, so the promise ends with the first write that lands on *)
(* a lease which changed after it was read; from then on anything goes.    *)
(***************************************************************************)
CONSTANT Run   \* the processes that want the lease

VARIABLES
  holders,  \* the runs that are entitled to work
  broken    \* a write has come too late

Init == holders = {} /\ broken = FALSE

Take(r) == holders = {} /\ holders' = {r} /\ UNCHANGED broken

(* Released, lost, expired, or its holder dead.                            *)
LetGo == holders # {} /\ holders' = {} /\ UNCHANGED broken

StaleWrite == broken' = TRUE /\ holders' \in SUBSET Run

Next == (\E r \in Run : Take(r)) \/ LetGo \/ StaleWrite

Spec == Init /\ [][Next]_<<holders, broken>>
=============================================================================
