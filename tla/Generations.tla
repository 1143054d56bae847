---------------------------- MODULE Generations ----------------------------
(***************************************************************************)
(* What the backups of GameRec promise a restore (ADR-0002): Backup        *)
(* Generations appear whole and one at a time, each newer than all before  *)
(* it, with a checkpoint that claims no more than the snapshot holds; and  *)
(* the oldest one goes when there are more than are to be retained.        *)
(***************************************************************************)
EXTENDS Integers, FiniteSets

CONSTANTS
  Game,    \* what a checkpoint claims and a snapshot holds
  Retain   \* RETAIN_GENERATIONS

VARIABLES
  visible, \* the generations with a COMPLETE marker
  missed   \* games whose vector a failure has kept from MinDB

(* Of the two statuses a checkpoint file has, a restore accepts "complete".*)
Status     == {"pending", "complete"}
Generation == [id : Nat, status : Status, claims : SUBSET Game, vectors : SUBSET Game]

Init == visible = {} /\ missed = {}

(* checkpoint <= snapshot, where no failure is to blame. *)
Covered(g) == g.status = "complete" => g.claims \subseteq g.vectors \cup missed

Publish(g) ==
  /\ g \in Generation
  /\ \A old \in visible : old.id < g.id
  /\ Covered(g)
  /\ visible' = visible \cup {g}
  /\ UNCHANGED missed

Newer(g) == {h \in visible : h.id > g.id}

Withdraw(g) ==
  /\ Cardinality(Newer(g)) >= Retain
  /\ \A other \in visible \ {g} : g.id < other.id
  /\ visible' = visible \ {g}
  /\ UNCHANGED missed

Miss == missed \subseteq missed' /\ UNCHANGED visible

Next ==
  \/ \E g \in visible' \ visible : Publish(g)
  \/ \E g \in visible : Withdraw(g)
  \/ Miss

Spec == Init /\ [][Next]_<<visible, missed>>
=============================================================================
