---------------------------- MODULE SharedTarget ----------------------------
(***************************************************************************)
(* What the machines that sync onto one target promise each other: any of  *)
(* them may put a backup there, and drop one only when enough newer ones   *)
(* have been put.  A name is a number, a later backup's the greater.       *)
(***************************************************************************)
EXTENDS Naturals, FiniteSets

CONSTANTS Name, Retention

VARIABLES
  held,    \* the backups at the target
  landed   \* those that were ever put there

targetVars == <<held, landed>>

\* The names that are over the retention, the oldest of those given.
Surplus(names) == {n \in names : Cardinality({k \in names : k > n}) >= Retention}

Init == held = {} /\ landed = {}

Put(n) == held' = held \cup {n} /\ landed' = landed \cup {n}

Drop(n) == n \in Surplus(landed) /\ held' = held \ {n} /\ UNCHANGED landed

Next == \E n \in Name : Put(n) \/ Drop(n)

Spec == Init /\ [][Next]_targetVars

(* "prune keeps the newest files at the target" (cloudsync/sync.go): a     *)
(* backup that ever reached the target is there as long as fewer than      *)
(* Retention newer ones have reached it.                                   *)
NewestStay == landed \ Surplus(landed) \subseteq held
=============================================================================
