--------------------------- MODULE MCVersionCache ---------------------------
(* Instances of the caches for TLC: threads of one process or of two. *)
EXTENDS VersionCache

CONSTANTS w1, w2, s1, s2

MCWorkerOf == [s \in Sessions |-> IF s = s1 THEN w1 ELSE w2]

\* two workers whose requests succeed; one thread whose requests may fail
MCDeployments ==
  {[sessions |-> {s1, s2}, databaseLock |-> TRUE, canRollback |-> FALSE, writes |-> 2],
   [sessions |-> {s1}, databaseLock |-> TRUE, canRollback |-> TRUE, writes |-> 4]}

(* Two workers on PostgreSQL, as Procfile starts them. *)
MCShipped == {[sessions |-> {s1, s2}, databaseLock |-> FALSE, canRollback |-> TRUE, writes |-> 2]}

ASSUME \A d \in MCDeployments : Sheltered(d) /\ Serial(d)
=============================================================================
