-------------------------- MODULE MCWatchedFolder --------------------------
(* WatchedFolder for TLC: two paths, a temporary name, two contents.  The
   folder has one file to begin with.                                      *)
EXTENDS WatchedFolder

CONSTANTS old, new, tmp, a, b

MCInitially ==
  [n \in Names |-> IF n = old THEN [stat |-> 1, sha |-> a]
                             ELSE [stat |-> 0, sha |-> Empty]]
=============================================================================
