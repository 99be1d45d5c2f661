----------------------------- MODULE MCWatcher -----------------------------
(***************************************************************************)
(* Instances of Watcher for TLC: the watcher is stopped and started again  *)
(* and one thing fails, or it runs on while the folder is renumbered and   *)
(* MaxDrops things fail.                                                   *)
(***************************************************************************)
EXTENDS Watcher

CONSTANTS c1, c2, f1, f2
VARIABLE scenario

TwoClients == {c1, c2}
TwoFetches == {f1, f2}

MCInit == WatcherInit /\ scenario \in {"restarts", "renumbers"}

MCNext ==
  /\ WatcherNext
  /\ UNCHANGED scenario
  /\ IF scenario = "restarts" THEN UNCHANGED epoch /\ drops' <= 1 ELSE ~stopping'

MCSpec == MCInit /\ [][MCNext]_<<watcherVars, scenario>> /\ WatcherFairness
============================================================================
