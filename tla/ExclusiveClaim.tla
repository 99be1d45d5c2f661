-------------------------- MODULE ExclusiveClaim ---------------------------
(***************************************************************************)
(* What a claim promises its callers, with no files, tokens or clocks: a   *)
(* path is taken by one actor at a time, and is given back.  FileClaim     *)
(* implements it for two contenders (see FileClaim!Abstract).              *)
(***************************************************************************)
CONSTANTS Actors, Paths

VARIABLE holders   \* holders[p]: the actors that may act on p

ExInit == holders = [p \in Paths |-> {}]

Acquire(a, p) ==
  /\ holders[p] = {}
  /\ holders' = [holders EXCEPT ![p] = {a}]

\* By releaseClaim, or by the death of the holder.
GiveBack(a, p) ==
  /\ holders[p] = {a}
  /\ holders' = [holders EXCEPT ![p] = {}]

ExNext == \E a \in Actors, p \in Paths : Acquire(a, p) \/ GiveBack(a, p)

ExSpec == ExInit /\ [][ExNext]_holders
============================================================================
