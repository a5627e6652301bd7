------------------------- MODULE MCSessionLifecycle -------------------------
(* SessionLifecycle on small instances for TLC. *)
EXTENDS SessionLifecycle, TLC

(* The third id is there for the wakes and recoveries that need it: what it *)
(* is not needed for, burning, ends and failed clones, is left out with it. *)
Lean ==
  (\E i \in Ids : Unused(i)) \/ \A o \in Objs : slot[o] # None =>
     ~slot[o].burn /\ slot[o].ender = "no" /\ slot[o].status # "error"

(* One session at a time: the second id is the one a recovery or an id swap  *)
(* brings it back under, or the session that follows it.                     *)
OneSession ==
  \A o, p \in Objs :
    slot[o] # None /\ slot[p] # None => slot[o].cwd = slot[p].cwd

(* Slot objects and unused ids are interchangeable. *)
Symmetry == Permutations(Ids) \cup Permutations(Objs)
=============================================================================
