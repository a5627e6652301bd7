--------------------------- MODULE MCTurnControl ---------------------------
(* TurnControl on small instances for TLC. *)
EXTENDS TurnControl, TLC

Symmetry == Permutations(Peers)

(* What can break the pairing of authors, and each of the overlaps that can *)
(* break the pairing of flags; a late answer goes with two of them.         *)
MCAdmitted == {{"timeout", "losthook"}, {"timeout", "steer"}, {"notify"}, {"tail", "notify"},
               {"early"}, {"native"}, {"cross"}}
=============================================================================
