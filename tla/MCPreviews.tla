------------------------------ MODULE MCPreviews ------------------------------
(* Previews on a small instance for TLC: every start is for the one session. *)
EXTENDS Previews
CONSTANTS l1, l2, sess
MCOwner == [m \in Leases |-> sess]
=============================================================================
