------------------------------- MODULE MCAccess -------------------------------
(* Access on a small instance for TLC: every guest has a link of the one share. *)
EXTENDS Access
CONSTANTS ann, bob, phone, share, d1, d2
MCLink == [g \in Guests |-> share]
=============================================================================
