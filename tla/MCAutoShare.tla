----------------------------- MODULE MCAutoShare -----------------------------
(* AutoShare on a small instance for TLC. *)
EXTENDS AutoShare
=============================================================================
