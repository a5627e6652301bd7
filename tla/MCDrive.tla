-------------------------------- MODULE MCDrive -------------------------------
(* Drive on a small instance for TLC. *)
EXTENDS Drive
CONSTANTS p, q
=============================================================================
