--------------------------- MODULE MCSessionTunnel ---------------------------
(* SessionTunnel on a small instance for TLC. *)
EXTENDS SessionTunnel
=============================================================================
