----------------------------- MODULE MCEventLog -----------------------------
(* EventLog on small instances for TLC. *)
EXTENDS EventLog
=============================================================================
