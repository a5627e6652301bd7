-------------------------- MODULE MCPermissionGate --------------------------
(* PermissionGate on a small instance for TLC. The kinds that are left out,  *)
(* "read", "share" and "enter", are answered like "bash", "critical" and     *)
(* "submit".                                                                 *)
EXTENDS PermissionGate

MCCalls == {"bash", "write", "critical", "ask", "submit", "async", "guest"}
=============================================================================
