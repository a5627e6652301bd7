----------------------------- MODULE GatePolicy -----------------------------
(***************************************************************************)
(* What the permission gate answers to a tool call before any human is     *)
(* asked: the order of the early returns of createPermissionRequest, over  *)
(* the classes of tools it tells apart.                                    *)
(*                                                                         *)
(*   read      a read inside the session's directory                       *)
(*   bash      a shell command outside the critical set                    *)
(*   write     any other tool call with an effect, outside that set        *)
(*   critical  git, destructive or secret-touching commands, a path        *)
(*             outside the session's directory, an MCP write               *)
(*   share     share_preview: publishing a preview                         *)
(*   ask       AskUserQuestion and its bundled alias                       *)
(*   submit    submit_plan                                                 *)
(*   enter     enter_plan_mode                                             *)
(*   async     the preview and page tools the sandbox runs itself          *)
(***************************************************************************)

Kinds == {"read", "bash", "write", "critical", "share", "ask", "submit", "enter", "async"}

(* The kinds that change something outside the conversation. *)
Mutating == {"bash", "write", "critical", "share", "async"}

(* What markCritical stamps on the request: the host's alone to decide. *)
Critical == {"critical", "share"}

(* The three ways a session may approve unattended. *)
Unattended(f) == f.planRun \/ f.trusted \/ f.auto

(***************************************************************************)
(* The possible answers: an immediate "allow" or "deny", a "card" for a    *)
(* human, or "later" when the sandbox settles the call after the work is   *)
(* done.  f holds the session's flags when the call arrives.  A share has  *)
(* two: whether there is a running preview to share is not modelled.       *)
(***************************************************************************)
Answers(k, f) ==
  LET refused == k \in {"submit", "enter"} \/ (f.planTurn /\ k \notin {"read", "ask"}) IN
  IF refused THEN {"deny"}
  ELSE CASE k = "async"           -> {"later"}
         [] k \in {"read", "bash"} -> {"allow"}
         [] k = "write"           -> IF Unattended(f) THEN {"allow"} ELSE {"card"}
         [] k = "share"           -> {"deny", "card"}
         [] OTHER                 -> {"card"}

=============================================================================
