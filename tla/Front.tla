-------------------------------- MODULE Front --------------------------------
(***************************************************************************)
(* The front process runs a cloudflared for the dashboard (SessionTunnel)  *)
(* and one for every shared preview (AutoShare).  Their definitions carry  *)
(* different names, so that one module can extend both.                    *)
(***************************************************************************)
EXTENDS Naturals

CONSTANTS MaxSpawns,  \* cloudflared processes (bound)
          None        \* absent

ASSUME FrontConstants == MaxSpawns \in Nat \ {0} /\ None \notin Nat

(* Every spawnQuickTunnel is a process of its own. *)
Procs == 1..MaxSpawns
=============================================================================
