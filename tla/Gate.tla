-------------------------------- MODULE Gate --------------------------------
(***************************************************************************)
(* What the permission gate promises, without hooks, cards or timers: an   *)
(* ask is opened once, whoever may allow an ask of its kind may do so, and *)
(* it ends allowed only if somebody allowed that very ask.                 *)
(***************************************************************************)
CONSTANTS
    Asks,       \* the asks
    AskKinds,   \* what they may be about
    MayAllow(_) \* who may allow an ask of a kind

Nobody == "none"

VARIABLES
    about,      \* [Asks -> the kind of an opened ask, or "none"]
    status,     \* [Asks -> "idle", "open", "allow" or "deny"]
    allowedBy   \* [Asks -> who allowed it, or "none"]

vars == <<about, status, allowedBy>>

Init ==
    /\ about = [a \in Asks |-> "none"]
    /\ status = [a \in Asks |-> "idle"]
    /\ allowedBy = [a \in Asks |-> Nobody]

(* An ask is opened, and may be allowed by policy or refused at once. *)
Open(a, k) ==
    /\ status[a] = "idle"
    /\ about' = [about EXCEPT ![a] = k]
    /\ status' \in {[status EXCEPT ![a] = s] : s \in {"open", "deny"}}
    /\ \/ UNCHANGED allowedBy
       \/ "policy" \in MayAllow(k) /\ allowedBy' = [allowedBy EXCEPT ![a] = "policy"]

(* Somebody allows an ask; that it is still open is not promised. *)
Allow(a, by) ==
    /\ status[a] # "idle" /\ by \in MayAllow(about[a])
    /\ allowedBy' = [allowedBy EXCEPT ![a] = by]

(* The ask ends. *)
End(a, out) ==
    /\ status[a] = "open"
    /\ out = "allow" => allowedBy'[a] # Nobody
    /\ status' = [status EXCEPT ![a] = out]

Next ==
    \E a \in Asks :
        \/ \E k \in AskKinds : Open(a, k)
        \/ \E by \in {"host", "peer"} :
              UNCHANGED about /\ Allow(a, by) /\ (UNCHANGED status \/ End(a, "allow"))
        \/ \E out \in {"allow", "deny"} :
              UNCHANGED <<about, allowedBy>> /\ End(a, out)

Spec == Init /\ [][Next]_vars
=============================================================================
