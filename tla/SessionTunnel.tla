---------------------------- MODULE SessionTunnel ----------------------------
(***************************************************************************)
(* The dashboard's own public door: the one cloudflared quick tunnel the   *)
(* host opens and closes from the browser (dashboard/server.mjs, with the  *)
(* retry loop of dashboard/tunnel-start.mjs).                              *)
(*                                                                         *)
(* Every POST /api/tunnel that finds no tunnel runs a loop of its own:     *)
(* spawn, wait for a hostname on the process's output, and on failure      *)
(* sleep and spawn again.  The loops, the output and exits of every        *)
(* process they ever spawned, and DELETE /api/tunnel all write the same    *)
(* four fields.  Node runs each of them to its next await, so an action is *)
(* what happens between two awaits.                                        *)
(***************************************************************************)
EXTENDS Front

CONSTANTS Starts,      \* the POST /api/tunnel requests of one run
          MaxAttempts, \* spawns one start may make
          MaxStops     \* DELETE /api/tunnel requests (and last-share sweeps)

ASSUME TunnelConstants == MaxAttempts \in Nat \ {0} /\ MaxStops \in Nat

VARIABLES
  status,   \* tunnel.status
  own,      \* tunnel.proc: the process stopTunnel would kill
  url,      \* tunnel.url: the process whose hostname is published
  procs,    \* every cloudflared: unborn, alive, told (SIGTERM sent) or dead
  reported, \* the processes that have printed a hostname
  start,    \* each request: where its loop is, its attempt and its process
  stops,
  hasty     \* history: a start began while an older loop was still unwinding

vars == <<status, own, url, procs, reported, start, stops, hasty>>

New == [at |-> "new", n |-> 0, proc |-> None]

TypeOK ==
  /\ status \in {"stopped", "starting", "running", "error"}
  /\ own \in Procs \cup {None} /\ url \in Procs \cup {None}
  /\ procs \in [Procs -> {"unborn", "alive", "told", "dead"}]
  /\ reported \subseteq {p \in Procs : procs[p] # "unborn"}
  /\ start \in [Starts -> [at : {"new", "attempt", "backoff", "waiter", "answered"},
                           n : 0..MaxAttempts, proc : Procs \cup {None}]]
  /\ stops \in 0..MaxStops /\ hasty \in BOOLEAN

Init ==
  /\ status = "stopped" /\ own = None /\ url = None
  /\ procs = [p \in Procs |-> "unborn"] /\ reported = {}
  /\ start = [s \in Starts |-> New]
  /\ stops = 0 /\ hasty = FALSE

(* resolveTunnelWaiters: every request parked on a start gets the status. *)
WaitersOf(st) ==
  [s \in Starts |-> IF st[s].at = "waiter" THEN [st[s] EXCEPT !.at = "answered"] ELSE st[s]]

Unborn == {p \in Procs : procs[p] = "unborn"}
Fresh == CHOOSE p \in Unborn : TRUE

(* One spawn: the process becomes tunnel.proc whoever held it before. *)
Spawn(s) ==
  /\ Unborn # {}
  /\ own' = Fresh
  /\ procs' = [procs EXCEPT ![Fresh] = "alive"]
  /\ start' = [start EXCEPT ![s] = [at |-> "attempt", n |-> @.n + 1, proc |-> Fresh]]

(* POST /api/tunnel. *)
Begin(s) ==
  /\ start[s].at = "new" /\ status \in {"stopped", "error"}
  /\ status' = "starting" /\ url' = None
  /\ Spawn(s)
  /\ hasty' = (hasty \/ \E t \in Starts : start[t].at \in {"attempt", "backoff"})
  /\ UNCHANGED <<reported, stops>>

Join(s) ==
  /\ start[s].at = "new" /\ status \in {"starting", "running"}
  /\ start' = [start EXCEPT ![s].at = IF status = "running" THEN "answered" ELSE "waiter"]
  /\ UNCHANGED <<status, own, url, procs, reported, stops, hasty>>

Aborted == status # "starting"

(* What the loop does with a failed attempt: stop if the start is no longer *)
(* wanted, give up on a fatal error, on the last attempt or past the        *)
(* deadline, and otherwise sleep.                                           *)
AttemptFailed(s, spent) ==
  IF Aborted
    THEN /\ start' = [start EXCEPT ![s].at = "answered"]
         /\ UNCHANGED <<status, url>>
    ELSE IF spent \/ start[s].n = MaxAttempts
      THEN /\ status' = "error" /\ url' = None
           /\ start' = WaitersOf([start EXCEPT ![s].at = "answered"])
      ELSE /\ start' = [start EXCEPT ![s].at = "backoff"]
           /\ UNCHANGED <<status, url>>

(* onData: a hostname on the process's output publishes it, whatever the   *)
(* tunnel's state has become; the start that awaits the process is done.   *)
Hostname(p) ==
  /\ procs[p] \in {"alive", "told"} /\ p \notin reported
  /\ reported' = reported \cup {p}
  /\ status' = "running" /\ url' = p
  /\ start' = WaitersOf([s \in Starts |->
                 IF start[s].at = "attempt" /\ start[s].proc = p
                   THEN [start[s] EXCEPT !.at = "answered"] ELSE start[s]])
  /\ UNCHANGED <<own, procs, stops, hasty>>

(* The exit of a process that never printed a hostname, or its failure to  *)
(* spawn: it ends the attempt that still awaits it.                        *)
ExitSilent(p) ==
  /\ procs[p] \in {"alive", "told"} /\ p \notin reported
  /\ procs' = [procs EXCEPT ![p] = "dead"]
  /\ own' = IF own = p THEN None ELSE own
  /\ \/ \E s \in Starts, spent \in BOOLEAN :
          /\ start[s].at = "attempt" /\ start[s].proc = p
          /\ AttemptFailed(s, spent)
     \/ /\ \A s \in Starts : start[s].at = "attempt" => start[s].proc # p
        /\ UNCHANGED <<status, url, start>>
  /\ UNCHANGED <<reported, stops, hasty>>

(* The exit of a process that had: only the one tunnel.proc names speaks   *)
(* for the tunnel.                                                         *)
ExitReported(p) ==
  /\ procs[p] \in {"alive", "told"} /\ p \in reported
  /\ procs' = [procs EXCEPT ![p] = "dead"]
  /\ own' = IF own = p THEN None ELSE own
  /\ IF own = p /\ status # "stopped"
       THEN status' = "error" /\ url' = None /\ start' = WaitersOf(start)
       ELSE UNCHANGED <<status, url, start>>
  /\ UNCHANGED <<reported, stops, hasty>>

(* The mutated timer gives the attempt up and lets the process run on. *)
LeftRunning(p) == procs
Told(p) == IF procs[p] = "alive" THEN [procs EXCEPT ![p] = "told"] ELSE procs

(* The attempt's twenty seconds: SIGTERM, and the loop moves on. *)
AttemptTimeout(s) ==
  /\ start[s].at = "attempt"
  /\ procs' = Told(start[s].proc)
  /\ \E spent \in BOOLEAN : AttemptFailed(s, spent)
  /\ UNCHANGED <<own, reported, stops, hasty>>

(* The backoff is over. *)
Retry(s) ==
  /\ start[s].at = "backoff"
  /\ IF Aborted
       THEN /\ start' = [start EXCEPT ![s].at = "answered"]
            /\ UNCHANGED <<own, procs>>
       ELSE Spawn(s)
  /\ UNCHANGED <<status, url, reported, stops, hasty>>

(* The mutated stop leaves the requests parked on the start unanswered. *)
NobodyTold(st) == st
Answered(st) == WaitersOf(st)

(* stopTunnel: DELETE /api/tunnel, the last share's sweep, SIGTERM. *)
Stop ==
  /\ stops < MaxStops /\ stops' = stops + 1
  /\ procs' = IF own = None THEN procs ELSE Told(own)
  /\ own' = None /\ status' = "stopped" /\ url' = None
  /\ start' = Answered(start)
  /\ UNCHANGED <<reported, hasty>>

Next ==
  \/ \E s \in Starts : Begin(s) \/ Join(s) \/ AttemptTimeout(s) \/ Retry(s)
  \/ \E p \in Procs : Hostname(p) \/ ExitSilent(p) \/ ExitReported(p)
  \/ Stop

(* Both timers are armed by setTimeout and always fire; nothing else is    *)
(* promised: a process may print nothing and never exit.                   *)
Fairness == \A s \in Starts : WF_vars(AttemptTimeout(s)) /\ WF_vars(Retry(s))

Spec == Init /\ [][Next]_vars /\ Fairness

-----------------------------------------------------------------------------
(* A cloudflared nobody has told to stop is the one stopTunnel would kill, *)
(* and none is left once the tunnel reads stopped or failed - as long as   *)
(* no start begins while an older one is unwinding.                        *)
StopCloses ==
  ~hasty => \A p \in Procs :
    procs[p] = "alive" => own = p /\ status \in {"starting", "running"}

(* server.mjs 443-445: an exit that is not tunnel.proc's is "the corpse of *)
(* one we already gave up on" - a process tunnel.proc no longer names has  *)
(* been given up on.                                                       *)
OthersAreCorpses == \A p \in Procs : procs[p] = "alive" => own = p

(* Whatever stops, starts, exits and late hostnames do, every request to   *)
(* start the tunnel is answered.                                           *)
StartsAnswered ==
  \A s \in Starts : start[s].at # "new" ~> start[s].at = "answered"
=============================================================================
