---------------------------- MODULE FrontProofs ----------------------------
(***************************************************************************)
(* Proofs about the two halves of the front, SessionTunnel and AutoShare,  *)
(* for any number of starts, attempts, processes, stops, slots, previews   *)
(* and failures: the types, that no process is left alive behind a stopped *)
(* tunnel as long as starts do not overlap, and that every preview tunnel  *)
(* is one the front knows as long as no two of one slot overlap and none   *)
(* that was given up reports late.                                         *)
(***************************************************************************)
EXTENDS SessionTunnel, AutoShare, WellFoundedInduction, TLAPS

Loop(s) == start[s].at \in {"attempt", "backoff"}

(* What a request's loop is owed: attempts left while it sleeps, and a     *)
(* process that was born, and is told or dead once the attempt is over.    *)
LoopsOK ==
  \A s \in Starts :
    /\ start[s].at = "new" => start[s].n = 0
    /\ start[s].at = "backoff" => start[s].n < MaxAttempts
    /\ Loop(s) => start[s].proc \in Procs /\ procs[start[s].proc] # "unborn"
    /\ start[s].at = "backoff" => procs[start[s].proc] # "alive"

(* While starts do not overlap there is one loop, and tunnel.proc, if it   *)
(* names a process, names the loop's.                                      *)
OneLoop ==
  ~hasty => /\ \A s, t \in Starts : Loop(s) /\ Loop(t) => s = t
            /\ \A s \in Starts : Loop(s) /\ own # None => start[s].proc = own

IInv == TypeOK /\ LoopsOK /\ OneLoop /\ StopCloses

(* What the constants are. *)
LEMMA FrontFacts ==
  /\ MaxAttempts \in Nat \ {0} /\ MaxSpawns \in Nat \ {0} /\ MaxStops \in Nat
  /\ None \notin Procs
BY FrontConstants, TunnelConstants DEF Procs

LEMMA FreshIsUnborn == ASSUME Unborn # {} PROVE Fresh \in Procs /\ procs[Fresh] = "unborn"
  BY DEF Fresh, Unborn

LEMMA InitInv == Init => IInv
<1> SUFFICES ASSUME Init PROVE IInv OBVIOUS
<1>1. New \in [at : {"new", "attempt", "backoff", "waiter", "answered"},
             n : 0..MaxAttempts, proc : Procs \cup {None}]
  BY FrontFacts DEF New
<1>2. /\ \A s \in Starts : start[s].at = "new" /\ start[s].n = 0
      /\ \A p \in Procs : procs[p] # "alive"
      /\ procs \in [Procs -> {"unborn", "alive", "told", "dead"}]
  BY DEF Init, New
<1>3. TypeOK
  <2>1. start \in [Starts -> [at : {"new", "attempt", "backoff", "waiter", "answered"},
                             n : 0..MaxAttempts, proc : Procs \cup {None}]]
    BY <1>1 DEF Init
  <2>2. 0 \in 0..MaxStops BY FrontFacts
  <2>3. status = "stopped" /\ own = None /\ url = None /\ reported = {} /\ stops = 0 /\ hasty = FALSE
    BY DEF Init
  <2> QED BY <1>2, <2>1, <2>2, <2>3 DEF TypeOK
<1>4. LoopsOK /\ OneLoop BY <1>2 DEF LoopsOK, OneLoop, Loop
<1>5. StopCloses BY <1>2 DEF StopCloses
<1> QED BY <1>3, <1>4, <1>5 DEF IInv

LEMMA SpawnInv ==
  ASSUME IInv, NEW s \in Starts, Spawn(s), UNCHANGED reported,
         start[s].n < MaxAttempts, start[s].at \in {"new", "backoff"}
  PROVE  /\ own' = Fresh /\ own' \in Procs /\ procs' \in [Procs -> {"unborn", "alive", "told", "dead"}]
         /\ reported' \subseteq {p \in Procs : procs'[p] # "unborn"}
         /\ start' \in [Starts -> [at : {"new", "attempt", "backoff", "waiter", "answered"},
                           n : 0..MaxAttempts, proc : Procs \cup {None}]]
         /\ LoopsOK'
         /\ start'[s].at = "attempt" /\ start'[s].proc = Fresh
         /\ \A t \in Starts \ {s} : start'[t] = start[t]
         /\ procs'[Fresh] = "alive"
         /\ \A p \in Procs : p # Fresh => procs'[p] = procs[p]
<1>1. Fresh \in Procs /\ procs[Fresh] = "unborn" BY FreshIsUnborn DEF Spawn
<1>2. procs' = [procs EXCEPT ![Fresh] = "alive"] /\ own' = Fresh BY DEF Spawn
<1>3. start[s].n + 1 \in 0..MaxAttempts BY FrontFacts DEF IInv, TypeOK
<1>4. start' = [start EXCEPT ![s] = [at |-> "attempt", n |-> start[s].n + 1, proc |-> Fresh]]
  BY DEF Spawn
<1>5. start' \in [Starts -> [at : {"new", "attempt", "backoff", "waiter", "answered"},
                           n : 0..MaxAttempts, proc : Procs \cup {None}]]
  BY <1>1, <1>3, <1>4 DEF IInv, TypeOK
<1>6. LoopsOK'
  BY <1>1, <1>2, <1>4 DEF IInv, TypeOK, LoopsOK, Loop
<1> QED BY <1>1, <1>2, <1>4, <1>5, <1>6 DEF IInv, TypeOK

LEMMA BeginInv == ASSUME IInv, NEW s \in Starts, Begin(s) PROVE IInv'
<1>1. start[s].n < MaxAttempts /\ start[s].at = "new"
  BY FrontFacts DEF Begin, IInv, TypeOK, LoopsOK
<1>2. Spawn(s) /\ UNCHANGED <<reported, stops>> /\ status' = "starting" /\ url' = None
      /\ status \in {"stopped", "error"}
      /\ hasty' = (hasty \/ \E t \in Starts : Loop(t))
  BY DEF Begin, Loop
<1>3. TypeOK' BY <1>1, <1>2, SpawnInv DEF IInv, TypeOK
<1>4. LoopsOK' BY <1>1, <1>2, SpawnInv
<1>5. CASE hasty' BY <1>3, <1>4, <1>5 DEF IInv, OneLoop, StopCloses
<1>6. CASE ~hasty'
  <2>1. ~hasty /\ \A t \in Starts : ~Loop(t) BY <1>2, <1>6
  <2>2. \A p \in Procs : procs[p] # "alive" BY <1>2, <2>1 DEF IInv, StopCloses
  <2>3. OneLoop' BY <1>1, <1>2, <2>1, SpawnInv DEF OneLoop, Loop
  <2>4. StopCloses' BY <1>1, <1>2, <2>2, SpawnInv DEF StopCloses
  <2> QED BY <1>3, <1>4, <2>3, <2>4 DEF IInv
<1> QED BY <1>5, <1>6

LEMMA RetryInv == ASSUME IInv, NEW s \in Starts, Retry(s) PROVE IInv'
<1>1. CASE Aborted
  BY <1>1 DEF Retry, IInv, TypeOK, LoopsOK, OneLoop, StopCloses, Loop
<1>2. CASE ~Aborted
  <2>1. /\ Spawn(s) /\ UNCHANGED <<status, url, reported, stops, hasty>>
        /\ status = "starting" /\ start[s].at = "backoff"
    BY <1>2 DEF Retry, Aborted
  <2>2. start[s].n < MaxAttempts BY <2>1 DEF IInv, LoopsOK
  <2>3. TypeOK' BY <2>1, <2>2, SpawnInv DEF IInv, TypeOK
  <2>4. LoopsOK' BY <2>1, <2>2, SpawnInv
  <2>5. ASSUME ~hasty, NEW p \in Procs PROVE procs[p] # "alive"
    <3>1. SUFFICES ASSUME procs[p] = "alive" PROVE FALSE OBVIOUS
    <3>2. own = p /\ own # None BY <2>5, <3>1, FrontFacts DEF IInv, StopCloses
    <3>3. start[s].proc = p BY <2>1, <2>5, <3>2 DEF IInv, OneLoop, Loop
    <3> QED BY <2>1, <3>1, <3>3 DEF IInv, LoopsOK
  <2>6. OneLoop' BY <2>1, <2>2, SpawnInv DEF IInv, OneLoop, Loop
  <2>7. StopCloses' BY <2>1, <2>2, <2>5, SpawnInv DEF StopCloses
  <2> QED BY <2>3, <2>4, <2>6, <2>7 DEF IInv
<1> QED BY <1>1, <1>2

LEMMA JoinInv == ASSUME IInv, NEW s \in Starts, Join(s) PROVE IInv'
<1> DEFINE to == IF status = "running" THEN "answered" ELSE "waiter"
<1>a. start' = [start EXCEPT ![s].at = to] BY DEF Join
<1>b. to \in {"answered", "waiter"} OBVIOUS
<1> HIDE DEF to
<1>1. /\ start[s].at = "new" /\ UNCHANGED <<status, own, url, procs, reported, stops, hasty>>
      /\ \A t \in Starts : t # s => start'[t] = start[t]
      /\ start'[s].at \in {"answered", "waiter"}
      /\ start' \in [Starts -> [at : {"new", "attempt", "backoff", "waiter", "answered"},
                           n : 0..MaxAttempts, proc : Procs \cup {None}]]
  <2>1. start[s].at = "new" /\ UNCHANGED <<status, own, url, procs, reported, stops, hasty>>
    BY DEF Join
  <2>2. start \in [Starts -> [at : {"new", "attempt", "backoff", "waiter", "answered"},
                           n : 0..MaxAttempts, proc : Procs \cup {None}]]
    BY DEF IInv, TypeOK
  <2>3. start'[s] = [start[s] EXCEPT !.at = to] /\ \A t \in Starts : t # s => start'[t] = start[t]
    BY <1>a, <2>2
  <2>4. /\ start'[s].at = to
        /\ start'[s] \in [at : {"new", "attempt", "backoff", "waiter", "answered"},
                          n : 0..MaxAttempts, proc : Procs \cup {None}]
    BY <1>b, <2>2, <2>3
  <2>5. start' \in [Starts -> [at : {"new", "attempt", "backoff", "waiter", "answered"},
                           n : 0..MaxAttempts, proc : Procs \cup {None}]]
    BY <1>a, <2>2, <2>3, <2>4
  <2>6. start'[s].at \in {"answered", "waiter"} BY <1>b, <2>4
  <2> QED BY <2>1, <2>3, <2>5, <2>6
<1>2. TypeOK' BY <1>1 DEF IInv, TypeOK
<1>3. LoopsOK' BY <1>1 DEF IInv, LoopsOK, Loop
<1>4. OneLoop' BY <1>1 DEF IInv, OneLoop, Loop
<1>5. StopCloses' BY <1>1 DEF IInv, StopCloses
<1> QED BY <1>2, <1>3, <1>4, <1>5 DEF IInv

(* Answering parked requests changes no loop. *)
LEMMA WaitersKeep ==
  ASSUME NEW st, st \in [Starts -> [at : {"new", "attempt", "backoff", "waiter", "answered"},
                           n : 0..MaxAttempts, proc : Procs \cup {None}]]
  PROVE  /\ WaitersOf(st) \in [Starts -> [at : {"new", "attempt", "backoff", "waiter", "answered"},
                           n : 0..MaxAttempts, proc : Procs \cup {None}]]
         /\ \A s \in Starts : WaitersOf(st)[s] = st[s] \/ WaitersOf(st)[s].at = "answered"
  BY DEF WaitersOf

(* A step that only ends loops, and lets no process live that did not. *)
LEMMA OnlyEnds ==
  ASSUME IInv, UNCHANGED hasty,
         start' \in [Starts -> [at : {"new", "attempt", "backoff", "waiter", "answered"},
                           n : 0..MaxAttempts, proc : Procs \cup {None}]],
         procs' \in [Procs -> {"unborn", "alive", "told", "dead"}],
         \A s \in Starts : start'[s] = start[s] \/ start'[s].at = "answered",
         \A p \in Procs : /\ procs[p] = "unborn" <=> procs'[p] = "unborn"
                          /\ procs'[p] = "alive" => procs[p] = "alive",
         own' \in {own, None}
  PROVE  LoopsOK' /\ OneLoop'
  BY DEF IInv, TypeOK, LoopsOK, OneLoop, Loop

LEMMA HostnameInv == ASSUME IInv, NEW p \in Procs, Hostname(p) PROVE IInv'
<1> DEFINE st == [s \in Starts |->
                 IF start[s].at = "attempt" /\ start[s].proc = p
                   THEN [start[s] EXCEPT !.at = "answered"] ELSE start[s]]
<1>1. /\ procs[p] \in {"alive", "told"} /\ reported' = reported \cup {p}
      /\ status' = "running" /\ url' = p /\ start' = WaitersOf(st)
      /\ UNCHANGED <<own, procs, stops, hasty>>
  BY DEF Hostname
<1>2. /\ st \in [Starts -> [at : {"new", "attempt", "backoff", "waiter", "answered"},
                           n : 0..MaxAttempts, proc : Procs \cup {None}]]
      /\ \A s \in Starts : st[s] = start[s] \/ st[s].at = "answered"
  BY DEF IInv, TypeOK
<1> HIDE DEF st
<1>3. /\ start' \in [Starts -> [at : {"new", "attempt", "backoff", "waiter", "answered"},
                           n : 0..MaxAttempts, proc : Procs \cup {None}]]
      /\ \A s \in Starts : start'[s] = start[s] \/ start'[s].at = "answered"
  BY <1>1, <1>2, WaitersKeep
<1>4. TypeOK' BY <1>1, <1>3 DEF IInv, TypeOK
<1>5. LoopsOK' /\ OneLoop' BY <1>1, <1>3, OnlyEnds DEF IInv, TypeOK
<1>6. StopCloses' BY <1>1 DEF IInv, StopCloses
<1> QED BY <1>4, <1>5, <1>6 DEF IInv

(* The end of an attempt whose process no longer lives. *)
LEMMA AttemptFailedInv ==
  ASSUME IInv, NEW s \in Starts, NEW late \in BOOLEAN, AttemptFailed(s, late),
         start[s].at = "attempt", UNCHANGED <<reported, stops, hasty>>,
         own' = own \/ (own' = None /\ own = start[s].proc),
         procs' \in [Procs -> {"unborn", "alive", "told", "dead"}],
         \A p \in Procs : /\ procs[p] = "unborn" <=> procs'[p] = "unborn"
                          /\ procs'[p] = "alive" => procs[p] = "alive",
         procs'[start[s].proc] # "alive"
  PROVE  IInv'
<1>1. start[s].proc \in Procs BY DEF IInv, LoopsOK, Loop
<1>2. ~hasty => \A p \in Procs : procs'[p] # "alive"
  <2> SUFFICES ASSUME ~hasty, NEW p \in Procs, procs'[p] = "alive" PROVE FALSE OBVIOUS
  <2>1. own = p /\ own # None BY FrontFacts DEF IInv, StopCloses
  <2>2. start[s].proc = p BY <2>1 DEF IInv, OneLoop, Loop
  <2> QED BY <2>2
<1>3. StopCloses' BY <1>2 DEF StopCloses
<1>4. /\ status' \in {"stopped", "starting", "running", "error"} /\ url' \in Procs \cup {None}
  BY DEF AttemptFailed, IInv, TypeOK
<1>5. /\ start' \in [Starts -> [at : {"new", "attempt", "backoff", "waiter", "answered"},
                           n : 0..MaxAttempts, proc : Procs \cup {None}]]
      /\ \A t \in Starts \ {s} : start'[t] = start[t] \/ start'[t].at = "answered"
      /\ \/ start'[s].at = "answered"
         \/ start'[s].at = "backoff" /\ start'[s].proc = start[s].proc
            /\ start'[s].n = start[s].n /\ start[s].n # MaxAttempts
  <2>1. CASE Aborted BY <2>1 DEF AttemptFailed, IInv, TypeOK
  <2>2. CASE ~Aborted /\ (late \/ start[s].n = MaxAttempts)
    <3> DEFINE st == [start EXCEPT ![s].at = "answered"]
    <3>1. start' = WaitersOf(st) BY <2>2 DEF AttemptFailed
    <3>2. /\ st \in [Starts -> [at : {"new", "attempt", "backoff", "waiter", "answered"},
                           n : 0..MaxAttempts, proc : Procs \cup {None}]]
          /\ \A t \in Starts \ {s} : st[t] = start[t]
          /\ st[s].at = "answered"
      BY DEF IInv, TypeOK
    <3> HIDE DEF st
    <3> QED BY <3>1, <3>2, WaitersKeep
  <2>3. CASE ~Aborted /\ ~(late \/ start[s].n = MaxAttempts)
    BY <2>3 DEF AttemptFailed, IInv, TypeOK
  <2> QED BY <2>1, <2>2, <2>3
<1>6. TypeOK' BY <1>4, <1>5 DEF IInv, TypeOK
<1>7. LoopsOK'
  <2>1. start[s].n \in 0..MaxAttempts BY DEF IInv, TypeOK
  <2>2. start'[s].at = "backoff" => start'[s].n < MaxAttempts BY <1>5, <2>1, FrontFacts
  <2>3. Loop(s)' => start'[s].proc = start[s].proc BY <1>5 DEF Loop
  <2>4. start'[s].at # "new" BY <1>5
  <2>5. procs[start[s].proc] # "unborn" BY DEF IInv, LoopsOK, Loop
  <2>6. ASSUME NEW t \in Starts \ {s}
        PROVE  /\ start'[t].at = "new" => start'[t].n = 0
               /\ start'[t].at = "backoff" => start'[t].n < MaxAttempts
               /\ Loop(t)' => start'[t].proc \in Procs /\ procs'[start'[t].proc] # "unborn"
               /\ start'[t].at = "backoff" => procs'[start'[t].proc] # "alive"
    BY <1>5 DEF IInv, LoopsOK, Loop
  <2> QED BY <1>1, <2>2, <2>3, <2>4, <2>5, <2>6 DEF LoopsOK, Loop
<1>8. OneLoop' BY <1>5 DEF IInv, OneLoop, Loop
<1> QED BY <1>3, <1>6, <1>7, <1>8 DEF IInv

LEMMA ExitSilentInv == ASSUME IInv, NEW p \in Procs, ExitSilent(p) PROVE IInv'
<1>1. /\ procs[p] \in {"alive", "told"} /\ procs' = [procs EXCEPT ![p] = "dead"]
      /\ own' = IF own = p THEN None ELSE own
      /\ UNCHANGED <<reported, stops, hasty>>
  BY DEF ExitSilent
<1>2. /\ procs' \in [Procs -> {"unborn", "alive", "told", "dead"}]
      /\ \A q \in Procs : /\ procs[q] = "unborn" <=> procs'[q] = "unborn"
                          /\ procs'[q] = "alive" => procs[q] = "alive" /\ q # p
      /\ procs'[p] # "alive"
  BY <1>1 DEF IInv, TypeOK
<1>3. CASE \E s \in Starts, late \in BOOLEAN :
          /\ start[s].at = "attempt" /\ start[s].proc = p
          /\ AttemptFailed(s, late)
  <2>1. PICK s \in Starts, late \in BOOLEAN :
          start[s].at = "attempt" /\ start[s].proc = p /\ AttemptFailed(s, late)
    BY <1>3
  <2>2. own' = own \/ (own' = None /\ own = start[s].proc) BY <1>1, <2>1
  <2>3. procs'[start[s].proc] # "alive" BY <1>2, <2>1
  <2> QED BY <1>1, <1>2, <2>1, <2>2, <2>3, AttemptFailedInv
<1>4. CASE UNCHANGED <<status, url, start>>
  <2>1. LoopsOK' /\ OneLoop' BY <1>1, <1>2, <1>4, OnlyEnds DEF IInv, TypeOK
  <2>2. TypeOK' BY <1>1, <1>2, <1>4 DEF IInv, TypeOK
  <2>3. StopCloses' BY <1>1, <1>2, <1>4 DEF IInv, StopCloses
  <2> QED BY <2>1, <2>2, <2>3 DEF IInv
<1> QED BY <1>3, <1>4 DEF ExitSilent

LEMMA ExitReportedInv == ASSUME IInv, NEW p \in Procs, ExitReported(p) PROVE IInv'
<1>1. /\ procs[p] \in {"alive", "told"} /\ procs' = [procs EXCEPT ![p] = "dead"]
      /\ own' = IF own = p THEN None ELSE own
      /\ UNCHANGED <<reported, stops, hasty>>
  BY DEF ExitReported
<1>2. /\ procs' \in [Procs -> {"unborn", "alive", "told", "dead"}]
      /\ \A q \in Procs : /\ procs[q] = "unborn" <=> procs'[q] = "unborn"
                          /\ procs'[q] = "alive" => procs[q] = "alive" /\ q # p
  BY <1>1 DEF IInv, TypeOK
<1>3. /\ start' \in [Starts -> [at : {"new", "attempt", "backoff", "waiter", "answered"},
                           n : 0..MaxAttempts, proc : Procs \cup {None}]]
      /\ \A s \in Starts : start'[s] = start[s] \/ start'[s].at = "answered"
  BY WaitersKeep DEF ExitReported, IInv, TypeOK
<1>4. status' \in {"stopped", "starting", "running", "error"} /\ url' \in Procs \cup {None}
  BY DEF ExitReported, IInv, TypeOK
<1>5. TypeOK' BY <1>1, <1>2, <1>3, <1>4 DEF IInv, TypeOK
<1>6. LoopsOK' /\ OneLoop' BY <1>1, <1>2, <1>3, OnlyEnds
<1>7. StopCloses'
  <2>1. CASE own = p BY <1>1, <1>2, <2>1 DEF IInv, StopCloses
  <2>2. CASE own # p
    <3>1. UNCHANGED <<status, own>> BY <1>1, <2>2 DEF ExitReported
    <3> QED BY <1>1, <1>2, <3>1 DEF IInv, StopCloses
  <2> QED BY <2>1, <2>2
<1> QED BY <1>5, <1>6, <1>7 DEF IInv

LEMMA AttemptTimeoutInv == ASSUME IInv, NEW s \in Starts, AttemptTimeout(s) PROVE IInv'
<1>1. /\ start[s].at = "attempt" /\ procs' = Told(start[s].proc)
      /\ UNCHANGED <<own, reported, stops, hasty>>
  BY DEF AttemptTimeout
<1>2. PICK late \in BOOLEAN : AttemptFailed(s, late) BY DEF AttemptTimeout
<1>3. start[s].proc \in Procs BY <1>1 DEF IInv, LoopsOK, Loop
<1>4. /\ procs' \in [Procs -> {"unborn", "alive", "told", "dead"}]
      /\ \A p \in Procs : /\ procs[p] = "unborn" <=> procs'[p] = "unborn"
                          /\ procs'[p] = "alive" => procs[p] = "alive"
      /\ procs'[start[s].proc] # "alive"
  BY <1>1, <1>3 DEF Told, IInv, TypeOK
<1> QED BY <1>1, <1>2, <1>4, AttemptFailedInv

LEMMA StopInv == ASSUME IInv, Stop PROVE IInv'
<1>1. /\ procs' = IF own = None THEN procs ELSE Told(own)
      /\ own' = None /\ status' = "stopped" /\ url' = None
      /\ start' = WaitersOf(start) /\ UNCHANGED <<reported, hasty>>
      /\ stops' \in 0..MaxStops
  BY FrontFacts DEF Stop, Answered, IInv, TypeOK
<1>2. /\ procs' \in [Procs -> {"unborn", "alive", "told", "dead"}]
      /\ \A p \in Procs : /\ procs[p] = "unborn" <=> procs'[p] = "unborn"
                          /\ procs'[p] = "alive" => procs[p] = "alive" /\ p # own
  BY <1>1, FrontFacts DEF Told, IInv, TypeOK
<1>3. /\ start' \in [Starts -> [at : {"new", "attempt", "backoff", "waiter", "answered"},
                           n : 0..MaxAttempts, proc : Procs \cup {None}]]
      /\ \A s \in Starts : start'[s] = start[s] \/ start'[s].at = "answered"
  BY <1>1, WaitersKeep DEF IInv, TypeOK
<1>4. TypeOK' BY <1>1, <1>2, <1>3 DEF IInv, TypeOK
<1>5. LoopsOK' /\ OneLoop' BY <1>1, <1>2, <1>3, OnlyEnds
<1>6. StopCloses' BY <1>1, <1>2 DEF IInv, StopCloses
<1> QED BY <1>4, <1>5, <1>6 DEF IInv

LEMMA InvStep == IInv /\ [Next]_vars => IInv'
<1> SUFFICES ASSUME IInv, [Next]_vars PROVE IInv' OBVIOUS
<1>1. CASE UNCHANGED vars
  BY <1>1 DEF vars, IInv, TypeOK, LoopsOK, OneLoop, StopCloses, Loop
<1> QED BY <1>1, BeginInv, JoinInv, AttemptTimeoutInv, RetryInv, HostnameInv, ExitSilentInv,
          ExitReportedInv, StopInv DEF Next

(* Every variable of SessionTunnel always has its type. *)
THEOREM TypeCorrect == Spec => []TypeOK
<1>1. IInv => TypeOK BY DEF IInv
<1> QED BY <1>1, InitInv, InvStep, PTL DEF Spec

(* A cloudflared nobody has told to stop is the one stopTunnel would kill, *)
(* and none outlives a stop or a failure, unless starts overlap.           *)
THEOREM NoneLeftBehind == Spec => []StopCloses
<1>1. IInv => StopCloses BY DEF IInv
<1> QED BY <1>1, InitInv, InvStep, PTL DEF Spec

-----------------------------------------------------------------------------
(***************************************************************************)
(* AutoShare.  TunnelsKnown is not inductive: a process that comes up is   *)
(* recorded in the place of whatever was, so a slot must have one process  *)
(* but for those given up (OneEach); an exit forgets what is recorded for  *)
(* its slot, so what is recorded must be of that slot (RecordedFits); and  *)
(* an opener must not start another attempt while it has one (OpenFits,    *)
(* WaitFits).  Known is the conjunction.                                   *)
(***************************************************************************)

(* A process is none at all, or was started for a slot. *)
ProcsFit ==
  \A p \in Procs :
    IF children[p].is = "none" THEN children[p] = NoProc ELSE children[p].slot \in Slots

(* The attempt an opener waits for is silent, for its slot, and no other's.*)
OpenFits ==
  /\ \A w \in Openers :
       /\ opening[w].slot = None => opening[w].proc = None
       /\ opening[w].slot # None /\ opening[w].proc = None => opening[w].n < MaxTries
       /\ opening[w].proc # None =>
            children[opening[w].proc] = [slot |-> opening[w].slot, is |-> "silent"]
  /\ \A v, w \in Openers : opening[w].proc # None /\ opening[v].proc = opening[w].proc => v = w

(* What previewTunnels holds for a slot was started for it and is up. *)
RecordedFits ==
  \A k \in Slots : tunnels[k] # None => children[tunnels[k]] = [slot |-> k, is |-> "up"]

(* Without a tangle a slot has one process, and others it has given up. *)
OneEach ==
  ~tangled => \A p, q \in Procs :
    children[p].slot = children[q].slot /\ children[p].slot # None
      /\ children[p].is # "givenup" /\ children[q].is # "givenup" => p = q

Core == ProcsFit /\ OpenFits /\ RecordedFits /\ OneEach /\ TunnelsKnown

(* Who waits for a tunnel is at that point. *)
WaitFits ==
  /\ opening["pass"].slot # None => sweep.at = "starting"
  /\ opening["hand"].slot # None => byHand.at = "starting"
  /\ byHand.at # "idle" => byHand.slot \in Slots
  /\ sweep.at \in {"starting", "recording"} => sweep.todo # {}

Known == Core /\ WaitFits

LEMMA LeastExists ==
  ASSUME NEW T, T \subseteq Nat, T # {}
  PROVE  \E x \in T : \A y \in T : x <= y
<1> DEFINE R == OpToRel(<, Nat)
<1>1. IsWellFoundedOn(R, Nat) BY NatLessThanWellFounded
<1>2. \A x, y \in Nat : y < x => <<y, x>> \in R BY DEF OpToRel
<1> HIDE DEF R
<1>3. PICK x \in T : \A y \in T : ~(<<y, x>> \in R) BY <1>1, WFMin
<1>4. \A y \in T : ~(y < x) BY <1>2, <1>3
<1> QED BY <1>3, <1>4

LEMMA FreshFacts ==
  ASSUME Free # {} PROVE FreshTunnel \in Procs /\ children[FreshTunnel] = NoProc
<1>1. Free \subseteq Nat BY FrontFacts DEF Free, Procs
<1>2. FreshTunnel \in Free BY <1>1, LeastExists DEF FreshTunnel
<1> QED BY <1>2 DEF Free

LEMMA FreshIdFacts ==
  ASSUME NEW k \in Slots, FreshIds(k) # {} PROVE FreshId(k) \in Ids
<1>1. FreshIds(k) \subseteq Nat BY AutoShareConstants DEF FreshIds, Ids
<1>2. FreshId(k) \in FreshIds(k) BY <1>1, LeastExists DEF FreshId
<1> QED BY <1>2 DEF FreshIds

LEMMA SlotFacts ==
  ASSUME ShareTypeOK, sweep.todo # {}
  PROVE  Slot \in sweep.todo /\ Slot \in Slots
<1>1. sweep.todo \subseteq Slots BY DEF ShareTypeOK, PassRec
<1>2. Slot \in sweep.todo BY <1>1, LeastExists, AutoShareConstants DEF Slot
<1> QED BY <1>1, <1>2

LEMMA NothingTypes ==
  /\ NoProc \in ProcRec /\ NoProc.is = "none" /\ NoProc.slot = None
  /\ NoPreview \in PreviewRec
  /\ NotOpening \in OpenRec /\ NotOpening.slot = None /\ NotOpening.proc = None
  /\ IdlePass \in PassRec /\ IdlePass.at = "idle"
  /\ [IdlePass EXCEPT !.at = "previews"] \in PassRec
  /\ IdleHand \in HandRec /\ IdleHand.at = "idle"
<1>1. 0 \in Ids /\ 0 \in 0..MaxTries BY AutoShareConstants DEF Ids
<1>2. NoPreview \in PreviewRec BY <1>1 DEF NoPreview, PreviewRec
<1>3. NothingSeen \in [Slots -> PreviewRec] BY <1>2 DEF NothingSeen
<1>4. NotOpening \in OpenRec /\ NotOpening.slot = None /\ NotOpening.proc = None
  BY <1>1 DEF NotOpening, OpenRec
<1>5. IdlePass \in PassRec /\ IdlePass.at = "idle" /\ [IdlePass EXCEPT !.at = "previews"] \in PassRec
  BY <1>3 DEF IdlePass, PassRec
<1> QED BY <1>1, <1>2, <1>4, <1>5 DEF NoProc, ProcRec, IdleHand, HandRec

LEMMA SpentType ==
  ASSUME spent \in SpentRec, Event \/ Fault \/ spent' = spent PROVE spent' \in SpentRec
BY DEF Event, Fault, SpentRec

LEMMA ClosedTypes ==
  ASSUME ShareTypeOK, NEW ks, Closed(ks)
  PROVE  /\ tunnels' \in [Slots -> Procs \cup {None}] /\ children' \in [Procs -> ProcRec]
BY DEF Closed, ShareTypeOK, ProcRec

LEMMA SpawnedTypes ==
  ASSUME ShareTypeOK, NEW w \in Openers, NEW k \in Slots, NEW n \in 0..MaxTries, Spawned(w, k, n)
  PROVE  children' \in [Procs -> ProcRec] /\ opening' \in [Openers -> OpenRec] /\ tangled' \in BOOLEAN
<1>1. FreshTunnel \in Procs BY FreshFacts DEF Spawned
<1>2. [slot |-> k, is |-> "silent"] \in ProcRec BY DEF ProcRec
<1>3. [slot |-> k, proc |-> FreshTunnel, n |-> n] \in OpenRec BY <1>1 DEF OpenRec
<1> QED BY <1>1, <1>2, <1>3 DEF Spawned, ShareTypeOK

LEMMA PassEndsTypes ==
  ASSUME ShareTypeOK, NEW b \in BOOLEAN, PassEnds(b)
  PROVE  /\ sweep' = IdlePass /\ retried' \in BOOLEAN /\ amiss' \in BOOLEAN
         /\ timer' \in BOOLEAN /\ missed' \in BOOLEAN
BY DEF PassEnds, ShareTypeOK

LEMMA ShareInitInv == ShareInit => ShareTypeOK /\ Known
<1> SUFFICES ASSUME ShareInit PROVE ShareTypeOK /\ Known OBVIOUS
<1>1. spent \in SpentRec BY DEF ShareInit, SpentRec
<1>2. ShareTypeOK BY <1>1, NothingTypes DEF ShareInit, ShareTypeOK
<1>3. Known
  BY NothingTypes, FrontFacts DEF ShareInit, Known, Core, WaitFits, ProcsFit, RecordedFits, OpenFits,
     OneEach, TunnelsKnown, Openers
<1> QED BY <1>2, <1>3

-----------------------------------------------------------------------------
(* Types, action by action. *)
LEMMA SandboxTypes ==
  ASSUME ShareTypeOK, NEW k \in Slots,
         \/ PreviewUp(k) \/ PreviewDown(k) \/ \E runs \in BOOLEAN : PreviewRuns(k, runs)
         \/ Invite(k) \/ GuestJoins(k) \/ Revoke(k)
  PROVE  ShareTypeOK'
<1>0. /\ spent \in SpentRec /\ timer \in BOOLEAN /\ preview[k] \in PreviewRec
      /\ apart \cup {k} \subseteq Slots /\ apart \ {k} \subseteq Slots /\ Unsaid(k) \subseteq Slots
  BY DEF ShareTypeOK, Unsaid
<1>1. CASE PreviewUp(k)
  <2>1. [NoPreview EXCEPT !.id = FreshId(k)] \in PreviewRec
    BY <1>1, FreshIdFacts, NothingTypes DEF PreviewUp, PreviewRec
  <2>2. preview' \in [Slots -> PreviewRec] /\ spent' \in SpentRec /\ timer' \in BOOLEAN
    BY <1>0, <1>1, <2>1, SpentType DEF PreviewUp, Says, ShareTypeOK
  <2>3. apart' \subseteq Slots BY <1>0, <1>1 DEF PreviewUp, Under
  <2> QED BY <1>1, <2>2, <2>3 DEF PreviewUp, ShareTypeOK, front, tunnelling
<1>2. CASE \E runs \in BOOLEAN : PreviewRuns(k, runs)
  <2>1. PICK runs \in BOOLEAN : PreviewRuns(k, runs) BY <1>2
  <2>2. [preview[k] EXCEPT !.runs = runs] \in PreviewRec BY <1>0 DEF PreviewRec
  <2>3. preview' \in [Slots -> PreviewRec] /\ spent' \in SpentRec /\ timer' \in BOOLEAN
    BY <1>0, <2>1, <2>2, SpentType DEF PreviewRuns, Says, ShareTypeOK
  <2> QED BY <2>1, <2>3 DEF PreviewRuns, ShareTypeOK, front, tunnelling
<1>3. CASE PreviewDown(k)
  <2>1. preview' \in [Slots -> PreviewRec] /\ spent' \in SpentRec /\ timer' \in BOOLEAN
    BY <1>0, <1>3, SpentType, NothingTypes DEF PreviewDown, Says, ShareTypeOK
  <2>2. quietly' \subseteq Slots BY <1>0, <1>3 DEF PreviewDown, ShareTypeOK
  <2> QED BY <1>0, <1>3, <2>1, <2>2 DEF PreviewDown, ShareTypeOK, front, tunnelling
<1>4. ASSUME NEW from, NEW to \in {"none", "invited", "joined"}, Guest(k, from, to),
             apart' \subseteq Slots, timer' \in BOOLEAN
      PROVE  ShareTypeOK'
  <2>1. spent' \in SpentRec BY <1>0, <1>4, SpentType DEF Guest
  <2> QED BY <1>4, <2>1 DEF Guest, ShareTypeOK, front, tunnelling
<1>5. CASE Invite(k)
  <2>1. apart' \subseteq Slots /\ timer' \in BOOLEAN BY <1>0, <1>5 DEF Invite, Under, Says
  <2> QED BY <1>4, <1>5, <2>1 DEF Invite
<1>6. CASE GuestJoins(k)
  <2>1. apart' \subseteq Slots /\ timer' \in BOOLEAN BY <1>0, <1>6 DEF GuestJoins, Says, ShareTypeOK
  <2> QED BY <1>4, <1>6, <2>1 DEF GuestJoins
<1>7. CASE Revoke(k)
  <2>1. apart' \subseteq Slots /\ timer' \in BOOLEAN BY <1>0, <1>7 DEF Revoke, Says
  <2> QED BY <1>4, <1>7, <2>1 DEF Revoke
<1> QED BY <1>1, <1>2, <1>3, <1>5, <1>6, <1>7

LEMMA OnwardTypes ==
  ASSUME ShareTypeOK, NEW b \in BOOLEAN, Onward(b)
  PROVE  sweep' \in PassRec
BY DEF Onward, ShareTypeOK, PassRec

LEMMA OpeningTypes ==
  ASSUME ShareTypeOK, Known, NEW w \in Openers, Opening(w)
  PROVE  ShareTypeOK'
<1>0. /\ opening[w] \in OpenRec /\ spent \in SpentRec
      /\ [sweep EXCEPT !.at = "recording"] \in PassRec
      /\ [byHand EXCEPT !.at = "recording"] \in HandRec
      /\ \A p \in Procs : /\ [children[p] EXCEPT !.is = "up"] \in ProcRec
                          /\ [children[p] EXCEPT !.is = "givenup"] \in ProcRec
  <2>1. opening[w] \in OpenRec /\ spent \in SpentRec BY DEF ShareTypeOK
  <2>2. [sweep EXCEPT !.at = "recording"] \in PassRec BY DEF ShareTypeOK, PassRec
  <2>3. [byHand EXCEPT !.at = "recording"] \in HandRec BY DEF ShareTypeOK, HandRec
  <2>4. \A p \in Procs : /\ [children[p] EXCEPT !.is = "up"] \in ProcRec
                         /\ [children[p] EXCEPT !.is = "givenup"] \in ProcRec
    BY DEF ShareTypeOK, ProcRec
  <2> QED BY <2>1, <2>2, <2>3, <2>4
<1>1. CASE TunnelUp(w)
  <2>1. /\ opening[w].proc \in Procs /\ children' \in [Procs -> ProcRec]
        /\ tunnels' \in [Slots -> Procs \cup {None}] /\ opening' \in [Openers -> OpenRec]
    BY <1>0, <1>1, NothingTypes DEF TunnelUp, ShareTypeOK, OpenRec
  <2>2. sweep' \in PassRec /\ byHand' \in HandRec
    BY <1>0, <1>1 DEF TunnelUp, GoesOn, ShareTypeOK
  <2> QED BY <1>1, <2>1, <2>2 DEF TunnelUp, ShareTypeOK, sandbox, front, runner
<1>2. CASE AttemptFails(w)
  <2>0. opening[w].proc \in Procs /\ spent' \in SpentRec
    BY <1>0, <1>2, SpentType DEF AttemptFails, OpenRec
  <2>1. children' \in [Procs -> ProcRec]
    BY <1>0, <1>2, <2>0, NothingTypes DEF AttemptFails, ShareTypeOK
  <2>2. /\ opening' \in [Openers -> OpenRec] /\ sweep' \in PassRec /\ byHand' \in HandRec
    <3>1. CASE opening' = [opening EXCEPT ![w].proc = None] /\ UNCHANGED <<sweep, byHand>>
      <4>1. [opening[w] EXCEPT !.proc = None] \in OpenRec BY <1>0 DEF OpenRec
      <4> QED BY <3>1, <4>1 DEF ShareTypeOK
    <3>2. CASE opening' = [opening EXCEPT ![w] = NotOpening] /\ GoesWithout(w)
      <4>1. opening' \in [Openers -> OpenRec] BY <3>2, NothingTypes DEF ShareTypeOK
      <4>2. sweep' \in PassRec /\ byHand' \in HandRec
        BY <3>2, OnwardTypes, NothingTypes DEF GoesWithout, ShareTypeOK
      <4> QED BY <4>1, <4>2
    <3> QED BY <1>2, <3>1, <3>2 DEF AttemptFails
  <2> QED BY <1>2, <2>0, <2>1, <2>2 DEF AttemptFails, ShareTypeOK, sandbox, front, runner
<1>3. CASE AttemptAgain(w)
  <2>0. opening[w].slot # None /\ opening[w].n < MaxTries
    BY <1>3 DEF AttemptAgain, Known, Core, OpenFits
  <2>1. opening[w].slot \in Slots /\ opening[w].n + 1 \in 0..MaxTries
    BY <1>0, <2>0, AutoShareConstants DEF OpenRec
  <2>2. Spawned(w, opening[w].slot, opening[w].n + 1) BY <1>3 DEF AttemptAgain
  <2>3. children' \in [Procs -> ProcRec] /\ opening' \in [Openers -> OpenRec] /\ tangled' \in BOOLEAN
    BY <2>1, <2>2, SpawnedTypes
  <2> QED BY <1>3, <2>3 DEF AttemptAgain, ShareTypeOK, sandbox, front, runner
<1> QED BY <1>1, <1>2, <1>3 DEF Opening

LEMMA HandTypes ==
  ASSUME ShareTypeOK, Known, HandNotes \/ \E k \in Slots : ShareByHand(k) \/ UnshareByHand(k)
  PROVE  ShareTypeOK'
<1>0. spent \in SpentRec /\ 1 \in 0..MaxTries /\ "hand" \in Openers
  BY AutoShareConstants DEF ShareTypeOK, Openers
<1>1. ASSUME NEW k \in Slots, ShareByHand(k) PROVE ShareTypeOK'
  <2>1. preview[k].id \in Ids BY DEF ShareTypeOK, PreviewRec
  <2>2. byHand' \in HandRec /\ spent' \in SpentRec
    BY <1>0, <1>1, <2>1, SpentType DEF ShareByHand, HandRec
  <2>3. children' \in [Procs -> ProcRec] /\ opening' \in [Openers -> OpenRec] /\ tangled' \in BOOLEAN
    <3>1. CASE tunnels[k] # None BY <1>1, <3>1 DEF ShareByHand, ShareTypeOK
    <3>2. CASE tunnels[k] = None
      <4>1. Spawned("hand", k, 1) BY <1>1, <3>2 DEF ShareByHand
      <4> QED BY <1>0, <4>1, SpawnedTypes
    <3> QED BY <3>1, <3>2
  <2> QED BY <1>1, <2>2, <2>3 DEF ShareByHand, ShareTypeOK, runner, sandbox, front
<1>2. ASSUME NEW k \in Slots, UnshareByHand(k) PROVE ShareTypeOK'
  <2>1. preview[k].id \in Ids BY DEF ShareTypeOK, PreviewRec
  <2>2. byHand' \in HandRec /\ spent' \in SpentRec
    BY <1>0, <1>2, <2>1, SpentType DEF UnshareByHand, HandRec
  <2>3. tunnels' \in [Slots -> Procs \cup {None}] /\ children' \in [Procs -> ProcRec]
    BY <1>2, ClosedTypes DEF UnshareByHand
  <2> QED BY <1>2, <2>2, <2>3 DEF UnshareByHand, ShareTypeOK, runner, sandbox, front
<1>3. CASE HandNotes
  <2>1. byHand.slot \in Slots BY <1>3 DEF HandNotes, Known, WaitFits
  <2>2. [preview[byHand.slot] EXCEPT !.shared = (byHand.at = "recording")] \in PreviewRec
    BY <2>1 DEF ShareTypeOK, PreviewRec
  <2>3. Unsaid(byHand.slot) \subseteq Slots BY <2>1 DEF Unsaid, ShareTypeOK
  <2>4. /\ preview' \in [Slots -> PreviewRec] /\ timer' \in BOOLEAN
        /\ spent' \in SpentRec /\ quietly' \subseteq Slots
    <3>1. CASE /\ preview' = [preview EXCEPT ![byHand.slot].shared = (byHand.at = "recording")]
               /\ Says(TRUE) /\ UNCHANGED <<quietly, spent>>
      BY <1>0, <2>1, <2>2, <3>1 DEF Says, ShareTypeOK
    <3>2. CASE /\ Fault \/ UNCHANGED spent
               /\ quietly' = IF byHand.at = "recording" THEN Unsaid(byHand.slot) ELSE quietly
               /\ UNCHANGED <<preview, timer>>
      BY <1>0, <2>3, <3>2, SpentType DEF ShareTypeOK
    <3> QED BY <1>3, <3>1, <3>2 DEF HandNotes
  <2>5. byHand' \in HandRec BY <1>3, NothingTypes DEF HandNotes
  <2> QED BY <1>3, <2>4, <2>5 DEF HandNotes, ShareTypeOK, front, tunnelling
<1> QED BY <1>1, <1>2, <1>3

LEMMA PassTypes ==
  ASSUME ShareTypeOK,
         Trigger \/ AskPreviews \/ Collect \/ AskShares \/ Door \/ Start \/ Record \/ Finish
  PROVE  ShareTypeOK'
<1>0. /\ \A at \in {"collect", "shares", "door", "loop", "recording", "starting"} :
           [sweep EXCEPT !.at = at] \in PassRec
      /\ sweep.failed \in BOOLEAN /\ sweep.shares \subseteq Slots /\ sweep.any \in BOOLEAN
      /\ spent \in SpentRec
  BY DEF ShareTypeOK, PassRec
<1>1. CASE Trigger
  <2>1. Remembered \in BOOLEAN BY DEF Remembered
  <2>2. missed' \in BOOLEAN /\ sweep' \in PassRec /\ amiss' \in BOOLEAN
    BY <1>1, <2>1, NothingTypes DEF Trigger, ShareTypeOK
  <2> QED BY <1>1, <2>2 DEF Trigger, ShareTypeOK, sandbox, front, tunnelling
<1>2. CASE AskPreviews
  <2>1. sweep' \in PassRec
    <3>1. [sweep EXCEPT !.at = "collect", !.seen = preview] \in PassRec BY DEF ShareTypeOK, PassRec
    <3> QED BY <1>0, <1>2, <3>1 DEF AskPreviews
  <2>2. spent' \in SpentRec /\ amiss' \in BOOLEAN
    BY <1>0, <1>2, SpentType DEF AskPreviews, ShareTypeOK
  <2> QED BY <1>2, <2>1, <2>2 DEF AskPreviews, ShareTypeOK, sandbox, front, tunnelling, runner
<1>3. CASE Collect
  <2>1. tunnels' \in [Slots -> Procs \cup {None}] /\ children' \in [Procs -> ProcRec]
    BY <1>3, ClosedTypes DEF Collect
  <2>2. /\ sweep' \in PassRec /\ timer' \in BOOLEAN /\ missed' \in BOOLEAN
        /\ retried' \in BOOLEAN /\ amiss' \in BOOLEAN
    <3>1. CASE PassEnds(FALSE) BY <3>1, PassEndsTypes, NothingTypes
    <3>2. CASE sweep' = [sweep EXCEPT !.at = "shares"] /\ UNCHANGED <<runner, amiss>>
      BY <1>0, <3>2 DEF ShareTypeOK, runner
    <3> QED BY <1>3, <3>1, <3>2 DEF Collect
  <2> QED BY <1>3, <2>1, <2>2 DEF Collect, ShareTypeOK, sandbox, front
<1>4. CASE AskShares
  <2>1. sweep' \in PassRec
    <3>1. Guested \ apart \subseteq Slots /\ (Guested # {}) \in BOOLEAN BY DEF Guested
    <3>2. [sweep EXCEPT !.shares = Guested \ apart, !.any = (Guested # {}), !.at = "door"] \in PassRec
      BY <3>1 DEF ShareTypeOK, PassRec
    <3> QED BY <1>0, <1>4, <3>2 DEF AskShares
  <2>2. spent' \in SpentRec /\ amiss' \in BOOLEAN
    BY <1>0, <1>4, SpentType DEF AskShares, ShareTypeOK
  <2> QED BY <1>4, <2>1, <2>2 DEF AskShares, ShareTypeOK, sandbox, front, tunnelling, runner
<1>5. CASE Door
  <2>1. sweep' \in PassRec BY <1>5 DEF Door, Candidates, ShareTypeOK, PassRec
  <2>2. guests' \in [Slots -> {"none", "invited", "joined"}] /\ apart' \subseteq Slots
    BY <1>5 DEF Door, ShareTypeOK
  <2>3. LastShareGone \in BOOLEAN BY DEF LastShareGone
  <2>4. door' \in BOOLEAN /\ saw' \in BOOLEAN BY <1>0, <1>5, <2>3 DEF Door, ShareTypeOK
  <2> QED BY <1>5, <2>1, <2>2, <2>4 DEF Door, ShareTypeOK, tunnelling, runner
<1>6. CASE Start
  <2>0. /\ Slot \in Slots /\ 1 \in 0..MaxTries /\ "pass" \in Openers
    BY <1>6, SlotFacts, AutoShareConstants DEF Start, Openers
  <2>1. sweep' \in PassRec BY <1>0, <1>6 DEF Start
  <2>2. children' \in [Procs -> ProcRec] /\ opening' \in [Openers -> OpenRec] /\ tangled' \in BOOLEAN
    <3>1. CASE UNCHANGED <<children, opening, tangled>> BY <3>1 DEF ShareTypeOK
    <3>2. CASE Spawned("pass", Slot, 1) BY <2>0, <3>2, SpawnedTypes
    <3> QED BY <1>6, <3>1, <3>2 DEF Start
  <2> QED BY <1>6, <2>1, <2>2 DEF Start, ShareTypeOK, sandbox, front, runner
<1>7. CASE Record
  <2>1. sweep' \in PassRec BY <1>7, OnwardTypes DEF Record
  <2>2. preview' \in [Slots -> PreviewRec] /\ timer' \in BOOLEAN
    <3>1. CASE preview' = [preview EXCEPT ![Slot].shared = TRUE] /\ Says(TRUE)
      <4>1. Slot \in Slots => [preview[Slot] EXCEPT !.shared = TRUE] \in PreviewRec
        BY DEF ShareTypeOK, PreviewRec
      <4> QED BY <3>1, <4>1 DEF Says, ShareTypeOK
    <3>2. CASE UNCHANGED <<preview, timer>> BY <3>2 DEF ShareTypeOK
    <3> QED BY <1>7, <3>1, <3>2 DEF Record
  <2>3. spent' \in SpentRec BY <1>0, <1>7, SpentType DEF Record
  <2>4. tunnels' \in [Slots -> Procs \cup {None}] /\ children' \in [Procs -> ProcRec]
    BY <1>7, ClosedTypes DEF Record, RolledBack, ShareTypeOK
  <2> QED BY <1>7, <2>1, <2>2, <2>3, <2>4 DEF Record, ShareTypeOK, front
<1>8. CASE Finish
  <2>1. PassEnds(sweep.failed) BY <1>8 DEF Finish
  <2>2. /\ sweep' \in PassRec /\ timer' \in BOOLEAN /\ missed' \in BOOLEAN
        /\ retried' \in BOOLEAN /\ amiss' \in BOOLEAN
    BY <1>0, <2>1, PassEndsTypes, NothingTypes
  <2> QED BY <1>8, <2>2 DEF Finish, ShareTypeOK, sandbox, front, tunnelling
<1> QED BY <1>1, <1>2, <1>3, <1>4, <1>5, <1>6, <1>7, <1>8

LEMMA ExitTypes == ASSUME ShareTypeOK, NEW p \in Procs, Exit(p) \/ LateHostname(p) PROVE ShareTypeOK'
<1>1. CASE Exit(p)
  <2>1. spent' \in SpentRec BY <1>1, SpentType DEF Exit, ShareTypeOK
  <2>2. tunnels' \in [Slots -> Procs \cup {None}] /\ children' \in [Procs -> ProcRec]
    BY <1>1, NothingTypes DEF Exit, Forgets, ShareTypeOK
  <2> QED BY <1>1, <2>1, <2>2 DEF Exit, ShareTypeOK, sandbox, front, runner
<1>2. CASE LateHostname(p)
  <2>1. [children[p] EXCEPT !.is = "told"] \in ProcRec BY DEF ShareTypeOK, ProcRec
  <2>2. children' \in [Procs -> ProcRec] BY <1>2, <2>1 DEF LateHostname, ShareTypeOK
  <2> QED BY <1>2, <2>2 DEF LateHostname, ShareTypeOK, sandbox, front, runner
<1> QED BY <1>1, <1>2

-----------------------------------------------------------------------------
(* Known, step by step.  *)
LEMMA Elsewhere == ASSUME Core, UNCHANGED <<tunnels, children, opening, tangled>> PROVE Core'
BY DEF Core, ProcsFit, OpenFits, RecordedFits, OneEach, TunnelsKnown

LEMMA OpenIsSilent ==
  ASSUME Core, NEW w \in Openers, opening[w].proc # None
  PROVE  children[opening[w].proc].is = "silent"
<1>1. children[opening[w].proc] = [slot |-> opening[w].slot, is |-> "silent"] BY DEF Core, OpenFits
<1> QED BY <1>1

LEMMA ClosedCore ==
  ASSUME ShareTypeOK, Core, NEW ks \in SUBSET Slots, Closed(ks), UNCHANGED <<opening, tangled>>
  PROVE  Core'
<1>1. /\ \A k \in Slots : /\ tunnels'[k] = IF k \in ks THEN None ELSE tunnels[k]
                          /\ tunnels[k] \in Procs \cup {None}
      /\ \A p \in Procs : children'[p] = IF \E k \in ks : tunnels[k] = p /\ children[p].is = "up"
                            THEN [children[p] EXCEPT !.is = "told"] ELSE children[p]
      /\ \A w \in Openers : opening[w].proc \in Procs \cup {None}
      /\ \A p \in Procs : children[p] \in ProcRec
      /\ None \notin Procs
  BY FrontFacts DEF Closed, ShareTypeOK, OpenRec
<1>2. \A p \in Procs : /\ children'[p].slot = children[p].slot
                       /\ \/ children'[p] = children[p]
                          \/ /\ children[p].is = "up" /\ children'[p].is = "told"
                             /\ \E k \in ks : tunnels[k] = p
  BY <1>1 DEF ProcRec
<1>3. ProcsFit' BY <1>2 DEF Core, ProcsFit
<1>4. OpenFits' BY <1>1, <1>2 DEF Core, OpenFits
<1>5. RecordedFits'
  <2> SUFFICES ASSUME NEW k \in Slots, tunnels'[k] # None
               PROVE  children'[tunnels'[k]] = [slot |-> k, is |-> "up"]
    BY DEF RecordedFits
  <2>1. k \notin ks /\ tunnels'[k] = tunnels[k] /\ tunnels[k] \in Procs BY <1>1
  <2>2. children[tunnels[k]] = [slot |-> k, is |-> "up"] BY <2>1 DEF Core, RecordedFits
  <2>3. ASSUME NEW j \in ks, tunnels[j] = tunnels[k] PROVE FALSE
    <3>1. children[tunnels[j]] = [slot |-> j, is |-> "up"] BY <2>1, <2>3 DEF Core, RecordedFits
    <3> QED BY <2>1, <2>2, <2>3, <3>1
  <2> QED BY <1>1, <2>1, <2>2, <2>3
<1>6. OneEach' BY <1>2 DEF Core, OneEach
<1>7. TunnelsKnown'
  <2> SUFFICES ASSUME ~tangled, NEW p \in Procs
               PROVE  /\ children'[p].is = "up" => tunnels'[children'[p].slot] = p
                      /\ children'[p].is = "silent" => \E w \in Openers : opening[w].proc = p
    BY DEF TunnelsKnown
  <2>1. children'[p].is \in {"up", "silent"} => children'[p] = children[p] BY <1>2
  <2>2. children'[p].is = "silent" => \E w \in Openers : opening[w].proc = p
    BY <2>1 DEF Core, TunnelsKnown
  <2>3. ASSUME children'[p].is = "up" PROVE tunnels'[children'[p].slot] = p
    <3>1. children'[p] = children[p] /\ tunnels[children[p].slot] = p /\ children[p].slot \in Slots
      BY <2>1, <2>3 DEF Core, TunnelsKnown, ProcsFit
    <3>2. ASSUME children[p].slot \in ks PROVE FALSE
      <4>1. \E k \in ks : tunnels[k] = p /\ children[p].is = "up" BY <2>3, <3>1, <3>2
      <4>2. children'[p].is = "told" BY <1>1, <4>1 DEF ProcRec
      <4> QED BY <2>3, <4>2
    <3> QED BY <1>1, <3>1, <3>2
  <2> QED BY <2>2, <2>3
<1> QED BY <1>3, <1>4, <1>5, <1>6, <1>7 DEF Core

LEMMA SpawnedCore ==
  ASSUME ShareTypeOK, Core, NEW w \in Openers, NEW k \in Slots, NEW n \in 0..MaxTries,
         Spawned(w, k, n), opening[w].proc = None, UNCHANGED tunnels
  PROVE  Core'
<1> DEFINE f == FreshTunnel
<1>1. /\ f \in Procs /\ children[f] = NoProc
      /\ children' = [children EXCEPT ![f] = [slot |-> k, is |-> "silent"]]
      /\ opening' = [opening EXCEPT ![w] = [slot |-> k, proc |-> f, n |-> n]]
      /\ tangled' = (tangled \/ \E p \in Procs : children[p].slot = k /\ children[p].is # "givenup")
  BY FreshFacts DEF Spawned
<1> HIDE DEF f
<1>2. /\ children \in [Procs -> ProcRec] /\ opening \in [Openers -> OpenRec]
      /\ \A j \in Slots : tunnels[j] \in Procs \cup {None}
      /\ \A v \in Openers : opening[v].proc \in Procs \cup {None}
      /\ None \notin Procs /\ k # None /\ children[f].is = "none"
  BY <1>1, FrontFacts, FrontConstants, AutoShareConstants, NothingTypes DEF ShareTypeOK, OpenRec
<1>3. /\ children'[f] = [slot |-> k, is |-> "silent"]
      /\ \A p \in Procs : p # f => children'[p] = children[p]
      /\ opening'[w] = [slot |-> k, proc |-> f, n |-> n]
      /\ \A v \in Openers : v # w => opening'[v] = opening[v]
  BY <1>1, <1>2
<1>4. /\ \A v \in Openers : opening[v].proc # f
      /\ \A j \in Slots : tunnels[j] # f
  <2>1. f # None /\ children[f].is = "none" BY <1>1, <1>2
  <2>2. ASSUME NEW v \in Openers, opening[v].proc = f PROVE FALSE
    <3>1. children[f].is = "silent" BY <2>1, <2>2, OpenIsSilent
    <3> QED BY <2>1, <3>1
  <2>3. ASSUME NEW j \in Slots, tunnels[j] = f PROVE FALSE
    <3>1. children[f] = [slot |-> j, is |-> "up"] BY <2>1, <2>3 DEF Core, RecordedFits
    <3> QED BY <2>1, <3>1
  <2> QED BY <2>2, <2>3
<1>5. ProcsFit' BY <1>3 DEF Core, ProcsFit
<1>6. OpenFits'
  <2>1. ASSUME NEW v \in Openers
        PROVE  /\ opening'[v].slot = None => opening'[v].proc = None
               /\ opening'[v].slot # None /\ opening'[v].proc = None => opening'[v].n < MaxTries
               /\ opening'[v].proc # None =>
                    children'[opening'[v].proc] = [slot |-> opening'[v].slot, is |-> "silent"]
    <3>1. CASE v = w BY <1>1, <1>2, <1>3, <3>1
    <3>2. CASE v # w BY <1>2, <1>3, <1>4, <3>2 DEF Core, OpenFits
    <3> QED BY <3>1, <3>2
  <2>2. ASSUME NEW u \in Openers, NEW v \in Openers, opening'[v].proc # None,
               opening'[u].proc = opening'[v].proc
        PROVE  u = v
    <3>1. CASE u = w \/ v = w BY <1>3, <1>4, <2>2, <3>1
    <3>2. CASE u # w /\ v # w BY <1>3, <2>2, <3>2 DEF Core, OpenFits
    <3> QED BY <3>1, <3>2
  <2> QED BY <2>1, <2>2 DEF OpenFits
<1>7. RecordedFits' BY <1>2, <1>3, <1>4 DEF Core, RecordedFits
<1>8. OneEach'
  <2> SUFFICES ASSUME ~tangled', NEW p \in Procs, NEW q \in Procs,
                      children'[p].slot = children'[q].slot, children'[p].slot # None,
                      children'[p].is # "givenup", children'[q].is # "givenup"
               PROVE  p = q
    BY DEF OneEach
  <2>1. ~tangled /\ \A r \in Procs : children[r].slot # k \/ children[r].is = "givenup" BY <1>1
  <2>2. CASE p = f \/ q = f BY <1>3, <2>1, <2>2
  <2>3. CASE p # f /\ q # f BY <1>3, <2>1, <2>3 DEF Core, OneEach
  <2> QED BY <2>2, <2>3
<1>9. TunnelsKnown'
  <2> SUFFICES ASSUME ~tangled', NEW p \in Procs
               PROVE  /\ children'[p].is = "up" => tunnels[children'[p].slot] = p
                      /\ children'[p].is = "silent" => \E v \in Openers : opening'[v].proc = p
    BY DEF TunnelsKnown
  <2>1. ~tangled BY <1>1
  <2>2. CASE p = f BY <1>3, <2>2
  <2>3. CASE p # f
    <3>1. children'[p].is = "silent" => \E v \in Openers : opening[v].proc = p /\ v # w
      BY <1>2, <1>3, <2>1, <2>3 DEF Core, TunnelsKnown
    <3> QED BY <1>3, <2>1, <2>3, <3>1 DEF Core, TunnelsKnown
  <2> QED BY <2>2, <2>3
<1> QED BY <1>5, <1>6, <1>7, <1>8, <1>9 DEF Core

LEMMA UpCore == ASSUME ShareTypeOK, Core, NEW w \in Openers, TunnelUp(w) PROVE Core'
<1> DEFINE p == opening[w].proc
<1> DEFINE k == opening[w].slot
<1>1. /\ p # None
      /\ children' = [children EXCEPT ![p].is = "up"] /\ tunnels' = [tunnels EXCEPT ![k] = p]
      /\ opening' = [opening EXCEPT ![w] = NotOpening] /\ tangled' = tangled
  BY DEF TunnelUp
<1>2. /\ children \in [Procs -> ProcRec] /\ opening \in [Openers -> OpenRec]
      /\ tunnels \in [Slots -> Procs \cup {None}] /\ opening[w] \in OpenRec
  BY DEF ShareTypeOK
<1>3. p \in Procs /\ children[p] = [slot |-> k, is |-> "silent"] /\ k \in Slots /\ k # None
  <2>1. children[p] = [slot |-> k, is |-> "silent"] /\ k # None BY <1>1 DEF Core, OpenFits
  <2> QED BY <1>1, <1>2, <2>1 DEF OpenRec
<1> HIDE DEF p, k
<1>4. /\ children'[p] = [slot |-> k, is |-> "up"]
      /\ \A q \in Procs : q # p => children'[q] = children[q]
      /\ tunnels'[k] = p /\ \A j \in Slots : j # k => tunnels'[j] = tunnels[j]
      /\ opening'[w].slot = None /\ opening'[w].proc = None
      /\ \A v \in Openers : v # w => opening'[v] = opening[v] /\ opening[v].proc # p
  <2>1. \A v \in Openers : v # w => opening[v].proc # p BY <1>1 DEF Core, OpenFits, p
  <2> QED BY <1>1, <1>2, <1>3, <2>1, NothingTypes
<1>5. ProcsFit' BY <1>3, <1>4 DEF Core, ProcsFit
<1>6. OpenFits'
  <2>1. ASSUME NEW v \in Openers, v # w
        PROVE  opening'[v].proc # None =>
                 children'[opening'[v].proc] = [slot |-> opening'[v].slot, is |-> "silent"]
    <3>1. opening[v].proc \in Procs \cup {None} BY <1>2 DEF OpenRec
    <3> QED BY <1>4, <2>1, <3>1 DEF Core, OpenFits
  <2> QED BY <1>4, <2>1 DEF Core, OpenFits
<1>7. RecordedFits'
  <2> SUFFICES ASSUME NEW j \in Slots, tunnels'[j] # None
               PROVE  children'[tunnels'[j]] = [slot |-> j, is |-> "up"]
    BY DEF RecordedFits
  <2>1. CASE j = k BY <1>4, <2>1
  <2>2. CASE j # k
    <3>1. tunnels'[j] = tunnels[j] /\ tunnels[j] \in Procs BY <1>2, <1>4, <2>2
    <3>2. children[tunnels[j]] = [slot |-> j, is |-> "up"] BY <3>1 DEF Core, RecordedFits
    <3> QED BY <1>3, <1>4, <3>1, <3>2
  <2> QED BY <2>1, <2>2
<1>8. OneEach' BY <1>1, <1>3, <1>4 DEF Core, OneEach
<1>9. TunnelsKnown'
  <2> SUFFICES ASSUME ~tangled, NEW q \in Procs
               PROVE  /\ children'[q].is = "up" => tunnels'[children'[q].slot] = q
                      /\ children'[q].is = "silent" => \E v \in Openers : opening'[v].proc = q
    BY <1>1 DEF TunnelsKnown
  <2>1. CASE q = p BY <1>4, <2>1
  <2>2. CASE q # p
    <3>1. children'[q].is = "silent" => \E v \in Openers : opening[v].proc = q /\ v # w
      BY <1>4, <2>2 DEF Core, TunnelsKnown, p
    <3>2. ASSUME children[q].is = "up" PROVE tunnels'[children[q].slot] = q
      <4>1. children[q].slot # k BY <1>3, <2>2, <3>2 DEF Core, OneEach
      <4>2. children[q].slot \in Slots /\ tunnels[children[q].slot] = q
        BY <3>2 DEF Core, ProcsFit, TunnelsKnown
      <4> QED BY <1>4, <4>1, <4>2
    <3> QED BY <1>4, <2>2, <3>1, <3>2
  <2> QED BY <2>1, <2>2
<1> QED BY <1>5, <1>6, <1>7, <1>8, <1>9 DEF Core

LEMMA FailsCore == ASSUME ShareTypeOK, Core, NEW w \in Openers, AttemptFails(w) PROVE Core'
<1> DEFINE p == opening[w].proc
<1>1. /\ p # None /\ UNCHANGED <<tunnels, tangled>>
      /\ \/ children' = [children EXCEPT ![p] = NoProc]
         \/ children' = [children EXCEPT ![p].is = "givenup"]
      /\ \/ opening[w].n < MaxTries /\ opening' = [opening EXCEPT ![w].proc = None]
         \/ opening' = [opening EXCEPT ![w] = NotOpening]
  BY DEF AttemptFails
<1>2. /\ children \in [Procs -> ProcRec] /\ opening \in [Openers -> OpenRec]
      /\ tunnels \in [Slots -> Procs \cup {None}] /\ opening[w] \in OpenRec
  BY DEF ShareTypeOK
<1>3. /\ p \in Procs /\ children[p] = [slot |-> opening[w].slot, is |-> "silent"]
      /\ opening[w].slot \in Slots
  <2>1. children[p] = [slot |-> opening[w].slot, is |-> "silent"] /\ opening[w].slot # None
    BY <1>1 DEF Core, OpenFits
  <2> QED BY <1>1, <1>2, <2>1 DEF OpenRec
<1>4. /\ \A v \in Openers : v # w => opening'[v] = opening[v] /\ opening[v].proc # p
      /\ opening'[w].proc = None /\ (opening'[w].slot # None => opening'[w].n < MaxTries)
  <2>1. \A v \in Openers : v # w => opening[v].proc # p BY <1>1 DEF Core, OpenFits
  <2> QED BY <1>1, <1>2, <2>1, NothingTypes DEF OpenRec
<1> HIDE DEF p
<1>5. /\ \/ children'[p] = NoProc
         \/ children'[p].is = "givenup" /\ children'[p].slot = children[p].slot
      /\ \A q \in Procs : q # p => children'[q] = children[q]
  BY <1>1, <1>2, <1>3
<1>6. ProcsFit' BY <1>3, <1>5, NothingTypes DEF Core, ProcsFit
<1>7. OpenFits'
  <2>1. ASSUME NEW v \in Openers, v # w
        PROVE  opening'[v].proc # None =>
                 children'[opening'[v].proc] = [slot |-> opening'[v].slot, is |-> "silent"]
    <3>1. opening[v].proc \in Procs \cup {None} BY <1>2 DEF OpenRec
    <3> QED BY <1>4, <1>5, <2>1, <3>1 DEF Core, OpenFits
  <2> QED BY <1>4, <2>1 DEF Core, OpenFits
<1>8. RecordedFits'
  <2> SUFFICES ASSUME NEW j \in Slots, tunnels[j] # None
               PROVE  children'[tunnels[j]] = [slot |-> j, is |-> "up"]
    BY <1>1 DEF RecordedFits
  <2>1. tunnels[j] \in Procs /\ children[tunnels[j]] = [slot |-> j, is |-> "up"]
    BY <1>2 DEF Core, RecordedFits
  <2> QED BY <1>3, <1>5, <2>1
<1>9. OneEach' BY <1>1, <1>3, <1>5, NothingTypes DEF Core, OneEach
<1>10. TunnelsKnown'
  <2> SUFFICES ASSUME ~tangled, NEW q \in Procs
               PROVE  /\ children'[q].is = "up" => tunnels[children'[q].slot] = q
                      /\ children'[q].is = "silent" => \E v \in Openers : opening'[v].proc = q
    BY <1>1 DEF TunnelsKnown
  <2>1. CASE q = p BY <1>5, <2>1, NothingTypes
  <2>2. CASE q # p
    <3>1. children[q].is = "silent" => \E v \in Openers : opening[v].proc = q /\ v # w
      BY <2>2 DEF Core, TunnelsKnown, p
    <3> QED BY <1>4, <1>5, <2>2, <3>1 DEF Core, TunnelsKnown
  <2> QED BY <2>1, <2>2
<1> QED BY <1>6, <1>7, <1>8, <1>9, <1>10 DEF Core

LEMMA ExitCore == ASSUME ShareTypeOK, Core, NEW p \in Procs, Exit(p) PROVE Core'
<1>1. /\ children[p].is \in {"up", "told", "givenup"}
      /\ children' = [children EXCEPT ![p] = NoProc] /\ tunnels' = Forgets(p)
      /\ UNCHANGED <<opening, tangled>>
  BY DEF Exit
<1>2. /\ children \in [Procs -> ProcRec] /\ opening \in [Openers -> OpenRec]
      /\ tunnels \in [Slots -> Procs \cup {None}] /\ children[p].slot \in Slots
  BY <1>1 DEF ShareTypeOK, Core, ProcsFit
<1>3. /\ children'[p] = NoProc /\ \A q \in Procs : q # p => children'[q] = children[q]
      /\ \A j \in Slots : tunnels'[j] = tunnels[j] \/ tunnels'[j] = None
      /\ \A j \in Slots : j # children[p].slot \/ children[p].is = "givenup" =>
                           tunnels'[j] = tunnels[j]
      /\ children[p].is # "givenup" => tunnels'[children[p].slot] = None
  BY <1>1, <1>2 DEF Forgets
<1>4. ProcsFit' BY <1>3, NothingTypes DEF Core, ProcsFit
<1>5. OpenFits'
  <2>1. ASSUME NEW v \in Openers, opening[v].proc # None
        PROVE  children'[opening[v].proc] = children[opening[v].proc]
    <3>0. children[opening[v].proc].is = "silent" BY <2>1, OpenIsSilent
    <3>1. opening[v].proc \in Procs /\ children[opening[v].proc].is = "silent"
      BY <1>2, <2>1, <3>0 DEF OpenRec
    <3> QED BY <1>1, <1>3, <3>1
  <2> QED BY <1>1, <2>1 DEF Core, OpenFits
<1>6. RecordedFits'
  <2> SUFFICES ASSUME NEW j \in Slots, tunnels'[j] # None
               PROVE  children'[tunnels'[j]] = [slot |-> j, is |-> "up"]
    BY DEF RecordedFits
  <2>1. tunnels'[j] = tunnels[j] /\ tunnels[j] \in Procs BY <1>2, <1>3
  <2>2. children[tunnels[j]] = [slot |-> j, is |-> "up"] BY <2>1 DEF Core, RecordedFits
  <2>3. tunnels[j] # p
    <3> SUFFICES ASSUME tunnels[j] = p PROVE FALSE OBVIOUS
    <3>1. children[p].slot = j /\ children[p].is # "givenup" BY <2>2
    <3> QED BY <1>3, <2>1, <3>1
  <2> QED BY <1>3, <2>1, <2>2, <2>3
<1>7. OneEach' BY <1>1, <1>3, NothingTypes DEF Core, OneEach
<1>8. TunnelsKnown'
  <2> SUFFICES ASSUME ~tangled, NEW q \in Procs
               PROVE  /\ children'[q].is = "up" => tunnels'[children'[q].slot] = q
                      /\ children'[q].is = "silent" => \E v \in Openers : opening[v].proc = q
    BY <1>1 DEF TunnelsKnown
  <2>1. CASE q = p BY <1>3, <2>1, NothingTypes
  <2>2. CASE q # p
    <3>1. ASSUME children[q].is = "up" PROVE tunnels'[children[q].slot] = q
      <4>1. children[q].slot \in Slots /\ children[q].slot # None /\ tunnels[children[q].slot] = q
        BY <3>1, AutoShareConstants, FrontConstants DEF Core, ProcsFit, TunnelsKnown
      <4>2. children[q].slot # children[p].slot \/ children[p].is = "givenup"
        BY <2>2, <3>1, <4>1 DEF Core, OneEach
      <4> QED BY <1>3, <4>1, <4>2
    <3> QED BY <1>3, <2>2, <3>1 DEF Core, TunnelsKnown
  <2> QED BY <2>1, <2>2
<1> QED BY <1>4, <1>5, <1>6, <1>7, <1>8 DEF Core

LEMMA LateCore == ASSUME ShareTypeOK, Core, NEW p \in Procs, LateHostname(p) PROVE Core'
<1>1. /\ children[p].is = "givenup" /\ children' = [children EXCEPT ![p].is = "told"] /\ tangled'
      /\ UNCHANGED <<tunnels, opening>>
  BY DEF LateHostname
<1>2. /\ children \in [Procs -> ProcRec] /\ opening \in [Openers -> OpenRec]
      /\ tunnels \in [Slots -> Procs \cup {None}]
  BY DEF ShareTypeOK
<1>3. /\ children'[p].is = "told" /\ children'[p].slot = children[p].slot
      /\ \A q \in Procs : q # p => children'[q] = children[q]
  BY <1>1, <1>2 DEF ProcRec
<1>4. ProcsFit' BY <1>1, <1>3 DEF Core, ProcsFit
<1>5. OpenFits'
  <2>1. ASSUME NEW v \in Openers, opening[v].proc # None
        PROVE  children'[opening[v].proc] = children[opening[v].proc]
    <3>0. children[opening[v].proc].is = "silent" BY <2>1, OpenIsSilent
    <3>1. opening[v].proc \in Procs /\ children[opening[v].proc].is = "silent"
      BY <1>2, <2>1, <3>0 DEF OpenRec
    <3> QED BY <1>1, <1>3, <3>1
  <2> QED BY <1>1, <2>1 DEF Core, OpenFits
<1>6. RecordedFits'
  <2> SUFFICES ASSUME NEW j \in Slots, tunnels[j] # None
               PROVE  children'[tunnels[j]] = [slot |-> j, is |-> "up"]
    BY <1>1 DEF RecordedFits
  <2>1. tunnels[j] \in Procs /\ children[tunnels[j]] = [slot |-> j, is |-> "up"]
    BY <1>2 DEF Core, RecordedFits
  <2> QED BY <1>1, <1>3, <2>1
<1>7. OneEach' /\ TunnelsKnown' BY <1>1 DEF OneEach, TunnelsKnown
<1> QED BY <1>4, <1>5, <1>6, <1>7 DEF Core

-----------------------------------------------------------------------------
(* WaitFits holds together: when neither opener nor pass nor request moves *)
(* it stays, and each step that moves one moves it to where it fits.       *)
LEMMA Unmoved == ASSUME Known, UNCHANGED <<opening, sweep, byHand>> PROVE WaitFits'
BY DEF Known, WaitFits

LEMMA OpeningKnown == ASSUME ShareTypeOK, Known, NEW w \in Openers, Opening(w) PROVE Known'
<1>0. /\ Core /\ WaitFits /\ opening \in [Openers -> OpenRec] /\ opening[w] \in OpenRec
      /\ sweep \in PassRec /\ byHand \in HandRec /\ Openers = {"pass", "hand"}
  BY DEF Known, ShareTypeOK, Openers
<1>1. CASE TunnelUp(w)
  <2>1. opening[w].slot # None BY <1>0, <1>1 DEF TunnelUp, Core, OpenFits
  <2>2. WaitFits'
    <3>1. opening' = [opening EXCEPT ![w] = NotOpening] /\ GoesOn(w) BY <1>1 DEF TunnelUp
    <3>2. CASE w = "pass"
      <4>1. sweep' = [sweep EXCEPT !.at = "recording"] /\ byHand' = byHand BY <3>1, <3>2 DEF GoesOn
      <4>2. sweep'.at = "recording" /\ sweep'.todo = sweep.todo /\ sweep.todo # {}
        BY <1>0, <2>1, <3>2, <4>1 DEF WaitFits, PassRec
      <4> QED BY <1>0, <3>1, <3>2, <4>1, <4>2, NothingTypes DEF WaitFits
    <3>3. CASE w = "hand"
      <4>1. byHand' = [byHand EXCEPT !.at = "recording"] /\ sweep' = sweep BY <3>1, <3>3 DEF GoesOn
      <4>2. byHand'.at = "recording" /\ byHand'.slot = byHand.slot /\ byHand.slot \in Slots
        BY <1>0, <2>1, <3>3, <4>1 DEF WaitFits, HandRec
      <4> QED BY <1>0, <3>1, <3>3, <4>1, <4>2, NothingTypes DEF WaitFits
    <3> QED BY <1>0, <3>2, <3>3
  <2> QED BY <1>0, <1>1, <2>2, UpCore DEF Known
<1>2. CASE AttemptFails(w)
  <2>1. opening[w].slot # None BY <1>0, <1>2 DEF AttemptFails, Core, OpenFits
  <2>2. WaitFits'
    <3>1. CASE opening' = [opening EXCEPT ![w].proc = None] /\ UNCHANGED <<sweep, byHand>>
      <4>1. \A v \in Openers : opening'[v].slot = opening[v].slot BY <1>0, <3>1 DEF OpenRec
      <4> QED BY <1>0, <3>1, <4>1 DEF WaitFits
    <3>2. CASE opening' = [opening EXCEPT ![w] = NotOpening] /\ GoesWithout(w)
      <4>1. CASE w = "pass"
        <5>1. sweep'.at = "loop" /\ byHand' = byHand BY <1>0, <3>2, <4>1 DEF GoesWithout, Onward, PassRec
        <5> QED BY <1>0, <3>2, <4>1, <5>1, NothingTypes DEF WaitFits
      <4>2. CASE w = "hand"
        <5>1. byHand' = IdleHand /\ sweep' = sweep BY <3>2, <4>2 DEF GoesWithout
        <5> QED BY <1>0, <3>2, <4>2, <5>1, NothingTypes DEF WaitFits
      <4> QED BY <1>0, <4>1, <4>2
    <3> QED BY <1>2, <3>1, <3>2 DEF AttemptFails
  <2> QED BY <1>0, <1>2, <2>2, FailsCore DEF Known
<1>3. CASE AttemptAgain(w)
  <2>1. opening[w].slot \in Slots /\ opening[w].n + 1 \in 0..MaxTries
    <3>1. opening[w].slot # None /\ opening[w].n < MaxTries BY <1>0, <1>3 DEF AttemptAgain, Core, OpenFits
    <3> QED BY <1>0, <3>1, AutoShareConstants DEF OpenRec
  <2>2. /\ Spawned(w, opening[w].slot, opening[w].n + 1) /\ opening[w].proc = None
        /\ opening[w].slot # None /\ UNCHANGED <<tunnels, sweep, byHand>>
    BY <1>3 DEF AttemptAgain
  <2>3. Core' BY <1>0, <2>1, <2>2, SpawnedCore
  <2>4. \A v \in Openers : opening'[v].slot = opening[v].slot BY <1>0, <2>2 DEF Spawned
  <2> QED BY <1>0, <2>2, <2>3, <2>4 DEF Known, WaitFits
<1> QED BY <1>1, <1>2, <1>3 DEF Opening

LEMMA HandKnown ==
  ASSUME ShareTypeOK, Known, HandNotes \/ \E k \in Slots : ShareByHand(k) \/ UnshareByHand(k)
  PROVE  Known'
<1>0. /\ Core /\ WaitFits /\ opening \in [Openers -> OpenRec] /\ {"pass", "hand"} = Openers
      /\ 1 \in 0..MaxTries
  BY AutoShareConstants DEF Known, ShareTypeOK, Openers
<1>1. ASSUME NEW k \in Slots, ShareByHand(k) PROVE Known'
  <2>1. /\ byHand.at = "idle" /\ byHand'.slot = k /\ UNCHANGED <<tunnels, sweep>>
        /\ opening["hand"].slot = None /\ opening["hand"].proc = None
    BY <1>0, <1>1 DEF ShareByHand, WaitFits, Core, OpenFits
  <2>2. CASE tunnels[k] # None
    <3>1. UNCHANGED <<children, opening, tangled>> BY <1>1, <2>2 DEF ShareByHand
    <3> QED BY <1>0, <2>1, <3>1, Elsewhere DEF Known, WaitFits
  <2>3. CASE tunnels[k] = None
    <3>1. Spawned("hand", k, 1) /\ byHand'.at = "starting" BY <1>1, <2>3 DEF ShareByHand
    <3>2. Core' BY <1>0, <2>1, <3>1, SpawnedCore
    <3>3. opening'["pass"] = opening["pass"] BY <1>0, <3>1 DEF Spawned
    <3> QED BY <1>0, <2>1, <3>1, <3>2, <3>3 DEF Known, WaitFits
  <2> QED BY <2>2, <2>3
<1>2. ASSUME NEW k \in Slots, UnshareByHand(k) PROVE Known'
  <2>1. Core' BY <1>0, <1>2, ClosedCore DEF UnshareByHand
  <2>2. /\ opening["hand"].slot = None /\ byHand'.slot = k /\ UNCHANGED <<opening, sweep>>
    BY <1>0, <1>2 DEF UnshareByHand, WaitFits
  <2> QED BY <1>0, <2>1, <2>2 DEF Known, WaitFits
<1>3. CASE HandNotes
  <2>1. /\ UNCHANGED <<tunnels, children, opening, tangled, sweep>> /\ byHand' = IdleHand
        /\ opening["hand"].slot = None
    BY <1>0, <1>3 DEF HandNotes, tunnelling, WaitFits
  <2> QED BY <1>0, <2>1, Elsewhere, NothingTypes DEF Known, WaitFits
<1> QED BY <1>1, <1>2, <1>3

LEMMA PassKnown ==
  ASSUME ShareTypeOK, Known,
         Trigger \/ AskPreviews \/ Collect \/ AskShares \/ Door \/ Start \/ Record \/ Finish
  PROVE  Known'
<1>0. /\ Core /\ WaitFits /\ opening \in [Openers -> OpenRec] /\ {"pass", "hand"} = Openers
      /\ sweep \in PassRec /\ 1 \in 0..MaxTries
  BY AutoShareConstants DEF Known, ShareTypeOK, Openers
(* A pass that does not wait for a tunnel has none. *)
<1>1. ASSUME opening["pass"].slot = None, UNCHANGED <<opening, byHand>>,
             sweep'.at \notin {"starting", "recording"}
      PROVE  WaitFits'
  BY <1>0, <1>1 DEF WaitFits
<1>2. CASE Trigger
  <2>1. UNCHANGED <<tunnels, children, opening, tangled, byHand>> BY <1>2 DEF Trigger, tunnelling
  <2>2. CASE sweep.at = "idle"
    <3>1. sweep' = [IdlePass EXCEPT !.at = "previews"] BY <1>2, <2>2 DEF Trigger
    <3>2. sweep'.at = "previews" BY <3>1 DEF IdlePass
    <3>3. opening["pass"].slot = None BY <1>0, <2>2 DEF WaitFits
    <3> QED BY <1>0, <1>1, <2>1, <3>2, <3>3, Elsewhere DEF Known
  <2>3. CASE sweep.at # "idle"
    <3>1. sweep' = sweep BY <1>2, <2>3 DEF Trigger
    <3> QED BY <1>0, <2>1, <3>1, Elsewhere, Unmoved DEF Known
  <2> QED BY <2>2, <2>3
<1>3. CASE AskPreviews \/ AskShares \/ Door \/ Finish
  <2>1. UNCHANGED <<tunnels, children, opening, tangled, byHand>>
    BY <1>3 DEF AskPreviews, AskShares, Door, Finish, tunnelling
  <2>2. opening["pass"].slot = None
    BY <1>0, <1>3 DEF AskPreviews, AskShares, Door, Finish, WaitFits
  <2>3. sweep'.at \notin {"starting", "recording"}
    <3>1. CASE AskPreviews BY <1>0, <3>1 DEF AskPreviews, PassRec
    <3>2. CASE AskShares BY <1>0, <3>2 DEF AskShares, PassRec
    <3>3. CASE Door BY <1>0, <3>3 DEF Door, PassRec
    <3>4. CASE Finish BY <3>4, NothingTypes DEF Finish, PassEnds
    <3> QED BY <1>3, <3>1, <3>2, <3>3, <3>4
  <2> QED BY <1>0, <1>1, <2>1, <2>2, <2>3, Elsewhere DEF Known
<1>4. CASE Collect
  <2>1. Leftover \in SUBSET Slots BY DEF Leftover
  <2>2. Core' BY <1>0, <1>4, <2>1, ClosedCore DEF Collect
  <2>3. opening["pass"].slot = None /\ UNCHANGED <<opening, byHand>>
    BY <1>0, <1>4 DEF Collect, WaitFits
  <2>4. sweep'.at \notin {"starting", "recording"}
    BY <1>0, <1>4, NothingTypes DEF Collect, PassEnds, PassRec
  <2> QED BY <1>1, <2>2, <2>3, <2>4 DEF Known
<1>5. CASE Start
  <2>1. /\ Slot \in Slots /\ sweep.todo # {} /\ UNCHANGED <<tunnels, byHand>>
        /\ opening["pass"].slot = None /\ opening["pass"].proc = None
    BY <1>0, <1>5, SlotFacts DEF Start, WaitFits, Core, OpenFits
  <2>2. sweep'.todo = sweep.todo BY <1>0, <1>5 DEF Start, PassRec
  <2>3. CASE tunnels[Slot] # None
    <3>1. UNCHANGED <<children, opening, tangled>> BY <1>5, <2>3 DEF Start
    <3> QED BY <1>0, <2>1, <2>2, <3>1, Elsewhere DEF Known, WaitFits
  <2>4. CASE tunnels[Slot] = None
    <3>1. Spawned("pass", Slot, 1) /\ sweep' = [sweep EXCEPT !.at = "starting"]
      BY <1>5, <2>4 DEF Start
    <3>2. Core' BY <1>0, <2>1, <3>1, SpawnedCore
    <3>3. opening'["hand"] = opening["hand"] /\ sweep'.at = "starting"
      BY <1>0, <3>1 DEF Spawned, PassRec
    <3> QED BY <1>0, <2>1, <2>2, <3>2, <3>3 DEF Known, WaitFits
  <2> QED BY <2>3, <2>4
<1>6. CASE Record
  <2>1. sweep.at = "recording" /\ sweep.todo # {} /\ opening["pass"].slot = None
    BY <1>0, <1>6 DEF Record, WaitFits
  <2>2. Slot \in Slots BY <2>1, SlotFacts
  <2>3. UNCHANGED <<opening, tangled, byHand>> BY <1>6 DEF Record
  <2>4. Core'
    <3>1. CASE UNCHANGED <<tunnels, children>> BY <1>0, <2>3, <3>1, Elsewhere
    <3>2. CASE RolledBack
      <4>1. Closed({Slot}) /\ {Slot} \in SUBSET Slots BY <2>2, <3>2 DEF RolledBack
      <4> QED BY <1>0, <2>3, <4>1, ClosedCore
    <3> QED BY <1>6, <3>1, <3>2 DEF Record
  <2>5. sweep'.at = "loop"
    <3>1. Onward(TRUE) \/ Onward(FALSE) BY <1>6 DEF Record
    <3> QED BY <1>0, <3>1 DEF Onward, PassRec
  <2> QED BY <1>1, <2>1, <2>3, <2>4, <2>5 DEF Known
<1> QED BY <1>2, <1>3, <1>4, <1>5, <1>6

LEMMA ShareNextInv == ShareTypeOK /\ Known /\ [ShareNext]_shareVars => (ShareTypeOK /\ Known)'
<1> SUFFICES ASSUME ShareTypeOK, Known, [ShareNext]_shareVars PROVE (ShareTypeOK /\ Known)'
  OBVIOUS
<1>0. Core /\ "pass" \in Openers /\ "hand" \in Openers BY DEF Known, Openers
(* What happens in the sandbox touches no tunnel. *)
<1>1. ASSUME UNCHANGED <<tunnels, children, opening, tangled, sweep, byHand>> PROVE Known'
  BY <1>0, <1>1, Elsewhere, Unmoved DEF Known
<1>2. ASSUME NEW k \in Slots,
             \/ PreviewUp(k) \/ PreviewDown(k) \/ \E runs \in BOOLEAN : PreviewRuns(k, runs)
             \/ Invite(k) \/ GuestJoins(k) \/ Revoke(k)
      PROVE  (ShareTypeOK /\ Known)'
  <2>1. ShareTypeOK' BY <1>2, SandboxTypes
  <2>2. UNCHANGED <<tunnels, children, opening, tangled, sweep, byHand>>
    BY <1>2 DEF PreviewUp, PreviewDown, PreviewRuns, Invite, GuestJoins, Revoke, Guest, tunnelling
  <2> QED BY <1>1, <2>1, <2>2
<1>3. CASE Chatter
  <2>1. ShareTypeOK'
    <3>1. spent' \in SpentRec /\ timer' \in BOOLEAN
      BY <1>3, SpentType DEF Chatter, Says, ShareTypeOK
    <3> QED BY <1>3, <3>1 DEF Chatter, ShareTypeOK, sandbox, front, tunnelling
  <2>2. UNCHANGED <<tunnels, children, opening, tangled, sweep, byHand>>
    BY <1>3 DEF Chatter, tunnelling
  <2> QED BY <1>1, <2>1, <2>2
<1>4. CASE \E k \in Slots : ShareByHand(k) \/ UnshareByHand(k) BY <1>4, HandTypes, HandKnown
<1>5. CASE \E p \in Procs : Exit(p) \/ LateHostname(p)
  <2>1. PICK p \in Procs : Exit(p) \/ LateHostname(p) BY <1>5
  <2>2. ShareTypeOK' BY <2>1, ExitTypes
  <2>3. Core' BY <1>0, <2>1, ExitCore, LateCore
  <2>4. UNCHANGED <<opening, sweep, byHand>> BY <2>1 DEF Exit, LateHostname
  <2> QED BY <2>2, <2>3, <2>4, Unmoved DEF Known
<1>6. CASE Hand
  BY <1>0, <1>6, OpeningTypes, OpeningKnown, HandTypes, HandKnown DEF Hand
<1>7. CASE Trigger BY <1>7, PassTypes, PassKnown
<1>8. CASE Pass
  BY <1>0, <1>8, OpeningTypes, OpeningKnown, PassTypes, PassKnown DEF Pass
<1>9. CASE UNCHANGED shareVars
  <2>1. ShareTypeOK' BY <1>9 DEF shareVars, ShareTypeOK
  <2>2. UNCHANGED <<tunnels, children, opening, tangled, sweep, byHand>> BY <1>9 DEF shareVars
  <2> QED BY <1>1, <2>1, <2>2
<1> QED BY <1>2, <1>3, <1>4, <1>5, <1>6, <1>7, <1>8, <1>9 DEF ShareNext

LEMMA ShareInvariance == ShareSpec => [](ShareTypeOK /\ Known)
BY ShareInitInv, ShareNextInv, PTL DEF ShareSpec

(* Every variable of the reconciler keeps its type. *)
THEOREM ShareTypeCorrect == ShareSpec => []ShareTypeOK
BY ShareInvariance, PTL

(* A preview tunnel that nobody told to stop is the one previewTunnels records
   for its slot, or an attempt its opener waits for: through retries whose
   given-up processes exit late, the host's own Share and Unshare, tunnels that
   die, and previews that come and go while a tunnel starts.  It is proved for
   as long as no tunnel is started for a slot that has one, and no given-up
   attempt reports a hostname after all. *)
THEOREM TunnelsAreKnown == ShareSpec => []TunnelsKnown
<1>1. Known => TunnelsKnown BY DEF Known, Core
<1> QED BY <1>1, ShareInvariance, PTL
=============================================================================
