------------------------------- MODULE Previews -------------------------------
(***************************************************************************)
(* Previews: the sandbox's registry (sandbox/lib/previews.ts) and the      *)
(* runner container of each slot (preview-runner/server.ts and             *)
(* lib/supervisor.ts), between them an HTTP call whose answer can be lost. *)
(*                                                                         *)
(* A start leases the lowest slot no record names, has the runner execute  *)
(* the spec - its setup steps, one here, then the run command - and only   *)
(* then makes the record.  The runner executes in the background, one      *)
(* generation per start, restart or rebuild; a later one supersedes the    *)
(* earlier, which find out when their await returns.  A release stops the  *)
(* run command, drops the lease and, 50 ms later, exits the container, and *)
(* that is what ends every process in it.  The registry is in the memory   *)
(* of the sandbox and dies with it; the containers and their leases do not.*)
(***************************************************************************)
EXTENDS Naturals, FiniteSets

CONSTANTS Slots,      \* a set of numbers
          Sessions,
          Leases,     \* the starts ever made, each with a lease id of its own
          Owner,      \* the session each start is for
          MaxGens,    \* executions of one lease of the container
          MaxFaults,  \* containers and sandboxes that die, and calls lost or handled
                      \* with the answer lost, together
          None

ASSUME PreviewConstants ==
  /\ Slots \subseteq Nat /\ Owner \in [Leases -> Sessions]
  /\ MaxGens \in Nat /\ MaxFaults \in Nat
  /\ None \notin Leases

Gens == 1..MaxGens
States == {"stopped", "starting", "running", "shared", "failed"}
Serving == {"running", "shared"}

VARIABLES
  call,    \* each start: new, leasing, starting, backingOut, recorded, stopping, over
  slotOf,  \* the slot it took
  rec,     \* its record's state, None without one
  public,  \* its record has a tunnel's URL
  poll,    \* a status read by the runner whose answer is on its way
  runner,  \* each slot's container
  mishaps, \* the faults so far
  astray   \* history: the leases whose own lease or release call was lost, or
           \* that a sandbox which died knew of

vars == <<call, slotOf, rec, public, poll, runner, mishaps, astray>>
registry == <<call, slotOf, rec, public, poll>>
faults == <<mishaps, astray>>

(* A container: is it up; its lease, and whether a spec was ever started   *)
(* under it; what status says; the generation, and where each execution    *)
(* is; the run command it believes in, what each kill waits for, and the   *)
(* setup steps and run commands that are alive, by generation.             *)
Runner ==
  [phase : {"up", "closing", "exiting"}, lease : Leases \cup {None}, spec : BOOLEAN,
   state : States, gen : 0..MaxGens,
   pc : [Gens -> {"none", "killFull", "killRun", "setup", "waiting", "done"}],
   child : 0..MaxGens, victim : [0..MaxGens -> 0..MaxGens],
   steps : SUBSET Gens, cmds : SUBSET Gens]

Fresh ==
  [phase |-> "up", lease |-> None, spec |-> FALSE, state |-> "stopped", gen |-> 0,
   pc |-> [g \in Gens |-> "none"], child |-> 0, victim |-> [g \in 0..MaxGens |-> 0],
   steps |-> {}, cmds |-> {}]

TypeOK ==
  /\ call \in [Leases -> {"new", "leasing", "starting", "backingOut", "recorded", "stopping", "over"}]
  /\ slotOf \in [Leases -> Slots \cup {None}]
  /\ rec \in [Leases -> States \cup {None}]
  /\ public \in [Leases -> BOOLEAN]
  /\ poll \in [Leases -> States \cup {None, "foreign"}]
  /\ runner \in [Slots -> Runner]
  /\ mishaps \in 0..MaxFaults /\ astray \subseteq Leases

Init ==
  /\ call = [l \in Leases |-> "new"] /\ slotOf = [l \in Leases |-> None]
  /\ rec = [l \in Leases |-> None] /\ public = [l \in Leases |-> FALSE]
  /\ poll = [l \in Leases |-> None]
  /\ runner = [r \in Slots |-> Fresh]
  /\ mishaps = 0 /\ astray = {}

At(l) == runner[slotOf[l]]
Holds(l) == At(l).lease = l
SetRunner(r, R) == runner' = [runner EXCEPT ![r] = R]
Mishap == mishaps < MaxFaults /\ mishaps' = mishaps + 1
GoAstray(ls) == astray' = astray \cup ls

-----------------------------------------------------------------------------
(* The supervisor: each operator is the container after it.                *)

(* The run command is spawned. *)
Ran(R, g) == [R EXCEPT !.pc[g] = "waiting", !.child = g, !.cmds = @ \cup {g}]
SetUp(R, g) == [R EXCEPT !.pc[g] = "setup", !.steps = @ \cup {g}]
Failed(R) == [R EXCEPT !.state = "failed"]
Ended(R, g) == [R EXCEPT !.pc[g] = "done"]

(* What every await is followed by: go on only if nothing came after.  The *)
(* mutated supervisor goes on regardless.                                  *)
Regardless(R, g) == TRUE
Current(R, g) == g = R.gen

(* execute: the state flips at once; the run command there is, is killed   *)
(* first, and a setup step still running is not.                           *)
Execute(R, full) ==
  LET g == R.gen + 1
      Begun == [R EXCEPT !.gen = g, !.state = "starting", !.child = 0]
  IN  IF R.child # 0
        THEN [Begun EXCEPT !.pc[g] = IF full THEN "killFull" ELSE "killRun", !.victim[g] = R.child]
        ELSE IF full THEN SetUp(Begun, g) ELSE Ran(Begun, g)

(* release: stop, and only then the lease is dropped. *)
Closing(R) ==
  LET g == IF R.gen < MaxGens THEN R.gen + 1 ELSE 0   \* no execution has this one
  IN  [R EXCEPT !.phase = "closing", !.gen = g, !.victim[0] = R.child, !.child = 0]

Closed(r) ==
  /\ runner[r].phase = "closing" /\ runner[r].victim[0] \notin runner[r].cmds
  /\ SetRunner(r, [runner[r] EXCEPT !.phase = "exiting", !.state = "stopped",
                                    !.lease = None, !.spec = FALSE])
  /\ UNCHANGED <<registry, faults>>

(* The mutated runner stays: its lease is dropped, its scratch is wiped. *)
StaysUp(R) == [R EXCEPT !.phase = "up"]
Exited(R) == Fresh

Exit(r) ==
  /\ runner[r].phase = "exiting"
  /\ SetRunner(r, Exited(runner[r]))
  /\ UNCHANGED <<registry, faults>>

Crash(r) ==
  /\ Mishap
  /\ runner[r] # Fresh
  /\ SetRunner(r, Fresh)
  /\ UNCHANGED <<registry, astray>>

Killed(r, g) ==
  LET R == runner[r] IN
  /\ R.pc[g] \in {"killFull", "killRun"} /\ R.victim[g] \notin R.cmds
  /\ SetRunner(r, IF ~Current(R, g) THEN Ended(R, g)
                  ELSE IF R.pc[g] = "killFull" THEN SetUp(R, g) ELSE Ran(R, g))
  /\ UNCHANGED <<registry, faults>>

(* A setup step ends, by itself or at its time limit. *)
StepExits(r, g, ok) ==
  LET R == [runner[r] EXCEPT !.steps = @ \ {g}] IN
  /\ g \in runner[r].steps
  /\ SetRunner(r, IF ~Current(R, g) THEN Ended(R, g)
                  ELSE IF ok THEN Ran(R, g) ELSE Failed(Ended(R, g)))
  /\ UNCHANGED <<registry, faults>>

(* The run command is gone: of itself, or killed.  Only the latest one's   *)
(* end is a failure.                                                       *)
CmdExits(r, g) ==
  LET R == [runner[r] EXCEPT !.cmds = @ \ {g}] IN
  /\ g \in runner[r].cmds
  /\ SetRunner(r, IF ~Current(R, g) THEN R
                  ELSE [R EXCEPT !.child = 0, !.state = IF @ = "stopped" THEN @ ELSE "failed"])
  /\ UNCHANGED <<registry, faults>>

(* The port answered - whoever is listening on it - or the wait was given  *)
(* up.                                                                     *)
Ready(r, g) ==
  LET R == Ended(runner[r], g) IN
  /\ runner[r].pc[g] = "waiting" /\ R.cmds # {}
  /\ SetRunner(r, IF Current(R, g) /\ R.state = "starting" THEN [R EXCEPT !.state = "running"] ELSE R)
  /\ UNCHANGED <<registry, faults>>

NotReady(r, g) ==
  LET R == Ended(runner[r], g) IN
  /\ runner[r].pc[g] = "waiting"
  /\ SetRunner(r, IF Current(R, g) THEN Failed(R) ELSE R)
  /\ UNCHANGED <<registry, faults>>

-----------------------------------------------------------------------------
(* A start. *)
Recorded(l) == rec[l] # None
FreeSlots == Slots \ {slotOf[l] : l \in {k \in Leases : Recorded(k)}}

StartPreview(l) ==
  /\ call[l] = "new"
  /\ ~\E k \in Leases : Recorded(k) /\ Owner[k] = Owner[l]
  /\ call' = [call EXCEPT ![l] = "leasing"]
  /\ \E r \in FreeSlots : /\ \A s \in FreeSlots : r <= s
                          /\ slotOf' = [slotOf EXCEPT ![l] = r]
  /\ UNCHANGED <<rec, public, poll, runner, faults>>

CallGoes(l, to) == call' = [call EXCEPT ![l] = to] /\ UNCHANGED <<slotOf, rec, public, poll>>

Leased(l) ==
  /\ At(l).lease = None
  /\ SetRunner(slotOf[l], [At(l) EXCEPT !.lease = l, !.state = "stopped"])

Lease(l) ==
  /\ call[l] = "leasing"
  /\ \/ Leased(l) /\ CallGoes(l, "starting")
     \/ At(l).lease # None /\ UNCHANGED runner /\ CallGoes(l, "over")
  /\ UNCHANGED faults

LeaseLost(l) ==
  /\ call[l] = "leasing" /\ Mishap
  /\ Leased(l) \/ UNCHANGED runner
  /\ CallGoes(l, "over") /\ GoAstray({l})

Started(l) ==
  /\ Holds(l) /\ At(l).gen < MaxGens
  /\ SetRunner(slotOf[l], Execute([At(l) EXCEPT !.spec = TRUE], TRUE))

Start(l) ==
  /\ call[l] = "starting"
  /\ \/ /\ Started(l)
        /\ rec' = [rec EXCEPT ![l] = "starting"] /\ call' = [call EXCEPT ![l] = "recorded"]
        /\ UNCHANGED <<slotOf, public, poll>>
     \/ UNCHANGED runner /\ CallGoes(l, "backingOut")   \* refused: the lease, the spec, the port
  /\ UNCHANGED faults

StartLost(l) ==
  /\ call[l] = "starting" /\ Mishap
  /\ Started(l)
  /\ CallGoes(l, "backingOut")
  /\ UNCHANGED astray

(* The mutated start forgets the lease of a spec that did not start. *)
NotReleased(l) == FALSE
Releases(l) == Holds(l) /\ At(l).phase = "up"

Release(l) ==
  /\ call[l] \in {"backingOut", "stopping"}
  /\ IF Releases(l) THEN SetRunner(slotOf[l], Closing(At(l))) ELSE UNCHANGED runner
  /\ CallGoes(l, "over")
  /\ UNCHANGED faults

ReleaseLost(l) ==
  /\ call[l] \in {"backingOut", "stopping"} /\ Mishap
  /\ CallGoes(l, "over") /\ GoAstray({l})
  /\ UNCHANGED runner

-----------------------------------------------------------------------------
(* What becomes of a record.  A preview is stopped, a session's are reaped *)
(* with it, and a shutdown drops them all: the records go first.           *)
Drop(ls) ==
  /\ ls # {} /\ \A l \in ls : Recorded(l)
  /\ rec' = [l \in Leases |-> IF l \in ls THEN None ELSE rec[l]]
  /\ public' = [l \in Leases |-> public[l] /\ l \notin ls]
  /\ call' = [l \in Leases |-> IF l \in ls THEN "stopping" ELSE call[l]]
  /\ UNCHANGED <<slotOf, poll, runner, faults>>

Stop(l) == Drop({l})
Reap(s) == Drop({l \in Leases : Recorded(l) /\ Owner[l] = s})
Shutdown == Drop({l \in Leases : Recorded(l)})

(* The sandbox dies, or its drain is cut off, and another starts without   *)
(* records: nothing releases the leases of the one before.  A call under   *)
(* way that a runner still handles is, to that runner, one whose answer is *)
(* lost.                                                                   *)
UnderWay == {l \in Leases : call[l] \notin {"new", "over"}}
SandboxDies ==
  /\ Mishap
  /\ UnderWay # {} /\ GoAstray(UnderWay)
  /\ call' = [l \in Leases |-> IF l \in UnderWay THEN "over" ELSE call[l]]
  /\ rec' = [l \in Leases |-> None] /\ public' = [l \in Leases |-> FALSE]
  /\ poll' = [l \in Leases |-> None]
  /\ UNCHANGED <<slotOf, runner>>

Again(l, full) ==
  /\ Recorded(l) /\ Holds(l) /\ At(l).spec /\ At(l).gen < MaxGens
  /\ SetRunner(slotOf[l], Execute(At(l), full))
  /\ rec' = [rec EXCEPT ![l] = "starting"]
  /\ UNCHANGED <<call, slotOf, public, poll, faults>>

SetPreviewShared(l, on) ==
  LET Tell(s) == IF on /\ s = "running" THEN "shared" ELSE IF ~on /\ s = "shared" THEN "running" ELSE s
  IN  /\ Recorded(l) /\ public[l] # on
      /\ public' = [public EXCEPT ![l] = on]
      /\ rec' = [rec EXCEPT ![l] = Tell(@)]
      /\ \/ /\ Holds(l) /\ SetRunner(slotOf[l], [At(l) EXCEPT !.state = Tell(@)])
            /\ UNCHANGED mishaps
         \/ ~Holds(l) /\ UNCHANGED <<runner, mishaps>>
         \/ Mishap /\ UNCHANGED runner
      /\ UNCHANGED <<call, slotOf, poll, astray>>

(* The poll: what the runner said, then what is made of it. *)
Poll(l) ==
  /\ Recorded(l) /\ poll[l] = None
  /\ poll' = [poll EXCEPT ![l] = IF Holds(l) THEN At(l).state ELSE "foreign"]
  /\ UNCHANGED <<call, slotOf, rec, public, runner, faults>>

(* The mutated refresh takes a runner's word whoever it works for. *)
NeverForeign(l) == IF poll[l] = "foreign" THEN rec[l] ELSE poll[l]
Read(l) ==
  CASE poll[l] = "foreign" -> "failed"
    [] poll[l] = "running" /\ public[l] -> "shared"
    [] OTHER -> poll[l]

Refresh(l) ==
  /\ poll[l] # None
  /\ poll' = [poll EXCEPT ![l] = None]
  /\ rec' = IF Recorded(l) THEN [rec EXCEPT ![l] = Read(l)] ELSE rec
  /\ UNCHANGED <<call, slotOf, public, runner, faults>>

-----------------------------------------------------------------------------
Calls(l) == Lease(l) \/ LeaseLost(l) \/ Start(l) \/ StartLost(l) \/ Release(l) \/ ReleaseLost(l)
Execution(r) ==
  \E g \in Gens : \/ Killed(r, g) \/ CmdExits(r, g) \/ Ready(r, g) \/ NotReady(r, g)
                  \/ \E ok \in BOOLEAN : StepExits(r, g, ok)

Next ==
  \/ \E l \in Leases : \/ StartPreview(l) \/ Calls(l) \/ Stop(l) \/ Poll(l) \/ Refresh(l)
                       \/ \E b \in BOOLEAN : Again(l, b) \/ SetPreviewShared(l, b)
  \/ \E s \in Sessions : Reap(s)
  \/ Shutdown \/ SandboxDies
  \/ \E r \in Slots : Execution(r) \/ Closed(r) \/ Exit(r) \/ Crash(r)

(* The dashboard polls as long as it runs; a call is answered or times     *)
(* out; a setup step and the wait for the port have a time limit, and what *)
(* is killed dies.                                                         *)
Fairness ==
  /\ \A l \in Leases : WF_vars(Poll(l)) /\ WF_vars(Refresh(l)) /\ WF_vars(Calls(l))
  /\ \A r \in Slots :
       /\ WF_vars(Closed(r)) /\ WF_vars(Exit(r))
       /\ \A g \in Gens : /\ WF_vars(Killed(r, g))
                          /\ WF_vars(StepExits(r, g, TRUE) \/ StepExits(r, g, FALSE))
                          /\ WF_vars(Ready(r, g) \/ NotReady(r, g))
                          /\ WF_vars(g # runner[r].child /\ CmdExits(r, g))

Spec == Init /\ [][Next]_vars /\ Fairness

-----------------------------------------------------------------------------
(* A slot is held only by a record, or by a start or a release under way:  *)
(* what is refused, what fails and a container that dies strand no slot.   *)
(* Two things do, and no boot or later start repairs it (README, section   *)
(* 4): a lease or release call that is lost, which strands the slot of its *)
(* own lease, and the sandbox's death, which strands those it knew of.     *)
HeldIsOwned ==
  \A r \in Slots : LET l == runner[r].lease IN
    l # None /\ l \notin astray /\ runner[r].phase = "up" =>
      /\ slotOf[l] = r
      /\ call[l] \in {"starting", "backingOut", "recorded", "stopping"}

(* A runner that says it serves has its latest run command, however        *)
(* starts, restarts and rebuilds overtake each other.                      *)
RunningIsAlive ==
  \A r \in Slots : runner[r].state \in Serving /\ runner[r].phase = "up" => runner[r].child # 0

(* A slot nobody leases runs nothing of whoever had it before: the setup   *)
(* steps a stop does not kill die with the container.                      *)
FreeIsIdle ==
  \A r \in Slots : runner[r].lease = None /\ runner[r].phase = "up" =>
    runner[r].steps = {} /\ runner[r].cmds = {}

(* A preview that is starting is told to be something else in the end,     *)
(* whatever runner has died, been released or leased to somebody else.     *)
RecordsSettle == \A l \in Leases : rec[l] = "starting" ~> rec[l] # "starting"

(* previews.ts 224: "The one preview a session may hold, if any." *)
OnePerSession ==
  \A k, l \in Leases : Recorded(k) /\ Recorded(l) /\ Owner[k] = Owner[l] => k = l

(* supervisor.ts 546-553: the run command and everything it spawned is     *)
(* killed, lest "an orphan keeps the app port bound and the next start     *)
(* fails".                                                                 *)
OneCommand == \A r \in Slots : Cardinality(runner[r].cmds) <= 1
=============================================================================
