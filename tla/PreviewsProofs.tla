---------------------------- MODULE PreviewsProofs ----------------------------
(***************************************************************************)
(* Proofs about Previews, for any number of slots, starts, executions and  *)
(* faults: what a container may be, whose it is, and that a slot nobody    *)
(* leases runs nothing.                                                    *)
(***************************************************************************)
EXTENDS Previews, TLAPS

(* What holds of a container at every moment.  Besides what the three      *)
(* invariants say of it: a slot nobody leases has no execution that waits  *)
(* for a kill and would spawn after it, and one that waits for the port    *)
(* while its status is starting has its run command.                       *)
Idle(R) ==
  R.lease = None /\ R.phase = "up" =>
    R.steps = {} /\ R.cmds = {} /\ \A g \in Gens : R.pc[g] \notin {"killFull", "killRun"}
Alive(R) ==
  R.phase = "up" =>
    /\ R.state \in Serving => R.child # 0
    /\ \A g \in Gens : g = R.gen /\ R.state = "starting" /\ R.pc[g] = "waiting" => R.child # 0
Sound(R) == R \in Runner /\ Idle(R) /\ Alive(R)

Containers == runner \in [Slots -> Runner] /\ \A r \in Slots : Sound(runner[r])

(* A container that is held as another was. *)
SameHold(R, S) == S.lease = R.lease /\ S.phase = R.phase

-----------------------------------------------------------------------------
(* The supervisor's operators. *)
LEMMA GensFacts == \A g \in Gens : g \in 1..MaxGens /\ g \in 0..MaxGens /\ g # 0 /\ g \in Nat
  BY PreviewConstants DEF Gens

LEMMA FreshSound == Sound(Fresh)
<1>1. 0 \in 0..MaxGens BY PreviewConstants
<1>2. Fresh \in Runner BY <1>1 DEF Fresh, Runner, States
<1> QED BY <1>2 DEF Fresh, Sound, Idle, Alive, Serving

LEMMA RanSound ==
  ASSUME NEW R, Sound(R), NEW g \in Gens, ~(R.lease = None /\ R.phase = "up")
  PROVE  Sound(Ran(R, g)) /\ SameHold(R, Ran(R, g))
<1>1. Ran(R, g) \in Runner BY GensFacts DEF Sound, Runner, Ran
<1>2. /\ Ran(R, g).lease = R.lease /\ Ran(R, g).phase = R.phase /\ Ran(R, g).child = g
  BY DEF Sound, Runner, Ran
<1> QED BY <1>1, <1>2, GensFacts DEF Sound, Idle, Alive, SameHold

LEMMA SetUpSound ==
  ASSUME NEW R, Sound(R), NEW g \in Gens, ~(R.lease = None /\ R.phase = "up")
  PROVE  Sound(SetUp(R, g)) /\ SameHold(R, SetUp(R, g))
<1>1. SetUp(R, g) \in Runner BY GensFacts DEF Sound, Runner, SetUp
<1>2. /\ SetUp(R, g).lease = R.lease /\ SetUp(R, g).phase = R.phase /\ SetUp(R, g).child = R.child
      /\ SetUp(R, g).state = R.state /\ SetUp(R, g).gen = R.gen
      /\ \A h \in Gens : SetUp(R, g).pc[h] = IF h = g THEN "setup" ELSE R.pc[h]
  BY DEF Sound, Runner, SetUp
<1> QED BY <1>1, <1>2, GensFacts DEF Sound, Idle, Alive, SameHold

LEMMA EndedSound ==
  ASSUME NEW R, Sound(R), NEW g \in Gens
  PROVE  Sound(Ended(R, g)) /\ SameHold(R, Ended(R, g))
<1>1. Ended(R, g) \in Runner BY GensFacts DEF Sound, Runner, Ended
<1>2. /\ Ended(R, g).lease = R.lease /\ Ended(R, g).phase = R.phase /\ Ended(R, g).child = R.child
      /\ Ended(R, g).state = R.state /\ Ended(R, g).gen = R.gen
      /\ Ended(R, g).steps = R.steps /\ Ended(R, g).cmds = R.cmds
      /\ \A h \in Gens : Ended(R, g).pc[h] = IF h = g THEN "done" ELSE R.pc[h]
  BY DEF Sound, Runner, Ended
<1> QED BY <1>1, <1>2, GensFacts DEF Sound, Idle, Alive, SameHold

LEMMA StateSound ==
  ASSUME NEW R, Sound(R), NEW s \in States, s \in Serving => R.child # 0 \/ R.phase # "up",
         s # "starting"
  PROVE  Sound([R EXCEPT !.state = s]) /\ SameHold(R, [R EXCEPT !.state = s])
<1> DEFINE S == [R EXCEPT !.state = s]
<1>1. S \in Runner BY DEF Sound, Runner
<1>2. /\ S.lease = R.lease /\ S.phase = R.phase /\ S.child = R.child /\ S.state = s
      /\ S.steps = R.steps /\ S.cmds = R.cmds /\ S.pc = R.pc
  BY DEF Sound, Runner
<1> HIDE DEF S
<1>3. Sound(S) /\ SameHold(R, S) BY <1>1, <1>2 DEF Sound, Idle, Alive, SameHold
<1> QED BY <1>3 DEF S

LEMMA StepGone ==
  ASSUME NEW R, Sound(R), NEW g \in Gens
  PROVE  LET S == [R EXCEPT !.steps = @ \ {g}] IN Sound(S) /\ SameHold(R, S) /\ S.gen = R.gen
<1> DEFINE S == [R EXCEPT !.steps = @ \ {g}]
<1>1. S \in Runner BY DEF Sound, Runner
<1>2. /\ S.lease = R.lease /\ S.phase = R.phase /\ S.child = R.child /\ S.state = R.state
      /\ S.steps = R.steps \ {g} /\ S.cmds = R.cmds /\ S.pc = R.pc /\ S.gen = R.gen
  BY DEF Sound, Runner
<1> HIDE DEF S
<1>3. Sound(S) /\ SameHold(R, S) BY <1>1, <1>2 DEF Sound, Idle, Alive, SameHold
<1> QED BY <1>2, <1>3 DEF S

LEMMA CmdGone ==
  ASSUME NEW R, Sound(R), NEW g \in Gens
  PROVE  LET S == [R EXCEPT !.cmds = @ \ {g}] IN
           /\ Sound(S) /\ SameHold(R, S) /\ S.gen = R.gen
           /\ LET F == [S EXCEPT !.child = 0, !.state = IF @ = "stopped" THEN @ ELSE "failed"]
              IN  Sound(F) /\ SameHold(R, F)
<1> DEFINE S == [R EXCEPT !.cmds = @ \ {g}]
           F == [S EXCEPT !.child = 0, !.state = IF @ = "stopped" THEN @ ELSE "failed"]
<1>1. S \in Runner BY DEF Sound, Runner
<1>2. /\ S.lease = R.lease /\ S.phase = R.phase /\ S.child = R.child /\ S.state = R.state
      /\ S.steps = R.steps /\ S.cmds = R.cmds \ {g} /\ S.pc = R.pc /\ S.gen = R.gen
  BY DEF Sound, Runner
<1> HIDE DEF S
<1>3. Sound(S) /\ SameHold(R, S) BY <1>1, <1>2 DEF Sound, Idle, Alive, SameHold
<1>4. 0 \in 0..MaxGens BY PreviewConstants
<1>5. F \in Runner BY <1>1, <1>4 DEF Runner, States
<1>6. /\ F.lease = S.lease /\ F.phase = S.phase /\ F.state \in {"stopped", "failed"}
      /\ F.steps = S.steps /\ F.cmds = S.cmds /\ F.pc = S.pc
  BY <1>1 DEF Runner
<1> HIDE DEF F
<1>7. Sound(F) /\ SameHold(R, F)
  BY <1>2, <1>3, <1>5, <1>6 DEF Sound, Idle, Alive, SameHold, Serving
<1> QED BY <1>2, <1>3, <1>7 DEF S, F

LEMMA ExecuteSound ==
  ASSUME NEW R, Sound(R), R.lease # None, R.gen < MaxGens, NEW full \in BOOLEAN
  PROVE  Sound(Execute(R, full)) /\ SameHold(R, Execute(R, full))
<1> DEFINE g == R.gen + 1
           Begun == [R EXCEPT !.gen = g, !.state = "starting", !.child = 0]
           kill == IF full THEN "killFull" ELSE "killRun"
           Kills == [Begun EXCEPT !.pc[g] = kill, !.victim[g] = R.child]
<1>1. g \in Gens /\ R.gen \in 0..MaxGens
  <2>1. R.gen \in 0..MaxGens BY DEF Sound, Runner
  <2> QED BY <2>1, PreviewConstants DEF Gens
<1>2. 0 \in 0..MaxGens /\ g \in 0..MaxGens /\ "starting" \in States
  BY <1>1, PreviewConstants DEF Gens, States
<1>3. Begun \in Runner BY <1>2 DEF Sound, Runner
<1>4. /\ Begun.lease = R.lease /\ Begun.phase = R.phase /\ Begun.gen = g /\ Begun.pc = R.pc
      /\ Begun.child = 0 /\ Begun.state = "starting"
  BY DEF Sound, Runner
<1>5. kill \in {"killFull", "killRun"} OBVIOUS
<1>6. R.child \in 0..MaxGens BY DEF Sound, Runner
<1>7. Execute(R, full) = IF R.child # 0 THEN Kills
                         ELSE IF full THEN SetUp(Begun, g) ELSE Ran(Begun, g)
  BY DEF Execute
<1> HIDE DEF Begun, g, kill
<1>8. CASE R.child # 0
  <2>1. Kills \in Runner BY <1>1, <1>2, <1>3, <1>5, <1>6 DEF Runner
  <2>2. /\ Kills.lease = R.lease /\ Kills.phase = R.phase /\ Kills.gen = g
        /\ Kills.state = "starting" /\ Kills.pc[g] = kill
    BY <1>1, <1>3, <1>4 DEF Runner
  <2> HIDE DEF Kills
  <2>3. Sound(Kills) /\ SameHold(R, Kills)
    BY <1>5, <2>1, <2>2 DEF Sound, Idle, Alive, SameHold, Serving
  <2> QED BY <1>7, <1>8, <2>3
<1>9. CASE R.child = 0 /\ full
  <2> DEFINE S == SetUp(Begun, g)
  <2>1. S \in Runner BY <1>1, <1>3 DEF Runner, SetUp
  <2>2. /\ S.lease = R.lease /\ S.phase = R.phase /\ S.gen = g
        /\ S.state = "starting" /\ S.pc[g] = "setup"
    BY <1>1, <1>3, <1>4 DEF Runner, SetUp
  <2> HIDE DEF S
  <2>3. Sound(S) /\ SameHold(R, S)
    BY <2>1, <2>2 DEF Sound, Idle, Alive, SameHold, Serving
  <2> QED BY <1>7, <1>9, <2>3 DEF S
<1>10. CASE R.child = 0 /\ ~full
  <2> DEFINE S == Ran(Begun, g)
  <2>1. S \in Runner BY <1>1, <1>2, <1>3 DEF Runner, Ran
  <2>2. /\ S.lease = R.lease /\ S.phase = R.phase /\ S.child = g
    BY <1>1, <1>3, <1>4 DEF Runner, Ran
  <2> HIDE DEF S
  <2>3. Sound(S) /\ SameHold(R, S)
    BY <1>1, <2>1, <2>2, GensFacts DEF Sound, Idle, Alive, SameHold
  <2> QED BY <1>7, <1>10, <2>3 DEF S
<1> QED BY <1>8, <1>9, <1>10

LEMMA ClosingSound ==
  ASSUME NEW R, Sound(R)
  PROVE  Sound(Closing(R)) /\ Closing(R).phase = "closing"
<1> DEFINE g == IF R.gen < MaxGens THEN R.gen + 1 ELSE 0
           S == [R EXCEPT !.phase = "closing", !.gen = g, !.victim[0] = R.child, !.child = 0]
<1>a. R.gen \in 0..MaxGens BY DEF Sound, Runner
<1>1. g \in 0..MaxGens /\ 0 \in 0..MaxGens BY <1>a, PreviewConstants
<1> HIDE DEF g
<1>2. S \in Runner BY <1>1 DEF Sound, Runner
<1>3. S.phase = "closing" BY DEF Sound, Runner
<1>4. Closing(R) = S BY DEF Closing, g
<1> HIDE DEF S
<1> QED BY <1>2, <1>3, <1>4 DEF Sound, Idle, Alive

-----------------------------------------------------------------------------
(* Steps that change one container at most. *)
LEMMA OneContainer ==
  ASSUME Containers, NEW r, NEW S, SetRunner(r, S), r \in Slots => Sound(S)
  PROVE  Containers'
  BY DEF Containers, SetRunner, Sound

LEMMA NoContainer == ASSUME Containers, UNCHANGED runner PROVE Containers'
  BY DEF Containers

LEMMA ExecutionContainers ==
  ASSUME Containers, NEW r \in Slots, Execution(r)
  PROVE  Containers' /\ SameHold(runner[r], runner'[r]) /\ UNCHANGED <<registry, faults>>
<1> DEFINE R == runner[r]
<1>0. Sound(R) /\ runner \in [Slots -> Runner] BY DEF Containers
<1>1. PICK g \in Gens : \/ Killed(r, g) \/ CmdExits(r, g) \/ Ready(r, g) \/ NotReady(r, g)
                       \/ \E ok \in BOOLEAN : StepExits(r, g, ok)
  BY DEF Execution
<1>2. UNCHANGED <<registry, faults>>
  BY <1>1 DEF Killed, CmdExits, Ready, NotReady, StepExits
<1>3. SUFFICES \E S : SetRunner(r, S) /\ Sound(S) /\ SameHold(R, S)
  <2>1. PICK S : SetRunner(r, S) /\ Sound(S) /\ SameHold(R, S) BY <1>3
  <2>2. runner'[r] = S BY <1>0, <2>1 DEF SetRunner
  <2> QED BY <1>2, <2>1, <2>2, OneContainer
<1>4. CASE Killed(r, g)
  <2>1. R.pc[g] \in {"killFull", "killRun"} BY <1>4 DEF Killed
  <2>2. ~(R.lease = None /\ R.phase = "up") BY <1>0, <2>1 DEF Sound, Idle
  <2>3. \/ SetRunner(r, Ended(R, g)) \/ SetRunner(r, SetUp(R, g)) \/ SetRunner(r, Ran(R, g))
    BY <1>4 DEF Killed
  <2> HIDE DEF R
  <2> QED BY <1>0, <2>2, <2>3, EndedSound, SetUpSound, RanSound
<1>5. CASE CmdExits(r, g)
  <2> DEFINE S == [R EXCEPT !.cmds = @ \ {g}]
             F == [S EXCEPT !.child = 0, !.state = IF @ = "stopped" THEN @ ELSE "failed"]
  <2>1. SetRunner(r, S) \/ SetRunner(r, F) BY <1>5 DEF CmdExits
  <2>2. Sound(S) /\ SameHold(R, S) /\ Sound(F) /\ SameHold(R, F) BY <1>0, CmdGone
  <2> HIDE DEF R, S, F
  <2> QED BY <2>1, <2>2
<1>6. CASE Ready(r, g)
  <2> DEFINE E == Ended(R, g)
             U == [E EXCEPT !.state = "running"]
  <2>1. /\ R.pc[g] = "waiting"
        /\ SetRunner(r, IF Current(E, g) /\ E.state = "starting" THEN U ELSE E)
    BY <1>6 DEF Ready
  <2>2. Sound(E) /\ SameHold(R, E) BY <1>0, EndedSound
  <2>3. E.gen = R.gen /\ E.state = R.state /\ E.child = R.child /\ E.phase = R.phase
    BY <1>0 DEF Ended, Sound, Runner
  <2>4. Current(E, g) /\ E.state = "starting" => Sound(U) /\ SameHold(E, U)
    <3> SUFFICES ASSUME Current(E, g), E.state = "starting" PROVE Sound(U) /\ SameHold(E, U) OBVIOUS
    <3>1. E.child # 0 \/ E.phase # "up"
      BY <1>0, <2>1, <2>3 DEF Current, Sound, Alive
    <3>2. "running" \in States BY DEF States
    <3> HIDE DEF E
    <3> QED BY <2>2, <3>1, <3>2, StateSound
  <2>5. SameHold(R, E) /\ SameHold(E, U) => SameHold(R, U) BY DEF SameHold
  <2> HIDE DEF R, E, U
  <2> QED BY <2>1, <2>2, <2>4, <2>5
<1>7. CASE NotReady(r, g)
  <2> DEFINE E == Ended(R, g)
             F == Failed(E)
  <2>1. SetRunner(r, E) \/ SetRunner(r, F) BY <1>7 DEF NotReady
  <2>2. Sound(E) /\ SameHold(R, E) BY <1>0, EndedSound
  <2>3. Sound(F) /\ SameHold(E, F)
    <3>1. "failed" \in States /\ "failed" \notin Serving BY DEF States, Serving
    <3> HIDE DEF E
    <3> QED BY <2>2, <3>1, StateSound DEF Failed
  <2>4. SameHold(R, F) BY <2>2, <2>3 DEF SameHold
  <2> HIDE DEF R, E, F
  <2> QED BY <2>1, <2>2, <2>3, <2>4
<1>8. CASE \E ok \in BOOLEAN : StepExits(r, g, ok)
  <2> DEFINE S == [R EXCEPT !.steps = @ \ {g}]
             E == Ended(S, g)
             F == Failed(E)
             N == Ran(S, g)
  <2>1. /\ g \in R.steps
        /\ SetRunner(r, E) \/ SetRunner(r, N) \/ SetRunner(r, F)
    BY <1>8 DEF StepExits
  <2>2. ~(R.lease = None /\ R.phase = "up") BY <1>0, <2>1 DEF Sound, Idle
  <2>3. Sound(S) /\ SameHold(R, S) BY <1>0, StepGone
  <2> HIDE DEF R, S
  <2>4. Sound(E) /\ SameHold(S, E) BY <2>3, EndedSound
  <2>5. Sound(N) /\ SameHold(S, N) BY <2>2, <2>3, RanSound DEF SameHold
  <2>6. Sound(F) /\ SameHold(E, F)
    <3>1. "failed" \in States /\ "failed" \notin Serving BY DEF States, Serving
    <3> HIDE DEF E
    <3> QED BY <2>4, <3>1, StateSound DEF Failed
  <2>7. SameHold(R, E) /\ SameHold(R, N) /\ SameHold(R, F) BY <2>3, <2>4, <2>5, <2>6 DEF SameHold
  <2> HIDE DEF E, N, F
  <2> QED BY <2>1, <2>4, <2>5, <2>6, <2>7
<1> QED BY <1>1, <1>4, <1>5, <1>6, <1>7, <1>8

-----------------------------------------------------------------------------
(* The registry: a start that is under way or over took a slot, and only a *)
(* start that was recorded has a record.                                   *)
RegistryType ==
  /\ call \in [Leases -> {"new", "leasing", "starting", "backingOut", "recorded", "stopping", "over"}]
  /\ slotOf \in [Leases -> Slots \cup {None}]
  /\ rec \in [Leases -> States \cup {None}]
  /\ public \in [Leases -> BOOLEAN]
  /\ poll \in [Leases -> States \cup {None, "foreign"}]
  /\ mishaps \in 0..MaxFaults /\ astray \subseteq Leases

Taken ==
  \A l \in Leases : /\ call[l] # "new" => slotOf[l] \in Slots
                    /\ Recorded(l) => call[l] = "recorded"

Base == Containers /\ RegistryType /\ Taken

LEMMA AtFacts ==
  ASSUME Base, NEW l \in Leases, call[l] # "new"
  PROVE  slotOf[l] \in Slots /\ Sound(At(l)) /\ At(l) \in Runner /\ At(l).state \in States
         /\ l # None
<1>1. slotOf[l] \in Slots BY DEF Base, Taken
<1>2. Sound(At(l)) /\ At(l) \in Runner BY <1>1 DEF Base, Containers, At, Sound
<1> QED BY <1>1, <1>2, PreviewConstants DEF Runner

LEMMA LeasedSound ==
  ASSUME Base, NEW l \in Leases, call[l] # "new", Leased(l)
  PROVE  /\ Containers'
         /\ runner'[slotOf[l]].lease = l
         /\ \A r \in Slots \ {slotOf[l]} : runner'[r] = runner[r]
<1> DEFINE R == At(l)
           S == [R EXCEPT !.lease = l, !.state = "stopped"]
<1>1. Sound(R) /\ R \in Runner /\ slotOf[l] \in Slots /\ l # None BY AtFacts
<1>2. runner' = [runner EXCEPT ![slotOf[l]] = S] BY DEF Leased, SetRunner
<1> HIDE DEF R
<1>3. S \in Runner BY <1>1 DEF Runner, States
<1>4. S.lease = l /\ S.state = "stopped" BY <1>1 DEF Runner
<1> HIDE DEF S
<1>5. Sound(S) BY <1>1, <1>3, <1>4 DEF Sound, Idle, Alive, Serving
<1>6. SetRunner(slotOf[l], S) BY <1>2 DEF SetRunner
<1>7. Containers' BY <1>5, <1>6, OneContainer DEF Base
<1> QED BY <1>1, <1>2, <1>4, <1>7 DEF Base, Containers

LEMMA StartedSound ==
  ASSUME Base, NEW l \in Leases, call[l] # "new", Started(l)
  PROVE  Containers' /\ \A r \in Slots : SameHold(runner[r], runner'[r])
<1> DEFINE R == At(l)
           S == [R EXCEPT !.spec = TRUE]
<1>1. Sound(R) /\ R \in Runner /\ slotOf[l] \in Slots /\ l # None BY AtFacts
<1>2. R.lease = l /\ R.gen < MaxGens /\ SetRunner(slotOf[l], Execute(S, TRUE))
  BY DEF Started, Holds
<1>3. R = runner[slotOf[l]] BY DEF At
<1> HIDE DEF R
<1>4. S \in Runner BY <1>1 DEF Runner
<1>5. /\ S.lease = R.lease /\ S.phase = R.phase /\ S.gen = R.gen /\ S.child = R.child
      /\ S.state = R.state /\ S.pc = R.pc /\ S.steps = R.steps /\ S.cmds = R.cmds
  BY <1>1 DEF Runner
<1> HIDE DEF S
<1>6. Sound(S) BY <1>1, <1>4, <1>5 DEF Sound, Idle, Alive
<1>7. Sound(Execute(S, TRUE)) /\ SameHold(S, Execute(S, TRUE))
  BY <1>1, <1>2, <1>5, <1>6, ExecuteSound
<1>8. Containers' BY <1>2, <1>7, OneContainer DEF Base
<1>9. SameHold(R, Execute(S, TRUE)) BY <1>5, <1>7 DEF SameHold
<1> QED BY <1>1, <1>2, <1>3, <1>8, <1>9 DEF SetRunner, SameHold, Base, Containers

LEMMA AgainSound ==
  ASSUME Base, NEW l \in Leases, NEW full \in BOOLEAN, Again(l, full)
  PROVE  Containers' /\ \A r \in Slots : SameHold(runner[r], runner'[r])
<1>1. call[l] # "new" BY DEF Again, Base, Taken
<1> DEFINE R == At(l)
<1>2. Sound(R) /\ slotOf[l] \in Slots /\ l # None BY <1>1, AtFacts
<1>3. R.lease = l /\ R.gen < MaxGens /\ SetRunner(slotOf[l], Execute(R, full))
  BY DEF Again, Holds
<1>4. R = runner[slotOf[l]] BY DEF At
<1> HIDE DEF R
<1>5. Sound(Execute(R, full)) /\ SameHold(R, Execute(R, full)) BY <1>2, <1>3, ExecuteSound
<1>6. Containers' BY <1>3, <1>5, OneContainer DEF Base
<1> QED BY <1>2, <1>3, <1>4, <1>5, <1>6 DEF SetRunner, SameHold, Base, Containers

LEMMA SharedSound ==
  ASSUME Base, NEW l \in Leases, NEW on \in BOOLEAN, SetPreviewShared(l, on)
  PROVE  Containers' /\ \A r \in Slots : SameHold(runner[r], runner'[r])
<1>1. call[l] # "new" BY DEF SetPreviewShared, Base, Taken
<1> DEFINE R == At(l)
           tell == IF on /\ R.state = "running" THEN "shared"
                     ELSE IF ~on /\ R.state = "shared" THEN "running" ELSE R.state
           S == [R EXCEPT !.state = tell]
<1>2. Sound(R) /\ R \in Runner /\ slotOf[l] \in Slots BY <1>1, AtFacts
<1>3. SetRunner(slotOf[l], S) \/ UNCHANGED runner BY DEF SetPreviewShared
<1>4. R = runner[slotOf[l]] BY DEF At
<1>5. /\ tell \in States
      /\ tell = R.state \/ (tell \in Serving /\ R.state \in Serving)
  BY <1>2 DEF States, Serving, Runner
<1> HIDE DEF R, tell
<1>6. Sound(S) /\ SameHold(R, S)
  <2>1. CASE tell = R.state
    <3>1. S = R BY <1>2, <2>1 DEF Runner
    <3> HIDE DEF S
    <3> QED BY <1>2, <3>1 DEF SameHold
  <2>2. CASE tell \in Serving /\ R.state \in Serving
    <3>1. R.child # 0 \/ R.phase # "up" BY <1>2, <2>2 DEF Sound, Alive
    <3>2. tell # "starting" BY <2>2 DEF Serving
    <3> QED BY <1>2, <1>5, <3>1, <3>2, StateSound
  <2> QED BY <1>5, <2>1, <2>2
<1> HIDE DEF S
<1>7. CASE SetRunner(slotOf[l], S)
  <2>1. Containers' BY <1>6, <1>7, OneContainer DEF Base
  <2> QED BY <1>2, <1>4, <1>6, <1>7, <2>1 DEF SetRunner, SameHold, Base, Containers
<1>8. CASE UNCHANGED runner
  BY <1>8 DEF SameHold, Base, Containers
<1> QED BY <1>3, <1>7, <1>8

-----------------------------------------------------------------------------
(* The containers' ends. *)
LEMMA ClosedContainers ==
  ASSUME Containers, NEW r \in Slots, Closed(r)
  PROVE  Containers' /\ runner'[r].phase = "exiting" /\ \A s \in Slots \ {r} : runner'[s] = runner[s]
<1> DEFINE R == runner[r]
           S == [R EXCEPT !.phase = "exiting", !.state = "stopped", !.lease = None, !.spec = FALSE]
<1>1. R \in Runner /\ SetRunner(r, S) BY DEF Closed, Containers
<1> HIDE DEF R
<1>2. S \in Runner BY <1>1 DEF Runner, States
<1>3. S.phase = "exiting" BY <1>1 DEF Runner
<1> HIDE DEF S
<1>4. Sound(S) BY <1>2, <1>3 DEF Sound, Idle, Alive
<1>5. Containers' BY <1>1, <1>4, OneContainer
<1> QED BY <1>1, <1>3, <1>5 DEF SetRunner, Containers

LEMMA GoneContainers ==
  ASSUME Containers, NEW r \in Slots, Exit(r) \/ Crash(r)
  PROVE  Containers' /\ runner'[r].lease = None /\ \A s \in Slots \ {r} : runner'[s] = runner[s]
<1>1. SetRunner(r, Fresh) BY DEF Exit, Exited, Crash
<1>2. Containers' BY <1>1, FreshSound, OneContainer
<1>3. Fresh.lease = None BY DEF Fresh
<1> QED BY <1>1, <1>2, <1>3 DEF SetRunner, Containers

LEMMA ReleaseContainers ==
  ASSUME Base, NEW l \in Leases, Release(l)
  PROVE  /\ Containers'
         /\ \A r \in Slots : runner'[r] = runner[r] \/ runner'[r].phase = "closing"
         /\ Releases(l) => runner'[slotOf[l]].phase = "closing"
<1>1. call[l] # "new" BY DEF Release
<1>2. Sound(At(l)) /\ slotOf[l] \in Slots BY <1>1, AtFacts
<1>3. CASE Releases(l)
  <2>1. SetRunner(slotOf[l], Closing(At(l))) BY <1>3 DEF Release
  <2>2. Sound(Closing(At(l))) /\ Closing(At(l)).phase = "closing" BY <1>2, ClosingSound
  <2>3. Containers' BY <2>1, <2>2, OneContainer DEF Base
  <2> QED BY <1>2, <2>1, <2>2, <2>3 DEF SetRunner, Base, Containers
<1>4. CASE ~Releases(l)
  <2>1. UNCHANGED runner BY <1>4 DEF Release
  <2> QED BY <1>4, <2>1, NoContainer DEF Base
<1> QED BY <1>3, <1>4

-----------------------------------------------------------------------------
(* The steps of the registry keep its types and what a record implies. *)
LEMMA Bounded ==
  ASSUME RegistryType, UNCHANGED mishaps \/ Mishap,
         UNCHANGED astray \/ \E ls \in SUBSET Leases : GoAstray(ls)
  PROVE  mishaps' \in 0..MaxFaults /\ astray' \subseteq Leases /\ astray \subseteq astray'
  BY PreviewConstants DEF RegistryType, Mishap, GoAstray

LEMMA CallGoesKeeps ==
  ASSUME Base, NEW l \in Leases, call[l] # "new", ~Recorded(l),
         NEW to \in {"starting", "backingOut", "over"}, CallGoes(l, to),
         mishaps' \in 0..MaxFaults /\ astray' \subseteq Leases
  PROVE  RegistryType' /\ Taken'
<1>1. RegistryType' BY DEF Base, RegistryType, CallGoes
<1>2. Taken' BY DEF Base, Taken, RegistryType, CallGoes, Recorded
<1> QED BY <1>1, <1>2

LEMMA DropKeeps ==
  ASSUME Base, NEW ls \in SUBSET Leases, Drop(ls)
  PROVE  /\ Base'
         /\ UNCHANGED <<runner, astray>>
         /\ \A l \in Leases : /\ call'[l] = call[l] \/ call'[l] = "stopping"
                              /\ slotOf'[l] = slotOf[l]
<1>1. RegistryType' BY DEF Base, RegistryType, Drop, faults
<1>2. \A l \in Leases : /\ call'[l] = IF l \in ls THEN "stopping" ELSE call[l]
                        /\ rec'[l] = IF l \in ls THEN None ELSE rec[l]
                        /\ slotOf'[l] = slotOf[l]
  BY DEF Drop
<1>3. \A l \in ls : call[l] = "recorded" BY DEF Drop, Base, Taken
<1>4. Taken' BY <1>2, <1>3 DEF Base, Taken, Recorded
<1>5. Containers' BY NoContainer DEF Drop, Base
<1> QED BY <1>1, <1>2, <1>4, <1>5 DEF Base, Drop, faults

-----------------------------------------------------------------------------
(* Whose a slot is: a step that leaves every container held as it was, or  *)
(* free, and every start that may hold one on its way, keeps HeldIsOwned.  *)
Owning == {"starting", "backingOut", "recorded", "stopping"}

LEMMA HeldKept ==
  ASSUME Containers, HeldIsOwned, astray \subseteq astray',
         \A r \in Slots : \/ SameHold(runner[r], runner'[r])
                          \/ runner'[r].phase # "up" \/ runner'[r].lease = None,
         \A l \in Leases : call[l] \in Owning =>
                            l \in astray' \/ (call'[l] \in Owning /\ slotOf'[l] = slotOf[l])
  PROVE  HeldIsOwned'
<1> SUFFICES ASSUME NEW r \in Slots, runner'[r].lease # None, runner'[r].lease \notin astray',
                    runner'[r].phase = "up"
             PROVE  /\ slotOf'[runner'[r].lease] = r
                    /\ call'[runner'[r].lease] \in Owning
  BY DEF HeldIsOwned, Owning
<1> DEFINE l == runner[r].lease
<1>1. runner'[r].lease = l /\ runner[r].phase = "up" BY DEF SameHold
<1>2. l \in Leases BY <1>1 DEF Containers, Runner
<1>3. slotOf[l] = r /\ call[l] \in Owning BY <1>1 DEF HeldIsOwned, Owning
<1> QED BY <1>1, <1>2, <1>3

LEMMA SameHeld == ASSUME UNCHANGED runner
                  PROVE  \A r \in Slots : SameHold(runner[r], runner'[r])
  BY DEF SameHold

Inv == Base /\ HeldIsOwned

LEMMA InitInv == Init => Inv
<1> SUFFICES ASSUME Init PROVE Inv OBVIOUS
<1>1. Containers BY FreshSound DEF Init, Containers, Sound
<1>2. RegistryType BY PreviewConstants DEF Init, RegistryType
<1>3. Taken BY DEF Init, Taken, Recorded
<1>4. HeldIsOwned
  <2>1. \A r \in Slots : runner[r].lease = None BY DEF Init, Fresh
  <2> QED BY <2>1 DEF HeldIsOwned
<1> QED BY <1>1, <1>2, <1>3, <1>4 DEF Inv, Base

LEMMA StartPreviewInv == ASSUME Inv, NEW l \in Leases, StartPreview(l) PROVE Inv'
<1>1. PICK r \in FreeSlots : slotOf' = [slotOf EXCEPT ![l] = r] BY DEF StartPreview
<1>2. r \in Slots BY DEF FreeSlots
<1>3. /\ call[l] = "new" /\ call' = [call EXCEPT ![l] = "leasing"]
      /\ UNCHANGED <<rec, public, poll, runner, faults>>
  BY DEF StartPreview
<1>4. RegistryType' BY <1>1, <1>2, <1>3 DEF Inv, Base, RegistryType, faults
<1>5. Taken' BY <1>1, <1>2, <1>3 DEF Inv, Base, RegistryType, Taken, Recorded
<1>6. Containers' BY <1>3, NoContainer DEF Inv, Base
<1>7. \A k \in Leases : call[k] \in Owning => call'[k] \in Owning /\ slotOf'[k] = slotOf[k]
  BY <1>1, <1>3 DEF Inv, Base, RegistryType, Owning
<1>8. HeldIsOwned' BY <1>3, <1>7, HeldKept, SameHeld DEF Inv, Base, faults
<1> QED BY <1>4, <1>5, <1>6, <1>8 DEF Inv, Base

LEMMA LeaseInv == ASSUME Inv, NEW l \in Leases, Lease(l) PROVE Inv'
<1>0. Base /\ call[l] = "leasing" /\ UNCHANGED faults BY DEF Inv, Lease
<1>1. ~Recorded(l) BY <1>0 DEF Base, Taken
<1>2. mishaps' \in 0..MaxFaults /\ astray' \subseteq Leases /\ astray \subseteq astray'
  BY <1>0, Bounded DEF Base, faults
<1>3. CASE Leased(l) /\ CallGoes(l, "starting")
  <2>1. /\ Containers'
        /\ runner'[slotOf[l]].lease = l
        /\ \A r \in Slots \ {slotOf[l]} : runner'[r] = runner[r]
    BY <1>0, <1>3, LeasedSound
  <2>2. RegistryType' /\ Taken' BY <1>0, <1>1, <1>2, <1>3, CallGoesKeeps DEF Base
  <2>3. slotOf' = slotOf /\ \A k \in Leases : call'[k] = IF k = l THEN "starting" ELSE call[k]
    BY <1>0, <1>3 DEF CallGoes, Base, RegistryType
  <2>4. HeldIsOwned'
    <3> SUFFICES ASSUME NEW r \in Slots, runner'[r].lease # None, runner'[r].lease \notin astray',
                        runner'[r].phase = "up"
                 PROVE  /\ slotOf'[runner'[r].lease] = r
                        /\ call'[runner'[r].lease] \in Owning
      BY DEF HeldIsOwned, Owning
    <3>1. CASE r = slotOf[l] BY <2>1, <2>3, <3>1 DEF Owning
    <3>2. CASE r # slotOf[l]
      <4>1. runner'[r] = runner[r] BY <2>1, <3>2
      <4>2. runner[r].lease \in Leases BY <4>1, <1>0 DEF Base, Containers, Runner
      <4>3. slotOf[runner[r].lease] = r /\ call[runner[r].lease] \in Owning
        BY <1>2, <4>1 DEF Inv, HeldIsOwned, Owning
      <4> QED BY <2>3, <4>1, <4>2, <4>3 DEF Owning
    <3> QED BY <3>1, <3>2
  <2> QED BY <2>1, <2>2, <2>4 DEF Inv, Base
<1>4. CASE UNCHANGED runner /\ CallGoes(l, "over")
  <2>1. RegistryType' /\ Taken' BY <1>0, <1>1, <1>2, <1>4, CallGoesKeeps DEF Base
  <2>2. Containers' BY <1>0, <1>4, NoContainer DEF Base
  <2>3. \A k \in Leases : call[k] \in Owning => call'[k] \in Owning /\ slotOf'[k] = slotOf[k]
    BY <1>0, <1>4 DEF CallGoes, Base, RegistryType, Owning
  <2>4. HeldIsOwned' BY <1>2, <1>4, <2>3, HeldKept, SameHeld DEF Inv, Base
  <2> QED BY <2>1, <2>2, <2>4 DEF Inv, Base
<1> QED BY <1>3, <1>4 DEF Lease

(* A lost lease or release call takes its own lease off what is promised,  *)
(* and no other; a start whose answer is lost backs out.                   *)
LEMMA LostInv ==
  ASSUME Inv, NEW l \in Leases, LeaseLost(l) \/ StartLost(l) \/ ReleaseLost(l) PROVE Inv'
<1>0. /\ Base /\ Mishap /\ HeldIsOwned
      /\ call[l] \in {"leasing", "starting", "backingOut", "stopping"}
      /\ CallGoes(l, "over") \/ CallGoes(l, "backingOut")
      /\ UNCHANGED astray \/ GoAstray({l})
  BY DEF Inv, LeaseLost, StartLost, ReleaseLost
<1>1. call[l] # "new" /\ ~Recorded(l) BY <1>0 DEF Base, Taken
<1>2. mishaps' \in 0..MaxFaults /\ astray' \subseteq Leases /\ astray \subseteq astray'
  <2>1. {l} \in SUBSET Leases OBVIOUS
  <2> QED BY <1>0, <2>1, Bounded DEF Base
<1>3. RegistryType' /\ Taken' BY <1>0, <1>1, <1>2, CallGoesKeeps
<1>4. Leased(l) \/ Started(l) \/ UNCHANGED runner BY DEF LeaseLost, StartLost, ReleaseLost
<1>5. Containers' BY <1>0, <1>1, <1>4, LeasedSound, StartedSound, NoContainer DEF Base
<1>6. slotOf' = slotOf /\ \A k \in Leases : k # l => call'[k] = call[k]
  BY <1>0 DEF CallGoes, Base, RegistryType
<1>7. HeldIsOwned'
  <2>1. CASE StartLost(l)
    <3>1. CallGoes(l, "backingOut") /\ Started(l) BY <2>1 DEF StartLost
    <3>2. \A r \in Slots : SameHold(runner[r], runner'[r]) BY <1>0, <1>1, <3>1, StartedSound
    <3>3. call'[l] \in Owning BY <1>0, <3>1 DEF CallGoes, Owning, Base, RegistryType
    <3> QED BY <1>0, <1>2, <1>6, <3>2, <3>3, HeldKept DEF Base
  <2>2. CASE ReleaseLost(l) \/ LeaseLost(l)
    <3>1. l \in astray' BY <2>2 DEF ReleaseLost, LeaseLost, GoAstray
    <3>2. Leased(l) \/ UNCHANGED runner BY <2>2 DEF ReleaseLost, LeaseLost
    <3>3. CASE UNCHANGED runner
      BY <1>0, <1>2, <1>6, <3>1, <3>3, HeldKept, SameHeld DEF Base
    <3>4. CASE Leased(l)
      <4> SUFFICES ASSUME NEW r \in Slots, runner'[r].lease # None, runner'[r].lease \notin astray',
                          runner'[r].phase = "up"
                   PROVE  /\ slotOf'[runner'[r].lease] = r
                          /\ call'[runner'[r].lease] \in Owning
        BY DEF HeldIsOwned, Owning
      <4>1. /\ runner'[slotOf[l]].lease = l
            /\ \A q \in Slots \ {slotOf[l]} : runner'[q] = runner[q]
        BY <1>0, <1>1, <3>4, LeasedSound
      <4>2. runner'[r] = runner[r] BY <3>1, <4>1
      <4>3. runner[r].lease \in Leases BY <1>0, <4>2 DEF Base, Containers, Runner
      <4>4. slotOf[runner[r].lease] = r /\ call[runner[r].lease] \in Owning
        BY <1>0, <1>2, <4>2 DEF HeldIsOwned, Owning
      <4> QED BY <1>6, <3>1, <4>2, <4>3, <4>4
    <3> QED BY <3>2, <3>3, <3>4
  <2> QED BY <2>1, <2>2
<1> QED BY <1>2, <1>3, <1>5, <1>7 DEF Inv, Base

(* The sandbox's death takes every lease it knew of off what is promised.  *)
LEMMA SandboxDiesInv == ASSUME Inv, SandboxDies PROVE Inv'
<1>0. /\ Base /\ HeldIsOwned /\ Mishap /\ GoAstray(UnderWay) /\ UNCHANGED <<slotOf, runner>>
      /\ call' = [l \in Leases |-> IF l \in UnderWay THEN "over" ELSE call[l]]
      /\ rec' = [l \in Leases |-> None] /\ public' = [l \in Leases |-> FALSE]
      /\ poll' = [l \in Leases |-> None]
  BY DEF Inv, SandboxDies
<1>1. UnderWay \in SUBSET Leases BY DEF UnderWay
<1>2. mishaps' \in 0..MaxFaults /\ astray' \subseteq Leases /\ astray \subseteq astray'
  BY <1>0, <1>1, Bounded DEF Base
<1>3. RegistryType' BY <1>0, <1>2 DEF Base, RegistryType
<1>4. Taken' BY <1>0, <1>1 DEF Base, Taken, Recorded, UnderWay
<1>5. Containers' BY <1>0, NoContainer DEF Base
<1>6. \A l \in Leases : call[l] \in Owning => l \in astray'
  BY <1>0 DEF GoAstray, UnderWay, Owning
<1>7. HeldIsOwned' BY <1>0, <1>2, <1>6, HeldKept, SameHeld DEF Base
<1> QED BY <1>3, <1>4, <1>5, <1>7 DEF Inv, Base

LEMMA StartInv == ASSUME Inv, NEW l \in Leases, Start(l) PROVE Inv'
<1>0. Base /\ call[l] = "starting" /\ UNCHANGED faults BY DEF Inv, Start
<1>1. ~Recorded(l) BY <1>0 DEF Base, Taken
<1>2. mishaps' \in 0..MaxFaults /\ astray' \subseteq Leases /\ astray \subseteq astray'
  BY <1>0, Bounded DEF Base, faults
<1>3. CASE /\ Started(l)
           /\ rec' = [rec EXCEPT ![l] = "starting"] /\ call' = [call EXCEPT ![l] = "recorded"]
           /\ UNCHANGED <<slotOf, public, poll>>
  <2>1. Containers' /\ \A r \in Slots : SameHold(runner[r], runner'[r])
    BY <1>0, <1>3, StartedSound
  <2>2. RegistryType' BY <1>0, <1>2, <1>3 DEF Base, RegistryType, States
  <2>3. Taken' BY <1>0, <1>3 DEF Base, RegistryType, Taken, Recorded
  <2>4. \A k \in Leases : call[k] \in Owning => call'[k] \in Owning /\ slotOf'[k] = slotOf[k]
    BY <1>0, <1>3 DEF Base, RegistryType, Owning
  <2>5. HeldIsOwned' BY <1>2, <2>1, <2>4, HeldKept DEF Inv, Base
  <2> QED BY <2>1, <2>2, <2>3, <2>5 DEF Inv, Base
<1>4. CASE UNCHANGED runner /\ CallGoes(l, "backingOut")
  <2>1. RegistryType' /\ Taken' BY <1>0, <1>1, <1>2, <1>4, CallGoesKeeps DEF Base
  <2>2. Containers' BY <1>0, <1>4, NoContainer DEF Base
  <2>3. \A k \in Leases : call[k] \in Owning => call'[k] \in Owning /\ slotOf'[k] = slotOf[k]
    BY <1>0, <1>4 DEF CallGoes, Base, RegistryType, Owning
  <2>4. HeldIsOwned' BY <1>2, <1>4, <2>3, HeldKept, SameHeld DEF Inv, Base
  <2> QED BY <2>1, <2>2, <2>4 DEF Inv, Base
<1> QED BY <1>3, <1>4 DEF Start

(* The release is where ownership is needed: the start that lets go is the *)
(* only one whose slot could be left held by nobody.                       *)
LEMMA ReleaseInv == ASSUME Inv, NEW l \in Leases, Release(l) PROVE Inv'
<1>0. /\ Base /\ call[l] \in {"backingOut", "stopping"} /\ UNCHANGED faults /\ CallGoes(l, "over")
  BY DEF Inv, Release
<1>1. call[l] # "new" /\ ~Recorded(l) BY <1>0 DEF Base, Taken
<1>2. mishaps' \in 0..MaxFaults /\ astray' \subseteq Leases /\ astray \subseteq astray'
  BY <1>0, Bounded DEF Base, faults
<1>3. RegistryType' /\ Taken' BY <1>0, <1>1, <1>2, CallGoesKeeps DEF Base
<1>4. /\ Containers'
      /\ \A r \in Slots : runner'[r] = runner[r] \/ runner'[r].phase = "closing"
      /\ Releases(l) => runner'[slotOf[l]].phase = "closing"
  BY <1>0, ReleaseContainers
<1>5. slotOf' = slotOf /\ \A k \in Leases : call'[k] = IF k = l THEN "over" ELSE call[k]
  BY <1>0 DEF CallGoes, Base, RegistryType
<1>6. HeldIsOwned'
  <2> SUFFICES ASSUME NEW r \in Slots, runner'[r].lease # None, runner'[r].lease \notin astray',
                      runner'[r].phase = "up"
               PROVE  /\ slotOf'[runner'[r].lease] = r
                      /\ call'[runner'[r].lease] \in Owning
    BY DEF HeldIsOwned, Owning
  <2> DEFINE k == runner[r].lease
  <2>1. runner'[r] = runner[r] BY <1>4
  <2>2. k \in Leases BY <1>0, <2>1 DEF Base, Containers, Runner
  <2>3. slotOf[k] = r /\ call[k] \in Owning
    BY <1>2, <2>1 DEF Inv, HeldIsOwned, Owning
  <2>4. k # l
    <3> SUFFICES ASSUME k = l PROVE FALSE OBVIOUS
    <3>1. Releases(l) BY <2>1, <2>3 DEF Releases, Holds, At
    <3> QED BY <1>4, <2>3, <3>1
  <2> QED BY <1>5, <2>1, <2>2, <2>3, <2>4
<1> QED BY <1>3, <1>4, <1>6 DEF Inv, Base

LEMMA DropInv == ASSUME Inv, NEW ls \in SUBSET Leases, Drop(ls) PROVE Inv'
<1>1. /\ Base' /\ UNCHANGED <<runner, astray>>
      /\ \A l \in Leases : /\ call'[l] = call[l] \/ call'[l] = "stopping"
                           /\ slotOf'[l] = slotOf[l]
  BY DropKeeps DEF Inv
<1>2. \A l \in Leases : call[l] \in Owning => call'[l] \in Owning /\ slotOf'[l] = slotOf[l]
  BY <1>1 DEF Owning
<1>3. HeldIsOwned' BY <1>1, <1>2, HeldKept, SameHeld DEF Inv, Base
<1> QED BY <1>1, <1>3 DEF Inv

LEMMA AgainInv == ASSUME Inv, NEW l \in Leases, NEW full \in BOOLEAN, Again(l, full) PROVE Inv'
<1>1. Base BY DEF Inv
<1>2. Containers' /\ \A r \in Slots : SameHold(runner[r], runner'[r]) BY <1>1, AgainSound
<1>3. /\ Recorded(l) /\ rec' = [rec EXCEPT ![l] = "starting"]
      /\ UNCHANGED <<call, slotOf, public, poll, faults>>
  BY DEF Again
<1>4. RegistryType' BY <1>1, <1>3 DEF Base, RegistryType, States, faults
<1>5. Taken' BY <1>1, <1>3 DEF Base, RegistryType, Taken, Recorded
<1>6. HeldIsOwned' BY <1>1, <1>2, <1>3, HeldKept DEF Inv, Base, faults
<1> QED BY <1>2, <1>4, <1>5, <1>6 DEF Inv, Base

LEMMA SharedInv ==
  ASSUME Inv, NEW l \in Leases, NEW on \in BOOLEAN, SetPreviewShared(l, on) PROVE Inv'
<1> DEFINE tell == IF on /\ rec[l] = "running" THEN "shared"
                   ELSE IF ~on /\ rec[l] = "shared" THEN "running" ELSE rec[l]
<1>1. Base BY DEF Inv
<1>2. Containers' /\ \A r \in Slots : SameHold(runner[r], runner'[r]) BY <1>1, SharedSound
<1>3. /\ Recorded(l) /\ rec' = [rec EXCEPT ![l] = tell]
      /\ public' = [public EXCEPT ![l] = on]
      /\ UNCHANGED <<call, slotOf, poll, astray>>
      /\ UNCHANGED mishaps \/ Mishap
  BY DEF SetPreviewShared
<1>4. tell \in States \cup {None} BY <1>1 DEF Base, RegistryType, States
<1> HIDE DEF tell
<1>5. mishaps' \in 0..MaxFaults /\ astray' \subseteq Leases /\ astray \subseteq astray'
  BY <1>1, <1>3, Bounded DEF Base, faults
<1>6. RegistryType' BY <1>1, <1>3, <1>4, <1>5 DEF Base, RegistryType
<1>7. Taken' BY <1>1, <1>3 DEF Base, RegistryType, Taken, Recorded
<1>8. HeldIsOwned' BY <1>1, <1>2, <1>3, <1>5, HeldKept DEF Inv, Base
<1> QED BY <1>2, <1>6, <1>7, <1>8 DEF Inv, Base

LEMMA PollInv == ASSUME Inv, NEW l \in Leases, Poll(l) \/ Refresh(l) PROVE Inv'
<1>1. Base /\ UNCHANGED <<call, slotOf, public, runner, faults>> BY DEF Inv, Poll, Refresh
<1>2. /\ poll' \in [Leases -> States \cup {None, "foreign"}]
      /\ rec' \in [Leases -> States \cup {None}]
      /\ \A k \in Leases : rec'[k] # None => Recorded(k)
  <2>1. CASE Poll(l)
    <3>1. call[l] # "new" BY <1>1, <2>1 DEF Poll, Base, Taken
    <3>2. At(l).state \in States BY <1>1, <3>1, AtFacts
    <3> DEFINE said == IF Holds(l) THEN At(l).state ELSE "foreign"
    <3>3. said \in States \cup {None, "foreign"} BY <3>2
    <3>4. poll' = [poll EXCEPT ![l] = said] /\ rec' = rec BY <2>1 DEF Poll
    <3> HIDE DEF said
    <3> QED BY <1>1, <3>3, <3>4 DEF Base, RegistryType, Recorded
  <2>2. CASE Refresh(l)
    <3>1. /\ poll[l] # None /\ poll' = [poll EXCEPT ![l] = None]
          /\ rec' = IF Recorded(l) THEN [rec EXCEPT ![l] = Read(l)] ELSE rec
      BY <2>2 DEF Refresh
    <3>2. Read(l) \in States BY <1>1, <3>1 DEF Read, Base, RegistryType, States
    <3> QED BY <1>1, <3>1, <3>2 DEF Base, RegistryType, Recorded
  <2> QED BY <2>1, <2>2
<1>3. RegistryType' BY <1>1, <1>2 DEF Base, RegistryType, faults
<1>4. Taken' BY <1>1, <1>2 DEF Base, Taken, Recorded
<1>5. Containers' BY <1>1, NoContainer DEF Base
<1>6. HeldIsOwned' BY <1>1, HeldKept, SameHeld DEF Inv, Base, faults
<1> QED BY <1>3, <1>4, <1>5, <1>6 DEF Inv, Base

LEMMA ContainerInv ==
  ASSUME Inv, NEW r \in Slots, Execution(r) \/ Closed(r) \/ Exit(r) \/ Crash(r) PROVE Inv'
<1>1. Base /\ Containers BY DEF Inv, Base
<1>2. /\ Containers'
      /\ \A s \in Slots : \/ SameHold(runner[s], runner'[s])
                          \/ runner'[s].phase # "up" \/ runner'[s].lease = None
  <2>1. CASE Execution(r)
    <3>1. Containers' /\ SameHold(runner[r], runner'[r]) BY <1>1, <2>1, ExecutionContainers
    <3>2. \A s \in Slots \ {r} : runner'[s] = runner[s]
      BY <1>1, <2>1 DEF Execution, Killed, CmdExits, Ready, NotReady, StepExits, SetRunner, Containers
    <3> QED BY <3>1, <3>2 DEF SameHold
  <2>2. CASE Closed(r) BY <1>1, <2>2, ClosedContainers DEF SameHold
  <2>3. CASE Exit(r) \/ Crash(r) BY <1>1, <2>3, GoneContainers DEF SameHold
  <2> QED BY <2>1, <2>2, <2>3
<1>3. /\ UNCHANGED registry
      /\ UNCHANGED astray /\ (UNCHANGED mishaps \/ Mishap)
  BY <1>1, ExecutionContainers DEF Closed, Exit, Crash, faults
<1>4. mishaps' \in 0..MaxFaults /\ astray' \subseteq Leases /\ astray \subseteq astray'
  BY <1>1, <1>3, Bounded DEF Base
<1>5. RegistryType' BY <1>1, <1>3, <1>4 DEF Base, RegistryType, registry
<1>6. Taken' BY <1>1, <1>3 DEF Base, Taken, Recorded, registry
<1>7. HeldIsOwned' BY <1>1, <1>2, <1>3, <1>4, HeldKept DEF Inv, registry
<1> QED BY <1>2, <1>5, <1>6, <1>7 DEF Inv, Base

LEMMA NextInv == Inv /\ [Next]_vars => Inv'
<1> SUFFICES ASSUME Inv, [Next]_vars PROVE Inv' OBVIOUS
<1>1. CASE UNCHANGED vars
  <2>1. UNCHANGED <<call, slotOf, rec, public, poll, runner, mishaps, astray>> BY <1>1 DEF vars
  <2> QED BY <2>1 DEF Inv, Base, Containers, RegistryType, Taken, Recorded, HeldIsOwned
<1>2. ASSUME NEW l \in Leases, Calls(l) PROVE Inv'
  BY <1>2, LeaseInv, LostInv, StartInv, ReleaseInv DEF Calls
<1>3. ASSUME NEW l \in Leases, Stop(l) PROVE Inv'
  BY <1>3, DropInv DEF Stop
<1>4. ASSUME NEW s \in Sessions, Reap(s) PROVE Inv'
  BY <1>4, DropInv DEF Reap
<1>5. ASSUME Shutdown PROVE Inv'
  BY <1>5, DropInv DEF Shutdown
<1>7. ASSUME SandboxDies PROVE Inv'
  BY <1>7, SandboxDiesInv
<1>6. ASSUME NEW l \in Leases, NEW b \in BOOLEAN, Again(l, b) \/ SetPreviewShared(l, b) PROVE Inv'
  BY <1>6, AgainInv, SharedInv
<1> QED BY <1>1, <1>2, <1>3, <1>4, <1>5, <1>6, <1>7, StartPreviewInv, PollInv, ContainerInv DEF Next

LEMMA Invariance == Spec => []Inv
<1> QED BY InitInv, NextInv, PTL DEF Spec

-----------------------------------------------------------------------------
(* The variables keep their types. *)
THEOREM TypeCorrect == Spec => []TypeOK
<1>1. Inv => TypeOK BY DEF Inv, Base, RegistryType, Containers, TypeOK
<1> QED BY <1>1, Invariance, PTL

(* A slot is held only by the start that took it, and only while that      *)
(* start is under way, recorded or stopping, unless a lease or release     *)
(* call of that very lease was lost or the sandbox that knew it died: a    *)
(* refusal, a start that fails and a container's death strand nothing      *)
(* (previews.ts, startPreview and stopPreview; server.ts of the runner,    *)
(* /lease and /release).                                                   *)
THEOREM HeldByItsOwner == Spec => []HeldIsOwned
<1>1. Inv => HeldIsOwned BY DEF Inv
<1> QED BY <1>1, Invariance, PTL

(* A runner that says it serves has its latest run command, in whatever    *)
(* order kills, setup steps and ready waits of superseded executions       *)
(* return (supervisor.ts, execute and its generation checks).              *)
THEOREM ServingHasCommand == Spec => []RunningIsAlive
<1>1. Inv => RunningIsAlive BY DEF Inv, Base, Containers, Sound, Alive, RunningIsAlive
<1> QED BY <1>1, Invariance, PTL

(* A slot nobody leases runs nothing of whoever had it before (the runner's *)
(* exit after a release).                                                  *)
THEOREM FreeRunsNothing == Spec => []FreeIsIdle
<1>1. Inv => FreeIsIdle BY DEF Inv, Base, Containers, Sound, Idle, FreeIsIdle
<1> QED BY <1>1, Invariance, PTL
=============================================================================
