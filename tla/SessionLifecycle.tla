-------------------------- MODULE SessionLifecycle --------------------------
(***************************************************************************)
(* The registry of controllable sessions of the sandbox                    *)
(* (sandbox/lib/active-sessions.ts): live slots, the `claude` subprocess   *)
(* behind each of them, the aliases a session is also known by, the        *)
(* checkpoint that survives the process, and the transcripts and           *)
(* workspaces on disk.                                                     *)
(*                                                                         *)
(* One step is one turn of the Node event loop: a request handler up to    *)
(* its first real await, a timer callback, a child event, or one promise   *)
(* continuation.  Continuations that a child's close made ready run before *)
(* any other callback (see Quiet).  Time is abstract: a timer may fire     *)
(* whenever it is armed, an idle session may be swept at any moment.       *)
(***************************************************************************)
EXTENDS FiniteSets, Naturals

CONSTANTS
  Ids,           \* session ids: randomUUID() draws an unused one
  Objs,          \* identities of LiveSlot objects in memory (bound)
  None,          \* absent
  MaxSessions,   \* HOOOP_MAX_CONTROLLABLE_SESSIONS
  MaxCrashes,    \* bound on process deaths without a drain
  Races          \* the overlaps a run admits, out of KnownRaces

(***************************************************************************)
(* The five overlaps the code does not guard against.  A run that leaves   *)
(* one out of Races states what holds when that overlap does not happen;   *)
(* a run that names it shows what happens when it does.                    *)
(*   "end"      a message reaches a session whose POST /end is waiting     *)
(*   "stop"     /stop or /model lands while a revive awaits its outcome    *)
(*   "teardown" a delete or end lands while a revive awaits its outcome,   *)
(*              or a burn session's resume dies silently with a clean code *)
(*   "exited"   /stop or /model lands between a child's exit and its close *)
(*   "rewake"   a message revives a session again before the write of its  *)
(*              last revive, whose child is gone, was acknowledged         *)
(***************************************************************************)
KnownRaces == {"end", "stop", "teardown", "exited", "rewake"}

ASSUME ConstantsAssumption ==
  /\ None \notin Ids /\ None \notin Objs
  /\ MaxSessions \in Nat /\ MaxCrashes \in Nat
  /\ Races \subseteq KnownRaces

(* Ids are UUIDs: many, but finitely many. *)
ASSUME FiniteAssumption == IsFiniteSet(Ids)

VARIABLES
  proc,        \* the sandbox process: "up", "draining" or "down"
  crashes,     \* how many times it died without a drain
  reg,         \* slots: canonical id -> the LiveSlot object, or None
  alias,       \* aliases: id -> the canonical id it stands for, or None
  slot,        \* the LiveSlot objects, with what their closures wait for
  ckpt,        \* active-sessions.json: what the next boot restores
  transcript,  \* ~/.claude/projects/*/<id>.jsonl exists
  ws           \* the private workspace of the session created under an id

memory == <<reg, alias, slot>>
disk   == <<ckpt, transcript, ws>>
vars   == <<proc, crashes, reg, alias, slot, ckpt, transcript, ws>>

-----------------------------------------------------------------------------
(* Slots *)

Statuses == {"provisioning", "alive", "dormant", "ended", "error"}

(***************************************************************************)
(* The child field: no child, a running one, one that exited on its own    *)
(* and whose close has not fired, one we signalled (child.killed) and      *)
(* whose close has not fired, and after the close an unsignalled ("closed")*)
(* or a signalled one ("reaped").                                          *)
(***************************************************************************)
ChildStates == {"none", "running", "exited", "killed", "closed", "reaped"}

(* resumeSpawn and sawFirstFrame: started fresh or with --resume and silent
   so far, or heard from. *)
Phases == {"fresh", "resuming", "heard"}

(* Progress of the writeUserTurn that revived the slot, and of teardowns.  *)
WriterStates == {"no", "writing", "watching", "failed"}
WaitStates   == {"no", "wait", "ready"}

SlotRec == [sid: Ids, cwd: Ids, status: Statuses, child: ChildStates,
            phase: Phases, turn: BOOLEAN, burn: BOOLEAN, suppress: BOOLEAN,
            reap: BOOLEAN, destroying: BOOLEAN, writer: WriterStates,
            ender: WaitStates, destroyer: WaitStates]

(* A freshly built LiveSlot. *)
NewSlot(i, w, st, ch, b) ==
  [sid |-> i, cwd |-> w, status |-> st, child |-> ch, phase |-> "fresh",
   turn |-> FALSE, burn |-> b, suppress |-> FALSE, reap |-> FALSE,
   destroying |-> FALSE, writer |-> "no", ender |-> "no", destroyer |-> "no"]

Live(o)      == slot[o] # None
Canonical(i) == IF alias[i] = None THEN i ELSE alias[i]
SlotOf(i)    == reg[Canonical(i)]
Registered   == {o \in Objs : \E i \in Ids : reg[i] = o}
AliasesOf(i) == {a \in Ids : alias[a] = i}

HasUnkilledChild(s) == s.child \in {"running", "exited", "closed"}
NeedsRevive(s) ==
  s.status # "alive" \/ s.child \in {"none", "killed", "reaped"}

(* Sessions that count against the cap: everything but ended ones. *)
LiveSlotCount(r) ==
  Cardinality({i \in Ids : r[i] # None /\ slot[r[i]].status # "ended"})

AtCapPlusOne(r) == LiveSlotCount(r) > MaxSessions       \* mutant: off by one
AtCap(r)        == LiveSlotCount(r) >= MaxSessions

(* kill(): a signal reaches a running child only, and only then is the
   child marked killed. *)
KillUnsent(s)   == s                                    \* mutant: no signal
KillUnmarked(s) ==                       \* mutant: child.killed is not set
  [s EXCEPT !.child = IF @ = "running" THEN "exited" ELSE @]
Killed(s) == [s EXCEPT !.child = IF @ = "running" THEN "killed" ELSE @]

(* An id no part of the system still refers to, as randomUUID returns. *)
Unused(i) ==
  /\ reg[i] = None /\ alias[i] = None /\ AliasesOf(i) = {}
  /\ ~transcript[i] /\ ~ws[i] /\ ckpt[i] = None
  /\ \A o \in Objs : Live(o) => slot[o].sid # i /\ slot[o].cwd # i

(* Bound: a resume fails only while the instance has room to recover it. *)
Room == (\E i \in Ids : Unused(i)) /\ (\E o \in Objs : ~Live(o))

(* No close is to come for this slot, and no write into it is pending: the
   code reads its phase and its two kill flags no more. *)
Spent(s)  == s.child \in {"none", "closed", "reaped"} /\ s.writer = "no"
Forget(s) == IF Spent(s) THEN [s EXCEPT !.phase = "fresh", !.suppress = FALSE,
                                        !.reap = FALSE]
             ELSE s

(* A slot object nothing can reach any more: JavaScript collects it. *)
Garbage(s, o, r) ==
  /\ \A i \in Ids : r[i] # o
  /\ Spent(s) /\ s.ender = "no" /\ s.destroyer = "no"

(* The memory after a step that leaves the objects f and the registry r. *)
Commit(f, r) ==
  /\ reg' = r
  /\ slot' = [o \in Objs |-> IF f[o] = None THEN None
                             ELSE IF Garbage(f[o], o, r) THEN None
                             ELSE Forget(f[o])]

Update(o, s) == Commit([slot EXCEPT ![o] = s], reg)

(***************************************************************************)
(* Promise continuations whose promise is resolved.  They run before the   *)
(* event loop takes the next callback.                                     *)
(***************************************************************************)
Ready(o) == /\ Live(o)
            /\ \/ slot[o].writer = "failed"
               \/ slot[o].ender = "ready"
               \/ slot[o].destroyer = "ready"
Quiet == \A o \in Objs : ~Ready(o)

Up   == proc = "up" /\ Quiet                     \* requests are served
Runs == proc \in {"up", "draining"} /\ Quiet     \* timers and child events

-----------------------------------------------------------------------------
(* The checkpoint *)

CkptRec == [cwd: Ids, burn: BOOLEAN, aliases: SUBSET Ids]

ASSUME NoneAssumption == None \notin SlotRec /\ None \notin CkptRec

SavedBare(r, f, a) ==                       \* mutant: the aliases are left out
  [i \in Ids |->
     IF r[i] = None \/ f[r[i]].status = "provisioning" THEN None
     ELSE [cwd |-> f[r[i]].cwd, burn |-> f[r[i]].burn, aliases |-> {}]]

(* What saveCheckpoint writes for registry r, objects f and aliases a. *)
Saved(r, f, a) ==
  [i \in Ids |->
     IF r[i] = None THEN None
     ELSE IF f[r[i]].status = "provisioning" THEN None
     ELSE [cwd |-> f[r[i]].cwd, burn |-> f[r[i]].burn,
           aliases |-> {x \in Ids : a[x] = i}]]

Save == ckpt' = Saved(reg', slot', alias')

DropAliases(c) == [x \in Ids |-> IF alias[x] = c THEN None ELSE alias[x]]

(* The id c and every alias of it re-pointed at x. *)
Moved(c, x) == [y \in Ids |-> IF y = c \/ alias[y] = c THEN x ELSE alias[y]]

(* The process is gone, and its memory with it.  A death without a drain is
   counted. *)
Dead(p) ==
  /\ proc' = p
  /\ reg' = [i \in Ids |-> None] /\ alias' = [i \in Ids |-> None]
  /\ slot' = [o \in Objs |-> None]
  /\ UNCHANGED ws

Dies == crashes < MaxCrashes /\ crashes' = crashes + 1 /\ Dead("down")

-----------------------------------------------------------------------------
(* Creating sessions *)

Init ==
  /\ proc = "up" /\ crashes = 0
  /\ reg = [i \in Ids |-> None] /\ alias = [i \in Ids |-> None]
  /\ slot = [o \in Objs |-> None]
  /\ ckpt = [i \in Ids |-> None]
  /\ transcript = [i \in Ids |-> FALSE] /\ ws = [i \in Ids |-> FALSE]

(* POST /sessions without a repository: spawn at once. *)
StartNewConversation(i, b) ==
  /\ Up /\ Unused(i) /\ ~AtCap(reg)
  /\ UNCHANGED <<proc, crashes, alias, transcript>>
  /\ \E o \in Objs :
       /\ ~Live(o)
       /\ Commit([slot EXCEPT ![o] = NewSlot(i, i, "alive", "running", b)],
                 [reg EXCEPT ![i] = o])
  /\ ws' = [ws EXCEPT ![i] = TRUE]
  /\ Save

(* With a repository: a childless slot stands in while git clones. *)
RegisterProvisioning(i, b) ==
  /\ Up /\ Unused(i)
  /\ \E o \in Objs :
       /\ ~Live(o)
       /\ Commit([slot EXCEPT ![o] = NewSlot(i, i, "provisioning", "none", b)],
                 [reg EXCEPT ![i] = o])
  /\ ws' = [ws EXCEPT ![i] = TRUE]
  /\ UNCHANGED <<proc, crashes, alias, ckpt, transcript>>

(* The clone finished: a spawned slot replaces the provisioning one.  At
   the cap the spawn throws after the slot is gone: nothing is left. *)
CloneDone(i) ==
  LET o == reg[i]
      without == [reg EXCEPT ![i] = None]
  IN /\ Runs /\ o # None /\ slot[o].status = "provisioning"
     /\ UNCHANGED <<proc, crashes, alias, transcript>>
     /\ \/ /\ ~AtCap(without)
           /\ Update(o, NewSlot(i, i, "alive", "running", slot[o].burn))
           /\ Save
           /\ UNCHANGED ws
        \/ /\ AtCap(without)
           /\ Commit(slot, without)
           /\ ws' = [ws EXCEPT ![i] = FALSE]
           /\ UNCHANGED ckpt

(* The clone failed: the row stays, as an error, and nothing is saved. *)
CloneFailed(i) ==
  LET o == reg[i]
  IN /\ Runs /\ o # None /\ slot[o].status = "provisioning"
     /\ Update(o, [slot[o] EXCEPT !.status = "error"])
     /\ ws' = [ws EXCEPT ![i] = FALSE]
     /\ UNCHANGED <<proc, crashes, alias, ckpt, transcript>>

-----------------------------------------------------------------------------
(* Turns *)

(* A message may be sent to this session (route and writeUserTurn guards). *)
Writable(i) ==
  LET o == SlotOf(i)
  IN /\ Up /\ o # None
     /\ slot[o].status # "provisioning" /\ ~slot[o].destroying
     /\ slot[o].ender = "no" \/ "end" \in Races

(* writeUserTurn on a slot it takes to be running.  The flag is set before
   the write; a write into a closed stdin throws and leaves it set. *)
MessageLive(i) ==
  LET o == SlotOf(i)
  IN /\ Writable(i) /\ ~NeedsRevive(slot[o])
     /\ UNCHANGED <<proc, crashes, alias, transcript, ws>>
     /\ Update(o, [slot[o] EXCEPT !.turn = TRUE])
     /\ IF slot[o].child = "running" /\ slot[o].ender = "no"
          THEN Save ELSE UNCHANGED ckpt

(* A message may wake this session. *)
Wakeable(i) ==
  LET o == SlotOf(i)
  IN /\ Writable(i) /\ NeedsRevive(slot[o])
     /\ slot[o].writer = "no" \/ "rewake" \in Races

(* Mutant: any resting session is dropped. *)
MessagePrunesAny(i) ==
  LET o == SlotOf(i)
      c == slot[o].sid
  IN /\ Wakeable(i)
     /\ Commit(slot, [reg EXCEPT ![c] = None])
     /\ alias' = DropAliases(c)
     /\ Save
     /\ UNCHANGED <<proc, crashes, transcript, ws>>

(* wakeSession drops a session whose cwd is no longer allowed. *)
MessagePrunes(i) ==
  LET o == SlotOf(i)
      c == slot[o].sid
  IN /\ Wakeable(i) /\ ~ws[slot[o].cwd]
     /\ Commit(slot, [reg EXCEPT ![c] = None])
     /\ alias' = DropAliases(c)
     /\ Save
     /\ UNCHANGED <<proc, crashes, transcript, ws>>

(* findResumableId: the ids a wake of c may come back under - any of its
   ids with a transcript (the newest one, and mtimes are not modelled), or
   c itself, started fresh, when none has one. *)
ResumableIds(c) ==
  LET withHistory == {x \in {c} \cup AliasesOf(c) : transcript[x]}
  IN IF withHistory = {} THEN {c} ELSE withHistory

(* Mutant: the alias that became canonical keeps its own entry. *)
RekeyedTwice(c, r) ==
  [x \in Ids |-> IF r = c THEN alias[x]
                ELSE IF x = c \/ (alias[x] = c /\ x # r) THEN r ELSE alias[x]]

(* rekeyCanonical: r, an alias of c, becomes the canonical id. *)
Rekeyed(c, r) ==
  [x \in Ids |-> IF r = c THEN alias[x]
                 ELSE IF x = r THEN None
                 ELSE IF x = c \/ alias[x] = c THEN r ELSE alias[x]]

(* writeUserTurn on a slot that needs its child back: wakeSession registers
   a new slot object with a new child, and the turn is queued on it.  Only
   a --resume revive waits for its outcome. *)
MessageRevives(i) ==
  LET o == SlotOf(i)
      c == slot[o].sid
  IN /\ Wakeable(i) /\ ws[slot[o].cwd]
     /\ \E r \in ResumableIds(c), n \in Objs :
          LET resumes == transcript[r]
              fresh   == NewSlot(r, slot[o].cwd, "alive", "running",
                                 slot[o].burn)
          IN /\ ~Live(n)
             /\ ~AtCap([reg EXCEPT ![c] = IF r = c THEN @ ELSE None])
             /\ Commit([slot EXCEPT ![n] =
                          [fresh EXCEPT !.turn = TRUE,
                             !.phase = IF resumes THEN "resuming" ELSE @,
                             !.writer = IF resumes THEN "writing" ELSE @]],
                       [reg EXCEPT ![c] = None, ![r] = n])
             /\ alias' = Rekeyed(c, r)
     /\ Save
     /\ UNCHANGED <<proc, crashes, transcript, ws>>

(* At the cap the spawn throws.  If the wake re-keyed the session first, the
   old slot is already out of the registry. *)
MessageAtCap(i) ==
  LET c == slot[SlotOf(i)].sid
      without == [reg EXCEPT ![c] = None]
  IN /\ Wakeable(i) /\ ws[slot[reg[c]].cwd]
     /\ AtCap(without)
     /\ \E r \in ResumableIds(c) \ {c} :
          /\ Commit(slot, without)
          /\ alias' = Rekeyed(c, r)
     /\ UNCHANGED <<proc, crashes, ckpt, transcript, ws>>

(* The stdin write of the reviving turn is acknowledged, and
   waitForResumeOutcome looks at the child. *)
WriteDone(o) ==
  LET s == slot[o]
  IN /\ Runs /\ Live(o) /\ s.writer = "writing"
     /\ s.phase = "heard" \/ s.child = "running" \/ Room
     /\ UNCHANGED <<proc, crashes, alias, transcript, ws>>
     /\ Update(o, [s EXCEPT !.writer =
                     IF s.phase = "heard" THEN "no"
                     ELSE IF s.child # "running" THEN "failed"
                     ELSE "watching"])
     /\ Save

(* ... or it fails: writeUserTurn throws, the turn flag stays. *)
WriteFails(o) ==
  /\ Runs /\ Live(o)
  /\ slot[o].writer = "writing" /\ slot[o].child # "running"
  /\ Update(o, [slot[o] EXCEPT !.writer = "no"])
  /\ UNCHANGED <<proc, crashes, alias, ckpt, transcript, ws>>

(* waitForResumeOutcome's own timeout: a slow resume is left alone. *)
ResumeTimesOut(o) ==
  /\ Runs /\ Live(o) /\ slot[o].writer = "watching"
  /\ Update(o, [slot[o] EXCEPT !.writer = "no"])
  /\ UNCHANGED <<proc, crashes, alias, ckpt, transcript, ws>>

(* The resume failed: recoverWithFreshSession replays the turn into a fresh
   session under a new id, of which every known id becomes an alias.  It
   throws when the registry no longer holds the id, and, after the old slot
   is dropped, when the spawn is refused at the cap. *)
Recover(o) ==
  LET old  == slot[o].sid
      dead == reg[old]
      done == [slot EXCEPT ![o] = [@ EXCEPT !.writer = "no"]]
      without == [reg EXCEPT ![old] = None]
  IN /\ proc # "down" /\ Live(o) /\ slot[o].writer = "failed"
     /\ \/ /\ dead = None
           /\ Commit(done, reg)
           /\ UNCHANGED <<alias, ckpt>>
        \/ \E new \in Ids, n \in Objs :
             LET fresh == NewSlot(new, slot[dead].cwd, "alive", "running",
                                  slot[dead].burn)
             IN /\ dead # None /\ Unused(new) /\ ~Live(n)
                /\ ~AtCap(without)
                /\ Commit([done EXCEPT ![n] = [fresh EXCEPT !.turn = TRUE]],
                          [without EXCEPT ![new] = n])
                /\ alias' = Moved(old, new)
                /\ Save
        \/ /\ dead # None /\ AtCap(without)
           /\ Commit(done, without)
           /\ UNCHANGED <<alias, ckpt>>
     /\ UNCHANGED <<proc, crashes, transcript, ws>>

(* The process dies in it after the new session is saved and before the old
   ids are re-pointed and saved: the next boot does not know them. *)
RecoverDies(o) ==
  LET old  == slot[o].sid
      dead == reg[old]
      without == [reg EXCEPT ![old] = None]
  IN /\ proc # "down" /\ Live(o) /\ slot[o].writer = "failed"
     /\ dead # None /\ ~AtCap(without)
     /\ \E new \in Ids :
          /\ Unused(new)
          /\ ckpt' = [Saved(without, slot, alias) EXCEPT ![new] =
                        [cwd |-> slot[dead].cwd, burn |-> slot[dead].burn,
                         aliases |-> {}]]
     /\ Dies
     /\ UNCHANGED transcript

(* The child's first frame: the resume took, and claude has a transcript. *)
FirstFrame(o) ==
  LET s == slot[o]
  IN /\ Runs /\ Live(o) /\ s.child \in {"running", "exited", "killed"}
     /\ s.phase # "heard" /\ (s.turn \/ s.child # "running")
     /\ Update(o, [s EXCEPT !.phase = "heard",
                     !.writer = IF @ = "watching" THEN "no" ELSE @])
     /\ transcript' = [transcript EXCEPT ![s.sid] = TRUE]
     /\ UNCHANGED <<proc, crashes, alias, ckpt, ws>>

(* The id swap: `claude --resume` answers under a new id.  The slot is
   registered under it and the old ids lead to it.  (A frame that comes after
   its slot was taken out, or while a teardown waits, is left out.) *)
FrameSwapsId(o, new) ==
  LET s == slot[o]
      old == s.sid
      swapped == [s EXCEPT !.sid = new, !.phase = "heard",
                           !.writer = IF @ = "watching" THEN "no" ELSE @]
  IN /\ Runs /\ Live(o) /\ s.child \in {"running", "exited", "killed"}
     /\ s.phase = "resuming" /\ (s.turn \/ s.child # "running")
     /\ reg[old] = o /\ s.ender = "no" /\ ~s.destroying /\ Unused(new)
     /\ Commit([slot EXCEPT ![o] = swapped],
               [reg EXCEPT ![old] = None, ![new] = o])
     /\ alias' = Moved(old, new)
     /\ transcript' = [transcript EXCEPT ![new] = TRUE]
     /\ Save
     /\ UNCHANGED <<proc, crashes, ws>>

(* A result frame ends the turn. *)
ResultFrame(o) ==
  /\ Runs /\ Live(o) /\ slot[o].child \in {"running", "exited", "killed"}
  /\ slot[o].phase = "heard" /\ slot[o].turn
  /\ UNCHANGED <<proc, crashes, alias, transcript, ws>>
  /\ Update(o, [slot[o] EXCEPT !.turn = FALSE])
  /\ Save

(* A side-channel message (!bash, >chat) marks the session active: a
   resting slot is shown alive, without a child.  (The close of one that was
   signalled is still to come.) *)
MarkSessionActive(i) ==
  LET o == SlotOf(i)
  IN /\ Up /\ o # None
     /\ ~slot[o].destroying /\ slot[o].status \in {"dormant", "ended"}
     /\ UNCHANGED <<proc, crashes, alias, transcript, ws>>
     /\ Update(o, [slot[o] EXCEPT !.status = "alive",
                               !.child = IF @ = "killed" THEN @ ELSE "none"])
     /\ Save

(* POST /burn-after-use: the route only ever disarms it. *)
DisarmBurn(i) ==
  LET o == SlotOf(i)
  IN /\ Up /\ o # None /\ slot[o].burn /\ ~slot[o].destroying
     /\ UNCHANGED <<proc, crashes, alias, transcript, ws>>
     /\ Update(o, [slot[o] EXCEPT !.burn = FALSE])
     /\ Save

-----------------------------------------------------------------------------
(* Killing and losing the child *)

(* The kill /stop and /model share: this exit is not the end of the slot. *)
StopChild(s) == [Killed(s) EXCEPT !.suppress = TRUE, !.turn = FALSE]

Stoppable(s) ==
  /\ s.writer = "no" \/ "stop" \in Races
  /\ s.child # "exited" \/ "exited" \in Races

InterruptSession(i) ==
  LET o == SlotOf(i)
  IN /\ Up /\ o # None /\ Stoppable(slot[o])
     /\ ~slot[o].destroying /\ HasUnkilledChild(slot[o])
     /\ Update(o, StopChild(slot[o]))
     /\ UNCHANGED <<proc, crashes, alias, ckpt, transcript, ws>>

(* The model itself is data; what matters is the save and the kill. *)
SetSessionModel(i) ==
  LET o == SlotOf(i)
  IN /\ Up /\ o # None /\ Stoppable(slot[o])
     /\ UNCHANGED <<proc, crashes, alias, transcript, ws>>
     /\ Update(o, IF HasUnkilledChild(slot[o]) THEN StopChild(slot[o])
                  ELSE [slot[o] EXCEPT !.turn = FALSE])
     /\ Save

(* endSession on slot s up to its wait: stdin is closed; a child that was
   not signalled is waited for (a closed one too: its close never comes). *)
Over(w)      == IF w = "wait" THEN "ready" ELSE w
EndBegins(s) == IF HasUnkilledChild(s) THEN "wait" ELSE "ready"
BeginDestroy(s) ==
  IF s.destroying THEN s
  ELSE [s EXCEPT !.destroying = TRUE,
                 !.destroyer = EndBegins(s)]

Tearable(s) == s.writer = "no" \/ "teardown" \in Races

(* DELETE /sessions/:id, and POST /end on a burn session. *)
DestroySession(i) ==
  LET o == SlotOf(i)
  IN /\ Up /\ o # None /\ ~slot[o].destroying /\ Tearable(slot[o])
     /\ Update(o, BeginDestroy(slot[o]))
     /\ UNCHANGED <<proc, crashes, alias, ckpt, transcript, ws>>

(* DELETE of a session no slot stands for: its transcript goes. *)
DestroyUnregistered(i) ==
  /\ Up /\ SlotOf(i) = None /\ transcript[Canonical(i)]
  /\ transcript' = [transcript EXCEPT ![Canonical(i)] = FALSE]
  /\ UNCHANGED <<proc, crashes, reg, alias, slot, ckpt, ws>>

(* POST /end on any other session. *)
EndSession(i) ==
  LET o == SlotOf(i)
  IN /\ Up /\ o # None /\ ~slot[o].burn /\ Tearable(slot[o])
     /\ slot[o].ender = "no"
     /\ Update(o, [slot[o] EXCEPT !.ender = EndBegins(slot[o])])
     /\ UNCHANGED <<proc, crashes, alias, ckpt, transcript, ws>>

(* endSession's five seconds are up: signal the child, do not wait more. *)
EndTimer(o) ==
  LET s == slot[o]
  IN /\ Runs /\ Live(o)
     /\ \/ /\ s.ender = "wait"
           /\ Update(o, [Killed(s) EXCEPT !.ender = Over(@)])
        \/ /\ s.destroyer = "wait"
           /\ Update(o, [Killed(s) EXCEPT !.destroyer = Over(@)])
     /\ UNCHANGED <<proc, crashes, alias, ckpt, transcript, ws>>

(* Mutant: the teardown is not saved. *)
EndFinishesUnsaved(o) ==
  LET c == slot[o].sid
  IN /\ proc # "down" /\ Live(o) /\ slot[o].ender = "ready"
     /\ Commit([slot EXCEPT ![o] = [@ EXCEPT !.ender = "no"]],
               [reg EXCEPT ![c] = None])
     /\ alias' = DropAliases(c)
     /\ UNCHANGED <<proc, crashes, ckpt, transcript, ws>>

(* endSession after its wait: drop the slot and its aliases. *)
EndFinishes(o) ==
  LET c == slot[o].sid
  IN /\ proc # "down" /\ Live(o) /\ slot[o].ender = "ready"
     /\ Commit([slot EXCEPT ![o] = [@ EXCEPT !.ender = "no"]],
               [reg EXCEPT ![c] = None])
     /\ alias' = DropAliases(c)
     /\ Save
     /\ UNCHANGED <<proc, crashes, transcript, ws>>

(* deleteSession after it: transcript and workspace go with it. *)
DestroyFinishes(o) ==
  LET c == slot[o].sid
  IN /\ proc # "down" /\ Live(o) /\ slot[o].destroyer = "ready"
     /\ Commit([slot EXCEPT ![o] = [@ EXCEPT !.destroyer = "no"]],
               [reg EXCEPT ![c] = None])
     /\ alias' = DropAliases(c)
     /\ transcript' = [transcript EXCEPT ![c] = FALSE]
     /\ ws' = [ws EXCEPT ![slot[o].cwd] = FALSE]
     /\ Save
     /\ UNCHANGED <<proc, crashes>>

(* The process dies in it: the session is out of the checkpoint, but its
   workspace, and perhaps its transcript, is still there. *)
DestroyDies(o) ==
  LET c == slot[o].sid
  IN /\ proc # "down" /\ Live(o) /\ slot[o].destroyer = "ready"
     /\ ckpt' = Saved([reg EXCEPT ![c] = None], slot, DropAliases(c))
     /\ transcript' \in {transcript, [transcript EXCEPT ![c] = FALSE]}
     /\ Dies

(* The subprocess exits on its own; Node destroys its stdin. *)
ChildExits(o) ==
  /\ Runs /\ Live(o) /\ slot[o].child = "running"
  /\ Update(o, [slot[o] EXCEPT !.child = "exited"])
  /\ UNCHANGED <<proc, crashes, alias, ckpt, transcript, ws>>

(* Mutant: the turn flag survives the close. *)
ClosedMidTurn(s) ==
  [s EXCEPT !.child = IF @ = "killed" THEN "reaped" ELSE "closed",
             !.writer = IF @ # "watching" THEN @
                        ELSE IF s.phase = "heard" THEN "no" ELSE "failed",
             !.ender = Over(@), !.destroyer = Over(@)]

(* What every close does to the slot it belongs to, and the listeners that
   waited for it: the reviving write and endSession. *)
Closed(s) ==
  [s EXCEPT !.child = IF @ = "killed" THEN "reaped" ELSE "closed",
             !.turn = FALSE,
             !.writer = IF @ # "watching" THEN @
                        ELSE IF s.phase = "heard" THEN "no" ELSE "failed",
             !.ender = Over(@), !.destroyer = Over(@)]

(* The close handler.  clean: exit code 0, or none because of a signal. *)
ChildCloses(o, clean) ==
  LET s == Closed(slot[o])
      dormant == slot[o].reap \/ clean
      burns == /\ dormant /\ s.burn /\ ~s.destroying /\ proc # "draining"
               /\ ~s.suppress
  IN /\ Runs /\ Live(o) /\ slot[o].child \in {"exited", "killed"}
     /\ s.writer = "failed" => Room
     /\ burns => Tearable(s) /\ (reg[s.sid] # None => Tearable(slot[reg[s.sid]]))
     /\ UNCHANGED <<proc, crashes, alias, transcript, ws>>
     /\ \/ /\ reg[s.sid] = None
           /\ Update(o, s)
           /\ UNCHANGED ckpt
        \/ /\ reg[s.sid] # None /\ s.suppress
           /\ Update(o, [s EXCEPT !.suppress = FALSE])
           /\ Save
        \/ /\ reg[s.sid] # None /\ ~s.suppress /\ ~burns
           /\ Update(o, [s EXCEPT !.reap = FALSE,
                           !.status = IF dormant THEN "dormant" ELSE "ended"])
           /\ Save
        \/ LET ended == [s EXCEPT !.reap = FALSE, !.status = "ended"]
               d == reg[s.sid]
           IN /\ d # None /\ burns
              /\ Commit(IF d = o THEN [slot EXCEPT ![o] = BeginDestroy(ended)]
                        ELSE [slot EXCEPT ![o] = ended,
                                          ![d] = BeginDestroy(@)], reg)
              /\ Save

(* Mutant: a childless burn session is demoted like any other. *)
SweepIdleAny(i) ==
  LET o == reg[i]
      s == slot[o]
  IN /\ Runs /\ o # None /\ s.status = "alive" /\ ~s.turn
     /\ ~HasUnkilledChild(s)
     /\ Update(o, [s EXCEPT !.status = "dormant"])
     /\ UNCHANGED <<proc, crashes, alias, transcript, ws>>
     /\ Save

(* The idle sweep, for one session it finds idle: a burn session is
   destroyed, a child is signalled, a childless slot is demoted. *)
SweepIdle(i) ==
  LET o == reg[i]
      s == slot[o]
  IN /\ Runs /\ o # None /\ s.status = "alive" /\ ~s.turn
     /\ UNCHANGED <<proc, crashes, alias, transcript, ws>>
     /\ \/ /\ s.burn
           /\ Update(o, BeginDestroy([s EXCEPT !.status = "ended"]))
           /\ UNCHANGED ckpt
        \/ /\ ~s.burn /\ HasUnkilledChild(s)
           /\ Update(o, [Killed(s) EXCEPT !.reap = TRUE])
           /\ UNCHANGED ckpt
        \/ /\ ~s.burn /\ ~HasUnkilledChild(s)
           /\ Update(o, [s EXCEPT !.status = "dormant"])
           /\ Save

-----------------------------------------------------------------------------
(* The process *)

(* SIGTERM: no more requests; every registered child's stdin is closed, so
   it will exit ... *)
Shutdown ==
  /\ Up
  /\ proc' = "draining"
  /\ UNCHANGED <<crashes, reg, alias, slot, ckpt, transcript, ws>>

(* ... signalled if it is still there five seconds later ... *)
DrainTimer(o) ==
  /\ proc = "draining" /\ Quiet /\ o \in Registered
  /\ slot[o].child = "running"
  /\ Update(o, Killed(slot[o]))
  /\ UNCHANGED <<proc, crashes, alias, ckpt, transcript, ws>>

(* ... and the registry is saved once more before the process exits.  The
   drain waits for the missing close of a closed child as long as a teardown
   that began before it does. *)
Exit ==
  /\ proc = "draining" /\ Quiet
  /\ \A o \in Registered :
       /\ slot[o].child # "running"
       /\ slot[o].child = "closed" => "wait" \notin {slot[o].ender, slot[o].destroyer}
  /\ ckpt' = Saved(reg, slot, alias)
  /\ Dead("down")
  /\ UNCHANGED <<crashes, transcript>>

Crash ==
  /\ proc # "down"
  /\ Dies
  /\ UNCHANGED <<ckpt, transcript>>

RestorableAny(i) == ckpt[i] # None              \* mutant: cwd is not looked at
Restorable(i)    == ckpt[i] # None /\ ws[ckpt[i].cwd]

BurnsNone(i)   == FALSE                         \* mutant: no boot-time pass
BurnsAtBoot(i) == Restorable(i) /\ ckpt[i].burn

(* Boot: the checkpointed sessions whose cwd still exists come back dormant
   and childless, and burnRestoredSessions destroys the burn ones before
   the first request is served. *)
Boot ==
  LET burned == {i \in Ids : BurnsAtBoot(i)}
      back   == {i \in Ids : Restorable(i)} \ burned
  IN /\ proc = "down"
     /\ \E f \in [back -> Objs] :
          /\ \A i, j \in back : f[i] = f[j] => i = j
          /\ reg' = [i \in Ids |-> IF i \in back THEN f[i] ELSE None]
          /\ slot' = [o \in Objs |->
               IF \E i \in back : f[i] = o
               THEN LET i == CHOOSE x \in back : f[x] = o
                    IN NewSlot(i, ckpt[i].cwd, "dormant", "none", FALSE)
               ELSE None]
     /\ alias' = [x \in Ids |->
          IF \E i \in back : x \in ckpt[i].aliases
          THEN CHOOSE i \in back : x \in ckpt[i].aliases ELSE None]
     /\ ckpt' = [i \in Ids |-> IF i \in back THEN ckpt[i] ELSE None]
     /\ transcript' = [i \in Ids |->
                         i \notin burned /\ transcript[i]]
     /\ ws' = [i \in Ids |-> ws[i] /\ \A b \in burned : ckpt[b].cwd # i]
     /\ proc' = "up"
     /\ UNCHANGED crashes

(* The process dies in that pass: some burn sessions are gone, and of the one
   it was at, the workspace and perhaps the transcript are still there. *)
BootDies ==
  /\ proc = "down" /\ crashes < MaxCrashes
  /\ \E gone \in SUBSET {i \in Ids : BurnsAtBoot(i)} :
       \E half \in SUBSET gone : \E left \in SUBSET half :
         /\ gone # {} /\ Cardinality(half) <= 1
         /\ ckpt' = [i \in Ids |-> IF Restorable(i) /\ i \notin gone
                                     THEN ckpt[i] ELSE None]
         /\ transcript' = [i \in Ids |-> transcript[i] /\ i \notin gone \ left]
         /\ ws' = [i \in Ids |-> ws[i] /\ \A b \in gone \ half : ckpt[b].cwd # i]
  /\ crashes' = crashes + 1
  /\ UNCHANGED <<proc, reg, alias, slot>>

-----------------------------------------------------------------------------
Requests ==
  \E i \in Ids :
    \/ \E b \in BOOLEAN : StartNewConversation(i, b) \/ RegisterProvisioning(i, b)
    \/ MessageLive(i) \/ MessagePrunes(i) \/ MessageRevives(i) \/ MessageAtCap(i)
    \/ MarkSessionActive(i) \/ DisarmBurn(i)
    \/ InterruptSession(i) \/ SetSessionModel(i)
    \/ DestroySession(i) \/ DestroyUnregistered(i) \/ EndSession(i)

Background ==
  \/ \E i \in Ids : CloneDone(i) \/ CloneFailed(i) \/ SweepIdle(i)
  \/ \E o \in Objs :
       \/ FirstFrame(o) \/ ResultFrame(o) \/ ChildExits(o)
       \/ \E clean \in BOOLEAN : ChildCloses(o, clean)
       \/ \E new \in Ids : FrameSwapsId(o, new)
       \/ WriteDone(o) \/ WriteFails(o) \/ ResumeTimesOut(o) \/ Recover(o)
       \/ EndTimer(o) \/ EndFinishes(o) \/ DestroyFinishes(o)

Process ==
  \/ Shutdown \/ Exit \/ Crash \/ Boot \/ BootDies
  \/ \E o \in Objs : DrainTimer(o) \/ RecoverDies(o) \/ DestroyDies(o)

Next == Requests \/ Background \/ Process

Spec == Init /\ [][Next]_vars

(***************************************************************************)
(* The event loop runs the continuations that are ready; the five seconds  *)
(* of a teardown pass, however often other callbacks run first (strong:    *)
(* every callback that is not Quiet disables the timer for a moment); and  *)
(* Docker restarts the container.                                          *)
(***************************************************************************)
Fairness ==
  /\ WF_vars(Boot)
  /\ \A o \in Objs : /\ SF_vars(EndTimer(o)) /\ WF_vars(EndFinishes(o))
                     /\ WF_vars(DestroyFinishes(o)) /\ WF_vars(Recover(o))

FairSpec == Spec /\ Fairness

-----------------------------------------------------------------------------
(* Properties *)

(* Every variable holds a value the code can give it. *)
TypeOK ==
  /\ proc \in {"up", "draining", "down"} /\ crashes \in 0..MaxCrashes
  /\ reg \in [Ids -> Objs \cup {None}]
  /\ alias \in [Ids -> Ids \cup {None}]
  /\ slot \in [Objs -> SlotRec \cup {None}]
  /\ ckpt \in [Ids -> CkptRec \cup {None}]
  /\ transcript \in [Ids -> BOOLEAN]
  /\ ws \in [Ids -> BOOLEAN]

(* The registry maps an id to a slot object that carries that id. *)
RegistryConsistent == \A i \in Ids : reg[i] # None => Live(reg[i]) /\ slot[reg[i]].sid = i

(* A claude process nobody has signalled is always behind a registered slot:
   /stop, delete, the sweep and the drain can all reach it. *)
NoOrphanChild ==
  \A o \in Objs : Live(o) /\ slot[o].child = "running" => reg[slot[o].sid] = o

(* The "thinking" flag of a session is never left on without a process that
   will still report a close: the close handler can always clear it. *)
TurnHasChild ==
  \A o \in Registered : slot[o].turn => slot[o].child \in {"running", "exited", "killed"}

(* A session that reads as running is not backed by a child that is gone:
   otherwise every message goes to a dead pipe and none revives it. *)
NeverDeaf ==
  \A o \in Registered : slot[o].child = "closed" => NeedsRevive(slot[o])

(* The row of a session as saveCheckpoint would write it now; the two steps
   that leave an older one behind: a clone fails, and the cap, which others
   fill, refuses the session that was taken out for a revive or a recovery. *)
Row(i) == Saved(reg, slot, alias)[i]
FilledByOthers(o) == AtCap([i \in Ids |-> IF reg[i] = o THEN None ELSE reg[i]])
CloneFails(i) ==
  /\ reg[i] # None /\ slot[reg[i]].status = "provisioning"
  /\ reg'[i] = reg[i] /\ slot'[reg[i]].status = "error"
IsRefused(i) ==
  /\ reg[i] # None /\ reg'[i] = None /\ FilledByOthers(reg[i])
  /\ "ready" \notin {slot[reg[i]].ender, slot[reg[i]].destroyer}
  /\ ws[slot[reg[i]].cwd]

(* What the next boot would restore is what the registry holds: every path
   that changes what is saved of a session saves it before the next callback
   runs, and a boot saves what it restored.  Only a failed clone and a refused
   revive leave an older row, until the next save. *)
CheckpointAgrees ==
  [][proc' # "down" => \A i \in Ids :
       \/ ckpt'[i] = Row(i)'
       \/ /\ proc # "down" /\ ckpt'[i] = ckpt[i]
          /\ Row(i)' = Row(i) \/ CloneFails(i) \/ IsRefused(i)]_vars

(* The alias map stays flat: an alias leads to a canonical id in one hop,
   and an id that is an alias has no slot of its own. *)
AliasesFlat ==
  \A a \in Ids : alias[a] # None => alias[alias[a]] = None /\ reg[a] = None

(* Two sessions never share a private workspace, and a session's workspace
   is there as long as its slot is (a failed clone has none). *)
WorkspaceOwned ==
  \A o \in Registered :
    /\ slot[o].status # "error" /\ proc # "down" => ws[slot[o].cwd]
    /\ \A p \in Registered : slot[p].cwd = slot[o].cwd => p = o

(* The cap bounds the processes that serve the registered sessions. *)
CapOnChildren ==
  Cardinality({o \in Registered : slot[o].child = "running"
                                    /\ ~slot[o].destroying}) <= MaxSessions

(* A burn session that goes idle is destroyed, it never rests as dormant,
   except on the way down, when the next boot destroys it. *)
BurnNeverRests ==
  [][\A o \in Registered :
       (/\ slot'[o] # None /\ slot[o].burn /\ slot'[o].burn
        /\ slot[o].status # "dormant" /\ slot'[o].status = "dormant"
        /\ slot'[o].sid = slot[o].sid)
       => slot'[o].destroying \/ proc' = "draining"]_vars

(* A session leaves the registry only by a teardown, because its workspace
   is gone, or with the process; a revive or a recovery keeps it.  (Where
   others, clones that were registered without regard to the cap included,
   fill it, the revive that took the session out first loses it.) *)
SessionsAreKept ==
  [][\A o \in Registered :
       (proc' # "down" /\ \A p \in Objs : (\E i \in Ids : reg'[i] = p) => slot'[p].cwd # slot[o].cwd)
       => \/ "ready" \in {slot[o].ender, slot[o].destroyer}
          \/ ~ws'[slot[o].cwd]
          \/ FilledByOthers(o)]_vars

(* The session an id leads to, by its private workspace: the one a request
   under this id reaches, or, while the process is down, the one the next
   boot restores under it. *)
Restored(i) == {c \in Ids : Restorable(c) /\ (i = c \/ i \in ckpt[c].aliases)}
LeadsTo(i) ==
  IF proc = "down" THEN {ckpt[c].cwd : c \in Restored(i)}
  ELSE {slot[o].cwd : o \in {SlotOf(i)} \ {None}}

(* An id a client holds keeps leading to the same session, through wakes that
   re-key it, id swaps, recoveries, crashes and boots, until the session goes
   under all its ids: no id is forgotten alone, none ever leads elsewhere.
   (A death between the two saves of a recovery forgets the old ones.) *)
DiesRecovering(i) ==
  /\ proc' = "down"
  /\ \E o \in Objs : Live(o) /\ slot[o].writer = "failed" /\ slot[o].sid = Canonical(i)
NamesLast ==
  [][\A i \in Ids : \A w \in LeadsTo(i) :
       \/ LeadsTo(i)' = {w}
       \/ LeadsTo(i)' = {} /\ (DiesRecovering(i) \/ \A j \in Ids : w \notin LeadsTo(j)')]_vars

(* Once a burn session's teardown began its workspace goes, even if the
   process dies in the middle of it, unless it dies after the session left the
   checkpoint: no later boot knows of the workspace then.  (A session still
   cloning is not in the checkpoint yet either.) *)
Forgotten(i) == proc = "down" /\ \A c \in Ids : ckpt[c] # None => ckpt[c].cwd # i
BurnFinishes ==
  \A i \in Ids :
    (\E o \in Registered : /\ slot[o].cwd = i /\ slot[o].burn
                           /\ slot[o].destroying /\ slot[o].status # "provisioning")
      ~> ~ws[i] \/ Forgotten(i)

=============================================================================
