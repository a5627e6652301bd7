# Verification of hooop

hooop lets a host run coding agents for themselves and for invited peers. The
*sandbox* is a Node process that owns the agents' `claude` subprocesses, decides
which of their tool calls may run, records what they do, keeps the sessions
across crashes, and knows who may look in. The *front* is the dashboard's Node
process: it serves the pages, opens the public tunnels and drives the previewed
pages. A *runner* container per slot runs each preview. This directory holds TLA+
modules that follow their code, TLC configurations that check them on small
instances, and proofs checked by TLAPS. Paths below are relative to
`src/plugins/hooop/`. `PROJECT.json` holds the exact lines behind every definition
(`map`), the runs, the mutants that each property must catch, the hazards and the
theorems.

## 1. Inventory

### The parts that carry the logic

**Session lifecycle** (`sandbox/lib/active-sessions.ts`, `sandbox/lib/as-agent.ts`).
State: `slots` (canonical id to live slot), `aliases` (older ids of a session),
one child process per slot, `active-sessions.json`, and on disk the transcripts
and private workspaces. Operations: start, clone, message, wake of a dormant
session (under its id or re-keyed to a later transcript), recovery of an
unreadable transcript, stop, model switch, end, delete, idle sweep, burn after
use, drain, crash and boot. It is called by the HTTP routes of `server.ts`, by
timers, by the close event of each child, and by promise continuations; all of
them run on one event loop, and interleave at every `await`. Hard: a revive waits up to
five seconds for its outcome while other requests change the slot; a teardown
waits up to five seconds with the slot registered; a close event arrives for a
slot that was replaced; a process that dies in the middle. Correct means: no child
without a slot, no slot that is deaf, a checkpoint that restores what was there,
one-hop aliases, owned workspaces, a burn that really burns.

**Turn control** (`active-sessions.ts`: `writeUserTurn`, `popPendingAuthor`,
`respondToPermission`, the stdout frames; `server.ts`: `POST /ingest`). State: the
per-slot flags `turnActive`, `planTurnActive`, `autoAllowPlanRun`, `autoMode`, the
queue of authors, the current driver and the trusted shares. It writes to the
child on stdin and learns about it on two other channels, stdout frames and HTTP
hooks. Hard: three channels without a common order. Correct means: the flags the
gate reads are those of the turn the model is executing.

**Permission gate** (`active-sessions.ts`: `createPermissionRequest`,
`awaitPermissionDecision`, `respondToPermission`; `hooks/scripts/permission-gate.sh`;
the guest commands of `server.ts`). State: cards on a slot, cards without a
slot, one waiter per request id, decisions that came before their waiter, four
kinds of timers. Hard: an answer that races a timeout or the hook's next
request; request ids that are the child's to choose; guests that leave. Correct
means: a call runs only if that call was allowed, by somebody who may.

**Event ingestion and store** (`hooks/scripts/emit-event.sh`,
`sandbox/lib/ingestor.ts`, `sandbox/lib/db.ts`). State: `events.jsonl`, the offset
up to which it is in the database, the hot table and the archive. Hard: the file,
the table and the offset are three effects; another process appends to the same
file; rotation is two transactions. Correct means: nothing lost, nothing twice,
and an ok that is true.

**Access** (`sandbox/lib/shares.ts`, `peer-joins.ts`, `host-devices.ts`, `push.ts`,
the routes of `server.ts`, the WebSocket upgrade and the reaper of
`dashboard/server.mjs`). State: shares, join tickets, devices and their codes in
the sandbox; cookies, open feeds and push subscriptions at the browsers. Every
request is checked against the registries, but a feed and a subscription stay
without being checked again, and must be taken away. Hard: a revoke in the middle
of a request that was already authorised; expiry, which nobody announces; checks
that time out. Correct means: what stands on a grant goes with it.

**Preview slots** (`sandbox/lib/previews.ts`; `preview-runner/server.ts` and
`lib/supervisor.ts`). State: the records of the sandbox; per slot a container with
a lease, a generation, setup steps and a run command. Hard: two processes joined
by HTTP calls whose answers can be lost; executions of several generations that
find out at their next `await` that they are superseded; containers that die.
Correct means: a slot is held by what uses it, and what reads "running" runs.

**Preview drive** (`sandbox/lib/preview-drive.ts`, the relay in
`dashboard/server.mjs`, `dashboard/preview-driver.mjs`, the script in the page).
State: the parked call, the long poll, the pending acknowledgements, what the
front believes of each page. Hard: five parties and five time limits; pages that
reload, change preview or are taken over by their viewer in the middle. Correct
means: every call is answered, and the answer is true.

**Session tunnel and auto-share** (`dashboard/server.mjs`, `tunnel-start.mjs`,
`auto-share.mjs`). State: one `cloudflared` for the dashboard, one per shared
slot, and a sweep that makes them agree with the records of the sandbox. Hard: retry
loops that share four fields with the exits of every process they ever spawned; a
sweep that acts on a snapshot while the host shares by hand. Correct means: no
public door that nobody can close, and the doors the guests were promised.

They meet as follows. A message enters through `writeUserTurn`, which revives the
session (lifecycle) and sets the flags of the turn (turn control); the child's
tool calls come back as hooks of the gate, which reads those flags
(`GatePolicy` is the function both modules use); every hook also posts an event,
and ingesting a `UserPromptSubmit` or `Stop` event moves the turn state. The
gate's `async` calls start previews and drive pages. A share created for a session
(access) makes the front open the session tunnel and the tunnels of the session's
previews; when the last share goes, the front closes them, and closing the session
tunnel revokes what is left.

### The other parts

| part | what it does | why it is not a module |
|---|---|---|
| Checkpoint and stdin write queues (`active-sessions.ts`) | promise chains | `SessionLifecycle` and `TurnControl` take one write at a time, which is what the chain gives |
| File watching (`file-watch.ts`, `watch-safe.ts`) | watchers per directory | a missed change costs a stale listing until the next read |
| Dashboard presence | who looks at what, with expiry | advisory; the part that must end with a grant is in `Access` |
| Queries, search, embeddings, git, files, skills, views | reads on request | no state between two requests |
| Confinement (`landlock-policy.ts`, `peer-policy.ts`, `cwd-policy.ts`), sign-in tokens | classification of text, signatures | functions over strings, with tables beside the code |
| Dashboard proxy and user interface, launcher, installer | forwarding, view state, shell scripts | no interleaving of their own |

## 2. Modules and how they follow the code

Every module takes its bounds and races as CONSTANTS. `Races` names the orders
of events a run admits beyond those always admitted; `{}` leaves out the orders
for which the code has no guard. A property checked with `Races = {}` is then a
statement about the code *when that order does not happen*, and section 4 lists,
order by order, what happens when it does. This keeps known disagreements from
hiding everything else.

**`SessionLifecycle`**. One step is one turn of the event loop: a request handler
up to its first real `await`, a timer, a child event or one continuation. `reg`
and `alias` are the two maps, `slot[o]` the slot object `o` with its child and
with what the closures that hold it still wait for (`writer`, `ender`,
`destroyer`); slots outlive their registration, as the closures keep them.
`Quiet` lets the continuations that a close made ready run before the next
callback, as the microtask queue does. Requests are `StartNewConversation`,
`RegisterProvisioning`, the `Message...` family (live, pruning, reviving, at the
cap), `InterruptSession`, `SetSessionModel`, `EndSession`, `DestroySession`; the
background is `SweepIdle`, `FirstFrame`, `FrameSwapsId` (a resumed child answers under
a new id), `ResultFrame`, `ChildExits`, `ChildCloses`, `Recover` and the teardown
timers; the process is `Shutdown`, `Exit`, `Crash` and `Boot`. Every action includes the
save the handler does. A recovery, a teardown and the burn pass of a boot write to disk
in several steps. No request can tell, but a death in between can: `RecoverDies`,
`DestroyDies` and `BootDies` are these deaths, with what is on disk by then. (The burn
pass itself is one step when it survives: the restored slots have no child to wait for,
and the server listens only after it, `server.ts` 2890.)

**`GatePolicy`** is the order of the early returns of `createPermissionRequest`
over the classes of tools they tell apart.

**`TurnControl`** has the slot's flags on one side and the child on the other
(`cli` is the turn it executes, `inbox` what is on its stdin, `due` a result frame
on its way). `Written` is the part of `writeUserTurn` that every message takes. The
variable `races`, chosen at the start from the constant `Admitted`, says which of eight
overlaps of the three channels a behaviour may have; `FlagsPair`, `HooksPair` and
`DriverPaired`, the conditions of the properties, name the overlaps that break them.
A message may be written at any moment and the model may call a tool whatever is
pending; what a guard of `Written` or `CallTool` excludes it excludes by the name of an
overlap.

**`PermissionGate`** follows each ask through its hook (`phase`), the card, the
waiter and the stash, with one set per kind of timer. **`Gate`** is its abstract
specification: an ask is opened, whoever may allow its kind may allow it, it ends
allowed only if it was. `PermissionGate!Promise` is the refinement mapping.

**`EventLog`** has one action per effect on disk, so that the process may die
between any two, and the hook as a process of its own. A line is an event and
whether the sandbox stamped it, which is what the content hash tells apart; the
file is a set of lines with the byte at which each begins. **`Journal`** is its abstract
specification: lines are written, the database takes in what is written and keeps it,
and a reporter is through when it learned that its report is stored or wrote it itself.
`EventLog!Book` is the refinement mapping; `KeepsJournal` is what holds in every order
of events, `KeepsOrder` adds that nothing written is left behind when a later line is
stored. `NeverLost`, `StoredForGood` and `OkIsStored` say the same of the log's own state;
no run lists them, the proofs do.

**`Access`** has the grants (shares and devices) in one map, the desk of tickets, and
for each browser its cookie, feed and subscription. `posting` is a subscription
that was authorised and whose body is being read; `opening` a feed that was
authorised and is not attached; `reaper` what the five-second sweep was told.

**`SessionTunnel`** has one loop per start request over the four fields they share;
`AttemptTimeout`, `Retry` and `Hostname` are the awaits of the loop. **`AutoShare`** is
the sweep, the requests made by hand, the records and the processes; the dashboard's
door is one bit there, and `SessionTunnel` says how it starts and stops. Both take
their processes from **`Front`**, and their definitions carry different names
(`ShareInit`, `shareVars`, `children` in `AutoShare`), so that one module of proofs
can extend both. In `AutoShare` every attempt of a retried start is a process of its
own: one that took too long is `givenup`, sent SIGTERM and still there, and may exit
late or even report its hostname. A preview is recorded before it runs, and each of its
changes is announced or not, as the sandbox does for some of them only.

**`Previews`** has one record per lease at the sandbox and one container per slot with
an execution per generation; a superseded execution goes on until its `await`
returns. A container, or the sandbox with all its records, may die at any step.
**`Drive`** follows each parked call through `queue` (sandbox), `drive`
(front) and `inbox`, `owes`, `applied` (pages); a tab keeps its socket when the slot
changes hands.

`hasty`, `tangled`, `quietly`, `amiss`, `astray` and `applied` are history: they say what happened
in a behaviour, for the properties, and no action reads them.

**`MC...`** modules only name the model values and give TLC the symmetry, the state
constraint and the constants that are sets of sets. **`...Proofs`** modules hold the
theorems.

## 3. What the runs show

| run | instance | shows |
|---|---|---|
| `session_safety` | 3 ids, 2 slot objects, cap 1, one crash anywhere, no race | no orphan child; a turn flag always has a child that will close; no deaf session; the checkpoint agrees with the registry after every callback, but for a failed clone and a refused revive; flat aliases; workspaces are owned; the cap bounds the serving children; sessions leave only by a teardown; burn sessions never rest; an id that leads to a session leads there until the session goes under all its ids, or the process dies between the two saves of a recovery |
| `session_live` | 2 ids, 2 objects, cap 1, one session at a time, one crash anywhere, race `exited`, fair | a burn teardown that began ends with the workspace gone, across crashes in the middle of it or of the next boot's burn pass, unless the process dies after the session left the checkpoint |
| `turn_turns` | host and 2 peers, 3 messages, a queue of 2 authors, all eight overlaps in seven groups | plan mode holds and an approved run is free without `tail`, `native`, `cross`, `steer`, `early`; nothing else is approved unattended and the driver is the author without `tail`, `native`, `early`, `notify`, after lost hooks too once the queue ran dry; the indicator is never left on with nothing to clear it, whatever overlaps |
| `gate_protocol` | 2 asks, 2 ids, 7 kinds, ids used again, fair | the protocol implements `Gate`; a decision reaches the hook that waits; a guest that left never runs its command; every ask and every stray card ends |
| `ingest_log` | 3 events, one a prompt, a notice, 2 stops anywhere, fair | the log implements the ordered `Journal`: what is stored leaves nothing written before it behind; no line in both tiers, and a second line only of a prompt whose request a stop cut off; every report arrives |
| `ingest_faults` | 2 events and a notice, slow hooks, failing statements | the log implements `Journal` in every order: what is stored was written and stays stored; an ok is only said of a stored event |
| `access_grants` | 2 guests of a share that may admit, 1 phone, 2 devices, one of them expiring, 1 ticket, 1 code, 1 unanswered check | no ticket outlives its revoked share; a revoke takes the subscriptions along; a dead grant's feed is cut; whoever asked to join learns the answer |
| `preview_slot` | 1 slot, 2 starts, 2 executions per lease, 2 faults (a container or the sandbox dies, a call or its answer is lost) | a held slot has an owner, unless its own lease or release call was lost or the sandbox died; what reads running has its run command; a free container runs nothing; every start and record settles |
| `drive_calls` | 1 page, 2 previews in turn, 2 calls, 1 upset | a call told "not run" never runs; every call is answered; every drive ends |
| `drive_wrongpage` | as above, 2 upsets | violated: section 4 |
| `door_starts` | 2 starts of 2 attempts, 4 processes, 2 stops | a stopped door has no process; every start is answered |
| `reconcile_previews` | 1 slot, 2 processes, 2 previews, 2 attempts per start, 5 things that previews, guests and the host do, 2 faults (an attempt, a request to the sandbox, a tunnel) | unless two tunnels of the slot overlap, every tunnel is known to the front; a running preview whose guest is in becomes shared once anything is said; tunnels of previews that went are reclaimed, unless nothing was said of it |

**Bounds.** Two slot objects are the least that let an old slot's close, timer or
continuation meet a newer slot under the same id; memory is reused, so two objects
do not limit the number of revives. A third id is what a chain of aliases needs, and
a cap of one makes the spawns fail, those of wakes and recoveries included. The
constraint `Lean` keeps the third id to the behaviours that need it (without
burning, ends and failed clones). `session_live` has one session at a time
(`OneSession`) and a second id for it to recover or swap to, to stay within minutes.
Three messages are enough for a plan, its approval and a question inside
the run; a queue of two authors overflows within them (the code's eight would need
nine). Two asks are the least for one id to be used twice; the kinds `gate_protocol`
leaves out are answered like others it has. Two stops allow a crash during the
recovery from a crash. Two start requests with two attempts each are the least for
one loop to retry while another unwinds; two leases and two generations the least for
a start, a restart or a container to find its predecessor unfinished; two calls the
least for a nudged second try; two previews the least for a slot to change hands. Two
processes are the least for a retry to meet the attempt it replaces, five events enough
for a preview to start, run, be shared by hand and end while its guest joins (1.2 million
states); two faults let a second call be lost, or the sandbox die, after the first
(0.6 million). In
`access_grants` one browser of each sort watches or subscribes: the others' feeds
would do the same. `CHECK_DEADLOCK FALSE` stands where the counters run out and the
system simply has nothing left to do; `SessionLifecycle` is checked for deadlock.

**Fairness.** Only what the runtime gives.

- Sessions: the container is restarted (`Boot`), promise continuations run
  (`EndFinishes`, `DestroyFinishes`, `Recover`, weak), and a teardown's five second
  timer fires although other callbacks run first (`EndTimer`, strong, since a
  continuation disables it for a moment).
- Gate: timers fire and a hook that runs reads its reply; nobody is obliged to
  decide a card. Events: the synchronous code runs to its end, the process is
  restarted, a request that was received is handled and a hook that falls back
  appends; nothing obliges a hook to post.
- Access: the reaper is an interval, a ticket's life is a clock, and a page that
  waits to be let in polls. Session tunnel: the attempt's timeout and the retry's
  sleep end. Auto-share: the event stream delivers, the debounce fires, a pass and a
  request go on, since each call has a time limit, and a `cloudflared` that was sent
  SIGTERM exits (`ToldExits`).
- Previews: the sandbox's calls and polls are answered or time out, a setup step and
  the wait for the port have time limits, and what is killed dies (the supervisor
  escalates to SIGKILL). Drive: the time limits of the sandbox and the front go off
  and the front takes its own steps.

Nothing obliges a child to exit, a person to write, a browser to answer, a
`cloudflared` to print its hostname, or a crash to happen.

## 4. Where the code does what its comments rule out

**Kept as a run.** `drive_wrongpage`: `dashboard/preview-driver.mjs` evicts the pages
of other previews before it drives a slot, since an action must not run "inside
another session's app" (641-648). The eviction comes before the waits of lines 650
and 653. When the slot changes hands during a wait, the page of the next preview
attaches, evicts the others in its turn, and is the one the older preview's action is
sent to (`OnlyItsOwnPages`).

**Orders the runs exclude.** A race is a name in `Races` (or `Admitted`) of the
module; to see one, add it to the cfg of the run.

| race | what happens | seen as |
|---|---|---|
| session `end` | a message revives a session whose `POST /end` still waits; the end then drops the new slot, whose child goes on unregistered (`active-sessions.ts:2684` against 3625-3627) | `NoOrphanChild` |
| session `stop` | `/stop` during a revive looks like an unreadable transcript: the stopped turn is replayed into a fresh session, under a new id | no property: the session is kept |
| session `teardown` | a delete during a revive: the recovery starts a session in the workspace that was removed | `WorkspaceOwned`, `BurnFinishes` |
| session `exited` | a stop between exit and close sets the suppression flag only: the session reads as alive and its messages go to a pipe nobody reads | `NeverDeaf`, `TurnHasChild` |
| session `rewake` | a message revives a session whose last revive failed before its write was acknowledged; the recovery of that one takes the slot registered under the id (`active-sessions.ts:1840`, 2306), which is the newer one, and its child goes on unregistered | `NoOrphanChild`, with three slot objects |
| turn `steer` | a plain message typed into a plan turn clears plan mode in the middle of it (1759 against 4561-4563) | `PlanHolds` without `FlagsPair` |
| turn `tail`, `early` | a message written while a result frame is on its way has its flags cleared by that frame (3496-3498), as has a turn in the middle of which a result frame comes | all four turn properties but `ThinkingEnds` |
| turn `native` | a message written during `/compact` is taken for steering (1667, 1792), so no author is queued for the turn it becomes; it drops `nativeCommandPending` (1770), and the result frame of the command clears its plan flags | all four turn properties but `ThinkingEnds` |
| turn `cross` | the model enters plan mode (4550-4555) while the approval of its plan is unread: the run that follows is judged as a plan turn | `ApprovedRunsFree` without `FlagsPair` |
| turn `losthook` | a prompt's hook gives up: its author stays in the queue and every pairing is off by one until the queue ran dry | `DriverKnown`, `UnattendedIsMeant` without `DriverPaired` |
| turn `notify` | a turn that the child starts by itself for a finished task has the previous driver, and a message written during it is not taken for steering | `DriverKnown`, `UnattendedIsMeant` without `HooksPair` |
| gate `leftover` | an older card under a reused id is answered for the newer ask (4951 against 4486-4499) | `Implements` |
| gate `reuse` | the timer of an older stashed decision deletes a newer one | the exception in `RulingReaches` |
| ingest `slow` | a hook appends while the sandbox runs: the offset moves past its line (`ingestor.ts:90` against `emit-event.sh:6-8`) | `KeepsOrder` |
| ingest `dbfail` | a line whose insert failed is passed by the offset of the next one | `KeepsOrder` |
| ingest `notice` | the restart notice is ingested before the drain and moves the offset over undrained lines | `KeepsOrder` |
| ingest, always | a prompt that was stored with its author and then appended by its hook has two rows: the two lines differ | the second part of `StoredOnce` says that only this happens, after a stop or a slow hook |

**Where the code does less than its comments, or a reader, expect.** An entry named
`Module!Name` is stated in that module and fails in a few seconds when added to the cfg
of its run, with the constants in parentheses. The others name the history variable or
the disjunct by which a property leaves the case out; the models reach each of them.

- *Burn after use.* A teardown saves the checkpoint without the session
  (`active-sessions.ts:2689`) before it unlinks the transcript and removes the workspace
  (2394-2414). A process that dies in between leaves the workspace for ever: the next
  boot burns what the checkpoint names, and it names this session no more. The same
  holds in the boot's own pass. `BurnFinishes` excludes it by `Forgotten`; the states are
  reached by `DestroyDies` and `BootDies`.
- *Recovery.* `recoverWithFreshSession` saves twice, with the new session in the spawn
  (3629) and with the old ids in its own save (2343). A death in between restores the session
  under its new id only, and the id of every open page leads nowhere (`RecoverDies`;
  `NamesLast` excludes it by `DiesRecovering`).
- *Session cap.* `wakeSession` and `recoverWithFreshSession` drop a dormant slot before
  `spawnControllable` checks the cap (`active-sessions.ts:2777`). A revive refused at
  the cap therefore takes its session out of the registry, and the next save takes it
  out of the checkpoint; transcript and workspace stay. `SessionsAreKept` and
  `CheckpointAgrees` name this exception.
- *`SessionTunnel!OthersAreCorpses`.* `server.mjs` 443-445 calls a process that is not
  `tunnel.proc` "the corpse of one we already gave up on". When a start begins while
  the loop of an older one unwinds, the field passes to the newer process and the older
  one lives on, out of the reach of Stop. A hostname printed late by a killed process
  also makes a stopped tunnel read "running", with a dead URL.
- *Two tunnels of one slot* (`tangled`). A request by hand and a pass may each start
  a tunnel for a slot; the one that comes up last is recorded, the other runs on, and its
  exit deletes the record of the first (`server.mjs` 1390-1395). An attempt that timed out is
  only sent SIGTERM (369-372); should it still print its hostname before it exits (351-354),
  its exit counts as that of a live tunnel and deletes the record of the retry, which the
  comment of 362-366 means to prevent. Without a late hostname that comment is right.
  `TunnelsKnown` is what holds without either. The sweep also kills a tunnel opened by hand
  that is not recorded yet, and re-opens one that was closed by hand.
- *A share by hand that is refused* (`quietly`). `auto-share.mjs` takes its tunnel down when the
  sandbox does not record it; `share/route.ts` 91-97 does not. The tunnel stays up until
  the next pass, whenever something causes one.
- *A preview of which nothing is said.* A preview that ends with its session
  (`server.ts` 680, `active-sessions.ts` 1372) ends without an event, so its tunnel stays
  until the next one. A preview that the host starts is announced while it is starting
  (`server.ts` 1490), a restart is not announced at all (1584), and an agent's start only if it
  settled in 90 seconds (`active-sessions.ts` 4311-4312): a guest in the session sees
  the preview once the stream says anything else. Hence `Pending` in `BecomesShared`.
- *Misread lists.* A GET of the previews that fails reads as an empty list (`server.mjs`
  604-627), and the pass closes every shared tunnel while the records keep their dead URLs;
  a list of shares that could not be read closes the dashboard's tunnel and so revokes every
  share (630-653, `auto-share.mjs` 136-140). `BecomesShared` excludes a pass so misinformed
  by `amiss`.
- *Aliases.* A preview and a share recorded under different ids of one session never match
  (`auto-share.test.ts` 112-125 calls it a known gap): `apart`.
- *Leases* (`astray`). A lease or release call that is lost, or whose answer is, strands
  its slot until the container restarts. So does the death of the sandbox, whose registry is a
  map in memory (`previews.ts` 67): the drain releases the slots, because without that "the slots
  would come back still leased to sessions this process no longer knows about"
  (`server.ts` 3006-3008), and no boot does it for a sandbox that died. `HeldIsOwned` is about
  every other lease.
- *`Access!SubsDieWithGrant`.* `shares.ts` 53-66 promises that subscriptions die with
  their share "on every path". A share that expires is pruned without it (113-118), and
  a subscription whose body is still being read when its grant is revoked is stored
  afterwards (`server.ts` 2514-2541). A code for a device is authorised before its
  body is read, too, and a device's claim to a ticket is refused, because its grant's
  name is looked up as a share.
- *`Previews!OneCommand`* (`MaxGens = 3`). Two quick restarts: the second finds no child
  to kill, spawns, and two commands run at once (`supervisor.ts` 546-553).
  *`Previews!OnePerSession`* (2 slots, 3 leases): the check of line 224 is before the
  await, so two starts of one session may both get a slot. A session deleted during a start leaves its preview; an
  application slower than the time limit stays "failed" although it serves.
- *`Drive!NobodyRan`.* The answer "nobody ran it" (`preview-driver.mjs` 759-761) is also
  given when the page's acknowledgement is late. A call told that no result came
  (15 s) may still run when its pages come back (20 s); a poll whose client is gone
  may take a call with it.

## 5. What is proved

The theorems hold for every value of the constants.

`SessionLifecycleProofs`, for any finite set of ids, any objects, any cap and any number
of crashes, from `ConstantsAssumption` and `FiniteAssumption`. (The cap counts registered
slots, at most one per id, and a cardinality is that of a finite set.)

| theorem | property | for the races |
|---|---|---|
| `TypeCorrect`, `RegistryIsConsistent` | types; a slot carries the id it is registered under, through id swaps too | any |
| `AliasesStayFlat` | `AliasesFlat` | any |
| `ChildrenAreCapped` | `CapOnChildren` | any |
| `BurnSessionsNeverRest` | `BurnNeverRests` | any |
| `TurnsHaveChildren`, `NoSessionIsDeaf` | `TurnHasChild`, `NeverDeaf` | any but `exited` |
| `NoChildIsOrphaned` | `NoOrphanChild` | none, `stop` or `exited` |
| `WorkspacesAreOwned` | `WorkspaceOwned` | none, `stop` or `exited` |
| `CheckpointIsCurrent` | `CheckpointAgrees` | none, `stop` or `exited` |
| `SessionsStayKept` | `SessionsAreKept` | none, `stop` or `exited` |
| `NamesStayTheirs` | `NamesLast` | none, `stop` or `exited` |

- `AliasesFlat` is not inductive. A boot reads the aliases from the checkpoint, so
  the checkpoint must be flat (`CkptFlat`); a wake or a recovery re-points the aliases
  of `slot[o].sid`, so the slot must carry its registered id (`RegistryConsistent`).
  `IInv` is the conjunction with `TypeOK`.
- `SlotsInv` says what each suspended continuation may count on. A slot's record fits
  by itself (`SlotFits`: its status and its child, its turn and its child, a revive and
  its outcome) and as long as it is registered (`RowFits`: after a close it is not
  "alive"; a revive and a teardown do not meet but on the teardown's way out). `OwnsId`
  is the heart of it: while anything waits to go on with a slot, or its child runs, the
  slot's id leads to this slot or to none, so that the `slots.delete(id)` or the
  recovery that comes late meets the slot it means. Each of the races `end`, `teardown`
  and `rewake` breaks exactly this; `stop` and `exited` do not, one at a time, but
  together a stop falls between the exit and the close of a revive and suppresses the
  close that its recovery waits for. Hence the hypothesis `Guarded`.
- `WorkInv` adds what a doomed slot has alone (`DoomedAlone`), and that a boot would not
  bring back two sessions in one directory (`CkptApart`).
- `CheckpointAgrees` is about steps: a row that is not the registry's is one that this very
  step left alone, because it did not touch the session, its clone failed, or the cap
  refused it while others fill it. `AgreesInv` is the state behind it: which rows may lag
  (`RowsAgree`), that no row of the checkpoint has the directory of a session that is
  still cloning (`CloningUnsaved`), since a clone that fails leaves without a save, and
  that no alias is in two rows (`CkptAliasesApart`), so that a boot reads what was saved.
- `NamesLast` follows an id across a boot. While the process is down an id leads to what
  the checkpoint restores (`Restored`), and `RestoredOnce` makes that one session, so a crash
  and a boot keep every name: the checkpoint agrees with the registry, and a boot reads
  back the aliases that were saved. In between, wakes and recoveries move all the names of
  a session at once (`RekeyedNames`, `MovedNames`). What has to be excluded are the rows of
  the checkpoint whose session left the registry in a revive that the cap refused, which
  stay until the next save: a crash would bring them back under ids that lead elsewhere by
  then. `StaleApart` says that nothing registered answers to an id of such a row and that
  no new session takes one, `StaleHomes` that none lives in its workspace. `DownNames` is
  the way down, for a plain crash and for the deaths in a teardown, a recovery and the
  burn pass: the ids of what died with its row lead nowhere, all others as before.
- `CapOnChildren` counts: `Kids` is the set that is capped, and a step either adds no
  member or passed the check of `AtCap`.

TLC checked these invariants before they were proved, with 2 ids, 2 objects, a cap of 2
and 1 crash for each admitted race, and by simulation with 3 ids and 3 objects.
`BurnFinishes` is liveness, and only `session_live` shows it.

`EventLogProofs`, for any events, notices and number of stops, from
`EventsAssumption`, `StopsAssumption` and `LinesAssumption`:

- `TypeCorrect`; `StoredStaysStored` (`StoredForGood`); `OkOnlyIfStored`
  (`OkIsStored`): with every race.
- `StoredInOneTier` (`StoredOnce`: no line in both tiers, and two lines only of a prompt,
  after a stop or with a slow hook): without `dbfail`, the failed statements that the
  process survives.
- `NothingIsLost` (`NeverLost`): without races.
- `TheJournalIsKept` (`KeepsJournal`): with every race. `TheOrderIsKept`
  (`KeepsOrder`): without races.

`StoredForGood` needs that the rows in transit are in the archive before they
leave the hot table (`Moving`). `OkIsStored` needs that the current line is stored
from the insert on (`CurStored`). `NeverLost` needs to know where the offset is:
at the end of the file between two lines, at the beginning of the current line
while it is ingested, every other line being stored (`Placed`). That last fact is
exactly what a hook appending to the file breaks.

The refinement maps every step to one of `Journal`'s or to a stutter. A step that changes the
file writes one entry, by the log or by a hook on its own (`Writes`); one that changes a hook's
mind tells it or gives it up (`Tells`, by `CurStored`); one that changes the tiers stores
something and does nothing else (`Stores`). All three rest on `OnFile`: what is stored is in the
file, and so is the current line once it is appended. That an event has one line rests on
`OneText`: as long as nothing stops and no hook gives up, a hook that has yet to write has
no line in the file. In the absence of races a step that
stores also catches up (`StoresAll`), because by `Placed` and `NeverLost` whatever is not
stored is the current line, or ahead of the offset when the drain reads on from there.

`PermissionGateProofs`, for any number of asks, any ids and any kinds of calls, from
`AsksAssumption`, `CallsAssumption` and `IdsAssumption`:

- `TypeCorrect`: with every reuse of ids.
- `ProtocolImplementsGate` (`Implements`), `GuestIsHeard` (`GuestCardIsHeard`),
  `LeftStaysOut` (`LeftNeverRuns`) and `RulingArrives` (`RulingReaches`): without
  `leftover`. With it `Implements` is false.

Decisions and waiters are keyed by the request id, so the argument is about ids:
asks are made in order (`Ordered`), and whoever can still get or make a decision
under an id (a hook that has not polled, a registered waiter, a card, a running
tool) is the latest ask with that id (`Newest`). Two of them under one id are
therefore one ask, so a decision reaches the hook of its own ask
(`SettleReachesOwn`) and what is stashed for a hook was decided for it (`Backed`).
`Boards` and `Verdicts` say what a card may be about and that an ask has no verdict
before its end. Every step but a new ask is `Quiet`, which keeps all of this; the
steps are then mapped to those of `Gate` one by one. `Reusable` without `leftover` is
used in one place, `RequestKeepsOrder`. `RulingArrives` adds `RInv`: what is on a board
is undecided (`Undecided`), a poll is registered (`Registered`), and what was allowed to
the first ask under an id is in its reply or stashed for it (`Reach`).

`TurnControlProofs`, for any peers, messages and queue, and any choice of `Admitted`:

- `PlanIsKept` (`PlanHolds`), `ApprovedIsFree` (`ApprovedRunsFree`),
  `NothingPassesUnmeant` (`UnattendedIsMeant`), `TheDriverIsKnown` (`DriverKnown`),
  `TheIndicatorGoesOff` (`ThinkingEnds`), `TypeCorrect`, all from `Invariance`.

The invariant `Inv` relates the sandbox's flags to a turn of another process, each part
under the overlaps it survives. `Pipe`: without `tail`, `native` and `early`, a result frame
on its way means that nothing runs and nothing is pending, so a frame clears the flags
of its own turn. `FlagsFit`: the flags are those of the mode last given, by a message the
child has read or not. `RunsFit` ties the running turn to that mode. `AuthorsFit`: the last
author in the queue is the one of the first message of a turn while that is unread, and the
others are those of lost hooks; without lost hooks there is no other, and after them the
driver is right from the moment the queue ran dry.

`AccessProofs`, for any guests, phones, shares, devices and bounds:

- `NoTicketSurvives` (`NoTicketOfRevoked`): from `DeskInv`, every ticket on the desk has
  an asker, whose share is not revoked; every way to revoke clears the desk.
- `RevokeUnsubscribes` (`SubsDieWithRevoke`): a step property, action by action.
- `TypeCorrect`.

`FrontProofs`, for any starts, attempts, processes and stops, and for any finite set of
slots and any previews, changes and failures:

- `NoneLeftBehind` (`StopCloses`), `TypeCorrect`, of `SessionTunnel`. While no start was
  hasty there is one loop at work (`OneLoop`) and `tunnel.proc` names its process
  (`LoopsOK`), so Stop reaches whatever is alive.
- `TunnelsAreKnown` (`TunnelsKnown`), `ShareTypeCorrect`, of `AutoShare`. A tunnel that
  comes up is recorded in the place of whatever was, so without a tangle a slot must have
  one process besides those it gave up (`OneEach`). An attempt that somebody waits for is
  silent, of his slot and nobody else's (`OpenFits`), what is recorded is up and of that slot
  (`RecordedFits`), and whoever waits is where a tunnel is waited for (`WaitFits`). The sweep
  takes the least slot left and the least process that is free; `LeastExists` is where
  these exist. `Known` is the conjunction, checked by TLC on the run's instance.

`PreviewsProofs`, for any slots, sessions, leases and faults:

- `HeldByItsOwner` (`HeldIsOwned`), `ServingHasCommand` (`RunningIsAlive`), `FreeRunsNothing`
  (`FreeIsIdle`), `TypeCorrect`. `Sound` describes one container: its type, that one without
  a lease or a spec runs nothing (`Idle`), and that one that reads running has its
  generation's command (`Alive`). `Taken` ties the containers to the starts of the
  sandbox. A lease goes astray only in the step that loses its own call or kills the
  sandbox that knew it, so `HeldIsOwned` is about each lease by itself.

`DriveProofs`, for any pages, previews, calls and upsets:

- `RefusedIsNotRun` (`NotRunIsNotRun`), `TypeCorrect`. A request that was not collected, not
  sent, or refused is on no page (`Clean`, `Untouched`).

Every safety invariant and every action property the runs check is a theorem, and so
is every type invariant (which the runs therefore do not list). Only model-checked: all
liveness, which the prover does not reach.

## 6. What the models leave out

- Sessions: a frame with another session id that comes after its slot was taken out, or
  while a teardown of it waits; rename, model and permission mode as data, skill
  sessions (started like any other), attachments, usage; the purge of a deleted
  session's events.
- Turns: parallel tool calls of one turn, and a second result frame on its way
  while the first one is.
- Gate: how a command line is classified; the text of cards; a guest's card that a
  revive drops with the old slot (the wait for it ends, by `AsksEnd`).
- Events: a failed append or a full disk, a line without its newline, two lines
  with equal text, the full-text and vector indexes, backups. Which rows a
  rotation moves is left open (any set instead of a range of ids).
- Access: links, names, secrets and roles as strings, rate limits, the delivery of a
  push message, and a failed write of a registry (a boot discards shares and devices:
  the public host is a new one).
- Tunnels: the probing of a new hostname, and what `cloudflared` prints.
- Previews: specs, ports and logs; setup steps are one step; the clock of the 50 ms
  between a release and the exit.
- Drive: the numbers that tell a page how far behind it is, the turn that is
  interrupted when the last viewer takes control, and what an action does to a page.
- Time is abstract: an armed timer may fire at any moment.

### Not modelled

The map covers about a ninth of the implementation's lines. The rest does not
hold state that several actors change. The largest parts are the user interface and
its hooks (React, view state), parsing and formatting (markdown, transcripts, frames,
events, diffs), reads on request (git, files, skills, search), text policies
(landlock, peer policy, the classification of commands), logging and validation inside
the modelled files, and shell scripts around Docker. A module about them would restate
the code line by line, with properties that hold by construction.

## 7. What remains

1. An abstract session store over `SessionLifecycle`, of which `NamesLast`, `SessionsAreKept`
   and `CheckpointAgrees` are the parts.
2. `PermissionGate` composed with `Drive` for its `async` calls, and with
   `SessionLifecycle` for the cards that a revive drops.
3. The hypotheses of the theorems, weakened: `WorkspaceOwned` with `teardown`, and what
   still holds of a tunnel once two of a slot overlapped.

## 8. Running

    tlc -workers 2 -config SessionLifecycle_safety.cfg MCSessionLifecycle
    tlapm EventLogProofs.tla

Each run ends within three minutes on two cores, and so does each proof, but for
`SessionLifecycleProofs`, which takes up to ten. The file
name of a configuration is its module's name and what the run is about.
