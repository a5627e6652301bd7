---------------------------- MODULE TurnControl ----------------------------
(***************************************************************************)
(* The turns of one session: who drives the turn the model is executing,   *)
(* in which mode, and what the sandbox believes about both.                *)
(*                                                                         *)
(* writeUserTurn sets the per-turn flags of the slot when a message is     *)
(* written to the child's stdin; the result frame on its stdout clears     *)
(* them; the Stop and UserPromptSubmit hooks arrive on a third channel.    *)
(* The permission gate reads the flags at every tool call.  The module     *)
(* follows the three channels and states what the gate may rely on.        *)
(*                                                                         *)
(* A behaviour admits the overlaps in its races, drawn from Admitted, and  *)
(* each property names the overlaps that it does not survive:              *)
(*   tail     work begun after the child ended a turn and before the       *)
(*            sandbox handled its result frame: a message, a notification  *)
(*   native   a message written while a command the child runs itself      *)
(*            (/compact, /cost) is pending, or such a command during a turn *)
(*   cross    plan mode entered by the model while the approval of its     *)
(*            plan is unread                                               *)
(*   steer    a plain message written into a plan turn or an approved run  *)
(*   early    a result frame in the middle of a turn                       *)
(*   losthook a UserPromptSubmit hook that gives up after its one second   *)
(*   notify   a turn the child starts by itself when a background task     *)
(*            finishes                                                     *)
(*   timeout  a card answered after its hook stopped waiting               *)
(***************************************************************************)
EXTENDS Naturals, Sequences, GatePolicy

CONSTANTS
    Peers,      \* the shares whose holders may write
    MaxTurns,   \* bound on the messages written
    MaxAuthors, \* MAX_PENDING_AUTHORS
    Admitted    \* the sets of overlaps a behaviour may admit

KnownRaces == {"tail", "native", "cross", "steer", "early", "losthook", "notify", "timeout"}

ASSUME AdmittedAssumption == Admitted \subseteq SUBSET KnownRaces
ASSUME PeersAssumption == "host" \notin Peers
ASSUME TurnsAssumption == MaxTurns \in Nat /\ MaxAuthors \in Nat \ {0}

Users == Peers \cup {"host"}
Modes == {"plain", "plan", "proceed", "native"}
Turns == [mode : Modes, by : Users]
NoTurn == [mode |-> "none", by |-> "host"]
Drivers == {d \in [by : Users, share : Users] : d.share \in {d.by, "host"}}
Entries == {e \in [by : Users, share : Users, stale : BOOLEAN] : e.share \in {e.by, "host"}}
Cards == [kind : {"ask", "write", "critical", "share"}, share : Users, plan : BOOLEAN]
NoCard == [kind |-> "none", share |-> "host", plan |-> FALSE]

VARIABLES
    (* the slot *)
    alive,      \* the slot's child is running
    active,     \* meta.turnActive
    planTurn,   \* planTurnActive
    planRun,    \* autoAllowPlanRun
    auto,       \* meta.autoMode
    authors,    \* pendingAuthors: who wrote, under which share ("host": none), and whether
                \* the entry outlived its TTL
    current,    \* currentTurn: who the sandbox takes for the driver, and under which share
    native,     \* nativeCommandPending
    trusted,    \* trustedShareIds
    card,       \* the request of pendingRequests a human is looking at
    review,     \* a synthetic plan review is pending
    (* the child *)
    cli,        \* the turn it executes
    parked,     \* its tool call waits for the gate
    inbox,      \* messages written to its stdin and not read
    due,        \* its result frame was written and not handled
    stopping,   \* its Stop hook, too
    tasks,      \* who has a background task running
    written,    \* how many messages were written
    races       \* the overlaps this behaviour admits

slot == <<active, planTurn, planRun, auto, authors, current, native, trusted, card, review>>
child == <<cli, parked, inbox, due, stopping, tasks>>
vars == <<alive, slot, child, written, races>>

TypeOK ==
    /\ alive \in BOOLEAN /\ active \in BOOLEAN
    /\ planTurn \in BOOLEAN /\ planRun \in BOOLEAN /\ auto \in BOOLEAN
    /\ authors \in Seq(Entries)
    /\ current \in Drivers /\ native \in BOOLEAN /\ trusted \subseteq Peers
    /\ card \in Cards \cup {NoCard} /\ review \in BOOLEAN
    /\ cli \in Turns \cup {NoTurn} /\ parked \in BOOLEAN
    /\ inbox \in Seq(Turns) /\ due \in BOOLEAN /\ stopping \in BOOLEAN
    /\ tasks \subseteq Users /\ written \in 0..MaxTurns
    /\ races \in Admitted

-----------------------------------------------------------------------------
Flags == [planTurn |-> planTurn, planRun |-> planRun,
          trusted |-> current.share \in trusted, auto |-> auto]

Running == cli # NoTurn

(* The model is between two tool calls of a turn of its own. *)
Calling == Running /\ cli.mode # "native" /\ ~parked

(* The mode the running turn was last given, by messages the child has     *)
(* read or not; a plain message steers and does not change it.             *)
Lasting == {"plan", "proceed"}
NoneAfter(i) == \A j \in DOMAIN inbox : j > i => inbox[j].mode \notin Lasting
Unread(mode) == \E i \in DOMAIN inbox : inbox[i].mode = mode /\ NoneAfter(i)
Given(mode) == (cli.mode = mode /\ NoneAfter(0)) \/ Unread(mode)

NativeBusy == cli.mode = "native" \/ \E i \in DOMAIN inbox : inbox[i].mode = "native"

Init ==
    /\ alive = FALSE /\ active = FALSE
    /\ planTurn = FALSE /\ planRun = FALSE /\ auto = FALSE
    /\ authors = <<>> /\ current = [by |-> "host", share |-> "host"] /\ native = FALSE
    /\ trusted = {}
    /\ card = NoCard /\ review = FALSE
    /\ cli = NoTurn /\ parked = FALSE /\ inbox = <<>>
    /\ due = FALSE /\ stopping = FALSE
    /\ tasks = {} /\ written = 0
    /\ races \in Admitted

-----------------------------------------------------------------------------
(* Messages.                                                               *)

(* The flags every writeUserTurn rewrites from its own mode. *)
ModeFlags(mode) ==
    /\ planTurn' = (mode = "plan")
    /\ planRun' = (mode = "proceed")
    /\ native' = (mode = "native")

(* The queue of the slot the message goes to, the fresh one of a revive     *)
(* included.                                                               *)
QueueKept == authors
Queue == IF alive THEN authors ELSE <<>>

(* pendingAuthors.push; past the cap the oldest entry goes. *)
QueuedDroppingNewest(q, u, s) == IF Len(q) = MaxAuthors THEN q
                                 ELSE Append(q, [by |-> u, share |-> s, stale |-> FALSE])
Queued(q, u, s) == LET r == Append(q, [by |-> u, share |-> s, stale |-> FALSE])
                   IN  IF Len(r) > MaxAuthors THEN Tail(r) ELSE r

(* writeUserTurn from the revive on: a dead child is replaced by a fresh   *)
(* slot that keeps nothing but the plan review.  A message that finds a    *)
(* turn in flight is taken for a steering message, whose author is not     *)
(* queued because the child is expected to run no hook for it.  s is the   *)
(* share it was written under.                                             *)
Written(mode, u, s) ==
    LET wasMidTurn == alive /\ active IN
    /\ written < MaxTurns
    /\ due => "tail" \in races
    /\ NativeBusy => "native" \in races
    /\ written' = written + 1
    /\ alive' = TRUE /\ active' = TRUE
    /\ ModeFlags(mode)
    /\ authors' = IF wasMidTurn \/ mode = "native" THEN Queue
                  ELSE Queued(Queue, u, s)
    /\ inbox' = Append(inbox, [mode |-> mode, by |-> u])
    /\ current' = IF alive THEN current ELSE [by |-> "host", share |-> "host"]
    /\ trusted' = IF alive THEN trusted ELSE {}

(* A message from a person: plain, /plan, or a command the child runs      *)
(* itself (/compact, /cost).                                               *)
UserWrites(u, mode) ==
    /\ mode = "native" /\ (active \/ Running) => "native" \in races
    /\ mode = "plain" /\ (Given("plan") \/ Given("proceed")) => "steer" \in races
    /\ Written(mode, u, u)
    /\ card' = IF alive THEN card ELSE NoCard
    /\ UNCHANGED <<races, auto, review, cli, parked, due, stopping, tasks>>

(* respondToPermission on the synthetic review: the turn it writes names   *)
(* who decided and carries no share.                                       *)
DecideReview(u, mode) ==
    /\ review /\ review' = FALSE
    /\ Written(mode, u, "host")
    /\ card' = IF alive THEN card ELSE NoCard
    /\ UNCHANGED <<races, auto, cli, parked, due, stopping, tasks>>

Approve(u) == DecideReview(u, "proceed")
Reject(u) == DecideReview(u, "plan")

(* The mode an answer is relayed in: the plan mode the question was asked  *)
(* in, else the approved run that is still open.                           *)
RelayAlwaysPlain == IF planRun THEN "proceed" ELSE "plain"
RelayClosesRun == IF card.plan THEN "plan" ELSE "plain"
RelayMode == IF card.plan THEN "plan" ELSE IF planRun THEN "proceed" ELSE "plain"

(* respondToPermission on a question: the call is denied and the answer    *)
(* follows as a message.                                                   *)
Answer(u) ==
    /\ card.kind = "ask"
    /\ ~parked => "timeout" \in races
    /\ Given("plan") /\ ~card.plan => "steer" \in races
    /\ card' = NoCard /\ parked' = FALSE
    /\ Written(RelayMode, u, "host")
    /\ UNCHANGED <<races, auto, review, cli, due, stopping, tasks>>

(* respondToPermission on any other card: it unblocks the call, and        *)
(* "allow all from" trusts the share the card is attributed to.            *)
Decide(always) ==
    /\ card.kind \in {"write", "critical", "share"}
    /\ ~parked => "timeout" \in races
    /\ card' = NoCard /\ parked' = FALSE
    /\ trusted' = IF always /\ card.share \in Peers THEN trusted \cup {card.share} ELSE trusted
    /\ UNCHANGED <<races, alive, active, planTurn, planRun, auto, authors, current, native, review, cli, inbox, due, stopping, tasks, written>>

(* The hook's long poll ran out: the call is denied, the card stays. *)
GateTimeout ==
    /\ parked /\ parked' = FALSE
    /\ "timeout" \in races
    /\ UNCHANGED <<races, alive, slot, cli, inbox, due, stopping, tasks, written>>

SetSessionAutoMode(on) ==
    /\ auto # on /\ auto' = on
    /\ UNCHANGED <<races, alive, active, planTurn, planRun, authors, current, native, trusted, card, review, child, written>>

-----------------------------------------------------------------------------
(* The child, and what the sandbox does with its hooks and frames.         *)

(* popPendingAuthor, called when a UserPromptSubmit hook is ingested: the  *)
(* heads that outlived their TTL are dropped; with nobody queued then, the *)
(* previous driver stays.                                                  *)
PopPendingAuthor == \E n \in 0..Len(authors) :
    LET q == SubSeq(authors, n + 1, Len(authors)) IN
    /\ \A i \in 1..n : authors[i].stale
    /\ q # <<>> => ~q[1].stale
    /\ current' = IF q = <<>> THEN current ELSE [by |-> q[1].by, share |-> q[1].share]
    /\ authors' = IF q = <<>> THEN q ELSE Tail(q)

(* The child starts a turn; a native command runs no hook. *)
StartTurn ==
    /\ alive /\ ~Running /\ inbox # <<>>
    /\ cli' = Head(inbox) /\ inbox' = Tail(inbox)
    /\ \/ Head(inbox).mode # "native" /\ PopPendingAuthor
       \/ /\ Head(inbox).mode = "native" \/ "losthook" \in races
          /\ UNCHANGED <<authors, current>>
    /\ UNCHANGED <<races, alive, active, planTurn, planRun, auto, native, trusted, card, review, parked, due, stopping, tasks, written>>

(* The child splices a message into the turn it is executing; a native     *)
(* command waits for its end.                                              *)
Splice ==
    /\ Calling /\ inbox # <<>> /\ Head(inbox).mode # "native"
    /\ inbox' = Tail(inbox)
    /\ cli' = IF Head(inbox).mode \in Lasting THEN [cli EXCEPT !.mode = Head(inbox).mode] ELSE cli
    /\ UNCHANGED <<races, alive, slot, parked, due, stopping, tasks, written>>

(* The child ends its turn, with a Stop hook and a result frame.  One      *)
(* frame at a time is on its way.                                          *)
EndTurn ==
    /\ Calling /\ (inbox # <<>> => Head(inbox).mode = "native")
    /\ ~due /\ due' = TRUE /\ stopping' = TRUE
    /\ cli' = NoTurn
    /\ UNCHANGED <<races, alive, slot, parked, inbox, tasks, written>>

(* A synthetic frame ends the turn only when a native command is pending.  *)
SyntheticFrame == native' = FALSE /\ active' = (active /\ ~native)

(* A native command ends with a synthetic frame and no Stop hook. *)
NativeEnds ==
    /\ cli.mode = "native"
    /\ ~due /\ due' = TRUE /\ cli' = NoTurn
    /\ SyntheticFrame
    /\ UNCHANGED <<races, alive, planTurn, planRun, auto, authors, current, trusted, card, review, parked, inbox, stopping, tasks, written>>

(* The child compacts in the middle of a turn; the frame is the same. *)
AutoCompacts ==
    /\ Calling /\ native
    /\ SyntheticFrame
    /\ UNCHANGED <<races, alive, planTurn, planRun, auto, authors, current, trusted, card, review, child, written>>

(* The Stop hook, ahead of the result frame. *)
StopHook ==
    /\ due /\ stopping /\ stopping' = FALSE
    /\ active' = FALSE
    /\ UNCHANGED <<races, alive, planTurn, planRun, auto, authors, current, native, trusted, card, review, cli, parked, inbox, due, tasks, written>>

(* What a result frame clears. *)
ResultLeavesActive == UNCHANGED active /\ planTurn' = FALSE /\ planRun' = FALSE /\ native' = FALSE
ResultClears == active' = FALSE /\ planTurn' = FALSE /\ planRun' = FALSE /\ native' = FALSE

ResultFrame ==
    /\ due /\ due' = FALSE /\ stopping' = FALSE
    /\ ResultClears
    /\ UNCHANGED <<races, alive, auto, authors, current, trusted, card, review, cli, parked, inbox, tasks, written>>

EarlyResult ==
    /\ "early" \in races /\ Running
    /\ ResultClears
    /\ UNCHANGED <<races, alive, auto, authors, current, trusted, card, review, child, written>>

(* A tool call that changes the session: it enters plan mode, submits a    *)
(* plan, or becomes a card.  The other answers leave no trace here.        *)
CallTool(k) ==
    /\ Calling /\ card = NoCard
    /\ \/ /\ k = "enter"
          /\ Unread("proceed") => "cross" \in races
          /\ planTurn' = TRUE /\ cli' = [cli EXCEPT !.mode = "plan"]
          /\ UNCHANGED <<card, review, parked>>
       \/ /\ k = "submit" /\ review' = TRUE
          /\ UNCHANGED <<planTurn, cli, card, parked>>
       \/ /\ "card" \in Answers(k, Flags)
          /\ card' = [kind |-> k, share |-> current.share, plan |-> planTurn]
          /\ parked' = TRUE
          /\ UNCHANGED <<planTurn, cli, review>>
    /\ UNCHANGED <<races, alive, active, planRun, auto, authors, current, native, trusted, inbox, due, stopping, tasks, written>>

(* A background task started by the running turn. *)
SpawnTask ==
    /\ "notify" \in races /\ Calling /\ cli.by \notin tasks
    /\ tasks' = tasks \cup {cli.by}
    /\ UNCHANGED <<races, alive, slot, cli, parked, inbox, due, stopping, written>>

(* The child starts a turn with the result of a background task: its hook  *)
(* is recognised and takes no author, and nothing marks the turn active.   *)
Notification(u) ==
    /\ u \in tasks /\ tasks' = tasks \ {u}
    /\ alive /\ ~Running /\ inbox = <<>>
    /\ due => "tail" \in races
    /\ cli' = [mode |-> "plain", by |-> u]
    /\ UNCHANGED <<races, alive, slot, parked, inbox, due, stopping, written>>

(* The child exits or is killed, in a turn or between two. *)
ChildGone ==
    /\ alive /\ alive' = FALSE /\ active' = FALSE
    /\ cli' = NoTurn /\ parked' = FALSE /\ inbox' = <<>>
    /\ due' = FALSE /\ stopping' = FALSE /\ tasks' = {}
    /\ UNCHANGED <<races, planTurn, planRun, auto, authors, current, native, trusted, card, review, written>>

(* Five minutes pass over the first n queued authors; a message nobody is  *)
(* ahead of is read long before.                                           *)
AuthorAges(n) ==
    /\ ~authors[n].stale
    /\ Running \/ inbox = <<>> \/ n < Len(authors)
    /\ authors' = [i \in DOMAIN authors |-> IF i > n THEN authors[i]
                                             ELSE [authors[i] EXCEPT !.stale = TRUE]]
    /\ UNCHANGED <<races, alive, active, planTurn, planRun, auto, current, native, trusted, card, review, child, written>>

Next ==
    \/ \E u \in Users :
          \/ \E mode \in {"plain", "plan", "native"} : UserWrites(u, mode)
          \/ Approve(u) \/ Reject(u) \/ Answer(u) \/ Notification(u)
    \/ \E always \in BOOLEAN : Decide(always)
    \/ \E on \in BOOLEAN : SetSessionAutoMode(on)
    \/ \E k \in Kinds : CallTool(k)
    \/ \E n \in DOMAIN authors : AuthorAges(n)
    \/ GateTimeout \/ StartTurn \/ Splice \/ EndTurn \/ NativeEnds \/ AutoCompacts
    \/ StopHook \/ ResultFrame \/ EarlyResult \/ SpawnTask \/ ChildGone

Spec == Init /\ [][Next]_vars

-----------------------------------------------------------------------------
(* Properties.                                                             *)

(* The flags are those of the turn: a message never meets the result frame *)
(* of the turn before or of a native command, changes a mode in passing,   *)
(* outlives a frame, or crosses a change of mode by the model.             *)
FlagsPair == races \cap {"tail", "native", "cross", "steer", "early"} = {}

(* Each hook belongs to a message of its own: no turn starts without both, *)
(* and no message is taken for steering once its turn is over.             *)
HooksPair == races \cap {"tail", "native", "early", "notify"} = {}

(* A lost hook leaves its author in the queue, so every pairing is off by  *)
(* one until the queue runs dry.                                           *)
DriverPaired == HooksPair /\ ("losthook" \in races => authors = <<>>)

(* While the model works on a turn that was given in plan mode and not     *)
(* approved, the gate refuses every call that changes something            *)
(* (createPermissionRequest, the plan-mode block).                         *)
PlanHolds == FlagsPair /\ Calling /\ Given("plan") =>
    \A k \in Mutating : Answers(k, Flags) = {"deny"}

(* While it executes an approved plan, its routine calls raise no card,    *)
(* questions and answers in between included (respondToPermission).        *)
ApprovedRunsFree == FlagsPair /\ Calling /\ Given("proceed") =>
    Answers("write", Flags) = {"allow"}

(* A routine call is allowed without a card only in an approved run, in    *)
(* auto mode, or in a turn that a trusted peer really drives (trust is     *)
(* kept by share, the driver by the pairing of popPendingAuthor).          *)
UnattendedIsMeant == DriverPaired /\ Calling /\ "allow" \in Answers("write", Flags) =>
    Given("proceed") \/ auto \/ cli.by \in trusted

(* The turn is attributed to the person who wrote it (popPendingAuthor),   *)
(* across steering, revives and, once the queue is dry again, lost hooks,  *)
(* entries that outlive their TTL and a queue that overflowed.             *)
DriverKnown == DriverPaired /\ Calling => current.by = cli.by

(* Whatever overlaps: the "thinking" indicator is off when nothing is left *)
(* that could end a turn.                                                  *)
ThinkingEnds == active => Running \/ inbox # <<>> \/ due

=============================================================================
