--------------------------- MODULE PermissionGate ---------------------------
(***************************************************************************)
(* The permission gate's protocol: a PreToolUse hook posts an ask, reads   *)
(* an inline answer or long-polls for a decision; the sandbox answers by   *)
(* policy, or keeps a card for a human and hands the decision to the hook, *)
(* whichever of the two comes first.                                       *)
(*                                                                         *)
(* Decisions and waiters are keyed by the request id, which is the child's *)
(* tool_use_id and so not the sandbox's to keep unique.  Races admits the  *)
(* reuse of an id whose earlier ask ended:                                 *)
(*   reuse    once no card, waiter or running tool is left under it        *)
(*   leftover whatever is left                                             *)
(* The flags that decide between an answer and a card are TurnControl's;   *)
(* here every ask may arrive under any of them.                            *)
(***************************************************************************)
EXTENDS Naturals, GatePolicy

CONSTANTS
    Ids,        \* request ids
    MaxAsks,    \* bound on the asks
    Calls,      \* the kinds of asks, a subset of Kinds and "guest"
    Races       \* the reuses of ids admitted

ASSUME AsksAssumption == MaxAsks \in Nat
ASSUME CallsAssumption == Calls \subseteq Kinds \cup {"guest"}

Asks == 1..MaxAsks
NoAsk == 0
NoId == "none"
ASSUME IdsAssumption == NoId \notin Ids

(* "guest" is a guest's !bash command from the critical set. *)
HostOnly == Critical \cup {"guest"}

VARIABLES
    phase,      \* [Asks -> where the ask is]: "new"; "asked", its hook has
                \* not read the reply; "polling"; "left", a guest that stopped
                \* waiting; "done"; "dead", its hook was killed
    kind,       \* [Asks -> what it asks for]
    id,         \* [Asks -> its request id]
    reply,      \* [Asks -> the decision in the reply to /permission-ask]
    verdict,    \* [Asks -> what the hook told the child]
    stash,      \* earlyPermissionDecisions: [Ids -> decision and its ask]
    clocks,     \* the asks whose stashed decision has a timer running
    waiter,     \* permissionWaiters: [Ids -> ask]
    waits,      \* the asks whose wait has a timer running
    slotUp,     \* the session has a slot
    cards,      \* the slot's pendingRequests, which are in the order of the asks
    stray,      \* slotlessPending, likewise
    drops,      \* the asks whose 130 second timer runs
    tools,      \* the asks whose preview or page work runs
    allowedBy   \* [Asks -> who allowed it]; history

hooks == <<phase, kind, id, reply, verdict>>
vars == <<hooks, stash, clocks, waiter, waits, slotUp, cards, stray, drops, tools, allowedBy>>

NoDecision == [out |-> "none", for |-> NoAsk]

TypeOK ==
    /\ phase \in [Asks -> {"new", "asked", "polling", "left", "done", "dead"}]
    /\ kind \in [Asks -> Calls \cup {"none"}]
    /\ id \in [Asks -> Ids \cup {NoId}]
    /\ reply \in [Asks -> {"none", "allow", "deny"}]
    /\ verdict \in [Asks -> {"none", "allow", "deny"}]
    /\ stash \in [Ids -> [out : {"none", "allow", "deny"}, for : Asks \cup {NoAsk}]]
    /\ waiter \in [Ids -> Asks \cup {NoAsk}]
    /\ clocks \subseteq Asks /\ waits \subseteq Asks /\ drops \subseteq Asks /\ tools \subseteq Asks
    /\ slotUp \in BOOLEAN /\ cards \subseteq Asks /\ stray \subseteq Asks
    /\ allowedBy \in [Asks -> {"none", "policy", "host", "peer"}]

Init ==
    /\ phase = [a \in Asks |-> "new"]
    /\ kind = [a \in Asks |-> "none"]
    /\ id = [a \in Asks |-> NoId]
    /\ reply = [a \in Asks |-> "none"]
    /\ verdict = [a \in Asks |-> "none"]
    /\ stash = [i \in Ids |-> NoDecision]
    /\ waiter = [i \in Ids |-> NoAsk]
    /\ clocks = {} /\ waits = {} /\ drops = {} /\ tools = {}
    /\ slotUp = TRUE /\ cards = {} /\ stray = {}
    /\ allowedBy = [a \in Asks |-> "none"]

-----------------------------------------------------------------------------
(* Cards.                                                                  *)

(* The board a decision is looked up on: the slot's, or the stray one. *)
Board == IF slotUp THEN cards ELSE stray

Under(i, s) == {b \in s : id[b] = i}

(* The card a request id names: the first one under it. *)
CardOf(i) == {b \in Under(i, Board) : \A c \in Under(i, Board) : b <= c}

Without(i, s) == s \ Under(i, s)

(* One card is taken off the slot's list; the stray list drops every card  *)
(* under the same id.                                                      *)
TakeCard(a) ==
    IF slotUp THEN cards' = cards \ {a} /\ UNCHANGED stray
    ELSE stray' = Without(id[a], stray) /\ UNCHANGED cards

(* withdrawPermissionRequest: the card is looked for in both places, and a *)
(* decision stashed under its id goes with it.                             *)
WithdrawNothing(a) == UNCHANGED <<cards, stray, stash>>
Withdraw(a) ==
    /\ cards' = cards \ {a}
    /\ stray' = IF a \in cards THEN stray ELSE stray \ {a}
    /\ stash' = IF a \in cards \cup stray
                THEN [stash EXCEPT ![id[a]] = NoDecision] ELSE stash

-----------------------------------------------------------------------------
(* Asks.                                                                   *)

Unused(i) == \A b \in Asks : id[b] # i

(* When the child may use an id for another ask. *)
Reusable(i) ==
    /\ \A b \in Asks : id[b] = i => kind[b] # "guest" /\ phase[b] \in {"done", "dead"}
    /\ \/ "leftover" \in Races
       \/ /\ "reuse" \in Races
          /\ Under(i, cards \cup stray) = {} /\ waiter[i] = NoAsk
          /\ \A b \in tools : id[b] # i

(* A new ask drops the decision an older one left under its id. *)
Cleared(i) == [stash EXCEPT ![i] = NoDecision]

FlagSets == [planTurn : BOOLEAN, planRun : BOOLEAN, trusted : BOOLEAN, auto : BOOLEAN]
NoFlags == [planTurn |-> FALSE, planRun |-> FALSE, trusted |-> FALSE, auto |-> FALSE]

(* What the gate may answer, without a slot as if no flag were set. *)
AnswersTo(k) == UNION {Answers(k, f) : f \in IF slotUp THEN FlagSets ELSE {NoFlags}}

(* createPermissionRequest *)
Request(a, i, k, out) ==
    /\ phase[a] = "new" /\ \A b \in Asks : b < a => phase[b] # "new"
    /\ kind' = [kind EXCEPT ![a] = k]
    /\ id' = [id EXCEPT ![a] = i]
    /\ IF out \in {"allow", "deny"}
       THEN /\ stash' = [stash EXCEPT ![i] = [out |-> out, for |-> a]]
            /\ clocks' = clocks \cup {a}
       ELSE /\ stash' = Cleared(i)
            /\ UNCHANGED clocks
    /\ cards' = IF out = "card" /\ slotUp THEN cards \cup {a} ELSE cards
    /\ stray' = IF out = "card" /\ ~slotUp THEN stray \cup {a} ELSE stray
    /\ drops' = IF out = "card" /\ ~slotUp THEN drops \cup {a} ELSE drops
    /\ tools' = IF out = "later" THEN tools \cup {a} ELSE tools
    /\ allowedBy' = IF out = "allow" THEN [allowedBy EXCEPT ![a] = "policy"] ELSE allowedBy
    /\ UNCHANGED <<verdict, slotUp>>

(* POST /permission-ask: the reply carries the decision if there is one. *)
Ask(a, i, k) ==
    /\ k # "guest" /\ (Unused(i) \/ Reusable(i))
    /\ \E out \in AnswersTo(k) : Request(a, i, k, out)
    /\ phase' = [phase EXCEPT ![a] = "asked"]
    /\ reply' = [reply EXCEPT ![a] = stash'[i].out]
    /\ UNCHANGED <<waiter, waits>>

(* The same ask raised by the sandbox for a guest's !bash, under an id of  *)
(* its own; it waits at once, and a refusal in plan mode ends it.          *)
GuestAsk(a, i) ==
    /\ slotUp /\ Unused(i)
    /\ \E out \in AnswersTo("critical") :
          /\ Request(a, i, "guest", out)
          /\ phase' = [phase EXCEPT ![a] = IF out = "deny" THEN "dead" ELSE "polling"]
          /\ IF out = "deny" THEN UNCHANGED <<waiter, waits>>
             ELSE waiter' = [waiter EXCEPT ![i] = a] /\ waits' = waits \cup {a}
    /\ UNCHANGED reply

(* What the hook tells the child: anything but an allow is a deny. *)
Told(out) == IF out = "allow" THEN "allow" ELSE "deny"

Ends(a, out) ==
    /\ phase' = [phase EXCEPT ![a] = "done"]
    /\ verdict' = [verdict EXCEPT ![a] = Told(out)]
    /\ UNCHANGED <<kind, id, reply>>

(* The hook finds the decision in the reply. *)
HookReads(a) ==
    /\ phase[a] = "asked" /\ reply[a] # "none"
    /\ Ends(a, reply[a])
    /\ UNCHANGED <<stash, clocks, waiter, waits, slotUp, cards, stray, drops, tools, allowedBy>>

(* GET /permission-wait: consume a stashed decision, or register.  A newer *)
(* waiter takes the place of an older one under the same id.               *)
HookPolls(a) ==
    /\ phase[a] = "asked" /\ reply[a] = "none"
    /\ IF stash[id[a]] # NoDecision
       THEN /\ Ends(a, stash[id[a]].out)
            /\ stash' = Cleared(id[a])
            /\ UNCHANGED <<waiter, waits>>
       ELSE /\ phase' = [phase EXCEPT ![a] = "polling"]
            /\ waiter' = [waiter EXCEPT ![id[a]] = a]
            /\ waits' = waits \cup {a}
            /\ UNCHANGED <<kind, id, reply, verdict, stash>>
    /\ UNCHANGED <<clocks, slotUp, cards, stray, drops, tools, allowedBy>>

(* The reply is lost or late: the hook denies without ever polling. *)
ReplyLost(a) ==
    /\ phase[a] = "asked"
    /\ Ends(a, "timeout")
    /\ UNCHANGED <<stash, clocks, waiter, waits, slotUp, cards, stray, drops, tools, allowedBy>>

(* The hook is killed with the child that runs it. *)
HookDies(a) ==
    /\ phase[a] \in {"asked", "polling"} /\ kind[a] # "guest"
    /\ phase' = [phase EXCEPT ![a] = "dead"]
    /\ UNCHANGED <<kind, id, reply, verdict, stash, clocks, waiter, waits, slotUp, cards, stray, drops, tools, allowedBy>>

(* The guest closes the connection: the card goes, the wait stays. *)
GuestLeaves(a) ==
    /\ kind[a] = "guest" /\ phase[a] = "polling"
    /\ phase' = [phase EXCEPT ![a] = "left"]
    /\ Withdraw(a)
    /\ UNCHANGED <<kind, id, reply, verdict, clocks, waiter, waits, slotUp, drops, tools, allowedBy>>

StillPolls(a) == phase[a] = "polling"
StillWaits(a) == phase[a] \in {"polling", "left"}

(* The timer of a wait: it removes whatever waiter is registered under the *)
(* id.  A guest's card is withdrawn, a hook's stays.                       *)
WaitTimeout(a) ==
    /\ a \in waits /\ waits' = waits \ {a}
    /\ waiter' = [waiter EXCEPT ![id[a]] = NoAsk]
    /\ IF StillWaits(a) THEN Ends(a, "timeout") ELSE UNCHANGED hooks
    /\ IF kind[a] = "guest" THEN Withdraw(a) ELSE UNCHANGED <<cards, stray, stash>>
    /\ UNCHANGED <<clocks, slotUp, drops, tools, allowedBy>>

-----------------------------------------------------------------------------
(* Decisions.                                                              *)

(* A decision made for ask b reaches the waiter under its id, or is        *)
(* stashed for a minute.                                                   *)
SettleWaiter(b, out) ==
    LET w == waiter[id[b]] IN
    /\ IF w # NoAsk /\ StillWaits(w) THEN Ends(w, out) ELSE UNCHANGED hooks
    /\ waiter' = [waiter EXCEPT ![id[b]] = NoAsk] /\ waits' = waits \ {w}
    /\ UNCHANGED <<stash, clocks>>
Settle(b, out) ==
    IF waiter[id[b]] # NoAsk THEN SettleWaiter(b, out)
    ELSE /\ stash' = [stash EXCEPT ![id[b]] = [out |-> out, for |-> b]]
         /\ clocks' = clocks \cup {b}
         /\ UNCHANGED <<hooks, waiter, waits>>

(* POST /sessions/:id/permission: a peer may not decide a critical card. *)
AnyPeerMay(by, b) == TRUE
MayDecide(by, b) == by = "peer" => kind[b] \notin HostOnly

Respond(by, i, out) == \E b \in CardOf(i) :
    /\ MayDecide(by, b)
    /\ TakeCard(b)
    /\ Settle(b, out)
    /\ allowedBy' = IF out = "allow" THEN [allowedBy EXCEPT ![b] = by] ELSE allowedBy
    /\ UNCHANGED <<slotUp, drops, tools>>

(* settlePreviewCall: the work of a preview or page tool is done. *)
ToolSettles(a) ==
    /\ a \in tools /\ tools' = tools \ {a}
    /\ Settle(a, "deny")
    /\ UNCHANGED <<slotUp, cards, stray, drops, allowedBy>>

(* The timer of a stashed decision deletes what is stashed under the id.   *)
(* It outlasts the time between a reply and the poll.                      *)
Expire(a) ==
    /\ a \in clocks /\ phase[a] # "asked"
    /\ clocks' = clocks \ {a}
    /\ stash' = Cleared(id[a])
    /\ UNCHANGED <<hooks, waiter, waits, slotUp, cards, stray, drops, tools, allowedBy>>

(* The slot is replaced by a fresh one (a revive) or removed (an end); the *)
(* cards of asks are not carried over.                                     *)
SlotGone(up) ==
    /\ slotUp /\ slotUp' = up /\ cards' = {}
    /\ UNCHANGED <<hooks, stash, clocks, waiter, waits, stray, drops, tools, allowedBy>>

DropStray(a) ==
    /\ a \in drops /\ drops' = drops \ {a}
    /\ stray' = Without(id[a], stray)
    /\ UNCHANGED <<hooks, stash, clocks, waiter, waits, slotUp, cards, tools, allowedBy>>

Next ==
    \/ \E a \in Asks :
          \/ \E i \in Ids : \/ \E k \in Calls : Ask(a, i, k)
                            \/ "guest" \in Calls /\ GuestAsk(a, i)
          \/ HookReads(a) \/ HookPolls(a) \/ ReplyLost(a) \/ HookDies(a)
          \/ GuestLeaves(a) \/ WaitTimeout(a) \/ ToolSettles(a) \/ Expire(a) \/ DropStray(a)
    \/ \E by \in {"host", "peer"}, i \in Ids, out \in {"allow", "deny"} : Respond(by, i, out)
    \/ \E up \in BOOLEAN : SlotGone(up)

Spec == Init /\ [][Next]_vars

(* Hooks poll and timers fire. *)
Fairness == \A a \in Asks :
    /\ WF_vars(HookReads(a)) /\ WF_vars(HookPolls(a))
    /\ WF_vars(WaitTimeout(a)) /\ WF_vars(DropStray(a))

FairSpec == Spec /\ Fairness

-----------------------------------------------------------------------------
(* Properties.                                                             *)

MayAllow(k) ==
    IF k \in HostOnly THEN {"host"}
    ELSE IF k = "write" THEN {"policy", "host", "peer"}
    ELSE IF k = "ask" THEN {"host", "peer"}
    ELSE IF k \in {"read", "bash"} THEN {"policy"} ELSE {}

(* What an ask has come to, as far as the child can tell. *)
GateStatus == [a \in Asks |->
    CASE phase[a] = "new" -> "idle"
      [] phase[a] \in {"asked", "polling", "left"} -> "open"
      [] phase[a] = "dead" -> "deny"
      [] OTHER -> verdict[a]]

(* The protocol keeps the gate's promise: a tool call runs only if its own *)
(* ask was allowed, and by somebody who may allow its kind.                *)
Promise == INSTANCE Gate WITH AskKinds <- Calls, about <- kind, status <- GateStatus
Implements == Promise!Spec

(* An allowed ask whose hook still listens is one whose hook will read the *)
(* decision: it never long-polls in vain.  The exception is an id that was *)
(* used before, where the older decision's timer may delete the newer one. *)
RulingReaches == \A a \in Asks :
    allowedBy[a] # "none" /\ phase[a] \in {"asked", "polling"} =>
        \/ /\ phase[a] = "asked"
           /\ \/ reply[a] = "allow"
              \/ reply[a] = "none" /\ stash[id[a]] = [out |-> "allow", for |-> a]
        \/ \E b \in 1..(a - 1) : id[b] = id[a]

(* The card of a guest's command, on either board, belongs to a guest that *)
(* still waits: deciding it has an effect.                                 *)
GuestCardIsHeard == \A a \in cards \cup stray : kind[a] = "guest" => phase[a] = "polling"

(* A guest's command never runs once the guest has left. *)
LeftNeverRuns == [][\A a \in Asks : phase[a] = "left" => verdict'[a] # "allow"]_vars

(* Every ask ends, also one whose guest left or whose card a revive dropped *)
(* (awaitPermissionDecision), and the card of an ask without a slot does   *)
(* not stay (createPermissionRequest, the 130 second timer).               *)
AsksEnd == \A a \in Asks :
    /\ phase[a] \in {"asked", "polling", "left"} ~> phase[a] \in {"done", "dead"}
    /\ a \in drops ~> a \notin stray

=============================================================================
