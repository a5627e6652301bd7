-------------------------------- MODULE Drive ---------------------------------
(***************************************************************************)
(* The model drives the pages that watch a preview.  The sandbox parks the *)
(* call (sandbox/lib/preview-drive.ts); the dashboard's front process      *)
(* collects it with a long poll and reports what came of it (the relay in  *)
(* dashboard/server.mjs); its registry of pages (preview-driver.mjs) waits *)
(* for a viewer, or for pages that are navigating, and sends the action to *)
(* every page that follows; and the script in each page runs it, unless    *)
(* its viewer has taken control, and acknowledges.                         *)
(*                                                                         *)
(* One slot, which one preview after another occupies; the pages keep      *)
(* their sockets when it changes hands.  Every wait has a time limit, and  *)
(* whoever was waiting is told something when it passes, while the action  *)
(* may still be on its way.  The numbering by which pages are told how far *)
(* behind they are, and the turn interrupted when the last viewer takes    *)
(* control, are left out.                                                  *)
(***************************************************************************)
EXTENDS Naturals

CONSTANTS Pages,       \* browser tabs
          MaxPreview,  \* previews that occupy the slot, one after another
          MaxCalls,    \* requests parked, the nudged second tries included
          MaxUpsets    \* pages that reload, navigate, close or lose their socket,
                       \* viewers that take control, restarts of the front process

ASSUME DriveConstants ==
  /\ MaxPreview \in Nat \ {0} /\ MaxCalls \in Nat /\ MaxUpsets \in Nat

Calls == 1..MaxCalls
Answers == {"none", "no-dashboard", "no-result", "no-viewer", "all-detached", "nobody-ran", "ok"}

VARIABLES
  occupant, \* the preview on the slot
  asked,    \* requests parked so far
  queue,    \* the sandbox: each request unasked, waiting, running or settled
  answer,   \* and what its caller was told
  want,     \* the preview it is for
  nudge,    \* the request it is the second try of, 0 for a first
  relay,    \* the front's long poll: is it parked in the sandbox
  ghost,    \* a parked poll whose client is gone
  drive,    \* each request at the front: none, begun, waiting for a viewer or
            \* for pages to be back, sent, or a result
  pend,     \* pages that have not answered it
  good,     \* pages that acknowledged it
  off,      \* pages that did not in time
  conn,     \* the preview each page's socket was opened for, 0 without one
  stance,   \* what the registry believes of the page: does it follow
  back,     \* pages that left following, expected back
  follows,  \* the page's viewer has not taken control of it
  inbox,    \* actions that reached the page and were not run
  owes,     \* actions run and not acknowledged
  applied,  \* history: the actions each tab ever ran
  upsets

sandbox == <<asked, queue, answer, want, nudge>>
front == <<relay, drive, pend, good, off>>
registry == <<conn, stance, back>>
page == <<follows, inbox, owes, applied>>
vars == <<occupant, sandbox, ghost, front, registry, page, upsets>>

TypeOK ==
  /\ occupant \in 1..MaxPreview /\ asked \in 0..MaxCalls
  /\ queue \in [Calls -> {"unasked", "waiting", "running", "settled"}]
  /\ answer \in [Calls -> Answers]
  /\ want \in [Calls -> 0..MaxPreview] /\ nudge \in [Calls -> 0..MaxCalls]
  /\ relay \in BOOLEAN /\ ghost \in BOOLEAN
  /\ drive \in [Calls -> {"begun", "viewer", "back", "sent"} \cup Answers]
  /\ pend \in [Calls -> SUBSET Pages] /\ good \in [Calls -> SUBSET Pages]
  /\ off \in [Calls -> SUBSET Pages]
  /\ conn \in [Pages -> 0..MaxPreview] /\ stance \in [Pages -> BOOLEAN] /\ back \subseteq Pages
  /\ follows \in [Pages -> BOOLEAN]
  /\ inbox \in [Pages -> SUBSET Calls] /\ owes \in [Pages -> SUBSET Calls]
  /\ applied \in [Pages -> SUBSET Calls]
  /\ upsets \in 0..MaxUpsets

Upset == upsets < MaxUpsets /\ upsets' = upsets + 1
None(x) == [c \in Calls |-> x]
Init ==
  /\ occupant = 1 /\ asked = 0 /\ queue = None("unasked") /\ answer = None("none")
  /\ want = None(0) /\ nudge = None(0) /\ relay = FALSE /\ ghost = FALSE
  /\ drive = None("none") /\ pend = None({}) /\ good = None({}) /\ off = None({})
  /\ conn = [p \in Pages |-> 0] /\ stance = [p \in Pages |-> TRUE] /\ back = {}
  /\ follows = [p \in Pages |-> TRUE]
  /\ inbox = [p \in Pages |-> {}] /\ owes = [p \in Pages |-> {}]
  /\ applied = [p \in Pages |-> {}]
  /\ upsets = 0

-----------------------------------------------------------------------------
(* The sandbox's queue.                                                    *)
Waiting == {c \in Calls : queue[c] = "waiting"}

(* request: a parked poll takes it at once, the oldest first, be its       *)
(* client there or not; without one it waits to be picked up.              *)
Parked(c, pv, first) ==
  /\ asked' = c
  /\ want' = [want EXCEPT ![c] = pv] /\ nudge' = [nudge EXCEPT ![c] = first]
  /\ IF ghost \/ relay
       THEN /\ queue' = [queue EXCEPT ![c] = "running"]
            /\ ghost' = FALSE
            /\ relay' = (relay /\ ghost)
            /\ drive' = IF ghost THEN drive ELSE [drive EXCEPT ![c] = "begun"]
       ELSE queue' = [queue EXCEPT ![c] = "waiting"] /\ UNCHANGED <<ghost, relay, drive>>

Request ==
  /\ asked < MaxCalls
  /\ Parked(asked + 1, occupant, 0)
  /\ UNCHANGED <<occupant, answer, pend, good, off, registry, page, upsets>>

(* Nobody was watching: everyone is nudged, and the call is made again.    *)
Nudge(c) ==
  /\ answer[c] = "no-viewer" /\ nudge[c] = 0 /\ asked < MaxCalls
  /\ \A d \in Calls : nudge[d] # c
  /\ Parked(asked + 1, want[c], c)
  /\ UNCHANGED <<occupant, answer, pend, good, off, registry, page, upsets>>

(* The mutated timer answers the caller and leaves the action queued. *)
StillQueued(c) == UNCHANGED queue
Unqueued(c) == queue' = [queue EXCEPT ![c] = "settled"]

PickupTimeout(c) ==
  /\ queue[c] = "waiting" /\ answer[c] = "none"
  /\ Unqueued(c)
  /\ answer' = [answer EXCEPT ![c] = "no-dashboard"]
  /\ UNCHANGED <<occupant, asked, want, nudge, ghost, front, registry, page, upsets>>

(* The mutated clock runs only while the front has the action in hand. *)
WhileDriven(c) == queue[c] = "running" /\ drive[c] # "none"
OnTheClock(c) == queue[c] = "running"

RunTimeout(c) ==
  /\ OnTheClock(c)
  /\ queue' = [queue EXCEPT ![c] = "settled"]
  /\ answer' = [answer EXCEPT ![c] = "no-result"]
  /\ UNCHANGED <<occupant, asked, want, nudge, ghost, front, registry, page, upsets>>

(* drive-next: the oldest action there is, or a parked poll, which comes   *)
(* back empty in the end; a poll whose client is gone does so too.         *)
Take ==
  /\ ~relay
  /\ IF Waiting # {}
       THEN \E c \in Waiting :
              /\ \A d \in Waiting : c <= d
              /\ queue' = [queue EXCEPT ![c] = "running"]
              /\ drive' = [drive EXCEPT ![c] = "begun"]
              /\ UNCHANGED relay
       ELSE relay' = TRUE /\ UNCHANGED <<queue, drive>>
  /\ UNCHANGED <<occupant, asked, answer, want, nudge, ghost, pend, good, off, registry, page, upsets>>

GhostTimesOut ==
  /\ ghost /\ ghost' = FALSE
  /\ UNCHANGED <<occupant, sandbox, front, registry, page, upsets>>

-----------------------------------------------------------------------------
(* The registry of pages. *)
Attached == {p \in Pages : conn[p] # 0}
Following == {p \in Attached : stance[p]}

(* A socket opened for another preview than this one is closed; what the   *)
(* slot's numbers said of the other app is forgotten.                      *)
Others(pv) == {p \in Attached : conn[p] # pv}
BackAfter(pv) == IF Others(pv) # {} THEN {} ELSE back

(* The fan-out, over the pages attached now; before it, pages that are     *)
(* navigating are waited for.                                              *)
Fan(c, here) ==
  LET to == {p \in here : stance[p]} IN
  IF to = {}
    THEN /\ drive' = [drive EXCEPT ![c] = IF here = {} THEN "no-viewer" ELSE "all-detached"]
         /\ UNCHANGED <<pend, inbox>>
    ELSE /\ drive' = [drive EXCEPT ![c] = "sent"]
         /\ pend' = [pend EXCEPT ![c] = to]
         /\ inbox' = [p \in Pages |-> IF p \in to THEN inbox[p] \cup {c} ELSE inbox[p]]

Onward(c, here, away) ==
  /\ back' = away
  /\ IF away = {} THEN Fan(c, here)
     ELSE drive' = [drive EXCEPT ![c] = "back"] /\ UNCHANGED <<pend, inbox>>

sending == <<occupant, sandbox, ghost, relay, good, off, stance, follows, owes, applied, upsets>>

(* A second try waits for a viewer first. *)
Begin(c) ==
  LET here == Attached \ Others(want[c]) IN
  /\ drive[c] = "begun"
  /\ conn' = [p \in Pages |-> IF p \in here THEN conn[p] ELSE 0]
  /\ IF nudge[c] # 0 /\ Following \cap here = {}
       THEN /\ drive' = [drive EXCEPT ![c] = "viewer"] /\ back' = BackAfter(want[c])
            /\ UNCHANGED <<pend, inbox>>
       ELSE Onward(c, here, BackAfter(want[c]))
  /\ UNCHANGED sending

(* A viewer came, or the wait is over. *)
Viewed(c) ==
  /\ drive[c] = "viewer"
  /\ Onward(c, Attached, back)
  /\ UNCHANGED <<sending, conn>>

(* Everybody who was navigating is back, or the grace is over. *)
Returned(c) ==
  /\ drive[c] = "back"
  /\ back' = {} /\ Fan(c, Attached)
  /\ UNCHANGED <<sending, conn>>

(* The mutated registry waits only for pages that are still attached. *)
IfAttached(c) == pend[c] \cap Attached
Unanswered(c) == pend[c]

(* A second has passed without an acknowledgement. *)
AckTimeout(c, p) ==
  /\ drive[c] = "sent" /\ p \in Unanswered(c)
  /\ pend' = [pend EXCEPT ![c] = @ \ {p}] /\ off' = [off EXCEPT ![c] = @ \cup {p}]
  /\ UNCHANGED <<occupant, sandbox, ghost, relay, drive, good, registry, page, upsets>>

(* All have answered or are late; the late ones' sockets are closed.  One  *)
(* page that ran it is enough.                                             *)
Gather(c) ==
  /\ drive[c] = "sent" /\ pend[c] = {}
  /\ drive' = [drive EXCEPT ![c] = IF good[c] # {} THEN "ok" ELSE "nobody-ran"]
  /\ conn' = [p \in Pages |-> IF p \in off[c] THEN 0 ELSE conn[p]]
  /\ UNCHANGED <<occupant, sandbox, ghost, relay, pend, good, off, stance, back, page, upsets>>

(* drive-result: a caller that was told something already is not told      *)
(* again.                                                                  *)
Report(c) ==
  /\ drive[c] \in Answers \ {"none"}
  /\ IF queue[c] = "running"
       THEN /\ queue' = [queue EXCEPT ![c] = "settled"]
            /\ answer' = [answer EXCEPT ![c] = drive[c]]
       ELSE UNCHANGED <<queue, answer>>
  /\ drive' = [drive EXCEPT ![c] = "none"]
  /\ pend' = [pend EXCEPT ![c] = {}] /\ good' = [good EXCEPT ![c] = {}]
  /\ off' = [off EXCEPT ![c] = {}]
  /\ UNCHANGED <<occupant, asked, want, nudge, ghost, relay, registry, page, upsets>>

-----------------------------------------------------------------------------
(* The pages. *)

(* The upgrade: the socket is for whatever preview has the slot now, and   *)
(* says hello under the tab's own name.                                    *)
Attach(p) ==
  /\ conn[p] = 0
  /\ conn' = [q \in Pages |-> IF q = p THEN occupant ELSE IF q \in Others(occupant) THEN 0 ELSE conn[q]]
  /\ stance' = [stance EXCEPT ![p] = TRUE]
  /\ back' = BackAfter(occupant) \ {p}
  /\ UNCHANGED <<occupant, sandbox, ghost, front, page, upsets>>

(* The viewer touches the page; the registry hears of it, then or on the   *)
(* next connection.                                                        *)
TakeControl(p) ==
  /\ follows[p] /\ Upset
  /\ follows' = [follows EXCEPT ![p] = FALSE]
  /\ UNCHANGED <<occupant, sandbox, ghost, front, registry, inbox, owes, applied>>

Detach(p) ==
  /\ conn[p] # 0 /\ stance[p] /\ ~follows[p]
  /\ stance' = [stance EXCEPT ![p] = FALSE]
  /\ UNCHANGED <<occupant, sandbox, ghost, front, conn, back, page, upsets>>

(* The page runs an action if it follows, and refuses it otherwise.        *)
Answered(c, p) == drive[c] = "sent" /\ p \in pend[c]
Replied(c, p, ok) ==
  IF Answered(c, p)
    THEN /\ pend' = [pend EXCEPT ![c] = @ \ {p}]
         /\ good' = IF ok THEN [good EXCEPT ![c] = @ \cup {p}] ELSE good
    ELSE UNCHANGED <<pend, good>>

Run(p, c) ==
  /\ c \in inbox[p] /\ follows[p]
  /\ inbox' = [inbox EXCEPT ![p] = @ \ {c}]
  /\ owes' = [owes EXCEPT ![p] = @ \cup {c}] /\ applied' = [applied EXCEPT ![p] = @ \cup {c}]
  /\ UNCHANGED <<occupant, sandbox, ghost, front, registry, follows, upsets>>

Ack(p, c) ==
  /\ c \in owes[p]
  /\ owes' = [owes EXCEPT ![p] = @ \ {c}]
  /\ Replied(c, p, TRUE)
  /\ UNCHANGED <<occupant, sandbox, ghost, relay, drive, off, registry, follows, inbox,
                 applied, upsets>>

(* Taken over by its viewer, or the action does not fit the page. *)
Refuse(p, c) ==
  /\ c \in inbox[p]
  /\ inbox' = [inbox EXCEPT ![p] = @ \ {c}]
  /\ Replied(c, p, FALSE)
  /\ UNCHANGED <<occupant, sandbox, ghost, relay, drive, off, registry, follows, owes,
                 applied, upsets>>

Dropped(p) ==
  /\ conn' = [conn EXCEPT ![p] = 0]
  /\ back' = IF conn[p] # 0 /\ stance[p] THEN back \cup {p} ELSE back
  /\ UNCHANGED stance

(* A new document in the tab, or none: its socket goes with the old one.   *)
(* Or the socket alone is lost.  A closed tab is one that does not attach. *)
Move(p) ==
  /\ Upset
  /\ Dropped(p)
  /\ \/ /\ follows' = [follows EXCEPT ![p] = TRUE]
        /\ inbox' = [inbox EXCEPT ![p] = {}] /\ owes' = [owes EXCEPT ![p] = {}]
     \/ /\ conn[p] # 0
        /\ inbox' = [inbox EXCEPT ![p] = {}]
        /\ UNCHANGED <<follows, owes>>
  /\ UNCHANGED <<occupant, sandbox, ghost, front, applied>>

-----------------------------------------------------------------------------
(* The slot goes to the next preview. *)
ChangeHands ==
  /\ occupant < MaxPreview /\ occupant' = occupant + 1
  /\ UNCHANGED <<sandbox, ghost, front, registry, page, upsets>>

(* The front process restarts: what it had collected is lost. *)
Restart ==
  /\ Upset
  /\ ghost' = (ghost \/ relay) /\ relay' = FALSE
  /\ drive' = None("none") /\ pend' = None({}) /\ good' = None({}) /\ off' = None({})
  /\ conn' = [p \in Pages |-> 0] /\ back' = {}
  /\ inbox' = [p \in Pages |-> {}]
  /\ UNCHANGED <<occupant, sandbox, stance, follows, owes, applied>>

DriveStep(c) == Begin(c) \/ Viewed(c) \/ Returned(c) \/ Gather(c) \/ Report(c)
PageStep(p) ==
  \/ Attach(p) \/ TakeControl(p) \/ Detach(p) \/ Move(p)
  \/ \E c \in Calls : Run(p, c) \/ Ack(p, c) \/ Refuse(p, c)

Next ==
  \/ Request \/ Take \/ GhostTimesOut \/ ChangeHands \/ Restart
  \/ \E c \in Calls : \/ Nudge(c) \/ PickupTimeout(c) \/ RunTimeout(c) \/ DriveStep(c)
                      \/ \E p \in Pages : AckTimeout(c, p)
  \/ \E p \in Pages : PageStep(p)

(* Timers go off and the front's own steps are taken; nothing is asked of  *)
(* the pages.                                                              *)
Fairness ==
  \A c \in Calls :
    /\ WF_vars(PickupTimeout(c) \/ RunTimeout(c))
    /\ WF_vars(DriveStep(c) \/ \E p \in Pages : AckTimeout(c, p))

Spec == Init /\ [][Next]_vars /\ Fairness

-----------------------------------------------------------------------------
(* The model's call is always answered, though the front restarts with the *)
(* action in hand or an abandoned poll collects it.                        *)
CallsSettle == \A c \in Calls : c <= asked ~> answer[c] # "none"

(* What was begun at the front ends, whatever the pages do.                *)
DrivesEnd == \A c \in Calls : drive[c] # "none" ~> drive[c] = "none"

(* "No dashboard" and "no viewer" mean that the action was not run, and    *)
(* never will be: asking again is safe.                                    *)
NotRunIsNotRun ==
  \A c \in Calls : answer[c] \in {"no-dashboard", "no-viewer", "all-detached"} =>
    \A p \in Pages : c \notin inbox[p] \cup applied[p]

(* preview-driver.mjs 273-282, 641-648: an action must not run "inside     *)
(* another session's app": it is only sent to pages of its own preview.    *)
OnlyItsOwnPages ==
  [][\A c \in Calls : drive[c] # "sent" /\ drive'[c] = "sent" =>
       \A p \in pend'[c] : conn[p] = want[c]]_vars

(* preview-driver.mjs 759-761: "Nobody ran it, so nothing was applied      *)
(* anywhere - which makes this the one shortfall that IS safe to fix and   *)
(* retry."                                                                 *)
NobodyRan ==
  \A c \in Calls : answer[c] = "nobody-ran" => \A p \in Pages : c \notin applied[p]
=============================================================================
