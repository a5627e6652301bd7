------------------------------ MODULE AutoShare ------------------------------
(***************************************************************************)
(* The front process's preview tunnels and the reconciler that opens and   *)
(* closes them (dashboard/server.mjs and auto-share.mjs).  The sandbox     *)
(* owns the records - which preview is on which slot, at which public URL, *)
(* and which sessions have a share; the front owns the cloudflared         *)
(* processes, one per shared slot, and the tunnel of the dashboard itself  *)
(* (the "door", whose start and stop SessionTunnel models).  Nothing is    *)
(* atomic across the two: a pass reads the records, acts on its snapshot,  *)
(* waits for processes and writes back, while the host shares by hand.     *)
(*                                                                         *)
(* Session k's preview runs on slot k; a preview that is started again     *)
(* there is another one, with another id.                                  *)
(***************************************************************************)
EXTENDS Front, FiniteSets

CONSTANTS Slots,       \* preview slots, numbers
          MaxPreviews, \* preview ids: one nothing remembers is used again
          MaxTries,    \* attempts of one start of a tunnel
          MaxEvents,   \* what previews, guests and host do in a run
          MaxFaults    \* attempts and requests to the sandbox that fail, tunnels that die

ASSUME AutoShareConstants ==
  Slots \subseteq Nat /\ IsFiniteSet(Slots) /\ MaxPreviews \in Nat /\ MaxTries \in Nat \ {0}

Ids == 0..MaxPreviews   \* 0: no preview
Openers == {"pass", "hand"}  \* who starts tunnels: the running pass, the host's request

VARIABLES
  preview,  \* the sandbox's record of each slot: preview id, does it run, has it a public URL
  guests,   \* each session's share: none, invited, or joined by its guest
  apart,    \* sessions whose preview and share are recorded under different ids of theirs
  door,     \* is the dashboard's tunnel up
  saw,      \* _sawAnyShare
  tunnels,  \* previewTunnels: the process recorded for each slot
  children, \* every cloudflared: its slot and how far it is
  opening,  \* the start of a tunnel each opener waits for
  timer,    \* an event is on its way down the stream, or has armed autoShareTimer
  missed,   \* createCoalescingRunner: a trigger landed mid-pass
  retried,  \* autoShareRetried
  sweep,    \* the running pass
  byHand,   \* the host's share or unshare request in progress
  spent,    \* how much of these two bounds is used
  tangled,  \* history: a tunnel was started while its slot still had another, or an
            \* attempt that was given up reported a hostname after all
  quietly,  \* history: slots whose tunnel lost its preview, and no event says so
  amiss     \* history: the last pass was misinformed, or failed after a failed one

shareVars == <<preview, guests, apart, door, saw, tunnels, children, opening, timer,
               missed, retried, sweep, byHand, spent, tangled, quietly, amiss>>
sandbox == <<preview, guests, apart>>
front   == <<door, saw>>
runner  == <<timer, missed, retried>>
tunnelling  == <<tunnels, children, opening, tangled>>

NoProc == [slot |-> None, is |-> "none"]
NoPreview == [id |-> 0, runs |-> FALSE, shared |-> FALSE]
NothingSeen == [k \in Slots |-> NoPreview]
NotOpening == [slot |-> None, proc |-> None, n |-> 0]
IdlePass == [at |-> "idle", seen |-> NothingSeen, shares |-> {}, any |-> FALSE, todo |-> {},
             failed |-> FALSE]
IdleHand == [at |-> "idle", slot |-> None, id |-> 0]

(* A process is silent until it reports its hostname; then it is up until  *)
(* it exits or is told to.  An attempt that took too long is given up.     *)
ProcRec == [slot : Slots \cup {None}, is : {"none", "silent", "up", "told", "givenup"}]
SpentRec == [events : Nat, faults : Nat]
OpenRec == [slot : Slots \cup {None}, proc : Procs \cup {None}, n : 0..MaxTries]
PreviewRec == [id : Ids, runs : BOOLEAN, shared : BOOLEAN]
PassRec == [at : {"idle", "previews", "collect", "shares", "door", "loop", "starting", "recording"},
            seen : [Slots -> PreviewRec], shares : SUBSET Slots, any : BOOLEAN,
            todo : SUBSET Slots, failed : BOOLEAN]
HandRec == [at : {"idle", "starting", "recording", "clearing"},
            slot : Slots \cup {None}, id : Ids]

ShareTypeOK ==
  /\ preview \in [Slots -> PreviewRec]
  /\ guests \in [Slots -> {"none", "invited", "joined"}] /\ apart \subseteq Slots
  /\ door \in BOOLEAN /\ saw \in BOOLEAN
  /\ tunnels \in [Slots -> Procs \cup {None}]
  /\ children \in [Procs -> ProcRec] /\ opening \in [Openers -> OpenRec]
  /\ timer \in BOOLEAN /\ missed \in BOOLEAN /\ retried \in BOOLEAN
  /\ sweep \in PassRec /\ byHand \in HandRec /\ spent \in SpentRec
  /\ tangled \in BOOLEAN /\ quietly \subseteq Slots /\ amiss \in BOOLEAN

ShareInit ==
  /\ preview = [k \in Slots |-> NoPreview] /\ guests = [k \in Slots |-> "none"] /\ apart = {}
  /\ door = TRUE /\ saw = FALSE
  /\ tunnels = [k \in Slots |-> None]
  /\ children = [p \in Procs |-> NoProc] /\ opening = [w \in Openers |-> NotOpening]
  /\ timer = FALSE /\ missed = FALSE /\ retried = FALSE
  /\ sweep = IdlePass /\ byHand = IdleHand /\ spent = [events |-> 0, faults |-> 0]
  /\ tangled = FALSE /\ quietly = {} /\ amiss = FALSE

Event == spent.events < MaxEvents /\ spent' = [spent EXCEPT !.events = @ + 1]
Fault == spent.faults < MaxFaults /\ spent' = [spent EXCEPT !.faults = @ + 1]

-----------------------------------------------------------------------------
(* The sandbox: previews and shares come and go, and what it says of them  *)
(* in the transcript reaches the front as a frame.  It does not say        *)
(* everything: a preview the host starts is announced before it runs, one  *)
(* an agent starts only if it runs in time, a restart never, and one that  *)
(* ends with its session ends without a word.                              *)
Says(event) == timer' = (timer \/ event)
(* The tunnel of slot k, if it has one, lost its preview without a word. *)
Unsaid(k) == IF tunnels[k] = None THEN quietly ELSE quietly \cup {k}

(* The preview and the share of session k may be under different ids of it *)
(* once both exist: each keeps the id it was created under.                *)
Under(k, both) == \E d \in IF both THEN BOOLEAN ELSE {FALSE} :
                    apart' = IF d THEN apart \cup {k} ELSE apart \ {k}

(* An id no request that is under way was made for. *)
FreshIds(k) == Ids \ {0, sweep.seen[k].id, byHand.id}
FreshId(k) == CHOOSE i \in FreshIds(k) : \A j \in FreshIds(k) : i <= j

PreviewUp(k) ==
  /\ Event
  /\ preview[k].id = 0 /\ FreshIds(k) # {}
  /\ preview' = [preview EXCEPT ![k] = [NoPreview EXCEPT !.id = FreshId(k)]]
  /\ Under(k, guests[k] # "none")
  /\ \E event \in BOOLEAN : Says(event)
  /\ UNCHANGED <<guests, front, tunnelling, missed, retried, sweep, byHand, quietly, amiss>>

(* It runs; and is restarted, rebuilt or fails. *)
PreviewRuns(k, runs) ==
  /\ Event
  /\ preview[k].id # 0 /\ preview[k].runs # runs
  /\ preview' = [preview EXCEPT ![k].runs = runs]
  /\ \E event \in BOOLEAN : Says(event)
  /\ UNCHANGED <<guests, apart, front, tunnelling, missed, retried, sweep, byHand, quietly, amiss>>

PreviewDown(k) ==
  /\ Event
  /\ preview[k].id # 0
  /\ preview' = [preview EXCEPT ![k] = NoPreview]
  /\ \E event \in BOOLEAN : Says(event) /\ quietly' = IF event THEN quietly ELSE Unsaid(k)
  /\ apart' = apart \ {k}
  /\ UNCHANGED <<guests, front, tunnelling, missed, retried, sweep, byHand, amiss>>

Guest(k, from, to) ==
  /\ Event
  /\ guests[k] \in from
  /\ guests' = [guests EXCEPT ![k] = to]
  /\ UNCHANGED <<preview, front, tunnelling, missed, retried, sweep, byHand, quietly, amiss>>

Invite(k) == door /\ Guest(k, {"none"}, "invited") /\ Under(k, preview[k].id # 0) /\ Says(FALSE)
GuestJoins(k) == Guest(k, {"invited"}, "joined") /\ Says(TRUE) /\ UNCHANGED apart
(* Revoked by hand, or by the idle sweep with a notice in the transcript. *)
Revoke(k) == /\ Guest(k, {"invited", "joined"}, "none") /\ apart' = apart \ {k}
             /\ \E event \in BOOLEAN : Says(event)

(* Anything else on the stream is a trigger as well. *)
Chatter ==
  /\ Event /\ Says(TRUE)
  /\ UNCHANGED <<sandbox, front, tunnelling, missed, retried, sweep, byHand, quietly, amiss>>

-----------------------------------------------------------------------------
(* The tunnels of the front. *)
(* A name for the next process: one nothing runs under.                    *)
Free == {p \in Procs : children[p] = NoProc}
FreshTunnel == CHOOSE p \in Free : \A q \in Free : p <= q

(* spawnQuickTunnel. *)
Spawned(w, k, n) ==
  /\ Free # {}
  /\ children' = [children EXCEPT ![FreshTunnel] = [slot |-> k, is |-> "silent"]]
  /\ opening' = [opening EXCEPT ![w] = [slot |-> k, proc |-> FreshTunnel, n |-> n]]
  /\ tangled' = (tangled \/ \E p \in Procs : children[p].slot = k /\ children[p].is # "givenup")

(* The candidate the loop is at. *)
Slot == CHOOSE k \in sweep.todo : \A j \in sweep.todo : k <= j

(* The opener goes on: with the tunnel, or with what failed. *)
Onward(bad) == sweep' = [sweep EXCEPT !.at = "loop", !.todo = @ \ {Slot},
                                      !.failed = @ \/ bad]
GoesOn(w) ==
  IF w = "pass" THEN sweep' = [sweep EXCEPT !.at = "recording"] /\ UNCHANGED byHand
                ELSE byHand' = [byHand EXCEPT !.at = "recording"] /\ UNCHANGED sweep
GoesWithout(w) ==
  IF w = "pass" THEN Onward(TRUE) /\ UNCHANGED byHand ELSE byHand' = IdleHand /\ UNCHANGED sweep

(* The attempt reports a hostname: the tunnel is recorded for its slot. *)
TunnelUp(w) ==
  LET p == opening[w].proc k == opening[w].slot IN
  /\ p # None
  /\ children' = [children EXCEPT ![p].is = "up"]
  /\ tunnels' = [tunnels EXCEPT ![k] = p]
  /\ opening' = [opening EXCEPT ![w] = NotOpening]
  /\ GoesOn(w)
  /\ UNCHANGED <<spent, sandbox, front, runner, tangled, quietly, amiss>>

(* It exits before it reported one, or is told to for taking too long; and *)
(* there is another attempt, unless they are used up, the deadline is past *)
(* or cloudflared cannot be started at all.                                *)
AttemptFails(w) ==
  LET p == opening[w].proc IN
  /\ p # None /\ Fault
  /\ \/ children' = [children EXCEPT ![p] = NoProc]
     \/ children' = [children EXCEPT ![p].is = "givenup"]
  /\ \/ /\ opening[w].n < MaxTries
        /\ opening' = [opening EXCEPT ![w].proc = None]
        /\ UNCHANGED <<sweep, byHand>>
     \/ opening' = [opening EXCEPT ![w] = NotOpening] /\ GoesWithout(w)
  /\ UNCHANGED <<sandbox, front, tunnels, runner, tangled, quietly, amiss>>

AttemptAgain(w) ==
  /\ opening[w].slot # None /\ opening[w].proc = None
  /\ Spawned(w, opening[w].slot, opening[w].n + 1)
  /\ UNCHANGED <<spent, sandbox, front, tunnels, runner, sweep, byHand, quietly, amiss>>

(* An attempt nobody waits for any more may still report before it exits. *)
LateHostname(p) ==
  /\ children[p].is = "givenup"
  /\ children' = [children EXCEPT ![p].is = "told"] /\ tangled' = TRUE
  /\ UNCHANGED <<spent, sandbox, front, tunnels, opening, runner, sweep, byHand, quietly,
                 amiss>>

(* stopPreviewTunnel on every slot of ks. *)
Closed(ks) ==
  /\ tunnels' = [k \in Slots |-> IF k \in ks THEN None ELSE tunnels[k]]
  /\ children' = [p \in Procs |-> IF \E k \in ks : tunnels[k] = p /\ children[p].is = "up"
                                 THEN [children[p] EXCEPT !.is = "told"] ELSE children[p]]

(* The mutated exit forgets whatever is recorded for the slot, reported or *)
(* not.                                                                    *)
ForgetsAlways(p) == [tunnels EXCEPT ![children[p].slot] = None]
(* A process ends, told to or by itself: if it ever reported a hostname,   *)
(* whatever is recorded for its slot by then is forgotten.                 *)
Forgets(p) ==
  IF children[p].is = "givenup" THEN tunnels ELSE [tunnels EXCEPT ![children[p].slot] = None]
Exit(p) ==
  /\ children[p].is \in {"up", "told", "givenup"}
  /\ IF children[p].is = "up" THEN Fault ELSE UNCHANGED spent
  /\ children' = [children EXCEPT ![p] = NoProc]
  /\ tunnels' = Forgets(p)
  /\ UNCHANGED <<sandbox, front, opening, runner, sweep, byHand, tangled, quietly, amiss>>

-----------------------------------------------------------------------------
(* The host's own Share and Unshare: the route starts the slot's tunnel,   *)
(* then records the URL; and closes it, then clears the record.            *)
ShareByHand(k) ==
  /\ Event
  /\ byHand.at = "idle" /\ preview[k].id # 0
  /\ byHand' = [at |-> IF tunnels[k] # None THEN "recording" ELSE "starting",
                slot |-> k, id |-> preview[k].id]
  /\ IF tunnels[k] # None THEN UNCHANGED <<children, opening, tangled>> ELSE Spawned("hand", k, 1)
  /\ UNCHANGED <<sandbox, front, tunnels, runner, sweep, quietly, amiss>>

UnshareByHand(k) ==
  /\ Event
  /\ byHand.at = "idle" /\ preview[k].shared
  /\ Closed({k})
  /\ byHand' = [at |-> "clearing", slot |-> k, id |-> preview[k].id]
  /\ UNCHANGED <<sandbox, front, opening, runner, sweep, tangled, quietly, amiss>>

(* The sandbox notes the URL and says so; or refuses, because the preview  *)
(* is gone, or does not hear the request.  The route then gives up, and    *)
(* nothing closes the tunnel it started.                                   *)
HandNotes ==
  /\ byHand.at \in {"recording", "clearing"}
  /\ \/ /\ preview[byHand.slot].id = byHand.id
        /\ preview' = [preview EXCEPT ![byHand.slot].shared = (byHand.at = "recording")]
        /\ Says(TRUE) /\ UNCHANGED <<quietly, spent>>
     \/ /\ IF preview[byHand.slot].id = byHand.id THEN Fault ELSE UNCHANGED spent
        /\ quietly' = IF byHand.at = "recording" THEN Unsaid(byHand.slot) ELSE quietly
        /\ UNCHANGED <<preview, timer>>
  /\ byHand' = IdleHand
  /\ UNCHANGED <<guests, apart, front, tunnelling, missed, retried, sweep, amiss>>

-----------------------------------------------------------------------------
(* The reconciler. *)
(* The mutated runner: a trigger that lands mid-pass is dropped. *)
Dropped == FALSE
Remembered == sweep.at # "idle"

Trigger ==
  /\ timer /\ timer' = FALSE
  /\ IF sweep.at = "idle"
       THEN sweep' = [IdlePass EXCEPT !.at = "previews"] /\ amiss' = FALSE /\ UNCHANGED missed
       ELSE missed' = (missed \/ Remembered) /\ UNCHANGED <<sweep, amiss>>
  /\ UNCHANGED <<spent, sandbox, front, tunnelling, retried, byHand, quietly>>

(* The end of a pass: one retry for a failure, and the trigger it missed. *)
PassEnds(failed) ==
  /\ sweep' = IdlePass
  /\ retried' = failed
  /\ amiss' = (amiss \/ (failed /\ retried))
  /\ timer' = (timer \/ missed \/ (failed /\ ~retried))
  /\ missed' = FALSE

(* GET /previews: the sandbox's records as they are when it answers; a GET  *)
(* that fails or is not answered in time reads as no previews.             *)
AskPreviews ==
  /\ sweep.at = "previews" /\ quietly' = {}
  /\ \/ sweep' = [sweep EXCEPT !.at = "collect", !.seen = preview] /\ UNCHANGED <<amiss, spent>>
     \/ sweep' = [sweep EXCEPT !.at = "collect"] /\ amiss' = TRUE /\ Fault
  /\ UNCHANGED <<sandbox, front, tunnelling, runner, byHand>>

Candidates == {k \in Slots : sweep.seen[k].runs /\ ~sweep.seen[k].shared}
Leftover == {k \in Slots : ~sweep.seen[k].shared}

(* The answer arrives: the tunnels of slots without a shared preview are   *)
(* closed, and the shares are read if they can change anything.            *)
Collect ==
  /\ sweep.at = "collect"
  /\ Closed(Leftover)
  /\ IF Candidates = {} /\ ~door
       THEN PassEnds(FALSE)
       ELSE sweep' = [sweep EXCEPT !.at = "shares"] /\ UNCHANGED <<runner, amiss>>
  /\ UNCHANGED <<spent, sandbox, front, opening, byHand, tangled, quietly>>

(* GET /shares, with the same fate.  A preview is matched to a share by    *)
(* the id of the session each was created under.                           *)
Guested == {k \in Slots : guests[k] # "none"}
AskShares ==
  /\ sweep.at = "shares"
  /\ \/ /\ sweep' = [sweep EXCEPT !.shares = Guested \ apart, !.any = Guested # {}, !.at = "door"]
        /\ UNCHANGED <<amiss, spent>>
     \/ sweep' = [sweep EXCEPT !.at = "door"] /\ amiss' = TRUE /\ Fault
  /\ UNCHANGED <<sandbox, front, tunnelling, runner, byHand, quietly>>

(* No share left where there was one: the dashboard's tunnel is stopped,   *)
(* which sends the sandbox a revoke-all nobody waits for.                  *)
LastShareGone == door /\ ~sweep.any /\ saw

Door ==
  /\ sweep.at = "door"
  /\ door' = (door /\ ~LastShareGone)
  /\ saw' = IF ~door \/ LastShareGone THEN saw /\ ~LastShareGone ELSE saw \/ sweep.any
  /\ \/ UNCHANGED <<guests, apart>>
     \/ LastShareGone /\ guests' = [k \in Slots |-> "none"] /\ apart' = {}
  /\ sweep' = [sweep EXCEPT !.at = "loop", !.todo = Candidates \cap sweep.shares]
  /\ UNCHANGED <<spent, preview, tunnelling, runner, byHand, quietly, amiss>>

(* The next candidate of a shared session: its slot's tunnel, started      *)
(* unless one is recorded.                                                 *)
Start ==
  /\ sweep.at = "loop" /\ sweep.todo # {}
  /\ sweep' = [sweep EXCEPT !.at = IF tunnels[Slot] # None THEN "recording" ELSE "starting"]
  /\ IF tunnels[Slot] # None THEN UNCHANGED <<children, opening, tangled>> ELSE Spawned("pass", Slot, 1)
  /\ UNCHANGED <<spent, sandbox, front, tunnels, runner, byHand, quietly, amiss>>

(* The mutated sweep leaves the tunnel of a refused share open. *)
LeftOpen == UNCHANGED <<tunnels, children>>
RolledBack == Closed({Slot})

(* The sandbox records the URL; or refuses a preview that is gone by now,  *)
(* or the request fails, recorded or not: the tunnel is rolled back.       *)
Record ==
  LET fits == preview[Slot].id = sweep.seen[Slot].id
      noted == preview' = [preview EXCEPT ![Slot].shared = TRUE] /\ Says(TRUE)
  IN
  /\ sweep.at = "recording"
  /\ \/ fits /\ noted /\ Onward(FALSE) /\ UNCHANGED <<tunnels, children, spent>>
     \/ /\ RolledBack /\ Onward(TRUE)
        /\ \/ ~fits /\ UNCHANGED <<preview, timer, spent>>
           \/ Fault /\ (UNCHANGED <<preview, timer>> \/ (fits /\ noted))
  /\ UNCHANGED <<guests, apart, front, opening, missed, retried, byHand, tangled, quietly, amiss>>

Finish ==
  /\ sweep.at = "loop" /\ sweep.todo = {}
  /\ PassEnds(sweep.failed)
  /\ UNCHANGED <<spent, sandbox, front, tunnelling, byHand, quietly>>

Opening(w) == TunnelUp(w) \/ AttemptFails(w) \/ AttemptAgain(w)
Pass == AskPreviews \/ Collect \/ AskShares \/ Door \/ Start \/ Opening("pass") \/ Record \/ Finish
Hand == Opening("hand") \/ HandNotes

ShareNext ==
  \/ \E k \in Slots : \/ PreviewUp(k) \/ PreviewDown(k) \/ \E runs \in BOOLEAN : PreviewRuns(k, runs)
                      \/ Invite(k) \/ GuestJoins(k) \/ Revoke(k)
                      \/ ShareByHand(k) \/ UnshareByHand(k)
  \/ \E p \in Procs : Exit(p) \/ LateHostname(p)
  \/ Chatter \/ Hand \/ Trigger \/ Pass

(* The stream delivers, the debounce fires, requests have a time limit, a  *)
(* start of a tunnel has a deadline, and what is sent SIGTERM exits.       *)
ToldExits == \E p \in Procs : children[p].is \in {"told", "givenup"} /\ Exit(p)
ShareFairness == WF_shareVars(ToldExits) /\ WF_shareVars(Trigger) /\ WF_shareVars(Pass) /\ WF_shareVars(Hand)

ShareSpec == ShareInit /\ [][ShareNext]_shareVars /\ ShareFairness

-----------------------------------------------------------------------------
(* A preview tunnel nobody told to stop is the one recorded for its slot,  *)
(* or an attempt its opener still waits for: the sweep, Unshare and        *)
(* shutdown close what the front has recorded and nothing else, and the    *)
(* exit of an attempt that was given up must not make it forget the one    *)
(* that took its place.  Two interleavings break this in the code, and are *)
(* set apart (README, section 4): two tunnels of one slot that overlap,    *)
(* and an attempt that reports after it was given up.                      *)
TunnelsKnown ==
  ~tangled => \A p \in Procs :
    /\ children[p].is = "up" => tunnels[children[p].slot] = p
    /\ children[p].is = "silent" => \E w \in Openers : opening[w].proc = p

(* A trigger the next pass will see. *)
Pending == timer \/ missed \/ sweep.at = "previews"

(* auto-share.mjs 1-12: a running preview of a session its guest is in     *)
(* ends up shared once an event says anything, in whatever order preview,  *)
(* guest and event arrive and however long the passes take; unless a pass  *)
(* is misinformed by the sandbox, or fails after one that failed.  A share *)
(* under another id of the session is never matched.                       *)
Eligible(k) ==
  preview[k].runs /\ ~preview[k].shared /\ guests[k] = "joined" /\ k \notin apart
BecomesShared == \A k \in Slots : Eligible(k) /\ Pending ~> ~Eligible(k) \/ amiss

(* Nothing stays open behind a preview that ended or was never shared:     *)
(* when the front has nothing left to do, a recorded tunnel is that of a   *)
(* shared preview.  The exceptions are what no event tells it: a preview   *)
(* that ended silently, and the tunnel of a by-hand share that was refused.*)
AtRest == ~Pending /\ sweep.at = "idle" /\ byHand.at = "idle"
Reclaimed ==
  AtRest => \A k \in Slots : tunnels[k] # None => preview[k].shared \/ k \in quietly
=============================================================================
