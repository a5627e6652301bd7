----------------------------- MODULE DriveProofs ------------------------------
(***************************************************************************)
(* Proofs about Drive, for any number of pages, previews, requests and     *)
(* upsets: an action whose caller was told that it was not run has reached *)
(* no page, and reaches none later.                                        *)
(***************************************************************************)
EXTENDS Drive, TLAPS

(* What the caller may take for "not run". *)
Refusals == {"no-dashboard", "no-viewer", "all-detached"}
(* Where an action is at the front before it is sent. *)
Unsent == {"begun", "viewer", "back"} \cup Refusals

Untouched(c) == \A p \in Pages : c \notin inbox[p] /\ c \notin applied[p]

(* Why NotRunIsNotRun holds: a request nobody has collected is nowhere but *)
(* in the queue; one the front has not sent has reached no page; and a     *)
(* caller who was refused has left nothing in the queue or at the front.   *)
CleanCall(c) ==
  /\ c > asked => queue[c] = "unasked"
  /\ queue[c] \in {"unasked", "waiting"} => drive[c] = "none" /\ Untouched(c)
  /\ drive[c] \in Unsent => Untouched(c)
  /\ answer[c] \in Refusals => queue[c] = "settled" /\ drive[c] = "none" /\ Untouched(c)
Clean == \A c \in Calls : CleanCall(c)

Inv == TypeOK /\ Clean

Stages == {"begun", "viewer", "back", "sent"} \cup Answers

LEMMA CallsFacts == MaxCalls \in Nat /\ \A c \in Calls : c \in Nat /\ c \in 0..MaxCalls /\ c # 0
  BY DriveConstants DEF Calls

(* A step that sends nothing and settles nothing: what the pages hold of a *)
(* call can only shrink, what they ran can only come from what they held.  *)
LEMMA CleanKept ==
  ASSUME Clean, UNCHANGED <<asked, queue, answer>>,
         \A c \in Calls : \/ drive'[c] \in {drive[c], "none"}
                          \/ drive'[c] \notin Unsent /\ queue[c] \notin {"unasked", "waiting"}
                               /\ answer[c] \notin Refusals,
         \A c \in Calls : Untouched(c) => Untouched(c)'
  PROVE  Clean'
<1> SUFFICES ASSUME NEW c \in Calls PROVE CleanCall(c)' BY DEF Clean
<1>1. CleanCall(c) BY DEF Clean
<1>2. "none" \notin Unsent BY DEF Unsent, Refusals
<1> QED BY <1>1, <1>2 DEF CleanCall

LEMMA SamePages ==
  ASSUME UNCHANGED <<inbox, applied>> PROVE \A c \in Calls : Untouched(c) => Untouched(c)'
  BY DEF Untouched

-----------------------------------------------------------------------------
(* The sandbox's queue. *)
LEMMA ParkedInv ==
  ASSUME Inv, asked < MaxCalls, NEW pv \in 0..MaxPreview, NEW first \in 0..MaxCalls,
         Parked(asked + 1, pv, first),
         UNCHANGED <<occupant, answer, pend, good, off, registry, page, upsets>>
  PROVE  Inv'
<1> DEFINE c == asked + 1
<1>1. asked \in 0..MaxCalls /\ TypeOK /\ MaxCalls \in Nat BY CallsFacts DEF Inv, TypeOK
<1>2. c \in Calls /\ c \in 0..MaxCalls BY <1>1 DEF Calls
<1>3. /\ asked' = c
      /\ want' = [want EXCEPT ![c] = pv] /\ nudge' = [nudge EXCEPT ![c] = first]
      /\ \/ /\ queue' = [queue EXCEPT ![c] = "running"] /\ ghost' = FALSE /\ relay' \in BOOLEAN
            /\ drive' = drive \/ drive' = [drive EXCEPT ![c] = "begun"]
         \/ queue' = [queue EXCEPT ![c] = "waiting"] /\ UNCHANGED <<ghost, relay, drive>>
  BY DEF Parked
<1> HIDE DEF c
<1>4. TypeOK' BY <1>1, <1>2, <1>3 DEF TypeOK, registry, page
<1>5. queue[c] = "unasked" /\ drive[c] = "none" /\ Untouched(c) /\ answer[c] \notin Refusals
  <2>1. CleanCall(c) /\ c > asked BY <1>1, <1>2 DEF Inv, Clean, c
  <2> QED BY <2>1 DEF CleanCall
<1>6. ASSUME NEW d \in Calls PROVE CleanCall(d)'
  <2>1. CleanCall(d) /\ d \in Nat BY CallsFacts DEF Inv, Clean
  <2>2. UNCHANGED <<inbox, applied, answer>> BY DEF page
  <2>3. Untouched(d) => Untouched(d)' BY <2>2 DEF Untouched
  <2>4. CASE d = c
    <3>1. Untouched(d)' BY <1>5, <2>3, <2>4
    <3>2. answer'[d] \notin Refusals BY <1>5, <2>2, <2>4
    <3>3. queue'[d] \in {"running", "waiting"} BY <1>1, <1>2, <1>3, <2>4 DEF TypeOK
    <3>4. queue'[d] = "waiting" => drive'[d] = "none" BY <1>1, <1>2, <1>3, <1>5, <2>4 DEF TypeOK
    <3>5. ~(d > asked') BY <1>1, <1>2, <1>3, <2>1, <2>4
    <3> QED BY <3>1, <3>2, <3>3, <3>4, <3>5 DEF CleanCall
  <2>5. CASE d # c
    <3>1. queue'[d] = queue[d] /\ drive'[d] = drive[d] BY <1>1, <1>2, <1>3, <2>5 DEF TypeOK
    <3>2. d > asked' => d > asked BY <1>1, <1>3, <2>1 DEF c
    <3> QED BY <2>1, <2>2, <2>3, <3>1, <3>2 DEF CleanCall
  <2> QED BY <2>4, <2>5
<1> QED BY <1>4, <1>6 DEF Inv, Clean

LEMMA RequestInv == ASSUME Inv, Request PROVE Inv'
<1>1. occupant \in 0..MaxPreview /\ 0 \in 0..MaxCalls BY DriveConstants DEF Inv, TypeOK
<1> QED BY <1>1, ParkedInv DEF Request

LEMMA NudgeInv == ASSUME Inv, NEW c \in Calls, Nudge(c) PROVE Inv'
<1>1. want[c] \in 0..MaxPreview /\ c \in 0..MaxCalls BY CallsFacts DEF Inv, TypeOK
<1> QED BY <1>1, ParkedInv DEF Nudge

LEMMA PickupTimeoutInv == ASSUME Inv, NEW c \in Calls, PickupTimeout(c) PROVE Inv'
<1>1. /\ queue[c] = "waiting" /\ queue' = [queue EXCEPT ![c] = "settled"]
      /\ answer' = [answer EXCEPT ![c] = "no-dashboard"]
      /\ UNCHANGED <<occupant, asked, want, nudge, ghost, front, registry, page, upsets>>
  BY DEF PickupTimeout, Unqueued
<1>2. TypeOK' BY <1>1 DEF Inv, TypeOK, front, registry, page, Answers
<1>3. ASSUME NEW d \in Calls PROVE CleanCall(d)'
  <2>1. CleanCall(d) /\ CleanCall(c) BY DEF Inv, Clean
  <2>2. UNCHANGED <<inbox, applied, asked, drive>> BY <1>1 DEF page, front
  <2>3. Untouched(d) => Untouched(d)' BY <2>2 DEF Untouched
  <2>4. CASE d = c
    <3>1. Untouched(d) /\ drive[d] = "none" /\ ~(d > asked) BY <1>1, <2>1, <2>4 DEF CleanCall
    <3>2. queue'[d] = "settled" BY <1>1, <2>4 DEF Inv, TypeOK
    <3> QED BY <2>2, <2>3, <3>1, <3>2 DEF CleanCall
  <2>5. CASE d # c
    <3>1. queue'[d] = queue[d] /\ answer'[d] = answer[d] BY <1>1, <2>5 DEF Inv, TypeOK
    <3> QED BY <2>1, <2>2, <2>3, <3>1 DEF CleanCall
  <2> QED BY <2>4, <2>5
<1> QED BY <1>2, <1>3 DEF Inv, Clean

LEMMA RunTimeoutInv == ASSUME Inv, NEW c \in Calls, RunTimeout(c) PROVE Inv'
<1>1. /\ queue[c] = "running" /\ queue' = [queue EXCEPT ![c] = "settled"]
      /\ answer' = [answer EXCEPT ![c] = "no-result"]
      /\ UNCHANGED <<occupant, asked, want, nudge, ghost, front, registry, page, upsets>>
  BY DEF RunTimeout, OnTheClock
<1>2. TypeOK' BY <1>1 DEF Inv, TypeOK, front, registry, page, Answers
<1>3. ASSUME NEW d \in Calls PROVE CleanCall(d)'
  <2>1. CleanCall(d) BY DEF Inv, Clean
  <2>2. UNCHANGED <<inbox, applied, asked, drive>> BY <1>1 DEF page, front
  <2>3. Untouched(d) => Untouched(d)' BY <2>2 DEF Untouched
  <2>4. CASE d = c
    <3>1. ~(d > asked) BY <1>1, <2>1, <2>4 DEF CleanCall
    <3>2. queue'[d] = "settled" /\ answer'[d] \notin Refusals
      BY <1>1, <2>4 DEF Inv, TypeOK, Refusals
    <3> QED BY <2>1, <2>2, <2>3, <3>1, <3>2 DEF CleanCall
  <2>5. CASE d # c
    <3>1. queue'[d] = queue[d] /\ answer'[d] = answer[d] BY <1>1, <2>5 DEF Inv, TypeOK
    <3> QED BY <2>1, <2>2, <2>3, <3>1 DEF CleanCall
  <2> QED BY <2>4, <2>5
<1> QED BY <1>2, <1>3 DEF Inv, Clean

LEMMA TakeInv == ASSUME Inv, Take PROVE Inv'
<1>0. UNCHANGED <<occupant, asked, answer, want, nudge, ghost, pend, good, off, registry, page, upsets>>
  BY DEF Take
<1>1. CASE Waiting = {}
  <2>1. relay' = TRUE /\ UNCHANGED <<queue, drive>> BY <1>1 DEF Take
  <2>2. TypeOK' BY <1>0, <2>1 DEF Inv, TypeOK, registry, page
  <2>3. Clean' BY <1>0, <2>1, CleanKept, SamePages DEF Inv, page
  <2> QED BY <2>2, <2>3 DEF Inv
<1>2. CASE Waiting # {}
  <2>1. PICK c \in Waiting : /\ queue' = [queue EXCEPT ![c] = "running"]
                             /\ drive' = [drive EXCEPT ![c] = "begun"]
                             /\ UNCHANGED relay
    BY <1>2 DEF Take
  <2>2. c \in Calls /\ queue[c] = "waiting" BY DEF Waiting
  <2>3. TypeOK' BY <1>0, <2>1, <2>2 DEF Inv, TypeOK, registry, page
  <2>4. ASSUME NEW d \in Calls PROVE CleanCall(d)'
    <3>1. CleanCall(d) BY DEF Inv, Clean
    <3>2. UNCHANGED <<inbox, applied, asked, answer>> BY <1>0 DEF page
    <3>3. Untouched(d) => Untouched(d)' BY <3>2 DEF Untouched
    <3>4. CASE d = c
      <4>1. Untouched(d) /\ ~(d > asked) /\ answer[d] \notin Refusals
        BY <2>2, <3>1, <3>4 DEF CleanCall
      <4>2. queue'[d] = "running" BY <2>1, <2>2, <3>4 DEF Inv, TypeOK
      <4> QED BY <3>2, <3>3, <4>1, <4>2 DEF CleanCall
    <3>5. CASE d # c
      <4>1. queue'[d] = queue[d] /\ drive'[d] = drive[d] BY <2>1, <2>2, <3>5 DEF Inv, TypeOK
      <4> QED BY <3>1, <3>2, <3>3, <4>1 DEF CleanCall
    <3> QED BY <3>4, <3>5
  <2> QED BY <2>3, <2>4 DEF Inv, Clean
<1> QED BY <1>1, <1>2

LEMMA SlotInv == ASSUME Inv, GhostTimesOut \/ ChangeHands PROVE Inv'
<1>1. ghost' \in BOOLEAN BY DEF Inv, TypeOK, GhostTimesOut, ChangeHands
<1>2. occupant' \in 1..MaxPreview BY DriveConstants DEF Inv, TypeOK, GhostTimesOut, ChangeHands
<1>3. UNCHANGED sandbox /\ UNCHANGED front /\ UNCHANGED registry /\ UNCHANGED page /\ UNCHANGED upsets
  BY DEF GhostTimesOut, ChangeHands
<1>4. TypeOK' BY <1>1, <1>2, <1>3 DEF Inv, TypeOK, sandbox, front, registry, page
<1>5. Clean' BY <1>3, CleanKept, SamePages DEF Inv, sandbox, front, page
<1> QED BY <1>4, <1>5 DEF Inv

-----------------------------------------------------------------------------
(* The front: a request it has begun is sent, waits, or ends unsent.       *)
LEMMA FrontKept ==
  ASSUME Inv, NEW c \in Calls, drive[c] \in {"begun", "viewer", "back"},
         NEW to \in Unsent \cup {"sent"}, drive' = [drive EXCEPT ![c] = to],
         to = "sent" \/ UNCHANGED inbox,
         \A p \in Pages : \A d \in Calls \ {c} : d \in inbox'[p] => d \in inbox[p],
         UNCHANGED <<asked, queue, answer, applied>>
  PROVE  Clean'
<1> SUFFICES ASSUME NEW d \in Calls PROVE CleanCall(d)' BY DEF Clean
<1>1. CleanCall(d) BY DEF Inv, Clean
<1>2. CASE d = c
  <2>1. /\ drive[c] # "none" /\ drive[c] \in Unsent /\ Untouched(c)
        /\ ~(c > asked) /\ queue[c] \notin {"unasked", "waiting"} /\ answer[c] \notin Refusals
    BY <1>1, <1>2 DEF CleanCall, Unsent
  <2>2. drive'[c] = to BY DEF Inv, TypeOK
  <2>3. "sent" \notin Unsent BY DEF Unsent, Refusals
  <2>4. to \in Unsent => Untouched(c)' BY <2>1, <2>3 DEF Untouched
  <2> QED BY <1>2, <2>1, <2>2, <2>3, <2>4 DEF CleanCall
<1>3. CASE d # c
  <2>1. drive'[d] = drive[d] BY <1>3 DEF Inv, TypeOK
  <2>2. Untouched(d) => Untouched(d)' BY <1>3 DEF Untouched
  <2> QED BY <1>1, <2>1, <2>2 DEF CleanCall
<1> QED BY <1>2, <1>3

(* What Fan may do: it sends to some of the pages, or refuses. *)
LEMMA FanShape ==
  ASSUME Inv, NEW c \in Calls, NEW here \in SUBSET Pages, Fan(c, here)
  PROVE  /\ \E to \in Unsent \cup {"sent"} :
              drive' = [drive EXCEPT ![c] = to] /\ (to = "sent" \/ UNCHANGED inbox)
         /\ \A p \in Pages : \A d \in Calls \ {c} : d \in inbox'[p] => d \in inbox[p]
         /\ inbox' \in [Pages -> SUBSET Calls] /\ pend' \in [Calls -> SUBSET Pages]
<1> DEFINE to == {p \in here : stance[p]}
<1>0. to \in SUBSET Pages OBVIOUS
<1>1. inbox \in [Pages -> SUBSET Calls] /\ pend \in [Calls -> SUBSET Pages] BY DEF Inv, TypeOK
<1>2. CASE to = {}
  <2>1. UNCHANGED <<pend, inbox>> BY <1>2 DEF Fan
  <2>2. \E x \in {"no-viewer", "all-detached"} : drive' = [drive EXCEPT ![c] = x]
    BY <1>2 DEF Fan
  <2> QED BY <1>1, <2>1, <2>2 DEF Unsent, Refusals
<1>3. CASE to # {}
  <2>1. /\ drive' = [drive EXCEPT ![c] = "sent"] /\ pend' = [pend EXCEPT ![c] = to]
        /\ inbox' = [p \in Pages |-> IF p \in to THEN inbox[p] \cup {c} ELSE inbox[p]]
    BY <1>3 DEF Fan
  <2> HIDE DEF to
  <2>2. inbox' \in [Pages -> SUBSET Calls] BY <1>1, <2>1
  <2>3. pend' \in [Calls -> SUBSET Pages] BY <1>0, <1>1, <2>1
  <2>4. \A p \in Pages : \A d \in Calls \ {c} : d \in inbox'[p] => d \in inbox[p]
    BY <1>1, <2>1
  <2> QED BY <2>1, <2>2, <2>3, <2>4
<1> QED BY <1>2, <1>3

LEMMA BackTypes == ASSUME Inv, NEW pv PROVE BackAfter(pv) \in SUBSET Pages /\ Attached \in SUBSET Pages
  BY DEF Inv, TypeOK, BackAfter, Attached

(* Onward: the same, or a wait for the pages that are away. *)
LEMMA OnwardShape ==
  ASSUME Inv, NEW c \in Calls, NEW here \in SUBSET Pages, NEW away \in SUBSET Pages,
         Onward(c, here, away)
  PROVE  /\ \E to \in Unsent \cup {"sent"} :
              drive' = [drive EXCEPT ![c] = to] /\ (to = "sent" \/ UNCHANGED inbox)
         /\ \A p \in Pages : \A d \in Calls \ {c} : d \in inbox'[p] => d \in inbox[p]
         /\ inbox' \in [Pages -> SUBSET Calls] /\ pend' \in [Calls -> SUBSET Pages]
         /\ back' \in SUBSET Pages
<1>1. back' = away BY DEF Onward
<1>2. CASE away = {} BY <1>1, <1>2, FanShape DEF Onward
<1>3. CASE away # {}
  <2>1. drive' = [drive EXCEPT ![c] = "back"] /\ UNCHANGED <<pend, inbox>>
    BY <1>3 DEF Onward
  <2> QED BY <1>1, <2>1 DEF Inv, TypeOK, Unsent
<1> QED BY <1>2, <1>3

LEMMA SendingInv ==
  ASSUME Inv, NEW c \in Calls, drive[c] \in {"begun", "viewer", "back"},
         \E to \in Unsent \cup {"sent"} :
           drive' = [drive EXCEPT ![c] = to] /\ (to = "sent" \/ UNCHANGED inbox),
         \A p \in Pages : \A d \in Calls \ {c} : d \in inbox'[p] => d \in inbox[p],
         inbox' \in [Pages -> SUBSET Calls], pend' \in [Calls -> SUBSET Pages],
         back' \in SUBSET Pages, conn' \in [Pages -> 0..MaxPreview], UNCHANGED sending
  PROVE  Inv'
<1>1. PICK to \in Unsent \cup {"sent"} :
        drive' = [drive EXCEPT ![c] = to] /\ (to = "sent" \/ UNCHANGED inbox)
  OBVIOUS
<1>2. UNCHANGED <<occupant, asked, queue, answer, want, nudge, ghost, relay, good, off, stance,
                  follows, owes, applied, upsets>>
  BY DEF sending, sandbox
<1>3. Clean' BY <1>1, <1>2, FrontKept
<1>4. drive' \in [Calls -> Stages]
  BY <1>1 DEF Inv, TypeOK, Stages, Answers, Unsent, Refusals
<1>5. TypeOK' BY <1>2, <1>4 DEF Inv, TypeOK, Stages
<1> QED BY <1>3, <1>5 DEF Inv

LEMMA BeginInv == ASSUME Inv, NEW c \in Calls, Begin(c) PROVE Inv'
<1> DEFINE here == Attached \ Others(want[c])
           away == BackAfter(want[c])
<1>1. here \in SUBSET Pages /\ away \in SUBSET Pages BY BackTypes
<1>2. /\ drive[c] = "begun" /\ UNCHANGED sending
      /\ conn' = [p \in Pages |-> IF p \in here THEN conn[p] ELSE 0]
      /\ \/ drive' = [drive EXCEPT ![c] = "viewer"] /\ back' = away /\ UNCHANGED <<pend, inbox>>
         \/ Onward(c, here, away)
  BY DEF Begin
<1> HIDE DEF here, away
<1>3. conn' \in [Pages -> 0..MaxPreview] BY <1>2, DriveConstants DEF Inv, TypeOK
<1>4. CASE drive' = [drive EXCEPT ![c] = "viewer"] /\ back' = away /\ UNCHANGED <<pend, inbox>>
  <2>1. "viewer" \in Unsent BY DEF Unsent
  <2> QED BY <1>1, <1>2, <1>3, <1>4, <2>1, SendingInv DEF Inv, TypeOK
<1>5. CASE Onward(c, here, away) BY <1>1, <1>2, <1>3, <1>5, OnwardShape, SendingInv
<1> QED BY <1>2, <1>4, <1>5

LEMMA ViewedInv == ASSUME Inv, NEW c \in Calls, Viewed(c) PROVE Inv'
<1>1. /\ drive[c] = "viewer" /\ Onward(c, Attached, back) /\ UNCHANGED sending /\ UNCHANGED conn
      /\ Attached \in SUBSET Pages /\ back \in SUBSET Pages /\ conn' \in [Pages -> 0..MaxPreview]
  BY BackTypes DEF Viewed, Inv, TypeOK
<1> QED BY <1>1, OnwardShape, SendingInv

LEMMA ReturnedInv == ASSUME Inv, NEW c \in Calls, Returned(c) PROVE Inv'
<1>1. /\ drive[c] = "back" /\ Fan(c, Attached) /\ UNCHANGED sending
      /\ Attached \in SUBSET Pages /\ back' \in SUBSET Pages /\ conn' \in [Pages -> 0..MaxPreview]
  BY BackTypes DEF Returned, Inv, TypeOK
<1> QED BY <1>1, FanShape, SendingInv

LEMMA GatherInv ==
  ASSUME Inv, NEW c \in Calls, Gather(c) PROVE Inv'
<1>1. /\ drive[c] = "sent"
      /\ \E x \in {"ok", "nobody-ran"} : drive' = [drive EXCEPT ![c] = x]
      /\ conn' = [p \in Pages |-> IF p \in off[c] THEN 0 ELSE conn[p]]
      /\ UNCHANGED <<occupant, sandbox, ghost, relay, pend, good, off, stance, back, page, upsets>>
  BY DEF Gather
<1>2. conn' \in [Pages -> 0..MaxPreview] /\ drive' \in [Calls -> Stages]
  BY <1>1, DriveConstants DEF Inv, TypeOK, Stages, Answers
<1>3. TypeOK' BY <1>1, <1>2 DEF Inv, TypeOK, Stages, sandbox, page
<1>4. queue[c] \notin {"unasked", "waiting"} /\ answer[c] \notin Refusals
  BY <1>1 DEF Inv, Clean, CleanCall
<1>5. \A d \in Calls : drive'[d] = drive[d] \/ (d = c /\ drive'[d] \notin Unsent)
  <2>1. PICK x \in {"ok", "nobody-ran"} : drive' = [drive EXCEPT ![c] = x] BY <1>1
  <2>2. \A d \in Calls : drive'[d] = IF d = c THEN x ELSE drive[d]
    BY <2>1 DEF Inv, TypeOK
  <2> QED BY <2>2 DEF Unsent, Refusals
<1>6. UNCHANGED <<asked, queue, answer, inbox, applied>> BY <1>1 DEF sandbox, page
<1>7. Clean' BY <1>4, <1>5, <1>6, CleanKept, SamePages DEF Inv
<1> QED BY <1>3, <1>7 DEF Inv

LEMMA AckTimeoutInv == ASSUME Inv, NEW c \in Calls, NEW p \in Pages, AckTimeout(c, p) PROVE Inv'
<1>1. /\ pend' = [pend EXCEPT ![c] = @ \ {p}] /\ off' = [off EXCEPT ![c] = @ \cup {p}]
      /\ UNCHANGED <<occupant, sandbox, ghost, relay, drive, good, registry, page, upsets>>
  BY DEF AckTimeout
<1>2. TypeOK' BY <1>1 DEF Inv, TypeOK, sandbox, registry, page
<1>3. UNCHANGED <<asked, queue, answer, drive, inbox, applied>> BY <1>1 DEF sandbox, page
<1>4. Clean' BY <1>3, CleanKept, SamePages DEF Inv
<1> QED BY <1>2, <1>4 DEF Inv

LEMMA ReportInv == ASSUME Inv, NEW c \in Calls, Report(c) PROVE Inv'
<1>1. /\ drive[c] \in Answers \ {"none"}
      /\ drive' = [drive EXCEPT ![c] = "none"]
      /\ pend' = [pend EXCEPT ![c] = {}] /\ good' = [good EXCEPT ![c] = {}]
      /\ off' = [off EXCEPT ![c] = {}]
      /\ UNCHANGED <<occupant, asked, want, nudge, ghost, relay, registry, page, upsets>>
      /\ \/ queue[c] = "running" /\ queue' = [queue EXCEPT ![c] = "settled"]
                                 /\ answer' = [answer EXCEPT ![c] = drive[c]]
         \/ UNCHANGED <<queue, answer>>
  BY DEF Report
<1>2. TypeOK'
  <2>1. drive' \in [Calls -> Stages] BY <1>1 DEF Inv, TypeOK, Stages, Answers
  <2>2. /\ pend' \in [Calls -> SUBSET Pages] /\ good' \in [Calls -> SUBSET Pages]
        /\ off' \in [Calls -> SUBSET Pages]
    BY <1>1 DEF Inv, TypeOK
  <2>3. queue' \in [Calls -> {"unasked", "waiting", "running", "settled"}]
    BY <1>1 DEF Inv, TypeOK
  <2>4. answer' \in [Calls -> Answers] BY <1>1 DEF Inv, TypeOK
  <2> QED BY <1>1, <2>1, <2>2, <2>3, <2>4 DEF Inv, TypeOK, Stages, registry, page
<1>3. UNCHANGED <<asked, inbox, applied>> BY <1>1 DEF page
<1>4. ASSUME NEW d \in Calls PROVE CleanCall(d)'
  <2>1. CleanCall(d) BY DEF Inv, Clean
  <2>2. Untouched(d) => Untouched(d)' BY <1>3 DEF Untouched
  <2>3. "none" \notin Unsent /\ Refusals \subseteq Unsent BY DEF Unsent, Refusals
  <2>4. CASE d # c
    <3>1. queue'[d] = queue[d] /\ answer'[d] = answer[d] /\ drive'[d] = drive[d]
      BY <1>1, <2>4 DEF Inv, TypeOK
    <3> QED BY <1>3, <2>1, <2>2, <3>1 DEF CleanCall
  <2>5. CASE d = c
    <3>1. drive'[d] = "none" BY <1>1, <2>5 DEF Inv, TypeOK
    <3>2. CASE queue[c] = "running" /\ queue' = [queue EXCEPT ![c] = "settled"]
                                    /\ answer' = [answer EXCEPT ![c] = drive[c]]
      <4>1. queue'[d] = "settled" /\ answer'[d] = drive[d] BY <2>5, <3>2 DEF Inv, TypeOK
      <4>2. ~(d > asked) BY <2>1, <2>5, <3>2 DEF CleanCall
      <4> QED BY <1>3, <2>1, <2>2, <2>3, <3>1, <4>1, <4>2 DEF CleanCall
    <3>3. CASE UNCHANGED <<queue, answer>>
      BY <1>3, <2>1, <2>2, <2>3, <3>1, <3>3 DEF CleanCall
    <3> QED BY <1>1, <3>2, <3>3
  <2> QED BY <2>4, <2>5
<1> QED BY <1>2, <1>4 DEF Inv, Clean

-----------------------------------------------------------------------------
(* The pages: they run what they hold, and answer.                         *)
LEMMA PagesKept ==
  ASSUME Inv, UNCHANGED <<asked, queue, answer, drive>>,
         \A p \in Pages : inbox'[p] \subseteq inbox[p]
                          /\ applied'[p] \subseteq applied[p] \cup inbox[p]
  PROVE  Clean'
<1>1. \A c \in Calls : Untouched(c) => Untouched(c)' BY DEF Untouched
<1> QED BY <1>1, CleanKept DEF Inv

LEMMA RepliedTypes ==
  ASSUME Inv, NEW c \in Calls, NEW p \in Pages, NEW ok \in BOOLEAN, Replied(c, p, ok)
  PROVE  pend' \in [Calls -> SUBSET Pages] /\ good' \in [Calls -> SUBSET Pages]
<1>1. pend \in [Calls -> SUBSET Pages] /\ good \in [Calls -> SUBSET Pages] BY DEF Inv, TypeOK
<1>2. CASE Answered(c, p)
  <2>1. pend' = [pend EXCEPT ![c] = @ \ {p}] BY <1>2 DEF Replied
  <2>2. good' = [good EXCEPT ![c] = @ \cup {p}] \/ good' = good BY <1>2 DEF Replied
  <2> QED BY <1>1, <2>1, <2>2
<1>3. CASE ~Answered(c, p) BY <1>1, <1>3 DEF Replied
<1> QED BY <1>2, <1>3

LEMMA AttachInv == ASSUME Inv, NEW p \in Pages, Attach(p) PROVE Inv'
<1> DEFINE to == [q \in Pages |-> IF q = p THEN occupant
                                  ELSE IF q \in Others(occupant) THEN 0 ELSE conn[q]]
<1>1. conn' = to /\ stance' = [stance EXCEPT ![p] = TRUE] /\ back' = BackAfter(occupant) \ {p}
  BY DEF Attach
<1>2. UNCHANGED <<occupant, sandbox, ghost, front, page, upsets>> BY DEF Attach
<1>3. back' \in SUBSET Pages BY <1>1, BackTypes
<1>4. occupant \in 0..MaxPreview /\ 0 \in 0..MaxPreview BY DriveConstants DEF Inv, TypeOK
<1>5. to \in [Pages -> 0..MaxPreview] BY <1>4 DEF Inv, TypeOK
<1> HIDE DEF to
<1>6. TypeOK' BY <1>1, <1>2, <1>3, <1>5 DEF Inv, TypeOK, sandbox, front, page
<1>7. UNCHANGED <<asked, queue, answer, drive, inbox, applied>> BY <1>2 DEF sandbox, front, page
<1>8. Clean' BY <1>7, CleanKept, SamePages DEF Inv
<1> QED BY <1>6, <1>8 DEF Inv

LEMMA UpsetTypes == ASSUME Inv, Upset PROVE upsets' \in 0..MaxUpsets
  BY DriveConstants DEF Inv, TypeOK, Upset

LEMMA TakeControlInv == ASSUME Inv, NEW p \in Pages, TakeControl(p) \/ Detach(p) PROVE Inv'
<1>1. /\ upsets' \in 0..MaxUpsets
      /\ follows' \in [Pages -> BOOLEAN] /\ stance' \in [Pages -> BOOLEAN]
      /\ UNCHANGED <<occupant, sandbox, ghost, front, conn, back, inbox, owes, applied>>
  <2>1. CASE TakeControl(p)
    BY <2>1, UpsetTypes DEF Inv, TypeOK, TakeControl, registry
  <2>2. CASE Detach(p)
    BY <2>2 DEF Inv, TypeOK, Detach, page
  <2> QED BY <2>1, <2>2
<1>2. TypeOK' BY <1>1 DEF Inv, TypeOK, sandbox, front
<1>3. UNCHANGED <<asked, queue, answer, drive, inbox, applied>> BY <1>1 DEF sandbox, front
<1>4. Clean' BY <1>3, CleanKept, SamePages DEF Inv
<1> QED BY <1>2, <1>4 DEF Inv

LEMMA RunInv == ASSUME Inv, NEW p \in Pages, NEW c \in Calls, Run(p, c) PROVE Inv'
<1>1. /\ c \in inbox[p] /\ inbox' = [inbox EXCEPT ![p] = @ \ {c}]
      /\ owes' = [owes EXCEPT ![p] = @ \cup {c}] /\ applied' = [applied EXCEPT ![p] = @ \cup {c}]
      /\ UNCHANGED <<occupant, sandbox, ghost, front, registry, follows, upsets>>
  BY DEF Run
<1>2. TypeOK' BY <1>1 DEF Inv, TypeOK, sandbox, front, registry
<1>3. UNCHANGED <<asked, queue, answer, drive>> BY <1>1 DEF sandbox, front
<1>4. \A q \in Pages : inbox'[q] \subseteq inbox[q] /\ applied'[q] \subseteq applied[q] \cup inbox[q]
  BY <1>1 DEF Inv, TypeOK
<1> QED BY <1>2, <1>3, <1>4, PagesKept DEF Inv

LEMMA AckInv == ASSUME Inv, NEW p \in Pages, NEW c \in Calls, Ack(p, c) \/ Refuse(p, c) PROVE Inv'
<1>1. /\ pend' \in [Calls -> SUBSET Pages] /\ good' \in [Calls -> SUBSET Pages]
      /\ UNCHANGED <<occupant, sandbox, ghost, relay, drive, off, registry, follows, applied, upsets>>
  BY RepliedTypes DEF Ack, Refuse
<1>2. \/ owes' = [owes EXCEPT ![p] = @ \ {c}] /\ inbox' = inbox
      \/ inbox' = [inbox EXCEPT ![p] = @ \ {c}] /\ owes' = owes
  BY DEF Ack, Refuse
<1>3. inbox' \in [Pages -> SUBSET Calls] /\ owes' \in [Pages -> SUBSET Calls]
  BY <1>2 DEF Inv, TypeOK
<1>4. \A q \in Pages : inbox'[q] \subseteq inbox[q] BY <1>2 DEF Inv, TypeOK
<1>5. TypeOK' BY <1>3, <1>1 DEF Inv, TypeOK, sandbox, registry
<1>6. UNCHANGED <<asked, queue, answer, drive, applied>> BY <1>1 DEF sandbox
<1> QED BY <1>4, <1>5, <1>6, PagesKept DEF Inv

LEMMA MoveInv == ASSUME Inv, NEW p \in Pages, Move(p) PROVE Inv'
<1>1. /\ inbox' = [inbox EXCEPT ![p] = {}]
      /\ owes' = [owes EXCEPT ![p] = {}] \/ owes' = owes
      /\ follows' = [follows EXCEPT ![p] = TRUE] \/ follows' = follows
      /\ conn' = [conn EXCEPT ![p] = 0] /\ (back' = back \/ back' = back \cup {p})
      /\ UNCHANGED <<occupant, sandbox, ghost, front, stance, applied>>
  <2>1. UNCHANGED <<occupant, sandbox, ghost, front, stance, applied>>
    BY DEF Move, Dropped
  <2>2. conn' = [conn EXCEPT ![p] = 0] /\ (back' = back \/ back' = back \cup {p})
    BY DEF Move, Dropped
  <2>3. /\ inbox' = [inbox EXCEPT ![p] = {}]
        /\ owes' = [owes EXCEPT ![p] = {}] \/ owes' = owes
        /\ follows' = [follows EXCEPT ![p] = TRUE] \/ follows' = follows
    BY DEF Move
  <2> QED BY <2>1, <2>2, <2>3
<1>2. upsets' \in 0..MaxUpsets BY UpsetTypes DEF Move
<1>3. conn' \in [Pages -> 0..MaxPreview] /\ back' \in SUBSET Pages
  BY <1>1, DriveConstants DEF Inv, TypeOK
<1>4. /\ inbox' \in [Pages -> SUBSET Calls] /\ owes' \in [Pages -> SUBSET Calls]
      /\ follows' \in [Pages -> BOOLEAN]
  BY <1>1 DEF Inv, TypeOK
<1>5. TypeOK' BY <1>1, <1>2, <1>3, <1>4 DEF Inv, TypeOK, sandbox, front
<1>6. \A q \in Pages : inbox'[q] \subseteq inbox[q] BY <1>1 DEF Inv, TypeOK
<1>7. UNCHANGED <<asked, queue, answer, drive, applied>> BY <1>1 DEF sandbox, front
<1> QED BY <1>5, <1>6, <1>7, PagesKept DEF Inv

LEMMA RestartInv == ASSUME Inv, Restart PROVE Inv'
<1>1. /\ ghost' = (ghost \/ relay) /\ relay' = FALSE
      /\ drive' = None("none") /\ pend' = None({}) /\ good' = None({}) /\ off' = None({})
      /\ conn' = [p \in Pages |-> 0] /\ back' = {}
      /\ inbox' = [p \in Pages |-> {}]
      /\ UNCHANGED <<occupant, sandbox, stance, follows, owes, applied>>
  BY DEF Restart
<1>2. upsets' \in 0..MaxUpsets BY UpsetTypes DEF Restart
<1>3. conn' \in [Pages -> 0..MaxPreview] BY <1>1, DriveConstants
<1>4. drive' \in [Calls -> Stages] BY <1>1 DEF None, Stages, Answers
<1>5. ghost' \in BOOLEAN /\ relay' \in BOOLEAN /\ inbox' \in [Pages -> SUBSET Calls]
  BY <1>1 DEF Inv, TypeOK
<1>6. /\ pend' \in [Calls -> SUBSET Pages] /\ good' \in [Calls -> SUBSET Pages]
      /\ off' \in [Calls -> SUBSET Pages]
  BY <1>1 DEF None
<1>7. TypeOK' BY <1>1, <1>2, <1>3, <1>4, <1>5, <1>6 DEF Inv, TypeOK, Stages, sandbox
<1>8. \A c \in Calls : drive'[c] = "none" BY <1>1 DEF None
<1>9. \A c \in Calls : Untouched(c) => Untouched(c)' BY <1>1 DEF Untouched
<1>10. UNCHANGED <<asked, queue, answer>> BY <1>1 DEF sandbox
<1>11. Clean' BY <1>8, <1>9, <1>10, CleanKept DEF Inv
<1> QED BY <1>7, <1>11 DEF Inv

-----------------------------------------------------------------------------
LEMMA InitInv == Init => Inv
<1> SUFFICES ASSUME Init PROVE Inv OBVIOUS
<1>1. /\ occupant \in 1..MaxPreview /\ asked \in 0..MaxCalls /\ upsets \in 0..MaxUpsets
      /\ want \in [Calls -> 0..MaxPreview] /\ nudge \in [Calls -> 0..MaxCalls]
      /\ conn \in [Pages -> 0..MaxPreview]
  BY DriveConstants DEF Init, None
<1>2. /\ queue \in [Calls -> {"unasked", "waiting", "running", "settled"}]
      /\ answer \in [Calls -> Answers] /\ drive \in [Calls -> Stages]
  BY DEF Init, None, Answers, Stages
<1>3. /\ pend \in [Calls -> SUBSET Pages] /\ good \in [Calls -> SUBSET Pages]
      /\ off \in [Calls -> SUBSET Pages]
  BY DEF Init, None
<1>4. TypeOK BY <1>1, <1>2, <1>3 DEF Init, TypeOK, Stages
<1>5. \A c \in Calls : /\ queue[c] = "unasked" /\ drive[c] = "none" /\ answer[c] = "none"
                       /\ Untouched(c)
  BY DEF Init, None, Untouched
<1>6. Clean BY <1>5 DEF Clean, CleanCall, Unsent, Refusals
<1> QED BY <1>4, <1>6 DEF Inv

LEMMA NextInv == Inv /\ [Next]_vars => Inv'
<1> SUFFICES ASSUME Inv, [Next]_vars PROVE Inv' OBVIOUS
<1>1. CASE UNCHANGED vars
  <2>1. UNCHANGED <<occupant, asked, queue, answer, want, nudge, ghost, relay, drive, pend, good,
                    off, conn, stance, back, follows, inbox, owes, applied, upsets>>
    BY <1>1 DEF vars, sandbox, front, registry, page
  <2>2. TypeOK' BY <2>1 DEF Inv, TypeOK
  <2>3. \A c \in Calls : drive'[c] \in {drive[c], "none"} BY <2>1
  <2>4. UNCHANGED <<asked, queue, answer>> /\ UNCHANGED <<inbox, applied>> BY <2>1
  <2>5. Clean' BY <2>3, <2>4, CleanKept, SamePages DEF Inv
  <2> QED BY <2>2, <2>5 DEF Inv
<1>2. ASSUME NEW c \in Calls, DriveStep(c) PROVE Inv'
  BY <1>2, BeginInv, ViewedInv, ReturnedInv, GatherInv, ReportInv DEF DriveStep
<1>3. ASSUME NEW p \in Pages, PageStep(p) PROVE Inv'
  BY <1>3, AttachInv, TakeControlInv, MoveInv, RunInv, AckInv DEF PageStep
<1>4. ASSUME Request \/ Take \/ GhostTimesOut \/ ChangeHands \/ Restart PROVE Inv'
  BY <1>4, RequestInv, TakeInv, SlotInv, RestartInv
<1>5. ASSUME NEW c \in Calls, Nudge(c) \/ PickupTimeout(c) \/ RunTimeout(c) PROVE Inv'
  BY <1>5, NudgeInv, PickupTimeoutInv, RunTimeoutInv
<1> QED BY <1>1, <1>2, <1>3, <1>4, <1>5, AckTimeoutInv DEF Next

LEMMA Invariance == Spec => []Inv
<1> QED BY InitInv, NextInv, PTL DEF Spec

-----------------------------------------------------------------------------
(* The variables keep their types. *)
THEOREM TypeCorrect == Spec => []TypeOK
<1>1. Inv => TypeOK BY DEF Inv
<1> QED BY <1>1, Invariance, PTL

(* A caller told "no dashboard", "no viewer" or "all detached" may ask     *)
(* again: whatever was in flight, the action has reached no page and none  *)
(* will run it (preview-drive.ts, request and its timers; preview-driver.mjs, *)
(* drive).                                                                 *)
THEOREM RefusedIsNotRun == Spec => []NotRunIsNotRun
<1>1. Inv => NotRunIsNotRun
  <2> SUFFICES ASSUME Inv, NEW c \in Calls, answer[c] \in Refusals, NEW p \in Pages
               PROVE  c \notin inbox[p] \cup applied[p]
    BY DEF NotRunIsNotRun, Refusals
  <2>1. Untouched(c) BY DEF Inv, Clean, CleanCall
  <2> QED BY <2>1 DEF Untouched
<1> QED BY <1>1, Invariance, PTL
=============================================================================
