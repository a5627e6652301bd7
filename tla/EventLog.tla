------------------------------ MODULE EventLog ------------------------------
(***************************************************************************)
(* How the events of the hooks reach the events database.                  *)
(*                                                                         *)
(* A hook posts its event to the sandbox and, if that fails, appends it to *)
(* events.jsonl (emit-event.sh).  The sandbox appends what it receives to  *)
(* the same file, inserts it and advances the offset up to which the file  *)
(* is in the database; at boot it drains the file from there (ingestor.ts).*)
(* Old rows move to an archive in two transactions (db.ts).  The process   *)
(* may die between any two of these effects.                               *)
(*                                                                         *)
(* The database knows a line by its text, and the sandbox stamps the       *)
(* author on a prompt while the hook does not: two lines for one event.    *)
(* Races names what is admitted beyond crashes:                            *)
(*   slow    a hook gives up, or falls back, while the sandbox listens     *)
(*   dbfail  a statement on the database fails and its caller catches it   *)
(*   notice  the boot after a crash tells the restored sessions about it   *)
(***************************************************************************)
EXTENDS Naturals

CONSTANTS
    Events,     \* what the hooks report
    Prompts,    \* those whose author the sandbox stamps
    Notices,    \* the restart notices of the sandbox itself
    MaxStops,   \* bound on the times the process stops
    Races       \* what a run admits

ASSUME EventsAssumption == Prompts \subseteq Events /\ Notices \cap Events = {}
ASSUME StopsAssumption == MaxStops \in Nat

Lines == [ev : Events \cup Notices, stamp : BOOLEAN]
NoLine == [ev |-> "none", stamp |-> FALSE]
ASSUME LinesAssumption == "none" \notin Events \cup Notices

VARIABLES
    hook,       \* [Events -> "new", "posted", "fallback" or "done"]
    stage,      \* the process: "down", "start" (before the drain), "drained"
                \* (offset not written), "opening" and "open" (it listens)
    pc,         \* where ingestEventLine is: "idle", "appended", "stored",
                \* "check" (maybeRotate), "moved" (between its transactions)
    cur,        \* the line it ingests
    pending,    \* the posts received and not handled
    upto,       \* how far the drain has read the file
    moving,     \* the rows the rotation moves
    noticed,    \* the restart notices sent
    unclean,    \* the last stop left no clean-shutdown marker
    file,       \* events.jsonl: its lines and where they begin
    size,       \* its length
    offset,     \* state.events_offset
    hot,        \* the lines in events.db
    arch,       \* the lines in events-archive.db
    stops       \* how many times the process stopped

process == <<stage, pc, cur, pending, upto, moving, unclean>>
disk == <<file, size, offset, hot, arch>>
vars == <<hook, process, noticed, disk, stops>>

TypeOK ==
    /\ hook \in [Events -> {"new", "posted", "fallback", "done"}]
    /\ stage \in {"down", "start", "drained", "opening", "open"}
    /\ pc \in {"idle", "appended", "stored", "check", "moved"}
    /\ cur \in Lines \cup {NoLine} /\ pending \subseteq Events
    /\ upto \in Nat /\ moving \subseteq Lines /\ noticed \subseteq Notices
    /\ unclean \in BOOLEAN
    /\ file \subseteq [line : Lines, at : Nat] /\ size \in Nat /\ offset \in Nat
    /\ hot \subseteq Lines /\ arch \subseteq Lines /\ stops \in 0..MaxStops

Init ==
    /\ hook = [e \in Events |-> "new"]
    /\ stage = "start" /\ pc = "idle" /\ cur = NoLine /\ pending = {}
    /\ upto = 0 /\ moving = {} /\ noticed = {} /\ unclean = FALSE
    /\ file = {} /\ size = 0 /\ offset = 0 /\ hot = {} /\ arch = {} /\ stops = 0

-----------------------------------------------------------------------------
(* The line as the hook writes it, and as the sandbox does. *)
Raw(e) == [ev |-> e, stamp |-> FALSE]
Stamped(e) == [ev |-> e, stamp |-> e \in Prompts]

(* A stamped line is longer. *)
Width(l) == IF l.stamp THEN 2 ELSE 1

WriteLine(l) == file' = file \cup {[line |-> l, at |-> size]} /\ size' = size + Width(l)

(* The complete lines that begin at or after an offset; what is left of a   *)
(* line the offset cuts is not JSON and is skipped.                        *)
LinesFrom(n) == {x.line : x \in {y \in file : y.at >= n}}

(* Lookups go to both tiers. *)
Known(l) == l \in hot \cup arch

(* ingestLines: one transaction, a line already stored is skipped. *)
Insert(ls) == hot' = hot \cup {l \in ls : ~Known(l)}

-----------------------------------------------------------------------------
(* The hook: emit-event.sh.                                                *)

Post(e) ==
    /\ hook[e] = "new" /\ stage = "open"
    /\ hook' = [hook EXCEPT ![e] = "posted"]
    /\ pending' = pending \cup {e}
    /\ UNCHANGED <<stage, pc, cur, upto, moving, noticed, unclean, disk, stops>>

Refused(e) ==
    /\ hook[e] = "new" /\ stage # "open"
    /\ hook' = [hook EXCEPT ![e] = "fallback"]
    /\ UNCHANGED <<process, noticed, disk, stops>>

(* One second without an answer; the request may still be read. *)
GivesUp(e) ==
    /\ "slow" \in Races
    /\ hook[e] = "posted"
    /\ hook' = [hook EXCEPT ![e] = "fallback"]
    /\ pending' \in {pending, pending \ {e}}
    /\ UNCHANGED <<stage, pc, cur, upto, moving, noticed, unclean, disk, stops>>

FallsBack(e) ==
    /\ hook[e] = "fallback"
    /\ stage \in {"down", "start"} \/ "slow" \in Races
    /\ hook' = [hook EXCEPT ![e] = "done"]
    /\ WriteLine(Raw(e))
    /\ UNCHANGED <<process, noticed, offset, hot, arch, stops>>

Answer(e, ok) ==
    hook' = IF e \in Events /\ hook[e] = "posted"
            THEN [hook EXCEPT ![e] = IF ok THEN "done" ELSE "fallback"] ELSE hook

-----------------------------------------------------------------------------
(* The sandbox: ingestEventLine, one effect on disk at a time.             *)

AppendLine(l) ==
    /\ pc = "idle" /\ pc' = "appended" /\ cur' = l
    /\ WriteLine(l)

(* POST /ingest *)
Ingest(e) ==
    /\ stage = "open" /\ e \in pending
    /\ AppendLine(Stamped(e))
    /\ pending' = pending \ {e}
    /\ UNCHANGED <<hook, stage, upto, moving, noticed, unclean, offset, hot, arch, stops>>

(* main(): the notice to the restored sessions, ahead of the drain. *)
Notice(e) ==
    /\ "notice" \in Races
    /\ stage = "start" /\ unclean /\ e \notin noticed
    /\ noticed' = noticed \cup {e}
    /\ AppendLine(Raw(e))
    /\ UNCHANGED <<hook, stage, pending, upto, moving, unclean, offset, hot, arch, stops>>

StoreLine ==
    /\ pc = "appended" /\ pc' = "stored"
    /\ Insert({cur})
    /\ UNCHANGED <<hook, stage, cur, pending, upto, moving, noticed, unclean, file, size, offset, arch, stops>>

StoreFailsSilently ==
    /\ "dbfail" \in Races
    /\ pc = "appended" /\ pc' = "idle" /\ cur' = NoLine
    /\ Answer(cur.ev, TRUE)
    /\ UNCHANGED <<stage, pending, upto, moving, noticed, unclean, disk, stops>>
StoreFails ==
    /\ "dbfail" \in Races
    /\ pc = "appended" /\ pc' = "idle" /\ cur' = NoLine
    /\ Answer(cur.ev, FALSE)
    /\ UNCHANGED <<stage, pending, upto, moving, noticed, unclean, disk, stops>>

(* The offset after a line the sandbox appended and stored. *)
PastTwo == offset' = offset + Width(cur) + 1
PastLine == offset' = offset + Width(cur)

Advance ==
    /\ pc = "stored" /\ pc' = "check"
    /\ PastLine \/ ("dbfail" \in Races /\ UNCHANGED offset)
    /\ UNCHANGED <<hook, stage, cur, pending, upto, moving, noticed, unclean, file, size, hot, arch, stops>>

(* ingestEventLine returns, or the boot goes on to listen. *)
Return ==
    /\ pc' = "idle" /\ cur' = NoLine
    /\ Answer(cur.ev, TRUE)
    /\ stage' = IF stage = "opening" THEN "open" ELSE stage

(* maybeRotate: under the cap, or not its turn to check. *)
NoRotation ==
    /\ pc = "check"
    /\ Return
    /\ UNCHANGED <<pending, upto, moving, noticed, unclean, disk, stops>>

(* rotateIfNeeded: the rows of a range of ids, any rows here, are copied   *)
(* to the archive ...                                                      *)
Rotate(rows) ==
    /\ pc = "check" /\ pc' = "moved" /\ rows # {}
    /\ moving' = rows
    /\ arch' = arch \cup rows
    /\ UNCHANGED <<hook, stage, cur, pending, upto, noticed, unclean, file, size, offset, hot, stops>>

(* ... and then removed, by the same range. *)
RotationEnds ==
    /\ pc = "moved"
    /\ hot' = hot \ moving
    /\ moving' = {}
    /\ Return
    /\ UNCHANGED <<pending, upto, noticed, unclean, file, size, offset, arch, stops>>

(* The second transaction fails; maybeRotate catches it. *)
RotationFails ==
    /\ "dbfail" \in Races
    /\ pc = "moved"
    /\ moving' = {}
    /\ Return
    /\ UNCHANGED <<pending, upto, noticed, unclean, disk, stops>>

-----------------------------------------------------------------------------
(* The process.                                                            *)

Gone ==
    /\ stops < MaxStops /\ stops' = stops + 1
    /\ stage' = "down" /\ pc' = "idle" /\ cur' = NoLine /\ pending' = {}
    /\ upto' = 0 /\ moving' = {}
    /\ hook' = [e \in Events |-> IF hook[e] = "posted" THEN "fallback" ELSE hook[e]]
    /\ UNCHANGED <<noticed, disk>>

Crash == stage # "down" /\ Gone /\ unclean' = TRUE

(* The drain: connections are closed between two requests. *)
Shutdown == stage = "open" /\ pc = "idle" /\ Gone /\ unclean' = FALSE

(* getDb: a row in both tiers is a rotation that did not finish. *)
KeepArchived == UNCHANGED <<hot, arch>>
ReconcileBoth == arch' = arch \ hot /\ hot' = hot \ arch
Reconcile == arch' = arch \ hot /\ UNCHANGED hot

Boot ==
    /\ stage = "down" /\ stage' = "start"
    /\ Reconcile \/ ("dbfail" \in Races /\ UNCHANGED <<hot, arch>>)
    /\ UNCHANGED <<hook, pc, cur, pending, upto, moving, noticed, unclean, file, size, offset, stops>>

(* drainFile: what lies beyond the offset is inserted in one transaction ... *)
DrainNothing ==
    /\ stage = "start" /\ pc = "idle" /\ stage' = "drained"
    /\ upto' = size
    /\ UNCHANGED <<hook, pc, cur, pending, moving, noticed, unclean, disk, stops>>
Drain ==
    /\ stage = "start" /\ pc = "idle" /\ stage' = "drained"
    /\ Insert(LinesFrom(offset))
    /\ upto' = size
    /\ UNCHANGED <<hook, pc, cur, pending, moving, noticed, unclean, file, size, offset, arch, stops>>

(* ... and then the offset is written, and the rotation checked. *)
DrainEnds ==
    /\ stage = "drained" /\ stage' = "opening" /\ pc' = "check"
    /\ offset' = IF upto <= offset THEN offset ELSE upto
    /\ UNCHANGED <<hook, cur, pending, upto, moving, noticed, unclean, file, size, hot, arch, stops>>

Next ==
    \/ \E e \in Events : Post(e) \/ Refused(e) \/ GivesUp(e) \/ FallsBack(e) \/ Ingest(e)
    \/ \E e \in Notices : Notice(e)
    \/ StoreLine \/ StoreFails \/ Advance \/ NoRotation
    \/ RotationEnds \/ RotationFails
    \/ \E rows \in SUBSET hot : Rotate(rows)
    \/ Crash \/ Shutdown \/ Boot \/ Drain \/ DrainEnds

Spec == Init /\ [][Next]_vars

(* The container is restarted, hooks run to their end, the event loop runs. *)
Fairness ==
    /\ WF_vars(Boot) /\ WF_vars(Drain) /\ WF_vars(DrainEnds)
    /\ WF_vars(StoreLine) /\ WF_vars(Advance) /\ WF_vars(NoRotation) /\ WF_vars(RotationEnds)
    /\ \A e \in Events : WF_vars(Ingest(e)) /\ WF_vars(FallsBack(e))

FairSpec == Spec /\ Fairness

-----------------------------------------------------------------------------
(* Properties.                                                             *)

(* Every line of the file is in the database or will be drained.           *)
NeverLost == \A x \in file : Known(x.line) \/ x.at >= offset

(* The log as Journal sees it: the entries of the file, the lines in either *)
(* tier, and how far the hooks are.                                        *)
Reporter == [e \in Events |-> IF hook[e] = "done" THEN "through"
                             ELSE IF hook[e] = "fallback" THEN "alone" ELSE "asking"]
OfEvent(e) == {l \in Lines : l.ev = e}

Book == INSTANCE Journal WITH
    Reports <- Events, LineOf <- OfEvent,
    written <- file, stored <- hot \cup arch, reporter <- Reporter

(* The log keeps a journal: through every rotation, failed statement, crash *)
(* and boot what is stored stays stored, in one tier or the other, only    *)
(* written lines are, and a hook that still waits for its answer is told   *)
(* ok only once its event is stored.                                       *)
KeepsJournal == Book!Spec

(* It keeps it in order: whenever a line is stored, so is all that was     *)
(* written before it.                                                      *)
KeepsOrder == Book!InOrderSpec

(* A stored event stays stored, in one tier or the other, through every     *)
(* rotation, crash and boot.                                               *)
StoredForGood == [][\A l \in Lines : Known(l) => Known(l)']_vars

(* While requests are served and no rotation is between its two            *)
(* transactions, no line is in the database twice.  An event has one line, *)
(* and so one row, but for a prompt whose hook wrote a line of its own     *)
(* after the sandbox wrote the stamped one: that one can have both, and    *)
(* only if the process stopped under its request, or a hook gave up.       *)
StoredOnce ==
    stage = "open" /\ pc # "moved" =>
        /\ hot \cap arch = {}
        /\ \A l, m \in hot \cup arch :
             l.ev = m.ev /\ l # m => l.ev \in Prompts /\ (stops > 0 \/ "slow" \in Races)

(* A hook is told its event was taken only once the event is stored.       *)
OkIsStored == [][\A e \in Events :
    hook[e] = "posted" /\ hook'[e] = "done" => \E l \in Lines : l.ev = e /\ Known(l)]_vars

(* What a hook reported reaches the database. *)
Arrives == \A e \in Events :
    hook[e] = "done" ~> \E l \in Lines : l.ev = e /\ Known(l)

=============================================================================
