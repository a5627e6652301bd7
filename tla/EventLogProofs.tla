--------------------------- MODULE EventLogProofs ---------------------------
(***************************************************************************)
(* Proofs about EventLog, for any number of events, notices and stops.     *)
(*                                                                         *)
(* With every race admitted: the types, that a stored line stays stored,   *)
(* and that an ok is only said of a stored event.  Without database        *)
(* failures: that a line has one row while requests are served, and an     *)
(* event one line but for prompts.                                         *)
(* Without any race: that no line of the file is lost.                     *)
(***************************************************************************)
EXTENDS EventLog, TLAPS

-----------------------------------------------------------------------------
(* Types.                                                                  *)

(* The lines the hooks and the sandbox write are lines. *)
LEMMA LinesAreTyped ==
    /\ \A e \in Events \cup Notices : Raw(e) \in Lines /\ Stamped(e) \in Lines
    /\ NoLine \notin Lines
    /\ \A l \in Lines \cup {NoLine} : Width(l) \in Nat
BY EventsAssumption, LinesAssumption DEF Raw, Stamped, Lines, NoLine, Width

(* The answer to a hook changes only what that hook knows. *)
LEMMA AnswerIsTyped ==
    ASSUME NEW e, NEW ok, TypeOK, Answer(e, ok)
    PROVE  hook' \in [Events -> {"new", "posted", "fallback", "done"}]
BY DEF Answer, TypeOK

(* What a line is while it is ingested, and when none is.                  *)
Busy ==
    /\ pc \in {"appended", "stored"} => cur \in Lines
    /\ pc = "idle" => cur = NoLine
    /\ stage \in {"down", "drained"} => pc = "idle"

(* Every step keeps the types. *)
LEMMA TypeStep ==
    ASSUME TypeOK, Busy, [Next]_vars
    PROVE  TypeOK' /\ Busy'
<1> USE LinesAreTyped, EventsAssumption, StopsAssumption
<1>1. ASSUME NEW e \in Events, Post(e) \/ Refused(e) \/ GivesUp(e)
      PROVE  TypeOK' /\ Busy'
  BY <1>1 DEF TypeOK, Busy, Post, Refused, GivesUp, process, disk
<1>2. ASSUME NEW e \in Events, FallsBack(e)
      PROVE  TypeOK' /\ Busy'
  BY <1>2 DEF TypeOK, Busy, FallsBack, WriteLine, process
<1>3. ASSUME NEW e \in Events, Ingest(e)
      PROVE  TypeOK' /\ Busy'
  BY <1>3 DEF TypeOK, Busy, Ingest, AppendLine, WriteLine
<1>4. ASSUME NEW n \in Notices, Notice(n)
      PROVE  TypeOK' /\ Busy'
  BY <1>4 DEF TypeOK, Busy, Notice, AppendLine, WriteLine
<1>5. CASE StoreLine
  BY <1>5 DEF TypeOK, Busy, StoreLine, Insert
<1>6. CASE StoreFails
  BY <1>6, AnswerIsTyped DEF TypeOK, Busy, StoreFails, disk
<1>7. CASE Advance
  BY <1>7 DEF TypeOK, Busy, Advance, PastLine
<1>8. CASE NoRotation
  BY <1>8, AnswerIsTyped DEF TypeOK, Busy, NoRotation, Return, disk
<1>9. CASE RotationEnds
  BY <1>9, AnswerIsTyped DEF TypeOK, Busy, RotationEnds, Return
<1>10. CASE RotationFails
  BY <1>10, AnswerIsTyped DEF TypeOK, Busy, RotationFails, Return, disk
<1>11. ASSUME NEW rows \in SUBSET hot, Rotate(rows)
       PROVE  TypeOK' /\ Busy'
  BY <1>11 DEF TypeOK, Busy, Rotate
<1>12. ASSUME Gone, unclean' \in BOOLEAN
       PROVE  TypeOK' /\ Busy'
  BY <1>12 DEF TypeOK, Busy, Gone, disk
<1>13. CASE Crash \/ Shutdown
  BY <1>12, <1>13 DEF Crash, Shutdown
<1>14. CASE Boot
  BY <1>14 DEF TypeOK, Busy, Boot, Reconcile
<1>15. CASE Drain
  BY <1>15 DEF TypeOK, Busy, Drain, Insert, LinesFrom
<1>16. CASE DrainEnds
  BY <1>16 DEF TypeOK, Busy, DrainEnds
<1>17. CASE UNCHANGED vars
  BY <1>17 DEF TypeOK, Busy, vars, process, disk
<1> QED
  BY <1>1, <1>2, <1>3, <1>4, <1>5, <1>6, <1>7, <1>8, <1>9, <1>10, <1>11,
     <1>13, <1>14, <1>15, <1>16, <1>17 DEF Next

LEMMA TypeInit == Init => TypeOK /\ Busy
<1> SUFFICES ASSUME Init PROVE TypeOK /\ Busy
  OBVIOUS
<1>1. hook \in [Events -> {"new", "posted", "fallback", "done"}]
  BY DEF Init
<1>2. stops \in 0..MaxStops /\ upto \in Nat /\ size \in Nat /\ offset \in Nat
  BY StopsAssumption DEF Init
<1> QED
  BY <1>1, <1>2 DEF Init, TypeOK, Busy

(* Every variable of the event log keeps its type, with every race.        *)
THEOREM TypeCorrect == Spec => []TypeOK
<1>1. Init => TypeOK /\ Busy
  BY TypeInit
<1>2. TypeOK /\ Busy /\ [Next]_vars => TypeOK' /\ Busy'
  BY TypeStep
<1> QED
  BY <1>1, <1>2, PTL DEF Spec

-----------------------------------------------------------------------------
(* What is stored stays stored.                                            *)

(* What the rotation moves is in the archive before it leaves events.db.   *)
Moving == pc = "moved" => moving \subseteq arch

(* Every step that is not part of a rotation keeps both tiers, or adds to   *)
(* events.db; a boot removes from the archive what events.db holds.        *)
LEMMA StoreStep ==
    ASSUME TypeOK, Busy, Moving, [Next]_vars
    PROVE  Moving' /\ \A l \in Lines : Known(l) => Known(l)'
<1>1. ASSUME NEW e \in Events, Post(e) \/ Refused(e) \/ GivesUp(e)
      PROVE  Moving' /\ UNCHANGED <<hot, arch>>
  BY <1>1 DEF Moving, Post, Refused, GivesUp, process, disk
<1>2. ASSUME NEW e \in Events, FallsBack(e)
      PROVE  Moving' /\ UNCHANGED <<hot, arch>>
  BY <1>2 DEF Moving, FallsBack, process
<1>3. ASSUME NEW e \in Events, Ingest(e)
      PROVE  Moving' /\ UNCHANGED <<hot, arch>>
  BY <1>3 DEF Moving, Ingest, AppendLine
<1>4. ASSUME NEW n \in Notices, Notice(n)
      PROVE  Moving' /\ UNCHANGED <<hot, arch>>
  BY <1>4 DEF Moving, Notice, AppendLine
<1>5. CASE StoreLine
  BY <1>5 DEF Moving, StoreLine, Insert, Known
<1>6. CASE StoreFails \/ Advance \/ NoRotation
  <2>1. Moving' /\ UNCHANGED <<hot, arch>>
    BY <1>6 DEF Moving, StoreFails, Advance, NoRotation, Return, disk
  <2> QED
    BY <2>1 DEF Known
<1>7. CASE RotationEnds
  BY <1>7 DEF Moving, RotationEnds, Return, Known
<1>8. CASE RotationFails
  BY <1>8 DEF Moving, RotationFails, Return, Known, disk
<1>9. ASSUME NEW rows \in SUBSET hot, Rotate(rows)
      PROVE  Moving' /\ \A l \in Lines : Known(l) => Known(l)'
  BY <1>9 DEF Moving, Rotate, Known
<1>10. CASE Crash \/ Shutdown
  BY <1>10 DEF Moving, Crash, Shutdown, Gone, Known, disk
<1>11. CASE Boot
  BY <1>11 DEF Busy, Moving, Boot, Reconcile, Known
<1>12. CASE Drain
  BY <1>12 DEF Moving, Drain, Insert, Known
<1>13. CASE DrainEnds
  BY <1>13 DEF Busy, Moving, DrainEnds, Known
<1>14. CASE UNCHANGED vars
  BY <1>14 DEF Moving, vars, process, disk, Known
<1> QED
  BY <1>1, <1>2, <1>3, <1>4, <1>5, <1>6, <1>7, <1>8, <1>9, <1>10, <1>11, <1>12,
     <1>13, <1>14 DEF Next, Known

(* A stored line stays stored, in one tier or the other, through every      *)
(* rotation, failed statement, crash and boot.                             *)
THEOREM StoredStaysStored == Spec => StoredForGood
<1>1. Init => TypeOK /\ Busy /\ Moving
  BY TypeInit DEF Init, Moving
<1>2. TypeOK /\ Busy /\ Moving /\ [Next]_vars
        => /\ TypeOK' /\ Busy' /\ Moving'
           /\ [\A l \in Lines : Known(l) => Known(l)']_vars
  BY TypeStep, StoreStep
<1> QED
  BY <1>1, <1>2, PTL DEF Spec, StoredForGood

-----------------------------------------------------------------------------
(* An ok is the truth.                                                     *)

(* After the insert, the line being ingested is stored. *)
CurStored == pc \in {"stored", "check", "moved"} /\ cur \in Lines => Known(cur)

LEMMA CurStep ==
    ASSUME TypeOK, Busy, Moving, CurStored, [Next]_vars
    PROVE  CurStored'
<1>1. \A l \in Lines : Known(l) => Known(l)'
  BY StoreStep
<1>2. CASE cur' = cur /\ (pc' \in {"stored", "check", "moved"} => pc \in {"stored", "check", "moved"})
  BY <1>1, <1>2 DEF CurStored
<1>3. CASE StoreLine
  BY <1>3 DEF StoreLine, Insert, CurStored, Known
<1>4. CASE pc' \in {"idle", "appended"}
  BY <1>4 DEF CurStored
<1>5. CASE DrainEnds
  BY <1>5, LinesAreTyped DEF DrainEnds, Busy, CurStored
<1> QED
  BY <1>2, <1>3, <1>4, <1>5
     DEF Next, vars, process, Post, Refused, GivesUp, FallsBack, Ingest, Notice, AppendLine,
         StoreFails, Advance, NoRotation, Return, Rotate, RotationEnds, RotationFails,
         Crash, Shutdown, Gone, Boot, Drain

(* No other step than the return of ingestEventLine answers ok. *)
LEMMA OkStep ==
    ASSUME TypeOK, Busy, Moving, CurStored, [Next]_vars,
           NEW e \in Events, hook[e] = "posted", hook'[e] = "done"
    PROVE  \E l \in Lines : l.ev = e /\ Known(l)
<1>1. CASE Return /\ pc \in {"check", "moved"}
  <2>1. cur.ev = e
    BY <1>1 DEF Return, Answer, TypeOK
  <2>2. cur \in Lines
    BY <2>1, LinesAssumption DEF TypeOK, NoLine
  <2> QED
    BY <1>1, <2>1, <2>2 DEF CurStored
<1>2. CASE StoreFails
  BY <1>2 DEF StoreFails, Answer, TypeOK
<1>3. ASSUME NEW f \in Events, Post(f) \/ Refused(f) \/ GivesUp(f) \/ FallsBack(f)
      PROVE  FALSE
  BY <1>3 DEF Post, Refused, GivesUp, FallsBack, TypeOK
<1>4. CASE Crash \/ Shutdown
  BY <1>4 DEF Crash, Shutdown, Gone, TypeOK
<1>5. CASE UNCHANGED hook
  BY <1>5
<1> QED
  BY <1>1, <1>2, <1>3, <1>4, <1>5
     DEF Next, vars, Ingest, Notice, AppendLine, StoreLine, Advance, NoRotation, Rotate,
         RotationEnds, RotationFails, Boot, Drain, DrainEnds

(* A hook is told its event was taken only once the event is stored, with   *)
(* every race: also when the insert or the offset fails.                   *)
THEOREM OkOnlyIfStored == Spec => OkIsStored
<1>1. Init => TypeOK /\ Busy /\ Moving /\ CurStored
  BY TypeInit DEF Init, Moving, CurStored
<1>2. TypeOK /\ Busy /\ Moving /\ CurStored /\ [Next]_vars
        => /\ TypeOK' /\ Busy' /\ Moving' /\ CurStored'
           /\ [\A e \in Events :
                 hook[e] = "posted" /\ hook'[e] = "done" => \E l \in Lines : l.ev = e /\ Known(l)]_vars
  BY TypeStep, StoreStep, CurStep, OkStep
<1> QED
  BY <1>1, <1>2, PTL DEF Spec, OkIsStored

-----------------------------------------------------------------------------
(* Nothing is in both tiers.                                               *)

(* A live process has a line in both tiers only while it moves it.         *)
OneTier == stage # "down" => hot \cap arch \subseteq IF pc = "moved" THEN moving ELSE {}

LEMMA OneTierStep ==
    ASSUME "dbfail" \notin Races, TypeOK, Busy, OneTier, [Next]_vars
    PROVE  OneTier'
<1>1. CASE UNCHANGED <<hot, arch>> /\ (stage' # "down" => stage # "down")
           /\ (pc' # "moved" => pc # "moved") /\ (pc' = "moved" => pc = "moved" /\ moving' = moving)
  BY <1>1 DEF OneTier
<1>2. CASE StoreLine
  BY <1>2 DEF StoreLine, Insert, Known, OneTier
<1>3. CASE RotationEnds
  BY <1>3 DEF RotationEnds, Return, OneTier
<1>4. ASSUME NEW rows \in SUBSET hot, Rotate(rows)
      PROVE  OneTier'
  BY <1>4 DEF Rotate, OneTier
<1>5. CASE Crash \/ Shutdown
  BY <1>5 DEF Crash, Shutdown, Gone, OneTier
<1>6. CASE Boot
  BY <1>6 DEF Boot, Reconcile, Busy, OneTier
<1>7. CASE Drain
  BY <1>7 DEF Drain, Insert, Known, OneTier
<1>8. CASE DrainEnds
  BY <1>8 DEF DrainEnds, Busy, OneTier
<1>9. CASE NoRotation \/ Advance
  BY <1>9 DEF NoRotation, Advance, Return, disk, OneTier
<1> QED
  BY <1>1, <1>2, <1>3, <1>4, <1>5, <1>6, <1>7, <1>8, <1>9
     DEF Next, vars, process, disk, Post, Refused, GivesUp, FallsBack, Ingest, Notice, AppendLine,
         StoreFails, RotationFails

-----------------------------------------------------------------------------
(* Nothing is lost.                                                        *)

(* Where the offset is.  Between two lines it is at the end of the file;   *)
(* while a line is ingested it is where that line begins, and every other  *)
(* line of the file is stored.                                             *)
Placed ==
    /\ offset <= size
    /\ \A x \in file : x.at < size
    /\ pc # "idle" => stage \in {"opening", "open"}
    /\ stage = "drained" => upto = size /\ \A x \in file : Known(x.line)
    /\ stage \in {"opening", "open"} /\ pc \in {"idle", "check", "moved"} => offset = size
    /\ pc \in {"appended", "stored"} => size = offset + Width(cur)
    /\ pc = "appended" => \A x \in file : x.at >= offset => x.line = cur
    /\ pc = "stored" => \A x \in file : Known(x.line)

(* A line has at least one byte. *)
LEMMA WidthIsPositive ==
    \A l \in Lines \cup {NoLine} : Width(l) \in Nat /\ Width(l) >= 1
BY DEF Width

LEMMA PlacedStep ==
    ASSUME Races = {}, TypeOK, Busy, Moving, Placed, NeverLost, [Next]_vars
    PROVE  Placed' /\ NeverLost'
<1> USE DEF TypeOK
<1>1. \A l \in Lines : Known(l) => Known(l)'
  BY StoreStep
<1>2. ASSUME NEW e \in Events, Post(e) \/ Refused(e)
      PROVE  Placed' /\ NeverLost'
  BY <1>2 DEF Post, Refused, process, disk, Placed, NeverLost, Known
<1>3. ASSUME NEW e \in Events, FallsBack(e)
      PROVE  Placed' /\ NeverLost'
  <2>1. Width(Raw(e)) \in Nat /\ Width(Raw(e)) >= 1
    BY LinesAreTyped, WidthIsPositive
  <2>2. pc = "idle" /\ pc' = "idle" /\ stage' = stage /\ stage \in {"down", "start"}
    BY <1>3 DEF FallsBack, process, Placed
  <2> QED
    BY <1>3, <2>1, <2>2 DEF FallsBack, WriteLine, Placed, NeverLost, Known
<1>4. ASSUME NEW e \in Events, Ingest(e)
      PROVE  Placed' /\ NeverLost'
  <2>1. Stamped(e) \in Lines /\ Width(Stamped(e)) \in Nat /\ Width(Stamped(e)) >= 1
    BY LinesAreTyped, WidthIsPositive
  <2>2. offset = size /\ offset' = offset /\ UNCHANGED <<hot, arch, stage>> /\ stage = "open"
        /\ cur' = Stamped(e) /\ pc' = "appended"
    BY <1>4 DEF Ingest, AppendLine, Placed
  <2>3. file' = file \cup {[line |-> Stamped(e), at |-> size]} /\ size' = size + Width(Stamped(e))
    BY <1>4 DEF Ingest, AppendLine, WriteLine
  <2>4. \A x \in file : x.at < size
    BY DEF Placed
  <2> QED
    BY <2>1, <2>2, <2>3, <2>4 DEF Placed, NeverLost, Known, Width
<1>5. CASE StoreLine
  <2>1. \A x \in file : Known(x.line)'
    BY <1>1, <1>5 DEF StoreLine, Insert, Placed, NeverLost, Known
  <2> QED
    BY <1>5, <2>1 DEF StoreLine, Placed, NeverLost, Width
<1>6. CASE Advance
  BY <1>6, WidthIsPositive DEF Advance, PastLine, Placed, NeverLost, Known
<1>7. CASE NoRotation \/ RotationEnds
  <2>1. \A x \in file : x.line \in Lines
    OBVIOUS
  <2>2. /\ UNCHANGED <<file, size, offset>> /\ pc' = "idle"
        /\ pc \in {"check", "moved"} /\ stage' \in {"opening", "open"}
    BY <1>7 DEF NoRotation, RotationEnds, Return, disk, Placed
  <2> QED
    BY <1>1, <2>1, <2>2 DEF Placed, NeverLost
<1>8. ASSUME NEW rows \in SUBSET hot, Rotate(rows)
      PROVE  Placed' /\ NeverLost'
  BY <1>8 DEF Rotate, Placed, NeverLost, Known
<1>9. CASE Crash \/ Shutdown
  BY <1>9 DEF Crash, Shutdown, Gone, disk, Placed, NeverLost, Known
<1>10. CASE Boot
  BY <1>1, <1>10 DEF Boot, Placed, NeverLost, Busy
<1>11. CASE Drain
  <2>1. \A x \in file : Known(x.line)'
    BY <1>1, <1>11 DEF Drain, Insert, LinesFrom, NeverLost, Known
  <2> QED
    BY <1>11, <2>1 DEF Drain, Placed, NeverLost
<1>12. CASE DrainEnds
  BY <1>12 DEF DrainEnds, Placed, NeverLost, Known, Busy
<1>13. CASE UNCHANGED vars
  BY <1>13 DEF vars, process, disk, Placed, NeverLost, Known, Width
<1> QED
  BY <1>2, <1>3, <1>4, <1>5, <1>6, <1>7, <1>8, <1>9, <1>10, <1>11, <1>12, <1>13
     DEF Next, GivesUp, Notice, StoreFails, RotationFails

(* When hooks append to the file only while the sandbox is down or has not  *)
(* drained it, and its database does not fail, every line of the file is   *)
(* stored or ahead of the offset, wherever the process dies.               *)
THEOREM NothingIsLost == ASSUME Races = {} PROVE Spec => []NeverLost
<1>1. Init => TypeOK /\ Busy /\ Moving /\ Placed /\ NeverLost
  BY TypeInit DEF Init, Moving, Placed, NeverLost
<1>2. TypeOK /\ Busy /\ Moving /\ Placed /\ NeverLost /\ [Next]_vars
        => TypeOK' /\ Busy' /\ Moving' /\ Placed' /\ NeverLost'
  BY TypeStep, StoreStep, PlacedStep
<1> QED
  BY <1>1, <1>2, PTL DEF Spec

-----------------------------------------------------------------------------
(* The log keeps a journal.                                                *)

(* The lines of the file. *)
Written == {x.line : x \in file}

(* The database holds what was written, the line in hand is written, and    *)
(* the file ends where the next line will begin.                           *)
OnFile ==
    /\ hot \cup arch \subseteq Written
    /\ pc = "appended" => cur \in Written
    /\ \A x \in file : x.at < size

(* A line the log adds is a new entry, and what was written stays. *)
AddsEntry(l) == \E x \in file' \ file : x.line = l /\ file' = file \cup {x}

LEMMA WriteAdds ==
    ASSUME TypeOK, OnFile, NEW l \in Lines, WriteLine(l)
    PROVE  /\ AddsEntry(l) /\ Written' = Written \cup {l}
           /\ \A x \in file' : x.at < size'
<1> DEFINE new == [line |-> l, at |-> size]
<1>1. /\ file' = file \cup {new} /\ new.line = l /\ new.at = size
      /\ size' = size + Width(l)
  BY DEF WriteLine
<1> HIDE DEF new
<1>2. Width(l) \in Nat /\ Width(l) >= 1 BY WidthIsPositive
<1>3. new \notin file
  <2>1. size \in Nat BY DEF TypeOK
  <2> QED BY <1>1, <2>1 DEF OnFile
<1>4. {x.line : x \in file'} = {x.line : x \in file} \cup {new.line} BY <1>1
<1>5. \A x \in file' : x.at < size'
  <2>1. size \in Nat /\ \A x \in file : x.at \in Nat BY DEF TypeOK
  <2> QED BY <1>1, <1>2, <2>1 DEF OnFile
<1> QED BY <1>1, <1>3, <1>4, <1>5 DEF Written, AddsEntry

(* What hooks go through: one is through, or some are on their own. *)
Through(e) == Reporter' = [Reporter EXCEPT ![e] = "through"]
Alone(es) ==
    /\ \A e \in es : Reporter[e] = "asking"
    /\ Reporter' = [e \in Events |-> IF e \in es THEN "alone" ELSE Reporter[e]]

LEMMA ReporterStays == ASSUME hook' = hook PROVE Reporter' = Reporter
BY DEF Reporter

LEMMA AnswerTells ==
    ASSUME TypeOK, NEW e, NEW ok \in BOOLEAN, Answer(e, ok)
    PROVE  \/ Reporter' = Reporter
           \/ ok /\ e \in Events /\ Reporter[e] = "asking" /\ Through(e)
           \/ ~ok /\ e \in Events /\ Alone({e})
<1>1. CASE e \in Events /\ hook[e] = "posted" /\ ok
  BY <1>1 DEF Answer, Reporter, Through, TypeOK
<1>2. CASE e \in Events /\ hook[e] = "posted" /\ ~ok
  BY <1>2 DEF Answer, Reporter, Alone, TypeOK
<1>3. CASE ~(e \in Events /\ hook[e] = "posted")
  BY <1>3 DEF Answer, Reporter
<1> QED BY <1>1, <1>2, <1>3

(* The steps of the journal, in the log's words. *)
Writes ==
    /\ UNCHANGED <<hot, arch>>
    /\ \E l \in Lines :
         /\ AddsEntry(l)
         /\ \/ Reporter' = Reporter
            \/ \E e \in Events : l.ev = e /\ Reporter[e] = "alone" /\ Through(e)
TellsOf ==
    \E e \in Events, l \in Lines :
      l.ev = e /\ Known(l) /\ Reporter[e] = "asking" /\ Through(e)
Tells ==
    /\ UNCHANGED file /\ hot' \cup arch' = hot \cup arch
    /\ Reporter' = Reporter \/ TellsOf \/ \E es \in SUBSET Events : Alone(es)
Stores ==
    /\ UNCHANGED file /\ Reporter' = Reporter
    /\ hot \cup arch \subseteq hot' \cup arch' /\ hot' \cup arch' \subseteq Written

(* The return of ingestEventLine tells the hook of the line it stored.     *)
LEMMA ReturnTells ==
    ASSUME TypeOK, CurStored, pc \in {"check", "moved"}, Return
    PROVE  Reporter' = Reporter \/ TellsOf
<1>1. \/ Reporter' = Reporter
      \/ cur.ev \in Events /\ Reporter[cur.ev] = "asking" /\ Through(cur.ev)
  BY AnswerTells DEF Return
<1>2. cur.ev \in Events => cur \in Lines
  BY LinesAssumption DEF TypeOK, NoLine
<1> QED
  BY <1>1, <1>2 DEF CurStored, TellsOf

(* Every step of the log writes, tells or stores, and the database never    *)
(* holds more than was written.                                            *)
LEMMA JournalStep ==
    ASSUME TypeOK, Busy, Moving, CurStored, OnFile, [Next]_vars
    PROVE  OnFile' /\ (Writes \/ Tells \/ Stores)
<1>1. ASSUME NEW e \in Events, Post(e) \/ Refused(e) \/ GivesUp(e)
      PROVE  OnFile' /\ Tells
  <2>1. UNCHANGED <<file, size, hot, arch, pc, cur>>
    BY <1>1 DEF Post, Refused, GivesUp, process, disk
  <2>2. Reporter' = Reporter \/ Alone({e})
    BY <1>1 DEF Post, Refused, GivesUp, Reporter, Alone, TypeOK
  <2> QED
    BY <2>1, <2>2 DEF OnFile, Written, Tells
<1>2. ASSUME NEW e \in Events, FallsBack(e)
      PROVE  OnFile' /\ Writes
  <2>1. Raw(e) \in Lines /\ Raw(e).ev = e
    BY LinesAreTyped DEF Raw
  <2>2. /\ AddsEntry(Raw(e)) /\ Written' = Written \cup {Raw(e)}
        /\ \A x \in file' : x.at < size'
    BY <1>2, <2>1, WriteAdds DEF FallsBack
  <2>3. UNCHANGED <<hot, arch, pc, cur>>
    BY <1>2 DEF FallsBack, process
  <2>4. Reporter[e] = "alone" /\ Through(e)
    BY <1>2 DEF FallsBack, Reporter, Through, TypeOK
  <2> QED
    BY <2>1, <2>2, <2>3, <2>4 DEF OnFile, Writes
<1>3. ASSUME NEW l \in Lines, AppendLine(l), UNCHANGED <<hook, hot, arch>>
      PROVE  OnFile' /\ Writes
  <2>1. /\ AddsEntry(l) /\ Written' = Written \cup {l} /\ cur' = l
        /\ \A x \in file' : x.at < size'
    BY <1>3, WriteAdds DEF AppendLine
  <2>2. Reporter' = Reporter
    BY <1>3, ReporterStays
  <2> QED
    BY <1>3, <2>1, <2>2 DEF OnFile, Writes
<1>4. ASSUME NEW e \in Events, Ingest(e)
      PROVE  OnFile' /\ Writes
  BY <1>3, <1>4, LinesAreTyped DEF Ingest
<1>5. ASSUME NEW n \in Notices, Notice(n)
      PROVE  OnFile' /\ Writes
  BY <1>3, <1>5, LinesAreTyped DEF Notice
<1>6. CASE StoreLine
  <2>1. UNCHANGED <<file, size, hook>> /\ pc' = "stored"
    BY <1>6 DEF StoreLine
  <2>2. hot' \cup arch' = hot \cup arch \cup {cur}
    BY <1>6 DEF StoreLine, Insert, Known
  <2>3. pc = "appended" BY <1>6 DEF StoreLine
  <2> QED
    BY <2>1, <2>2, <2>3, ReporterStays DEF OnFile, Written, Stores
<1>7. CASE StoreFails
  <2>1. UNCHANGED <<file, size, hot, arch>> /\ pc' = "idle"
    BY <1>7 DEF StoreFails, disk
  <2>2. Reporter' = Reporter \/ \E es \in SUBSET Events : Alone(es)
    BY <1>7, AnswerTells DEF StoreFails
  <2> QED
    BY <2>1, <2>2 DEF OnFile, Written, Tells
<1>8. CASE Advance
  <2>1. UNCHANGED <<file, size, hot, arch, hook>> /\ pc' = "check"
    BY <1>8 DEF Advance
  <2> QED
    BY <2>1, ReporterStays DEF OnFile, Written, Tells
<1>9. CASE NoRotation \/ RotationFails
  <2>1. UNCHANGED <<file, size, hot, arch>> /\ pc' = "idle"
    BY <1>9 DEF NoRotation, RotationFails, Return, disk
  <2>2. Reporter' = Reporter \/ TellsOf
    BY <1>9, ReturnTells DEF NoRotation, RotationFails
  <2> QED
    BY <2>1, <2>2 DEF OnFile, Written, Tells
<1>10. CASE RotationEnds
  <2>1. UNCHANGED <<file, size>> /\ hot' \cup arch' = hot \cup arch /\ pc' = "idle"
    BY <1>10 DEF RotationEnds, Return, Moving
  <2>2. Reporter' = Reporter \/ TellsOf
    BY <1>10, ReturnTells DEF RotationEnds
  <2> QED
    BY <2>1, <2>2 DEF OnFile, Written, Tells
<1>11. ASSUME NEW rows \in SUBSET hot, Rotate(rows)
       PROVE  OnFile' /\ Tells
  <2>1. UNCHANGED <<file, size, hook>> /\ hot' \cup arch' = hot \cup arch /\ pc' = "moved"
    BY <1>11 DEF Rotate
  <2> QED
    BY <2>1, ReporterStays DEF OnFile, Written, Tells
<1>12. CASE Crash \/ Shutdown
  <2> DEFINE es == {e \in Events : hook[e] = "posted"}
  <2>1. UNCHANGED <<file, size, hot, arch>> /\ pc' = "idle"
    BY <1>12 DEF Crash, Shutdown, Gone, disk
  <2>2. hook' = [e \in Events |-> IF hook[e] = "posted" THEN "fallback" ELSE hook[e]]
    BY <1>12 DEF Crash, Shutdown, Gone
  <2>3. Alone(es)
    BY <2>2 DEF Reporter, Alone, TypeOK
  <2> QED
    BY <2>1, <2>3 DEF OnFile, Written, Tells
<1>13. CASE Boot
  <2>1. UNCHANGED <<file, size, hook, pc, cur>> /\ hot' \cup arch' = hot \cup arch
    BY <1>13 DEF Boot, Reconcile
  <2> QED
    BY <2>1, ReporterStays DEF OnFile, Written, Tells
<1>14. CASE Drain
  <2>1. UNCHANGED <<file, size, hook, pc, cur>> /\ LinesFrom(offset) \subseteq Written
    BY <1>14 DEF Drain, Written, LinesFrom
  <2>2. hot' \cup arch' = hot \cup arch \cup LinesFrom(offset)
    BY <1>14 DEF Drain, Insert, Known
  <2> QED
    BY <2>1, <2>2, ReporterStays DEF OnFile, Written, Stores
<1>15. CASE DrainEnds
  <2>1. UNCHANGED <<file, size, hot, arch, hook>> /\ pc' = "check"
    BY <1>15 DEF DrainEnds
  <2> QED
    BY <2>1, ReporterStays DEF OnFile, Written, Tells
<1>16. CASE UNCHANGED vars
  <2>1. UNCHANGED <<file, size, hot, arch, hook, pc, cur>>
    BY <1>16 DEF vars, process, disk
  <2> QED
    BY <2>1, ReporterStays DEF OnFile, Written, Tells
<1> QED
  BY <1>1, <1>2, <1>4, <1>5, <1>6, <1>7, <1>8, <1>9, <1>10, <1>11, <1>12, <1>13,
     <1>14, <1>15, <1>16 DEF Next

(* Those steps are steps of Journal. *)
LEMMA JournalMaps ==
    /\ Writes => Book!Report
    /\ Tells => Book!Report \/ UNCHANGED Book!vars
    /\ Stores => Book!Store
<1>1. ASSUME Writes PROVE Book!Report
  <2>1. PICK l \in Lines :
          /\ AddsEntry(l)
          /\ \/ Reporter' = Reporter
             \/ \E e \in Events : l.ev = e /\ Reporter[e] = "alone" /\ Through(e)
    BY <1>1 DEF Writes
  <2>2. Book!Adds(l) BY <2>1 DEF AddsEntry, Book!Adds
  <2>3. (hot \cup arch)' = hot \cup arch BY <1>1 DEF Writes
  <2>4. CASE Reporter' = Reporter
    BY <2>2, <2>3, <2>4 DEF Book!Write, Book!Report
  <2>5. ASSUME NEW e \in Events, l.ev = e, Reporter[e] = "alone", Through(e)
        PROVE  Book!Report
    <3>1. l \in OfEvent(e) BY <2>5 DEF OfEvent
    <3>2. Book!WriteOwn(e) BY <2>2, <2>3, <2>5, <3>1 DEF Book!WriteOwn, Book!Through, Through
    <3> QED BY <3>2 DEF Book!Report
  <2> QED BY <2>1, <2>4, <2>5
<1>2. ASSUME Tells PROVE Book!Report \/ UNCHANGED Book!vars
  <2>1. (hot \cup arch)' = hot \cup arch /\ file' = file BY <1>2 DEF Tells
  <2>2. CASE Reporter' = Reporter BY <2>1, <2>2 DEF Book!vars
  <2>3. CASE TellsOf
    <3>1. PICK e \in Events, l \in Lines :
            l.ev = e /\ Known(l) /\ Reporter[e] = "asking" /\ Through(e)
      BY <2>3 DEF TellsOf
    <3>2. l \in OfEvent(e) \cap (hot \cup arch) BY <3>1 DEF OfEvent, Known
    <3>3. Book!Tell(e) BY <2>1, <3>1, <3>2 DEF Book!Tell, Book!Through, Through
    <3> QED BY <3>3 DEF Book!Report
  <2>4. ASSUME NEW es \in SUBSET Events, Alone(es) PROVE Book!Report
    <3>1. Book!GiveUp(es) BY <2>1, <2>4 DEF Book!GiveUp, Alone
    <3> QED BY <3>1 DEF Book!Report
  <2> QED BY <1>2, <2>2, <2>3, <2>4 DEF Tells
<1>3. ASSUME Stores PROVE Book!Store
  BY <1>3 DEF Stores, Written, Book!Store, Book!Texts
<1> QED BY <1>1, <1>2, <1>3

LEMMA JournalInit == Init => Book!Init /\ OnFile /\ CurStored /\ Moving
BY DEF Init, Book!Init, Written, Reporter, OnFile, CurStored, Moving

(* The log implements Journal with every race: through rotations, failed    *)
(* statements, crashes and boots what is stored stays stored, only lines   *)
(* of the file are, and no hook is told ok too early.                      *)
THEOREM TheJournalIsKept == Spec => KeepsJournal
<1>1. Init => TypeOK /\ Busy /\ Moving /\ CurStored /\ OnFile /\ Book!Init
  BY TypeInit, JournalInit
<1>2. TypeOK /\ Busy /\ Moving /\ CurStored /\ OnFile /\ [Next]_vars
        => /\ TypeOK' /\ Busy' /\ Moving' /\ CurStored' /\ OnFile'
           /\ [Book!Report \/ Book!Store]_(Book!vars)
  BY TypeStep, StoreStep, CurStep, JournalStep, JournalMaps
<1> QED
  BY <1>1, <1>2, PTL DEF Spec, KeepsJournal, Book!Spec

-----------------------------------------------------------------------------
(* A line has one row, and an event one line, but for the prompt whose hook *)
(* wrote its own after the sandbox wrote the stamped one.                  *)

(* A hook that will write its line, or whose post is not handled yet, has   *)
(* none in the file, as long as no process stops and no hook gives up;     *)
(* what is stamped is a prompt's, and what is ingested is in the file.     *)
OneText ==
    /\ \A x \in file : x.line.stamp => x.line.ev \in Prompts
    /\ cur \in Lines => \E x \in file : x.line = cur
    /\ stops = 0 /\ "slow" \notin Races =>
        /\ \A e \in pending : hook[e] = "posted"
        /\ \A e \in Events : hook[e] \in {"new", "fallback"} \/ e \in pending =>
                              \A x \in file : x.line.ev # e
        /\ \A x, y \in file : x.line.ev = y.line.ev => x.line = y.line

(* A line of an event that has none in the file keeps its texts apart. *)
LEMMA OneMoreText ==
    ASSUME OneText, NEW l \in Lines, WriteLine(l), l.stamp => l.ev \in Prompts,
           stops = 0 /\ "slow" \notin Races => \A x \in file : x.line.ev = l.ev => x.line = l
    PROVE  /\ file \subseteq file' /\ \E x \in file' : x.line = l
           /\ \A x \in file' : x.line.stamp => x.line.ev \in Prompts
           /\ stops = 0 /\ "slow" \notin Races =>
                \A x, y \in file' : x.line.ev = y.line.ev => x.line = y.line
           /\ \A x \in file' : x \in file \/ x.line = l
<1>1. file' = file \cup {[line |-> l, at |-> size]}
  BY DEF WriteLine
<1>2. \A x \in file' : x \in file \/ x.line = l
  <2>1. [line |-> l, at |-> size].line = l
    OBVIOUS
  <2> QED
    BY <1>1, <2>1
<1>3. file \subseteq file' /\ \E x \in file' : x.line = l
  <2>1. [line |-> l, at |-> size] \in file' /\ [line |-> l, at |-> size].line = l
    BY <1>1
  <2> QED
    BY <1>1, <2>1
<1>4. ASSUME stops = 0, "slow" \notin Races, NEW x \in file', NEW y \in file', x.line.ev = y.line.ev
      PROVE  x.line = y.line
  BY <1>2, <1>4 DEF OneText
<1> QED
  BY <1>2, <1>3, <1>4 DEF OneText

LEMMA OneTextStep ==
    ASSUME "dbfail" \notin Races, TypeOK, Busy, OneText, [Next]_vars
    PROVE  OneText'
<1>1. ASSUME UNCHANGED <<file, stops>>, pending' \subseteq pending, cur' = cur \/ cur' = NoLine,
             stops = 0 /\ "slow" \notin Races =>
               \A e \in Events : hook'[e] = hook[e] \/ (hook'[e] = "done" /\ e \notin pending)
      PROVE  OneText'
  BY <1>1, LinesAreTyped DEF OneText, TypeOK
<1>2. ASSUME NEW e \in Events, Post(e)
      PROVE  OneText'
  BY <1>2 DEF Post, OneText, TypeOK, disk
<1>3. ASSUME NEW e \in Events, Refused(e)
      PROVE  OneText'
  BY <1>3 DEF Refused, OneText, TypeOK, process, disk
<1>4. ASSUME NEW e \in Events, GivesUp(e)
      PROVE  OneText'
  BY <1>4 DEF GivesUp, OneText, disk
<1>5. ASSUME NEW e \in Events, FallsBack(e)
      PROVE  OneText'
  <2>1. /\ Raw(e) \in Lines /\ Raw(e).ev = e /\ ~Raw(e).stamp /\ WriteLine(Raw(e))
        /\ hook[e] = "fallback" /\ hook' = [hook EXCEPT ![e] = "done"]
        /\ UNCHANGED <<stops, pending, cur>>
    BY <1>5, LinesAreTyped DEF FallsBack, Raw, process
  <2>2. stops = 0 /\ "slow" \notin Races => \A x \in file : x.line.ev # e
    BY <2>1 DEF OneText
  <2>3. /\ file \subseteq file' /\ \E x \in file' : x.line = Raw(e)
        /\ \A x \in file' : x.line.stamp => x.line.ev \in Prompts
        /\ stops = 0 /\ "slow" \notin Races =>
             \A x, y \in file' : x.line.ev = y.line.ev => x.line = y.line
        /\ \A x \in file' : x \in file \/ x.line.ev = e
    BY <2>1, <2>2, OneMoreText
  <2>4. stops = 0 /\ "slow" \notin Races => e \notin pending
    BY <2>1 DEF OneText
  <2> QED
    BY <2>1, <2>3, <2>4 DEF OneText, TypeOK
<1>6. ASSUME NEW e \in Events, Ingest(e)
      PROVE  OneText'
  <2>1. /\ Stamped(e) \in Lines /\ Stamped(e).ev = e /\ (Stamped(e).stamp => e \in Prompts)
        /\ WriteLine(Stamped(e)) /\ e \in pending /\ pending' = pending \ {e}
        /\ cur' = Stamped(e) /\ UNCHANGED <<stops, hook>>
    BY <1>6, LinesAreTyped DEF Ingest, AppendLine, Stamped
  <2>2. stops = 0 /\ "slow" \notin Races => \A x \in file : x.line.ev # e
    BY <2>1 DEF OneText
  <2>3. /\ file \subseteq file' /\ \E x \in file' : x.line = Stamped(e)
        /\ \A x \in file' : x.line.stamp => x.line.ev \in Prompts
        /\ stops = 0 /\ "slow" \notin Races =>
             \A x, y \in file' : x.line.ev = y.line.ev => x.line = y.line
        /\ \A x \in file' : x \in file \/ x.line.ev = e
    BY <2>1, <2>2, OneMoreText
  <2>4. stops = 0 /\ "slow" \notin Races => hook[e] = "posted"
    BY <2>1 DEF OneText
  <2> QED
    BY <2>1, <2>3, <2>4 DEF OneText
<1>7. ASSUME NEW n \in Notices, Notice(n)
      PROVE  OneText'
  <2>1. /\ Raw(n) \in Lines /\ Raw(n).ev = n /\ ~Raw(n).stamp /\ WriteLine(Raw(n))
        /\ cur' = Raw(n) /\ UNCHANGED <<stops, hook, pending>>
    BY <1>7, LinesAreTyped DEF Notice, AppendLine, Raw
  <2>2. \A x \in file : x.line.ev = n => x.line = Raw(n)
    BY EventsAssumption DEF OneText, TypeOK, Lines, Raw
  <2>3. /\ file \subseteq file' /\ \E x \in file' : x.line = Raw(n)
        /\ \A x \in file' : x.line.stamp => x.line.ev \in Prompts
        /\ stops = 0 /\ "slow" \notin Races =>
             \A x, y \in file' : x.line.ev = y.line.ev => x.line = y.line
        /\ \A x \in file' : x \in file \/ x.line.ev = n
    BY <2>1, <2>2, OneMoreText
  <2> QED
    BY <2>1, <2>3, EventsAssumption DEF OneText
<1>8. CASE NoRotation \/ RotationEnds \/ RotationFails
  <2>1. Answer(cur.ev, TRUE) /\ cur' = NoLine /\ UNCHANGED <<file, stops, pending>>
    BY <1>8 DEF NoRotation, RotationEnds, RotationFails, Return, disk
  <2>2. stops = 0 /\ "slow" \notin Races =>
          \A e \in Events : hook'[e] = hook[e] \/ (hook'[e] = "done" /\ e = cur.ev)
    BY <2>1 DEF Answer, TypeOK
  <2>3. ASSUME cur.ev \in Events, stops = 0, "slow" \notin Races PROVE cur.ev \notin pending
    <3>1. cur \in Lines
      BY <2>3, LinesAssumption DEF TypeOK, NoLine
    <3> QED
      BY <2>3, <3>1 DEF OneText
  <2> QED
    BY <1>1, <2>1, <2>2, <2>3
<1>9. CASE Crash \/ Shutdown
  <2>1. stops' # 0 /\ file' = file /\ cur' = NoLine
    BY <1>9 DEF Crash, Shutdown, Gone, disk, TypeOK
  <2> QED
    BY <2>1, LinesAreTyped DEF OneText
<1>10. CASE StoreLine \/ Advance \/ Boot \/ Drain \/ DrainEnds \/ \E rows \in SUBSET hot : Rotate(rows)
  BY <1>1, <1>10 DEF StoreLine, Advance, Boot, Drain, DrainEnds, Rotate
<1>11. CASE UNCHANGED vars
  BY <1>1, <1>11 DEF vars, process, disk
<1> QED
  BY <1>2, <1>3, <1>4, <1>5, <1>6, <1>7, <1>8, <1>9, <1>10, <1>11 DEF Next, StoreFails

(* Unless a database statement fails and the process goes on, no line is in *)
(* both tiers while requests are served, but for the rows in transit; and  *)
(* only a prompt has two lines, and only if the process stopped or a hook  *)
(* gave up.                                                                *)
THEOREM StoredInOneTier == ASSUME "dbfail" \notin Races PROVE Spec => []StoredOnce
<1>1. Init => TypeOK /\ Busy /\ Moving /\ CurStored /\ OnFile /\ OneTier /\ OneText
  BY TypeInit, JournalInit, LinesAreTyped DEF Init, OneTier, OneText
<1>2. TypeOK /\ Busy /\ Moving /\ CurStored /\ OnFile /\ OneTier /\ OneText /\ [Next]_vars
        => TypeOK' /\ Busy' /\ Moving' /\ CurStored' /\ OnFile' /\ OneTier' /\ OneText'
  BY TypeStep, StoreStep, CurStep, JournalStep, OneTierStep, OneTextStep
<1>3. TypeOK /\ OnFile /\ OneTier /\ OneText => StoredOnce
  <2> SUFFICES ASSUME TypeOK, OnFile, OneTier, OneText, stage = "open", pc # "moved"
               PROVE  /\ hot \cap arch = {}
                      /\ \A l, m \in hot \cup arch : l.ev = m.ev /\ l # m =>
                           l.ev \in Prompts /\ (stops > 0 \/ "slow" \in Races)
    BY DEF StoredOnce
  <2>1. hot \cap arch = {}
    BY DEF OneTier
  <2>2. ASSUME NEW l \in hot \cup arch, NEW m \in hot \cup arch, l.ev = m.ev, l # m
        PROVE  l.ev \in Prompts /\ (stops > 0 \/ "slow" \in Races)
    <3>1. l \in Lines /\ m \in Lines
      BY DEF TypeOK
    <3>2. l.stamp \/ m.stamp
      BY <2>2, <3>1 DEF Lines
    <3>3. PICK x \in file, y \in file : x.line = l /\ y.line = m
      BY DEF OnFile, Written
    <3>4. stops \in Nat
      BY StopsAssumption DEF TypeOK
    <3> QED
      BY <2>2, <3>2, <3>3, <3>4 DEF OneText
  <2> QED
    BY <2>1, <2>2
<1> QED
  BY <1>1, <1>2, <1>3, PTL DEF Spec

-----------------------------------------------------------------------------
(* Without races a line is stored when every other line is: the one in hand *)
(* is the last of the file, and a drain takes all that the offset has not  *)
(* passed.                                                                 *)
LEMMA StoresAll ==
    ASSUME Races = {}, TypeOK, Busy, Placed, NeverLost, OnFile, [Next]_vars, Stores
    PROVE  hot' \cup arch' = Written \/ hot' \cup arch' = hot \cup arch
<1>1. hot' \cup arch' \subseteq Written
  BY DEF Stores
<1>2. CASE StoreLine
  <2>1. \A x \in file : Known(x.line) \/ x.line = cur
    BY <1>2 DEF StoreLine, Placed, NeverLost
  <2>2. hot' \cup arch' = hot \cup arch \cup {cur}
    BY <1>2 DEF StoreLine, Insert, Known
  <2> QED
    BY <1>1, <2>1, <2>2 DEF Known, Written
<1>3. CASE Drain
  <2>1. hot' \cup arch' = hot \cup arch \cup LinesFrom(offset)
    BY <1>3 DEF Drain, Insert, Known
  <2> QED
    BY <1>1, <2>1 DEF NeverLost, LinesFrom, Known, Written
<1>4. CASE Boot
  BY <1>4 DEF Boot, Reconcile
<1>5. CASE RotationEnds
  BY <1>1, <1>5 DEF RotationEnds, Stores
<1>6. ASSUME NEW rows \in SUBSET hot, Rotate(rows)
      PROVE  hot' \cup arch' = hot \cup arch
  BY <1>6 DEF Rotate
<1>7. CASE UNCHANGED <<hot, arch>>
  BY <1>7
<1> QED
  BY <1>2, <1>3, <1>4, <1>5, <1>6, <1>7
     DEF Next, vars, process, disk, Post, Refused, GivesUp, FallsBack, Ingest, Notice,
         AppendLine, StoreFails, Advance, NoRotation, RotationFails, Crash, Shutdown,
         Gone, DrainEnds

(* The log implements the journal that stores in order, when hooks append   *)
(* to the file only while the sandbox is down or has not drained it, and   *)
(* its database does not fail: wherever the process dies, no line is       *)
(* stored while an earlier one waits, so that the database always holds    *)
(* the file up to some line.                                               *)
THEOREM TheOrderIsKept == ASSUME Races = {} PROVE Spec => KeepsOrder
<1>1. Init => /\ TypeOK /\ Busy /\ Moving /\ CurStored /\ OnFile /\ Placed /\ NeverLost
              /\ Book!Init
  BY TypeInit, JournalInit DEF Init, Placed, NeverLost
<1>2. ASSUME TypeOK, Busy, Moving, CurStored, OnFile, Placed, NeverLost, [Next]_vars
      PROVE  [Book!Report \/ Book!CatchUp]_(Book!vars)
  <2>1. Writes \/ Tells \/ Stores
    BY <1>2, JournalStep
  <2>2. CASE Stores
    <3>1. hot' \cup arch' = Written \/ hot' \cup arch' = hot \cup arch
      BY <1>2, <2>2, StoresAll
    <3> QED
      BY <2>2, <3>1 DEF Stores, Written, Book!CatchUp, Book!Texts, Book!vars
  <2> QED
    BY <2>1, <2>2, JournalMaps
<1>3. TypeOK /\ Busy /\ Moving /\ CurStored /\ OnFile /\ Placed /\ NeverLost /\ [Next]_vars
        => /\ TypeOK' /\ Busy' /\ Moving' /\ CurStored' /\ OnFile' /\ Placed' /\ NeverLost'
           /\ [Book!Report \/ Book!CatchUp]_(Book!vars)
  BY <1>2, TypeStep, StoreStep, CurStep, JournalStep, PlacedStep
<1> QED
  BY <1>1, <1>3, PTL DEF Spec, KeepsOrder, Book!InOrderSpec

=============================================================================
