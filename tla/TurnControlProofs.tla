--------------------------- MODULE TurnControlProofs ---------------------------
(***************************************************************************)
(* Proofs about TurnControl, for any peers, any number of messages, any    *)
(* cap on the queue of authors and any sets of overlaps: the flags the     *)
(* gate reads, the driver and the indicator.                               *)
(***************************************************************************)
EXTENDS TurnControl, SequenceTheorems, WellFoundedInduction, TLAPS

-----------------------------------------------------------------------------
(* The inductive invariant.                                                *)

(* The child has something to do. *)
Busy == Running \/ inbox # <<>>

(* No message on the way to a turn that is over or to a native command,    *)
(* and no frame in the middle of a turn.                                   *)
Apart == races \cap {"tail", "native", "early"} = {}

(* Then after the result nothing is pending, what is pending is indicated, *)
(* and a native command is alone.                                          *)
Pipe == Apart =>
    /\ due => inbox = <<>> /\ ~Running
    /\ inbox # <<>> => active
    /\ ~alive => inbox = <<>> /\ ~Running /\ ~due
    /\ cli.mode = "native" => inbox = <<>>
    /\ \A i \in DOMAIN inbox : inbox[i].mode = "native" => Len(inbox) = 1 /\ ~Running
    /\ alive /\ native => NativeBusy

(* The flags are those of the mode last given.  planRun may outlive its    *)
(* run when the model enters plan mode by itself, but planTurn then hides  *)
(* it.                                                                     *)
FlagsFit == FlagsPair =>
    /\ Busy => (planTurn <=> Given("plan")) /\ (Given("proceed") => planRun)
    /\ alive /\ ~Busy /\ ~due => ~planTurn

(* Steering included: planRun alone means an approved run. *)
RunsFit == HooksPair => (Busy /\ planRun /\ ~planTurn => Given("proceed"))

(* The first message of a turn is unread exactly while the last author in  *)
(* the queue is its own; the others are those of lost hooks.               *)
LastIs(u) == authors # <<>> /\ authors[Len(authors)].by = u /\ ~authors[Len(authors)].stale
LostHooks == "losthook" \in races

FirstFits ==
    IF Head(inbox).mode = "native" THEN LostHooks \/ authors = <<>>
    ELSE LastIs(Head(inbox).by) /\ (LostHooks \/ Len(authors) = 1)

AuthorsFit == HooksPair =>
    /\ tasks = {}
    /\ Running => active
    /\ alive /\ (Running \/ inbox = <<>>) => LostHooks \/ authors = <<>>
    /\ alive /\ ~Running /\ inbox # <<>> => FirstFits
    /\ Running /\ cli.mode # "native" /\ (LostHooks => authors = <<>>) => current.by = cli.by

Inv == TypeOK /\ ThinkingEnds /\ Pipe /\ FlagsFit /\ RunsFit /\ AuthorsFit

-----------------------------------------------------------------------------
(* Sequences of messages. *)
LEMMA LastingFacts == /\ "plan" \in Lasting /\ "proceed" \in Lasting
                      /\ "none" \notin Lasting /\ "plain" \notin Lasting /\ "native" \notin Lasting
  BY DEF Lasting

LEMMA InboxFacts ==
  ASSUME TypeOK
  PROVE  /\ Len(inbox) \in Nat /\ DOMAIN inbox = 1..Len(inbox) /\ inbox \in Seq(Turns)
         /\ \A i \in DOMAIN inbox : inbox[i] \in Turns
         /\ inbox = <<>> <=> DOMAIN inbox = {}
  BY DEF TypeOK

LEMMA EmptyLen ==
  ASSUME NEW S, NEW s \in Seq(S)
  PROVE  s = <<>> <=> Len(s) = 0
  BY EmptySeq

LEMMA TailFacts ==
  ASSUME NEW S, NEW s \in Seq(S), s # <<>>
  PROVE  /\ Len(s) \in Nat \ {0} /\ Tail(s) \in Seq(S) /\ Head(s) = s[1] /\ 1 \in DOMAIN s
         /\ DOMAIN s = 1..Len(s) /\ DOMAIN Tail(s) = 1..(Len(s) - 1)
         /\ \A i \in DOMAIN Tail(s) : i + 1 \in DOMAIN s /\ Tail(s)[i] = s[i + 1]
         /\ Len(s) = 1 => Tail(s) = <<>>
<1>1. Len(s) \in Nat \ {0} OBVIOUS
<1>2. Tail(s) \in Seq(S) /\ Len(Tail(s)) = Len(s) - 1 OBVIOUS
<1>3. Len(Tail(s)) = 0 => Tail(s) = <<>> BY <1>2, EmptySeq
<1> QED BY <1>1, <1>2, <1>3

(* An empty inbox: what is given is the turn's own. *)
LEMMA GivenEmpty ==
  ASSUME inbox = <<>>, NEW k
  PROVE  Given(k) <=> cli.mode = k
  BY DEF Given, Unread, NoneAfter

LEMMA GivenAlone ==
  ASSUME TypeOK
  PROVE  ~(Given("plan") /\ Given("proceed"))
<1> SUFFICES ASSUME Given("plan"), Given("proceed") PROVE FALSE OBVIOUS
<1>1. DOMAIN inbox = 1..Len(inbox) /\ Len(inbox) \in Nat BY InboxFacts
<1>2. \A i \in DOMAIN inbox : i > 0 BY <1>1
<1>3. CASE cli.mode = "plan" /\ NoneAfter(0)
  BY <1>2, <1>3, LastingFacts DEF Given, Unread, NoneAfter
<1>4. CASE \E i \in DOMAIN inbox : inbox[i].mode = "plan" /\ NoneAfter(i)
  <2>1. PICK i \in DOMAIN inbox : inbox[i].mode = "plan" /\ NoneAfter(i) BY <1>4
  <2>2. ~NoneAfter(0) BY <1>2, <2>1, LastingFacts DEF NoneAfter
  <2>3. PICK j \in DOMAIN inbox : inbox[j].mode = "proceed" /\ NoneAfter(j) BY <2>2 DEF Given, Unread
  <2>4. i # j BY <2>1, <2>3
  <2>5. i > j \/ j > i BY <1>1, <2>4
  <2> QED BY <2>1, <2>3, <2>5, LastingFacts DEF NoneAfter
<1> QED BY <1>3, <1>4 DEF Given, Unread

(* A message is written. *)
LEMMA GivenAppend ==
  ASSUME TypeOK, NEW m \in Turns, inbox' = Append(inbox, m), cli' = cli
  PROVE  /\ m.mode \in Lasting => \A k \in Lasting : Given(k)' <=> k = m.mode
         /\ m.mode \notin Lasting => \A k \in Lasting : Given(k)' <=> Given(k)
<1>0. PICK n \in Nat : n = Len(inbox) BY InboxFacts
<1>1. DOMAIN inbox = 1..n BY <1>0, InboxFacts
<1>2. /\ DOMAIN inbox' = 1..(n + 1) /\ inbox'[n + 1] = m
      /\ \A i \in 1..n : inbox'[i] = inbox[i]
  BY <1>0, InboxFacts
<1>3. \A i \in 0..n : NoneAfter(i)' <=> NoneAfter(i) /\ m.mode \notin Lasting
  <2> SUFFICES ASSUME NEW i \in 0..n PROVE NoneAfter(i)' <=> NoneAfter(i) /\ m.mode \notin Lasting
    OBVIOUS
  <2>1. n + 1 > i /\ n + 1 \in DOMAIN inbox' BY <1>1, <1>2
  <2>2. \A j \in DOMAIN inbox' : j = n + 1 \/ j \in DOMAIN inbox BY <1>1, <1>2
  <2> QED BY <1>1, <1>2, <2>1, <2>2 DEF NoneAfter
<1>4. NoneAfter(n + 1)' BY <1>1, <1>2 DEF NoneAfter
<1>5. CASE m.mode \in Lasting
  <2>1. \A i \in 0..n : ~NoneAfter(i)' BY <1>3, <1>5
  <2>2. \A i \in DOMAIN inbox' : NoneAfter(i)' => i = n + 1 BY <1>1, <1>2, <2>1
  <2>3. n + 1 \in DOMAIN inbox' /\ 0 \in 0..n BY <1>1, <1>2
  <2> QED BY <1>2, <1>4, <1>5, <2>1, <2>2, <2>3 DEF Given, Unread
<1>6. CASE m.mode \notin Lasting
  <2>1. \A i \in 0..n : NoneAfter(i)' <=> NoneAfter(i) BY <1>3, <1>6
  <2>2. 0 \in 0..n /\ \A i \in DOMAIN inbox : i \in 0..n BY <1>1
  <2>3. \A i \in DOMAIN inbox' : i = n + 1 \/ i \in DOMAIN inbox BY <1>1, <1>2
  <2>4. \A i \in DOMAIN inbox : i \in DOMAIN inbox' /\ inbox'[i] = inbox[i] BY <1>1, <1>2
  <2>5. ASSUME NEW k \in Lasting PROVE Given(k)' <=> Given(k)
    <3>1. Given(k) => Given(k)' BY <2>1, <2>2, <2>4 DEF Given, Unread
    <3>2. inbox'[n + 1].mode # k BY <1>2, <1>6
    <3>3. Given(k)' => Given(k) BY <2>1, <2>2, <2>3, <2>4, <3>2 DEF Given, Unread
    <3> QED BY <3>1, <3>3
  <2> QED BY <1>6, <2>5
<1> QED BY <1>5, <1>6

(* The head is read, and its mode, if lasting, is the turn's from then on. *)
LEMMA GivenRead ==
  ASSUME TypeOK, inbox # <<>>, inbox' = Tail(inbox),
         Head(inbox).mode \in Lasting => cli'.mode = Head(inbox).mode,
         Head(inbox).mode \notin Lasting =>
           cli'.mode = cli.mode \/ (cli'.mode \notin Lasting /\ cli.mode \notin Lasting)
  PROVE  \A k \in Lasting : Given(k)' <=> Given(k)
<1> DEFINE n == Len(inbox)
           h == Head(inbox).mode
<1>1. n \in Nat \ {0} /\ DOMAIN inbox = 1..n /\ h = inbox[1].mode
  BY InboxFacts
<1>2. DOMAIN inbox' = 1..(n - 1) /\ \A i \in 1..(n - 1) : inbox'[i] = inbox[i + 1]
  BY InboxFacts
<1> HIDE DEF n
<1>3. ASSUME NEW i \in 0..(n - 1) PROVE NoneAfter(i)' <=> NoneAfter(i + 1)
  <2>1. NoneAfter(i + 1) => NoneAfter(i)'
    <3> SUFFICES ASSUME NoneAfter(i + 1), NEW j \in DOMAIN inbox', j > i
                 PROVE  inbox'[j].mode \notin Lasting
      BY DEF NoneAfter
    <3>1. j + 1 \in DOMAIN inbox /\ j + 1 > i + 1 /\ inbox'[j] = inbox[j + 1] BY <1>1, <1>2
    <3> QED BY <3>1 DEF NoneAfter
  <2>2. NoneAfter(i)' => NoneAfter(i + 1)
    <3> SUFFICES ASSUME NoneAfter(i)', NEW j \in DOMAIN inbox, j > i + 1
                 PROVE  inbox[j].mode \notin Lasting
      BY DEF NoneAfter
    <3>1. j - 1 \in DOMAIN inbox' /\ j - 1 > i /\ inbox'[j - 1] = inbox[j] BY <1>1, <1>2
    <3> QED BY <3>1 DEF NoneAfter
  <2> QED BY <2>1, <2>2
<1>4. NoneAfter(0) <=> NoneAfter(1) /\ h \notin Lasting
  <2>1. \A j \in DOMAIN inbox : j > 0 <=> j = 1 \/ j > 1 BY <1>1
  <2>2. 1 \in DOMAIN inbox BY <1>1
  <2> QED BY <1>1, <2>1, <2>2 DEF NoneAfter
<1>5. NoneAfter(0)' <=> NoneAfter(1) BY <1>1, <1>3
<1> SUFFICES ASSUME NEW k \in Lasting PROVE Given(k)' <=> Given(k) OBVIOUS
<1>6. (\E i \in DOMAIN inbox' : inbox'[i].mode = k /\ NoneAfter(i)')
      <=> \E i \in DOMAIN inbox : i > 1 /\ inbox[i].mode = k /\ NoneAfter(i)
  <2>1. ASSUME NEW i \in DOMAIN inbox', inbox'[i].mode = k, NoneAfter(i)'
        PROVE  i + 1 \in DOMAIN inbox /\ i + 1 > 1 /\ inbox[i + 1].mode = k /\ NoneAfter(i + 1)
    BY <1>1, <1>2, <1>3, <2>1
  <2>2. ASSUME NEW i \in DOMAIN inbox, i > 1, inbox[i].mode = k, NoneAfter(i)
        PROVE  i - 1 \in DOMAIN inbox' /\ inbox'[i - 1].mode = k /\ NoneAfter(i - 1)'
    <3>1. i - 1 \in DOMAIN inbox' /\ i - 1 \in 0..(n - 1) /\ (i - 1) + 1 = i BY <1>1, <1>2, <2>2
    <3>2. inbox'[i - 1] = inbox[i] BY <1>2, <3>1
    <3> QED BY <1>3, <2>2, <3>1, <3>2
  <2> QED BY <2>1, <2>2
<1>7. (\E i \in DOMAIN inbox : inbox[i].mode = k /\ NoneAfter(i))
      <=> \/ h = k /\ NoneAfter(1)
          \/ \E i \in DOMAIN inbox : i > 1 /\ inbox[i].mode = k /\ NoneAfter(i)
  <2>1. \A i \in DOMAIN inbox : i = 1 \/ i > 1 BY <1>1
  <2>2. 1 \in DOMAIN inbox BY <1>1
  <2> QED BY <1>1, <2>1, <2>2
<1>8. h \in Lasting => cli'.mode = h OBVIOUS
<1>9. h \notin Lasting => cli'.mode = cli.mode \/ (cli'.mode \notin Lasting /\ cli.mode \notin Lasting)
  OBVIOUS
<1> HIDE DEF h
<1>10. CASE h \in Lasting BY <1>4, <1>5, <1>6, <1>7, <1>8, <1>10 DEF Given, Unread
<1>11. CASE h \notin Lasting BY <1>4, <1>5, <1>6, <1>7, <1>9, <1>11 DEF Given, Unread
<1> QED BY <1>10, <1>11

LEMMA GivenKept ==
  ASSUME inbox' = inbox, cli'.mode = cli.mode
  PROVE  \A k : Given(k)' <=> Given(k)
  BY DEF Given, Unread, NoneAfter

-----------------------------------------------------------------------------
(* The steps.                                                              *)
Good == ThinkingEnds /\ Pipe /\ FlagsFit /\ RunsFit /\ AuthorsFit

LEMMA NotBusy == ASSUME ~Busy PROVE \A k \in Lasting : ~Given(k)
<1>1. inbox = <<>> /\ cli.mode = "none" BY DEF Busy, Running, NoTurn
<1> QED BY <1>1, GivenEmpty, LastingFacts

(* What overlaps a behaviour admits does not change, and what each pair    *)
(* excludes contains what the pipe does.                                   *)
LEMMA RacesFacts ==
  /\ FlagsPair => Apart /\ "steer" \notin races /\ "cross" \notin races
  /\ HooksPair => Apart /\ "notify" \notin races
  /\ Apart => "tail" \notin races /\ "native" \notin races /\ "early" \notin races
  /\ races' = races => /\ (FlagsPair' <=> FlagsPair) /\ (HooksPair' <=> HooksPair)
                       /\ (Apart' <=> Apart) /\ (LostHooks' <=> LostHooks)
  BY DEF FlagsPair, HooksPair, Apart, LostHooks

(* A step that neither writes nor reads nor ends a turn. *)
LEMMA SameTurn ==
  ASSUME Inv, UNCHANGED <<races, alive, active, planTurn, planRun, authors, current,
                          native, cli, inbox, due, tasks>>
  PROVE  Good'
<1>1. \A k : Given(k)' <=> Given(k) BY GivenKept
<1>2. (FlagsPair' <=> FlagsPair) /\ (HooksPair' <=> HooksPair) BY RacesFacts
<1>3. (Busy' <=> Busy) /\ (Running' <=> Running) BY DEF Busy, Running
<1>4. ThinkingEnds' BY DEF Inv, ThinkingEnds, Running
<1>5. Pipe' BY RacesFacts DEF Inv, Pipe, Running, NativeBusy
<1>6. FlagsFit' /\ RunsFit' BY <1>1, <1>2, <1>3 DEF Inv, FlagsFit, RunsFit, Busy, Running
<1>7. AuthorsFit' BY RacesFacts DEF Inv, AuthorsFit, FirstFits, LastIs, Running
<1> QED BY <1>4, <1>5, <1>6, <1>7 DEF Good

(* Messages.                                                               *)
LEMMA QueueFacts ==
  ASSUME TypeOK, NEW u \in Users, NEW s \in {u, "host"}
  PROVE  /\ Queue \in Seq(Entries) /\ Queued(Queue, u, s) \in Seq(Entries)
         /\ Queued(Queue, u, s) # <<>>
         /\ Queued(Queue, u, s)[Len(Queued(Queue, u, s))] = [by |-> u, share |-> s, stale |-> FALSE]
         /\ Queue = <<>> => Len(Queued(Queue, u, s)) = 1
<1>1. Queue \in Seq(Entries) BY DEF TypeOK, Queue
<1> DEFINE e == [by |-> u, share |-> s, stale |-> FALSE]
           r == Append(Queue, e)
<1>2. e \in Entries BY DEF Entries, Users
<1>10. Queued(Queue, u, s) = IF Len(r) > MaxAuthors THEN Tail(r) ELSE r BY DEF Queued
<1> HIDE DEF e
<1>3. PICK n \in Nat : n = Len(Queue) BY <1>1
<1>4. r \in Seq(Entries) /\ Len(r) = n + 1 /\ r[n + 1] = e BY <1>1, <1>2, <1>3
<1> HIDE DEF r
<1>5. CASE n + 1 > MaxAuthors
  <2>1. r # <<>> /\ n > 0 BY <1>3, <1>4, <1>5, TurnsAssumption
  <2>2. Tail(r) \in Seq(Entries) /\ Len(Tail(r)) = n BY <1>3, <1>4, <2>1
  <2>3. Tail(r)[n] = r[n + 1] BY <1>3, <1>4, <2>1
  <2>4. Queued(Queue, u, s) = Tail(r) BY <1>4, <1>5, <1>10
  <2>5. Tail(r) # <<>>
    <3> DEFINE q == Tail(r)
    <3>1. q \in Seq(Entries) /\ Len(q) # 0 BY <2>1, <2>2
    <3> HIDE DEF q
    <3>2. q # <<>> BY <3>1, EmptyLen
    <3> QED BY <3>2 DEF q
  <2>6. Queue # <<>> BY <1>3, <2>1
  <2> QED BY <1>1, <1>4, <2>2, <2>3, <2>4, <2>5, <2>6 DEF e
<1>6. CASE ~(n + 1 > MaxAuthors)
  <2>1. Queued(Queue, u, s) = r BY <1>4, <1>6, <1>10
  <2>2. r # <<>> BY <1>3, <1>4
  <2>3. Queue = <<>> => n = 0 BY <1>3
  <2> QED BY <1>1, <1>3, <1>4, <2>1, <2>2, <2>3 DEF e
<1> QED BY <1>5, <1>6

LEMMA WrittenTypes ==
  ASSUME TypeOK, NEW mode \in Modes, NEW u \in Users, NEW s \in {u, "host"}, Written(mode, u, s)
  PROVE  /\ alive' \in BOOLEAN /\ active' \in BOOLEAN
         /\ planTurn' \in BOOLEAN /\ planRun' \in BOOLEAN /\ native' \in BOOLEAN
         /\ authors' \in Seq(Entries)
         /\ current' \in Drivers /\ trusted' \subseteq Peers
         /\ inbox' \in Seq(Turns) /\ written' \in 0..MaxTurns
<1>1. authors' \in Seq(Entries) BY QueueFacts DEF Written
<1>2. [mode |-> mode, by |-> u] \in Turns BY DEF Turns
<1>3. inbox' \in Seq(Turns) BY <1>2 DEF Written, TypeOK
<1>4. current' \in Drivers /\ trusted' \subseteq Peers BY DEF Written, TypeOK, Drivers, Users
<1>5. written' \in 0..MaxTurns BY TurnsAssumption DEF Written, TypeOK
<1>6. /\ alive' \in BOOLEAN /\ active' \in BOOLEAN
      /\ planTurn' \in BOOLEAN /\ planRun' \in BOOLEAN /\ native' \in BOOLEAN
  BY DEF Written, ModeFlags
<1> QED BY <1>1, <1>3, <1>4, <1>5, <1>6

LEMMA WrittenGood ==
  ASSUME Inv, NEW mode \in Modes, NEW u \in Users, NEW s \in {u, "host"}, Written(mode, u, s),
         UNCHANGED <<races, cli, due, tasks>>,
         mode = "native" /\ (active \/ Running) => "native" \in races,
         FlagsPair /\ mode = "plain" => ~Given("plan") /\ ~Given("proceed")
  PROVE  Good'
<1> DEFINE m == [mode |-> mode, by |-> u]
<1>1. TypeOK /\ m \in Turns /\ m.mode = mode /\ m.by = u BY DEF Inv, Turns
<1>2. /\ inbox' = Append(inbox, m) /\ alive' = TRUE /\ active' = TRUE
      /\ planTurn' = (mode = "plan") /\ planRun' = (mode = "proceed")
      /\ native' = (mode = "native")
      /\ (NativeBusy => "native" \in races) /\ (due => "tail" \in races)
  BY DEF Written, ModeFlags
<1> HIDE DEF m
<1>3. PICK n \in Nat : n = Len(inbox) /\ DOMAIN inbox = 1..n BY Zenon, <1>1, InboxFacts
<1>4. /\ inbox' # <<>> /\ DOMAIN inbox' = 1..(n + 1) /\ inbox'[n + 1] = m /\ Len(inbox') = n + 1
      /\ \A i \in 1..n : inbox'[i] = inbox[i]
  BY <1>1, <1>2, <1>3, InboxFacts
<1>5. (FlagsPair' <=> FlagsPair) /\ (HooksPair' <=> HooksPair) /\ Running' = Running
  BY RacesFacts DEF Running
<1>6. ThinkingEnds' BY <1>4 DEF ThinkingEnds
<1>7. Pipe'
  <2> SUFFICES ASSUME Apart
               PROVE  /\ ~due /\ cli.mode # "native"
                      /\ \A i \in DOMAIN inbox' : inbox'[i].mode = "native" =>
                           Len(inbox') = 1 /\ ~Running
                      /\ native' => NativeBusy'
    BY <1>2, <1>5, RacesFacts DEF Pipe
  <2>1. ~due /\ cli.mode # "native" /\ ~NativeBusy BY <1>2, RacesFacts DEF NativeBusy
  <2>2. \A i \in 1..n : inbox'[i].mode # "native" BY <1>3, <1>4, <2>1 DEF NativeBusy
  <2>3. mode = "native" => n = 0 /\ ~Running
    BY <1>1, <1>3, InboxFacts, RacesFacts DEF Inv, Pipe
  <2>4. native' => NativeBusy'
    <3>1. n + 1 \in DOMAIN inbox' /\ inbox'[n + 1].mode = mode BY <1>1, <1>4
    <3> QED BY <1>2, <3>1 DEF NativeBusy
  <2> QED BY <1>1, <1>4, <2>1, <2>2, <2>3, <2>4
<1>8. FlagsFit'
  <2> SUFFICES ASSUME FlagsPair
               PROVE  /\ (mode = "plan") <=> Given("plan")'
                      /\ Given("proceed")' => mode = "proceed"
    BY <1>2, <1>4, <1>5 DEF FlagsFit, Busy
  <2>1. CASE mode \in Lasting BY <1>1, <1>2, <2>1, GivenAppend, LastingFacts
  <2>2. CASE mode \notin Lasting
    <3>1. ~Given("plan") /\ ~Given("proceed")
      <4>1. mode = "plain" \/ mode = "native" BY <2>2 DEF Modes, Lasting
      <4>2. CASE mode = "native"
        <5>1. ~Busy BY <4>2, RacesFacts DEF Inv, Pipe, Busy
        <5> QED BY <5>1, NotBusy, LastingFacts
      <4> QED BY <4>1, <4>2
    <3>2. ~Given("plan")' /\ ~Given("proceed")' BY <1>1, <1>2, <2>2, <3>1, GivenAppend, LastingFacts
    <3> QED BY <2>2, <3>2, LastingFacts
  <2> QED BY <2>1, <2>2
<1>9. RunsFit'
  <2> SUFFICES ASSUME mode = "proceed" PROVE Given("proceed")' BY <1>2 DEF RunsFit
  <2> QED BY <1>1, <1>2, GivenAppend, LastingFacts
<1>10. AuthorsFit'
  <2> SUFFICES ASSUME HooksPair
      PROVE  /\ tasks = {}
             /\ Running => LostHooks \/ authors' = <<>>
             /\ ~Running => FirstFits'
             /\ Running /\ cli.mode # "native" /\ (LostHooks => authors' = <<>>) => current'.by = cli.by
    BY <1>2, <1>4, <1>5, RacesFacts DEF AuthorsFit
  <2>1. /\ tasks = {} /\ (Running => active /\ alive) /\ ~due /\ ~NativeBusy
        /\ (inbox # <<>> => active /\ alive)
    BY <1>2, RacesFacts DEF Inv, AuthorsFit, Pipe
  <2>2. Running => authors' = authors /\ current' = current
    BY <2>1 DEF Written, Queue
  <2>3. ASSUME ~Running, inbox # <<>>
        PROVE  FirstFits'
    <3>1. authors' = authors BY <2>1, <2>3 DEF Written, Queue
    <3>2. Head(inbox') = Head(inbox)
      <4>1. n # 0 BY <1>1, <1>3, <2>3, InboxFacts
      <4>2. inbox'[1] = inbox[1] BY <1>4, <4>1
      <4> QED BY <1>4, <2>3, <4>2
    <3> QED BY <2>1, <2>3, <3>1, <3>2 DEF Inv, AuthorsFit, FirstFits, LastIs, LostHooks
  <2>4. ASSUME ~Running, inbox = <<>>
        PROVE  FirstFits'
    <3>1. Head(inbox') = m BY <1>2, <2>4
    <3>2. ~(alive /\ active) BY <2>1, <2>4 DEF Inv, ThinkingEnds
    <3>3. LostHooks \/ Queue = <<>> BY <2>4 DEF Queue, Inv, AuthorsFit
    <3>4. authors' = IF mode = "native" THEN Queue ELSE Queued(Queue, u, s)
      BY <3>2 DEF Written
    <3>5. CASE mode = "native" BY <1>1, <3>1, <3>3, <3>4, <3>5, RacesFacts DEF FirstFits
    <3>6. CASE mode # "native"
      <4>1. authors' = Queued(Queue, u, s) BY <3>4, <3>6
      <4>2. LastIs(u)'
        <5>1. authors' # <<>> /\ authors'[Len(authors')] = [by |-> u, share |-> s, stale |-> FALSE]
          BY <1>1, <4>1, QueueFacts
        <5> QED BY <5>1 DEF LastIs
      <4>3. LostHooks \/ Len(authors') = 1 BY <1>1, <3>3, <4>1, QueueFacts
      <4> QED BY <1>1, <3>1, <3>6, <4>2, <4>3, RacesFacts DEF FirstFits
    <3> QED BY <3>5, <3>6
  <2>5. Running /\ cli.mode # "native" /\ (LostHooks => authors' = <<>>) => current'.by = cli.by
    BY <2>2 DEF Inv, AuthorsFit
  <2>6. Running => LostHooks \/ authors' = <<>> BY <2>1, <2>2 DEF Inv, AuthorsFit
  <2> QED BY <2>1, <2>3, <2>4, <2>5, <2>6
<1> QED BY <1>6, <1>7, <1>8, <1>9, <1>10 DEF Good

LEMMA UserWritesInv ==
  ASSUME Inv, NEW u \in Users, NEW mode \in {"plain", "plan", "native"}, UserWrites(u, mode)
  PROVE  Inv'
<1>1. /\ mode = "native" /\ (active \/ Running) => "native" \in races
      /\ mode = "plain" /\ (Given("plan") \/ Given("proceed")) => "steer" \in races
      /\ Written(mode, u, u) /\ card' \in {card, NoCard}
      /\ UNCHANGED <<races, auto, review, cli, parked, due, stopping, tasks>>
  BY DEF UserWrites
<1>2. mode \in Modes BY DEF Modes
<1>3. TypeOK' BY <1>1, <1>2, WrittenTypes DEF Inv, TypeOK
<1>4. FlagsPair => "steer" \notin races BY RacesFacts
<1>5. Good' BY <1>1, <1>2, <1>4, WrittenGood
<1> QED BY <1>3, <1>5 DEF Inv, Good

LEMMA DecideReviewInv ==
  ASSUME Inv, NEW u \in Users, NEW mode \in {"plan", "proceed"}, DecideReview(u, mode)
  PROVE  Inv'
<1>1. /\ Written(mode, u, "host") /\ card' \in {card, NoCard} /\ review' = FALSE
      /\ UNCHANGED <<races, auto, cli, parked, due, stopping, tasks>>
  BY DEF DecideReview
<1>2. mode \in Modes /\ "host" \in Users /\ mode # "native" /\ mode # "plain" BY DEF Modes, Users
<1>3. TypeOK' BY <1>1, <1>2, WrittenTypes DEF Inv, TypeOK
<1>4. Good' BY <1>1, <1>2, WrittenGood
<1> QED BY <1>3, <1>4 DEF Inv, Good

(* An answered question: the relayed mode is plain only when neither the   *)
(* question nor an open run asks for another.                              *)
LEMMA AnswerInv == ASSUME Inv, NEW u \in Users, Answer(u) PROVE Inv'
<1>1. /\ Given("plan") /\ ~card.plan => "steer" \in races
      /\ card' = NoCard /\ parked' = FALSE /\ Written(RelayMode, u, "host")
      /\ UNCHANGED <<races, auto, review, cli, due, stopping, tasks>>
  BY DEF Answer
<1>2. RelayMode \in Modes /\ RelayMode # "native" /\ "host" \in Users
  BY DEF RelayMode, Modes, Users
<1>3. TypeOK' BY <1>1, <1>2, WrittenTypes DEF Inv, TypeOK
<1>4. FlagsPair /\ RelayMode = "plain" => ~Given("plan") /\ ~Given("proceed")
  <2> SUFFICES ASSUME FlagsPair, RelayMode = "plain" PROVE ~Given("plan") /\ ~Given("proceed")
    OBVIOUS
  <2>1. ~card.plan /\ ~planRun BY DEF RelayMode
  <2>2. ~Given("plan") BY <1>1, <2>1, RacesFacts
  <2>3. CASE Busy BY <2>1, <2>2, <2>3 DEF Inv, FlagsFit
  <2>4. CASE ~Busy BY <2>4, NotBusy, LastingFacts
  <2> QED BY <2>3, <2>4
<1>5. Good' BY <1>1, <1>2, <1>4, WrittenGood
<1> QED BY <1>3, <1>5 DEF Inv, Good

(* Cards and switches, which leave the turn alone. *)
LEMMA SwitchesInv ==
  ASSUME Inv,
         \/ \E always \in BOOLEAN : Decide(always)
         \/ \E on \in BOOLEAN : SetSessionAutoMode(on)
         \/ GateTimeout
  PROVE  Inv'
<1>1. UNCHANGED <<races, alive, active, planTurn, planRun, authors, current, native, review,
                  cli, inbox, due, stopping, tasks, written>>
  BY DEF Decide, SetSessionAutoMode, GateTimeout, slot, child
<1>2. /\ auto' \in BOOLEAN /\ parked' \in BOOLEAN /\ card' \in Cards \cup {NoCard}
      /\ trusted' \subseteq Peers
  BY DEF Inv, TypeOK, Decide, SetSessionAutoMode, GateTimeout, slot, child
<1>3. TypeOK' BY <1>1, <1>2 DEF Inv, TypeOK
<1>4. Good' BY <1>1, SameTurn
<1> QED BY <1>3, <1>4 DEF Inv, Good

-----------------------------------------------------------------------------
(* The child's turns.                                                      *)
LEMMA PopTypes ==
  ASSUME TypeOK, PopPendingAuthor
  PROVE  authors' \in Seq(Entries) /\ current' \in Drivers
<1> DEFINE Rest(n) == SubSeq(authors, n + 1, Len(authors))
<1>1. PICK n \in 0..Len(authors) :
        /\ current' = IF Rest(n) = <<>> THEN current
                      ELSE [by |-> Rest(n)[1].by, share |-> Rest(n)[1].share]
        /\ authors' = IF Rest(n) = <<>> THEN Rest(n) ELSE Tail(Rest(n))
  BY DEF PopPendingAuthor
<1>2. authors \in Seq(Entries) /\ Len(authors) \in Nat BY DEF TypeOK
<1>3. Rest(n) \in Seq(Entries)
  <2>1. n + 1 \in 1..(Len(authors) + 1) BY <1>2
  <2>2. \A i \in (n + 1)..Len(authors) : authors[i] \in Entries BY <1>2
  <2> QED BY <1>2, <2>1, SubSeqProperties
<1> HIDE DEF Rest
<1>4. Rest(n) # <<>> => Rest(n)[1] \in Entries /\ Tail(Rest(n)) \in Seq(Entries) BY <1>3
<1> QED BY <1>1, <1>3, <1>4 DEF Entries, Drivers, TypeOK

(* The last author is fresh: either the hook takes that one, or it leaves  *)
(* some author in the queue, and with one author it is the former.         *)
LEMMA PopLast ==
  ASSUME TypeOK, NEW u, LastIs(u), PopPendingAuthor
  PROVE  /\ authors' = <<>> => current'.by = u
         /\ Len(authors) = 1 => authors' = <<>>
<1> DEFINE k == Len(authors)
           Rest(n) == SubSeq(authors, n + 1, k)
<1>1. PICK n \in 0..k :
        /\ \A i \in 1..n : authors[i].stale
        /\ current' = IF Rest(n) = <<>> THEN current
                      ELSE [by |-> Rest(n)[1].by, share |-> Rest(n)[1].share]
        /\ authors' = IF Rest(n) = <<>> THEN Rest(n) ELSE Tail(Rest(n))
  BY DEF PopPendingAuthor
<1>2. authors \in Seq(Entries) /\ k \in Nat \ {0} /\ authors[k].by = u /\ ~authors[k].stale
  BY DEF TypeOK, LastIs
<1> HIDE DEF k
<1>3. n < k
  <2> SUFFICES ASSUME n = k PROVE FALSE BY <1>2
  <2> QED BY <1>1, <1>2
<1>4. /\ Rest(n) \in Seq(Entries) /\ Len(Rest(n)) = k - n
      /\ \A i \in 1..(k - n) : Rest(n)[i] = authors[n + i]
  <2>1. /\ n + 1 \in 1..(k + 1) /\ \A i \in (n + 1)..k : authors[i] \in Entries
    BY <1>2, <1>3 DEF k
  <2>2. Rest(n) \in Seq(Entries) BY <1>2, <2>1, SubSeqProperties
  <2>3. n + 1 <= k /\ n + 1 \in Int /\ k \in Int BY <1>2, <1>3
  <2>4. Len(Rest(n)) = k - n BY <1>2, <1>3, <2>3
  <2>5. \A i \in 1..(k - n) : Rest(n)[i] = authors[n + i] BY <1>2, <1>3, <2>3
  <2> QED BY <2>2, <2>4, <2>5
<1> HIDE DEF Rest
<1>5. Rest(n) # <<>> /\ Rest(n)[1] = authors[n + 1] BY <1>2, <1>3, <1>4
<1>6. authors' = Tail(Rest(n)) /\ current'.by = authors[n + 1].by BY <1>1, <1>5
<1>7. authors' = <<>> => k - n = 1
  <2>1. Len(Tail(Rest(n))) = k - n - 1 BY <1>3, <1>4, <1>5
  <2>2. Len(<<>>) = 0 OBVIOUS
  <2>3. authors' = <<>> => k - n - 1 = 0 BY <1>6, <2>1, <2>2
  <2> QED BY <1>2, <1>3, <2>3
<1>8. k = 1 => authors' = <<>>
  <2> SUFFICES ASSUME k = 1 PROVE authors' = <<>> OBVIOUS
  <2>1. Len(Rest(n)) = 1 BY <1>3, <1>4
  <2> QED BY <1>4, <1>5, <1>6, <2>1, TailFacts
<1>9. authors' = <<>> => n + 1 = k BY <1>2, <1>7
<1> QED BY <1>2, <1>6, <1>8, <1>9 DEF k

LEMMA StartTurnInv == ASSUME Inv, StartTurn PROVE Inv'
<1>1. /\ alive /\ ~Running /\ inbox # <<>>
      /\ cli' = Head(inbox) /\ inbox' = Tail(inbox)
      /\ UNCHANGED <<races, alive, active, planTurn, planRun, auto, native, trusted, card, review,
                     parked, due, stopping, tasks, written>>
      /\ \/ Head(inbox).mode # "native" /\ PopPendingAuthor
         \/ /\ Head(inbox).mode = "native" \/ "losthook" \in races
            /\ UNCHANGED <<authors, current>>
  BY DEF StartTurn
<1>2. TypeOK /\ Head(inbox) \in Turns /\ Tail(inbox) \in Seq(Turns) BY <1>1 DEF Inv, TypeOK
<1>3. TypeOK'
  <2>1. authors' \in Seq(Entries) /\ current' \in Drivers BY <1>1, <1>2, PopTypes DEF TypeOK
  <2> QED BY <1>1, <1>2, <2>1 DEF TypeOK
<1>4. Running'
  <2>1. Head(inbox).mode # "none" BY <1>2 DEF Turns, Modes
  <2> QED BY <1>1, <2>1 DEF Running, NoTurn
<1>5. \A k \in Lasting : Given(k)' <=> Given(k)
  <2>1. cli.mode = "none" BY <1>1 DEF Running, NoTurn
  <2> QED BY <1>1, <1>2, <2>1, LastingFacts, GivenRead
<1>6. (FlagsPair' <=> FlagsPair) /\ (HooksPair' <=> HooksPair) BY <1>1, RacesFacts
<1>7. ThinkingEnds' BY <1>4 DEF ThinkingEnds
<1>8. Pipe'
  <2> SUFFICES ASSUME Apart
               PROVE  /\ active /\ ~due /\ (Head(inbox).mode = "native" => inbox' = <<>>)
                      /\ \A i \in DOMAIN inbox' : inbox'[i].mode # "native"
                      /\ native => NativeBusy'
    BY <1>1, RacesFacts DEF Pipe
  <2>1. active /\ ~due /\ (native => NativeBusy) /\ \A i \in DOMAIN inbox : inbox[i].mode = "native" => Len(inbox) = 1
    BY <1>1 DEF Inv, Pipe
  <2>2. PICK n \in Nat : n = Len(inbox) /\ DOMAIN inbox = 1..n BY Zenon, <1>2, InboxFacts
  <2>3. /\ Head(inbox) = inbox[1] /\ 1 \in DOMAIN inbox
        /\ \A i \in DOMAIN inbox' : i + 1 \in DOMAIN inbox /\ inbox'[i] = inbox[i + 1]
        /\ Len(inbox) = 1 => inbox' = <<>>
    BY <1>1, <1>2, InboxFacts, TailFacts
  <2>4. DOMAIN inbox' = 1..(n - 1) BY <1>1, <1>2, <2>2, InboxFacts, TailFacts
  <2>5. Head(inbox).mode = "native" => inbox' = <<>> BY <2>1, <2>3
  <2>6. ASSUME NEW i \in DOMAIN inbox' PROVE inbox'[i].mode # "native"
    <3>1. i + 1 \in DOMAIN inbox /\ n # 1 /\ inbox'[i] = inbox[i + 1] BY <2>2, <2>3, <2>4
    <3> QED BY <2>1, <2>2, <3>1
  <2>7. native => NativeBusy'
    <3> SUFFICES ASSUME NativeBusy PROVE Head(inbox).mode = "native" BY <1>1, <2>1 DEF NativeBusy
    <3>1. PICK i \in DOMAIN inbox : inbox[i].mode = "native" BY <1>1 DEF NativeBusy, Running, NoTurn
    <3>2. i = 1 BY <2>1, <2>2, <3>1
    <3> QED BY <2>3, <3>1, <3>2
  <2> QED BY <2>1, <2>5, <2>6, <2>7
<1>9. FlagsFit'
  <2> SUFFICES ASSUME FlagsPair
               PROVE  (planTurn <=> Given("plan")') /\ (Given("proceed")' => planRun)
    BY <1>1, <1>4, <1>6 DEF FlagsFit, Busy
  <2> QED BY <1>1, <1>5, LastingFacts DEF Inv, FlagsFit, Busy
<1>10. RunsFit' BY <1>1, <1>5, <1>6, LastingFacts DEF Inv, RunsFit, Busy
<1>11. AuthorsFit'
  <2> SUFFICES ASSUME HooksPair
               PROVE  /\ tasks = {} /\ active /\ (LostHooks \/ authors' = <<>>)
                      /\ Head(inbox).mode # "native" /\ authors' = <<>> => current'.by = Head(inbox).by
    BY <1>1, <1>4, <1>6, RacesFacts DEF AuthorsFit
  <2>1. tasks = {} /\ active BY <1>1, RacesFacts DEF Inv, AuthorsFit, Pipe
  <2>2. FirstFits BY <1>1 DEF Inv, AuthorsFit
  <2>3. CASE Head(inbox).mode = "native" BY <1>1, <2>1, <2>2, <2>3 DEF FirstFits, LostHooks
  <2>4. CASE Head(inbox).mode # "native" /\ PopPendingAuthor
    BY <1>2, <2>1, <2>2, <2>4, PopLast DEF FirstFits
  <2>5. CASE Head(inbox).mode # "native" /\ LostHooks /\ UNCHANGED <<authors, current>>
    <3>1. authors' # <<>> BY <2>2, <2>5 DEF FirstFits, LastIs
    <3> QED BY <2>1, <2>5, <3>1
  <2> QED BY <1>1, <2>3, <2>4, <2>5 DEF LostHooks
<1> QED BY <1>3, <1>7, <1>8, <1>9, <1>10, <1>11 DEF Inv

LEMMA SpliceInv == ASSUME Inv, Splice PROVE Inv'
<1>1. /\ Calling /\ inbox # <<>> /\ inbox' = Tail(inbox)
      /\ cli' = IF Head(inbox).mode \in Lasting THEN [cli EXCEPT !.mode = Head(inbox).mode] ELSE cli
      /\ UNCHANGED <<races, alive, slot, parked, due, stopping, tasks, written>>
  BY DEF Splice, Lasting
<1>2. TypeOK /\ Running /\ cli \in Turns /\ Head(inbox) \in Turns /\ Tail(inbox) \in Seq(Turns)
  BY <1>1 DEF Inv, TypeOK, Calling, Running
<1>3. cli' \in Turns /\ cli'.by = cli.by
      /\ cli'.mode = IF Head(inbox).mode \in Lasting THEN Head(inbox).mode ELSE cli.mode
  BY <1>1, <1>2 DEF Turns, Modes
<1>4. TypeOK' BY <1>1, <1>2, <1>3 DEF TypeOK, slot
<1>5. Running'
  <2>1. cli'.mode # "none" BY <1>3 DEF Turns, Modes
  <2> QED BY <2>1 DEF Running, NoTurn
<1>6. \A k \in Lasting : Given(k)' <=> Given(k) BY <1>1, <1>2, <1>3, GivenRead
<1>7. (FlagsPair' <=> FlagsPair) /\ (HooksPair' <=> HooksPair) BY <1>1, RacesFacts
<1>8. UNCHANGED <<active, planTurn, planRun, authors, current, native>> BY <1>1 DEF slot
<1>9. ThinkingEnds' BY <1>5 DEF ThinkingEnds
<1>10. cli.mode # "native" /\ cli'.mode # "native"
  <2>1. cli.mode # "native" BY <1>1 DEF Calling
  <2> QED BY <1>3, <2>1 DEF Lasting
<1>11. Pipe'
  <2> SUFFICES ASSUME Apart
               PROVE  /\ active /\ ~due /\ alive /\ ~native
                      /\ \A i \in DOMAIN inbox' : inbox'[i].mode # "native"
    BY <1>1, <1>8, <1>10, RacesFacts DEF Pipe
  <2>1. /\ active /\ ~due /\ alive /\ ~native
        /\ \A i \in DOMAIN inbox : inbox[i].mode # "native"
    BY <1>1, <1>2, <1>10 DEF Inv, Pipe, NativeBusy
  <2>2. PICK n \in Nat : n = Len(inbox) /\ n # 0 /\ DOMAIN inbox = 1..n BY <1>1, <1>2, InboxFacts
  <2>3. DOMAIN inbox' = 1..(n - 1) /\ \A i \in 1..(n - 1) : inbox'[i] = inbox[i + 1]
    BY <1>1, <1>2, <2>2, InboxFacts
  <2>4. \A i \in DOMAIN inbox' : i + 1 \in DOMAIN inbox BY <2>2, <2>3
  <2> QED BY <2>1, <2>3, <2>4
<1>12. FlagsFit'
  <2> SUFFICES ASSUME FlagsPair
               PROVE  (planTurn <=> Given("plan")') /\ (Given("proceed")' => planRun)
    BY <1>5, <1>7, <1>8 DEF FlagsFit, Busy
  <2> QED BY <1>2, <1>6, LastingFacts DEF Inv, FlagsFit, Busy
<1>13. RunsFit' BY <1>2, <1>6, <1>7, <1>8, LastingFacts DEF Inv, RunsFit, Busy
<1>14. AuthorsFit'
  <2> SUFFICES ASSUME HooksPair
      PROVE  /\ tasks = {} /\ active /\ (alive => LostHooks \/ authors = <<>>)
             /\ (LostHooks => authors = <<>>) => current.by = cli.by
    BY <1>1, <1>3, <1>5, <1>7, <1>8, RacesFacts DEF AuthorsFit
  <2> QED BY <1>2, <1>10 DEF Inv, AuthorsFit
<1> QED BY <1>4, <1>9, <1>11, <1>12, <1>13, <1>14 DEF Inv

(* The end of a turn, and what the sandbox makes of it. *)
LEMMA EndTurnInv == ASSUME Inv, EndTurn PROVE Inv'
<1>1. /\ Running /\ cli.mode # "native" /\ inbox' = inbox /\ cli' = NoTurn /\ due' = TRUE
      /\ stopping' = TRUE /\ (inbox # <<>> => Head(inbox).mode = "native")
      /\ UNCHANGED <<races, alive, active, planTurn, planRun, auto, authors, current, native,
                     trusted, card, review, parked, tasks, written>>
  BY DEF EndTurn, Calling, slot
<1>2. TypeOK' BY <1>1 DEF Inv, TypeOK
<1>3. ~Running' BY <1>1 DEF Running
<1>4. ThinkingEnds' BY <1>1 DEF ThinkingEnds
<1>5. Apart => inbox = <<>> /\ alive /\ ~native
  <2> SUFFICES ASSUME Apart PROVE inbox = <<>> /\ alive /\ ~native OBVIOUS
  <2>1. TypeOK BY DEF Inv
  <2>2. inbox # <<>> => 1 \in DOMAIN inbox /\ inbox[1].mode = "native" BY <1>1, <2>1, InboxFacts
  <2>3. alive /\ inbox = <<>> BY <1>1, <2>2 DEF Inv, Pipe
  <2> QED BY <1>1, <2>1, <2>3, InboxFacts DEF Inv, Pipe, NativeBusy
<1>6. Pipe' BY <1>1, <1>3, <1>5, RacesFacts DEF Inv, Pipe, NoTurn
<1>7. Apart => ~Busy' BY <1>1, <1>3, <1>5 DEF Busy
<1>8. FlagsFit' /\ RunsFit' BY <1>1, <1>7, RacesFacts DEF FlagsFit, RunsFit
<1>9. AuthorsFit' BY <1>1, <1>3, <1>5, RacesFacts DEF Inv, AuthorsFit
<1> QED BY <1>2, <1>4, <1>6, <1>8, <1>9 DEF Inv

LEMMA NativeEndsInv == ASSUME Inv, NativeEnds PROVE Inv'
<1>1. /\ cli.mode = "native" /\ cli' = NoTurn /\ due' = TRUE
      /\ native' = FALSE /\ active' = (active /\ ~native)
      /\ UNCHANGED <<races, alive, planTurn, planRun, auto, authors, current, trusted, card,
                     review, parked, inbox, stopping, tasks, written>>
  BY DEF NativeEnds, SyntheticFrame
<1>2. TypeOK' BY <1>1 DEF Inv, TypeOK
<1>3. Running /\ ~Running' BY <1>1 DEF Running, NoTurn
<1>4. ThinkingEnds' BY <1>1 DEF ThinkingEnds
<1>5. Apart => inbox = <<>> /\ alive BY <1>1, <1>3 DEF Inv, Pipe
<1>6. Pipe' BY <1>1, <1>3, <1>5, RacesFacts DEF Inv, Pipe, NoTurn
<1>7. FlagsFit' /\ RunsFit'
  <2>1. Apart => ~Busy' BY <1>1, <1>3, <1>5 DEF Busy
  <2> QED BY <1>1, <2>1, RacesFacts DEF FlagsFit, RunsFit
<1>8. AuthorsFit' BY <1>1, <1>3, <1>5, RacesFacts DEF Inv, AuthorsFit
<1> QED BY <1>2, <1>4, <1>6, <1>7, <1>8 DEF Inv

(* Without a native command in the way the flag is down in a turn. *)
LEMMA AutoCompactsInv == ASSUME Inv, AutoCompacts PROVE Inv'
<1>1. /\ Running /\ cli.mode # "native" /\ native /\ native' = FALSE /\ active' = FALSE
      /\ UNCHANGED <<races, alive, planTurn, planRun, auto, authors, current, trusted, card,
                     review, cli, parked, inbox, due, stopping, tasks, written>>
  BY DEF AutoCompacts, SyntheticFrame, Calling, child
<1>2. TypeOK' BY <1>1 DEF Inv, TypeOK
<1>3. ~Apart BY <1>1 DEF Inv, Pipe, NativeBusy
<1>4. ThinkingEnds' BY <1>1 DEF ThinkingEnds
<1>5. Pipe' BY <1>1, <1>3, RacesFacts DEF Pipe
<1>6. FlagsFit' /\ RunsFit' /\ AuthorsFit' BY <1>1, <1>3, RacesFacts DEF FlagsFit, RunsFit, AuthorsFit
<1> QED BY <1>2, <1>4, <1>5, <1>6 DEF Inv

LEMMA StopHookInv == ASSUME Inv, StopHook PROVE Inv'
<1>1. /\ due /\ active' = FALSE /\ stopping' = FALSE
      /\ UNCHANGED <<races, alive, planTurn, planRun, auto, authors, current, native, trusted, card,
                     review, cli, parked, inbox, due, tasks, written>>
  BY DEF StopHook
<1>2. TypeOK' BY <1>1 DEF Inv, TypeOK
<1>3. Running' = Running /\ Busy' = Busy BY <1>1 DEF Running, Busy
<1>4. \A k : Given(k)' <=> Given(k) BY <1>1, GivenKept
<1>5. ThinkingEnds' BY <1>1 DEF ThinkingEnds
<1>6. Pipe' BY <1>1, <1>3, RacesFacts DEF Inv, Pipe, NativeBusy
<1>7. FlagsFit' /\ RunsFit' BY <1>1, <1>3, <1>4, RacesFacts DEF Inv, FlagsFit, RunsFit
<1>8. AuthorsFit'
  <2>1. Apart => ~Running BY <1>1 DEF Inv, Pipe
  <2> QED BY <1>1, <1>3, <2>1, RacesFacts DEF Inv, AuthorsFit, FirstFits, LastIs
<1> QED BY <1>2, <1>5, <1>6, <1>7, <1>8 DEF Inv

LEMMA ResultFrameInv == ASSUME Inv, ResultFrame PROVE Inv'
<1>1. /\ due /\ due' = FALSE /\ active' = FALSE /\ planTurn' = FALSE /\ planRun' = FALSE
      /\ native' = FALSE /\ stopping' = FALSE
      /\ UNCHANGED <<races, alive, auto, authors, current, trusted, card, review, cli, parked,
                     inbox, tasks, written>>
  BY DEF ResultFrame, ResultClears
<1>2. TypeOK' BY <1>1 DEF Inv, TypeOK
<1>3. Running' = Running /\ Busy' = Busy BY <1>1 DEF Running, Busy
<1>4. Apart => ~Running /\ inbox = <<>> /\ ~Busy
  BY <1>1 DEF Inv, Pipe, Busy
<1>5. ThinkingEnds' BY <1>1 DEF ThinkingEnds
<1>6. Pipe' BY <1>1, <1>3, <1>4, RacesFacts DEF Inv, Pipe
<1>7. FlagsFit' /\ RunsFit' BY <1>1, <1>3, <1>4, RacesFacts DEF FlagsFit, RunsFit
<1>8. AuthorsFit' BY <1>1, <1>3, <1>4, RacesFacts DEF Inv, AuthorsFit
<1> QED BY <1>2, <1>5, <1>6, <1>7, <1>8 DEF Inv

LEMMA EarlyResultInv == ASSUME Inv, EarlyResult PROVE Inv'
<1>1. /\ "early" \in races /\ active' = FALSE /\ planTurn' = FALSE /\ planRun' = FALSE
      /\ native' = FALSE
      /\ UNCHANGED <<races, alive, auto, authors, current, trusted, card, review, cli, parked,
                     inbox, due, stopping, tasks, written>>
  BY DEF EarlyResult, ResultClears, child
<1>2. TypeOK' BY <1>1 DEF Inv, TypeOK
<1>3. ThinkingEnds' BY <1>1 DEF ThinkingEnds
<1>4. Pipe' BY <1>1, RacesFacts DEF Pipe
<1>5. FlagsFit' /\ RunsFit' /\ AuthorsFit' BY <1>1, RacesFacts DEF FlagsFit, RunsFit, AuthorsFit
<1> QED BY <1>2, <1>3, <1>4, <1>5 DEF Inv

(* Some unread message is the last to give a mode, if one gives any. *)
LEMMA LastOne ==
  ASSUME TypeOK, ~NoneAfter(0)
  PROVE  \E i \in DOMAIN inbox : inbox[i].mode \in Lasting /\ NoneAfter(i)
<1>1. PICK n \in Nat : n = Len(inbox) /\ DOMAIN inbox = 1..n BY Zenon, InboxFacts
<1> DEFINE T == {m \in Nat : m < n /\ inbox[n - m].mode \in Lasting}
           R == {p \in Nat \X Nat : p[1] < p[2]}
<1>2. PICK i \in 1..n : inbox[i].mode \in Lasting BY <1>1 DEF NoneAfter
<1>3. n - i \in T BY <1>2
<1>4. IsWellFoundedOn(R, Nat) BY NatLessThanWellFounded DEF OpToRel
<1>5. PICK m \in T : \A y \in T : ~(<<y, m>> \in R)
  <2> HIDE DEF R
  <2>1. T \subseteq Nat /\ T # {} BY <1>3
  <2> HIDE DEF T
  <2> QED BY <1>4, <2>1, WFMin
<1>6. n - m \in 1..n /\ inbox[n - m].mode \in Lasting BY <1>1
<1>7. ASSUME NEW j \in 1..n, j > n - m PROVE inbox[j].mode \notin Lasting
  <2>1. n - j \in Nat /\ n - j < m /\ n - j < n /\ n - (n - j) = j BY <1>7
  <2>2. n - j \notin T BY <1>5, <2>1
  <2> QED BY <2>1, <2>2
<1> QED BY <1>1, <1>6, <1>7 DEF NoneAfter

(* Entering plan mode is the one call that changes the turn. *)
LEMMA EnterInv ==
  ASSUME Inv, Calling, Unread("proceed") => "cross" \in races,
         planTurn' = TRUE, cli' = [cli EXCEPT !.mode = "plan"],
         UNCHANGED <<races, alive, active, planRun, auto, authors, current, native, trusted, card,
                     review, parked, inbox, due, stopping, tasks, written>>
  PROVE  Inv'
<1>1. Running /\ cli \in Turns /\ cli.mode # "native" BY DEF Inv, TypeOK, Calling, Running
<1>2. cli' \in Turns /\ cli'.mode = "plan" /\ cli'.by = cli.by BY <1>1 DEF Turns, Modes
<1>3. TypeOK' BY <1>2 DEF Inv, TypeOK
<1>4. Running' BY <1>2 DEF Running, NoTurn
<1>5. Unread("proceed")' <=> Unread("proceed") BY DEF Unread, NoneAfter
<1>6. "cross" \notin races => Given("plan")' /\ ~Given("proceed")'
  <2> SUFFICES ASSUME ~Unread("proceed") PROVE Given("plan")' /\ ~Given("proceed")' OBVIOUS
  <2>1. ~Given("proceed")' BY <1>2, <1>5 DEF Given
  <2>2. CASE NoneAfter(0) BY <1>2, <2>1, <2>2 DEF Given, NoneAfter
  <2>3. CASE ~NoneAfter(0)
    <3>1. TypeOK BY DEF Inv
    <3>2. \E i \in DOMAIN inbox : inbox[i].mode \in Lasting /\ NoneAfter(i) BY <2>3, <3>1, LastOne
    <3>3. Unread("plan") BY <3>2 DEF Unread, Lasting
    <3>4. Unread("plan")' BY <3>3 DEF Unread, NoneAfter
    <3> QED BY <2>1, <3>4 DEF Given
  <2> QED BY <2>2, <2>3
<1>7. ThinkingEnds' BY <1>4 DEF ThinkingEnds
<1>8. Pipe' BY <1>1, <1>2, <1>4, RacesFacts DEF Inv, Pipe, NativeBusy
<1>9. FlagsFit' /\ RunsFit' BY <1>4, <1>6, RacesFacts DEF FlagsFit, RunsFit, Busy
<1>10. AuthorsFit' BY <1>1, <1>2, <1>4, RacesFacts DEF Inv, AuthorsFit
<1> QED BY <1>3, <1>7, <1>8, <1>9, <1>10 DEF Inv

LEMMA CallToolInv == ASSUME Inv, NEW k \in Kinds, CallTool(k) PROVE Inv'
<1>1. /\ Calling
      /\ UNCHANGED <<races, alive, active, planRun, auto, authors, current, native, trusted, inbox,
                     due, stopping, tasks, written>>
  BY DEF CallTool
<1>2. CASE /\ Unread("proceed") => "cross" \in races
           /\ planTurn' = TRUE /\ cli' = [cli EXCEPT !.mode = "plan"]
           /\ UNCHANGED <<card, review, parked>>
  BY <1>1, <1>2, EnterInv
<1>3. CASE review' = TRUE /\ UNCHANGED <<planTurn, cli, card, parked>>
  <2>1. TypeOK' BY <1>1, <1>3 DEF Inv, TypeOK
  <2> QED BY <1>1, <1>3, <2>1, SameTurn DEF Inv, Good
<1>4. CASE /\ "card" \in Answers(k, Flags)
           /\ card' = [kind |-> k, share |-> current.share, plan |-> planTurn]
           /\ parked' = TRUE /\ UNCHANGED <<planTurn, cli, review>>
  <2>1. k \in {"ask", "write", "critical", "share"} BY <1>4 DEF Answers, Kinds
  <2>2. card' \in Cards BY <1>4, <2>1 DEF Inv, TypeOK, Cards, Drivers
  <2>3. TypeOK' BY <1>1, <1>4, <2>2 DEF Inv, TypeOK
  <2> QED BY <1>1, <1>4, <2>3, SameTurn DEF Inv, Good
<1> QED BY <1>2, <1>3, <1>4 DEF CallTool

(* Background tasks. *)
LEMMA TasksInv ==
  ASSUME Inv, SpawnTask \/ \E u \in Users : Notification(u) PROVE Inv'
<1>1. CASE SpawnTask
  <2>1. /\ "notify" \in races /\ Running /\ tasks' = tasks \cup {cli.by}
        /\ UNCHANGED <<races, alive, active, planTurn, planRun, auto, authors, current, native,
                       trusted, card, review, cli, parked, inbox, due, stopping, written>>
    BY <1>1 DEF SpawnTask, Calling, slot
  <2>2. cli \in Turns BY <2>1 DEF Inv, TypeOK, Running
  <2>3. TypeOK' BY <2>1, <2>2 DEF Inv, TypeOK, Turns
  <2>4. \A k : Given(k)' <=> Given(k) BY <2>1, GivenKept
  <2>5. ThinkingEnds' /\ Pipe' BY <2>1, RacesFacts DEF Inv, ThinkingEnds, Pipe, Running, NativeBusy
  <2>6. FlagsFit' /\ RunsFit' BY <2>1, <2>4, RacesFacts DEF Inv, FlagsFit, RunsFit, Busy, Running
  <2>7. AuthorsFit' BY <2>1, RacesFacts DEF AuthorsFit
  <2> QED BY <2>3, <2>5, <2>6, <2>7 DEF Inv
<1>2. ASSUME NEW u \in Users, Notification(u) PROVE Inv'
  <2>1. /\ u \in tasks /\ alive /\ ~Running /\ inbox = <<>> /\ tasks' = tasks \ {u}
        /\ due => "tail" \in races
        /\ cli' = [mode |-> "plain", by |-> u]
        /\ UNCHANGED <<races, alive, active, planTurn, planRun, auto, authors, current, native,
                       trusted, card, review, parked, inbox, due, stopping, written>>
    BY <1>2 DEF Notification, slot
  <2>2. ~HooksPair' BY <2>1, RacesFacts DEF Inv, AuthorsFit
  <2>3. cli' \in Turns BY <2>1 DEF Turns, Modes
  <2>4. TypeOK' BY <2>1, <2>3 DEF Inv, TypeOK
  <2>5. Running' BY <2>1 DEF Running, NoTurn
  <2>6. ~Given("plan")' /\ ~Given("proceed")' BY <2>1 DEF Given, Unread, NoneAfter
  <2>7. ThinkingEnds' BY <2>5 DEF ThinkingEnds
  <2>8. Pipe' BY <2>1, RacesFacts DEF Inv, Pipe, NativeBusy, Running, NoTurn
  <2>9. FlagsFit' BY <2>1, <2>5, <2>6, RacesFacts DEF Inv, FlagsFit, Busy
  <2>10. RunsFit' /\ AuthorsFit' BY <2>2 DEF RunsFit, AuthorsFit
  <2> QED BY <2>4, <2>7, <2>8, <2>9, <2>10 DEF Inv
<1> QED BY <1>1, <1>2

LEMMA ChildGoneInv == ASSUME Inv, ChildGone PROVE Inv'
<1>1. /\ alive' = FALSE /\ active' = FALSE /\ cli' = NoTurn /\ parked' = FALSE
      /\ inbox' = <<>> /\ due' = FALSE /\ stopping' = FALSE /\ tasks' = {}
      /\ UNCHANGED <<races, planTurn, planRun, auto, authors, current, native, trusted, card, review,
                     written>>
  BY DEF ChildGone
<1>2. TypeOK'
  <2>1. inbox' \in Seq(Turns) /\ tasks' \subseteq Users BY <1>1
  <2> QED BY <1>1, <2>1 DEF Inv, TypeOK
<1>3. ~Running' /\ ~Busy' BY <1>1 DEF Running, Busy
<1>4. ThinkingEnds' BY <1>1 DEF ThinkingEnds
<1>5. Pipe' BY <1>1, <1>3 DEF Pipe, NoTurn
<1>6. FlagsFit' /\ RunsFit' /\ AuthorsFit' BY <1>1, <1>3 DEF FlagsFit, RunsFit, AuthorsFit
<1> QED BY <1>2, <1>4, <1>5, <1>6 DEF Inv

(* The author of an unread first message does not age. *)
LEMMA AuthorAgesInv == ASSUME Inv, NEW n \in DOMAIN authors, AuthorAges(n) PROVE Inv'
<1>1. /\ Running \/ inbox = <<>> \/ n < Len(authors)
      /\ authors' = [i \in DOMAIN authors |-> IF i > n THEN authors[i]
                                               ELSE [authors[i] EXCEPT !.stale = TRUE]]
      /\ UNCHANGED <<races, alive, active, planTurn, planRun, auto, current, native, trusted, card,
                     review, cli, parked, inbox, due, stopping, tasks, written>>
  BY DEF AuthorAges, child
<1>2. authors \in Seq(Entries) BY DEF Inv, TypeOK
<1>3. PICK k \in Nat : k = Len(authors) /\ DOMAIN authors = 1..k BY <1>2
<1>4. ASSUME NEW i \in 1..k PROVE authors'[i] \in Entries
  <2>1. authors[i] \in Entries BY <1>2, <1>3
  <2> QED BY <1>1, <1>3, <2>1 DEF Entries
<1>5. authors' \in Seq(Entries) /\ Len(authors') = k
  <2>1. authors' = [i \in 1..k |-> authors'[i]] BY <1>1, <1>3
  <2>2. authors' \in Seq(Entries) BY <1>4, <2>1, IsASeq
  <2> QED BY <2>1, <2>2
<1>6. TypeOK' BY <1>1, <1>5 DEF Inv, TypeOK
<1>7. \A j : Given(j)' <=> Given(j) BY <1>1, GivenKept
<1>8. ThinkingEnds' /\ Pipe' BY <1>1, RacesFacts DEF Inv, ThinkingEnds, Pipe, Running, NativeBusy
<1>9. FlagsFit' /\ RunsFit' BY <1>1, <1>7, RacesFacts DEF Inv, FlagsFit, RunsFit, Busy, Running
<1>10. authors # <<>> /\ k # 0 BY <1>2, <1>3
<1>11. authors' # <<>> BY <1>5, <1>10
<1>12. AuthorsFit'
  <2> SUFFICES ASSUME HooksPair PROVE AuthorsFit' BY <1>1, RacesFacts DEF AuthorsFit
  <2>1. CASE ~alive
    <3>1. ~Running /\ inbox = <<>> /\ tasks = {} BY <2>1, RacesFacts DEF Inv, Pipe, AuthorsFit
    <3> QED BY <1>1, <2>1, <3>1 DEF AuthorsFit, Running
  <2>2. CASE alive /\ (Running \/ inbox = <<>>)
    <3>1. LostHooks BY <1>10, <2>2 DEF Inv, AuthorsFit
    <3> QED BY <1>1, <1>11, <2>2, <3>1, RacesFacts DEF Inv, AuthorsFit, Running
  <2>3. CASE alive /\ ~Running /\ inbox # <<>>
    <3>1. n < k /\ n \in 1..k BY <1>1, <1>3, <2>3
    <3>2. authors'[k] = authors[k] BY <1>1, <1>3, <3>1
    <3>3. \A u : LastIs(u) => LastIs(u)' BY <1>3, <1>5, <1>11, <3>2 DEF LastIs
    <3>4. LostHooks
      <4> SUFFICES ASSUME ~LostHooks PROVE FALSE OBVIOUS
      <4>1. authors = <<>> \/ Len(authors) = 1 BY <2>3 DEF Inv, AuthorsFit, FirstFits
      <4> QED BY <1>3, <1>10, <3>1, <4>1
    <3> QED BY <1>1, <2>3, <3>3, <3>4, RacesFacts DEF Inv, AuthorsFit, FirstFits, Running
  <2> QED BY <2>1, <2>2, <2>3
<1> QED BY <1>6, <1>8, <1>9, <1>12 DEF Inv

-----------------------------------------------------------------------------
LEMMA InitInv == ASSUME Init PROVE Inv
<1>1. TypeOK
  <2>1. authors \in Seq(Entries) /\ inbox \in Seq(Turns) BY DEF Init
  <2>2. current \in Drivers /\ trusted \subseteq Peers /\ tasks \subseteq Users
    BY DEF Init, Users, Drivers
  <2>3. written \in 0..MaxTurns BY TurnsAssumption DEF Init
  <2> QED BY <2>1, <2>2, <2>3 DEF Init, TypeOK
<1>2. ~Running /\ ~Busy BY DEF Init, Running, Busy
<1>3. ThinkingEnds /\ FlagsFit /\ RunsFit BY <1>2 DEF Init, ThinkingEnds, FlagsFit, RunsFit
<1>4. Pipe BY <1>2 DEF Init, Pipe, NoTurn
<1>5. AuthorsFit BY <1>2 DEF Init, AuthorsFit
<1> QED BY <1>1, <1>3, <1>4, <1>5 DEF Inv

LEMMA NextInv == ASSUME Inv, [Next]_vars PROVE Inv'
<1>1. CASE UNCHANGED vars
  <2>1. UNCHANGED <<races, alive, active, planTurn, planRun, auto, authors, current, native, trusted,
                    card, review, cli, parked, inbox, due, stopping, tasks, written>>
    BY <1>1 DEF vars, slot, child
  <2>2. TypeOK' BY <2>1 DEF Inv, TypeOK
  <2> QED BY <2>1, <2>2, SameTurn DEF Inv, Good
<1>2. ASSUME NEW u \in Users, NEW mode \in {"plain", "plan", "native"}, UserWrites(u, mode)
      PROVE  Inv'
  BY <1>2, UserWritesInv
<1>3. ASSUME NEW u \in Users, Approve(u) \/ Reject(u) PROVE Inv'
  BY <1>3, DecideReviewInv DEF Approve, Reject
<1>4. ASSUME NEW u \in Users, Answer(u) PROVE Inv' BY <1>4, AnswerInv
<1>5. CASE (\E u \in Users : Notification(u)) \/ SpawnTask BY <1>5, TasksInv
<1>6. CASE \/ \E always \in BOOLEAN : Decide(always)
           \/ \E on \in BOOLEAN : SetSessionAutoMode(on)
           \/ GateTimeout
  BY <1>6, SwitchesInv
<1>7. ASSUME NEW k \in Kinds, CallTool(k) PROVE Inv' BY <1>7, CallToolInv
<1>8. CASE StartTurn \/ Splice \/ EndTurn \/ NativeEnds \/ AutoCompacts
  BY <1>8, StartTurnInv, SpliceInv, EndTurnInv, NativeEndsInv, AutoCompactsInv
<1>9. CASE StopHook \/ ResultFrame \/ EarlyResult
  BY <1>9, StopHookInv, ResultFrameInv, EarlyResultInv
<1>10. CASE ChildGone \/ \E n \in DOMAIN authors : AuthorAges(n)
  BY <1>10, ChildGoneInv, AuthorAgesInv
<1> QED BY <1>1, <1>2, <1>3, <1>4, <1>5, <1>6, <1>7, <1>8, <1>9, <1>10 DEF Next

(* The invariant of every behaviour, whatever it admits. *)
THEOREM Invariance == Spec => []Inv
<1>1. Init => Inv BY InitInv
<1>2. Inv /\ [Next]_vars => Inv' BY NextInv
<1> QED BY <1>1, <1>2, PTL DEF Spec

-----------------------------------------------------------------------------
(* The theorems.                                                           *)

(* Every variable keeps its type. *)
THEOREM TypeCorrect == Spec => []TypeOK
<1>1. Inv => TypeOK BY DEF Inv
<1> QED BY <1>1, Invariance, PTL

(* While a turn given in plan mode runs, the gate refuses every call that  *)
(* changes something (createPermissionRequest, the plan-mode block).       *)
THEOREM PlanIsKept == Spec => []PlanHolds
<1>1. Inv => PlanHolds
  <2> SUFFICES ASSUME Inv, FlagsPair, Calling, Given("plan"), NEW k \in Mutating
               PROVE  Answers(k, Flags) = {"deny"}
    BY DEF PlanHolds
  <2>1. planTurn BY DEF Inv, FlagsFit, Busy, Calling
  <2>2. k \notin {"read", "ask"} BY DEF Mutating
  <2> QED BY <2>1, <2>2 DEF Answers, Flags
<1> QED BY <1>1, Invariance, PTL

(* While an approved plan is executed its routine calls raise no card      *)
(* (respondToPermission and the relay of answers included).                *)
THEOREM ApprovedIsFree == Spec => []ApprovedRunsFree
<1>1. Inv => ApprovedRunsFree
  <2> SUFFICES ASSUME Inv, FlagsPair, Calling, Given("proceed")
               PROVE  Answers("write", Flags) = {"allow"}
    BY DEF ApprovedRunsFree
  <2>1. ~Given("plan") BY GivenAlone DEF Inv
  <2>2. planRun /\ ~planTurn BY <2>1 DEF Inv, FlagsFit, Busy, Calling
  <2> QED BY <2>2 DEF Answers, Flags, Unattended
<1> QED BY <1>1, Invariance, PTL

(* A routine call passes without a card only for a reason somebody gave:   *)
(* an approval, auto mode, or trust in the peer who drives the turn.       *)
THEOREM NothingPassesUnmeant == Spec => []UnattendedIsMeant
<1>1. Inv => UnattendedIsMeant
  <2> SUFFICES ASSUME Inv, DriverPaired, Calling, "allow" \in Answers("write", Flags)
               PROVE  Given("proceed") \/ auto \/ cli.by \in trusted
    BY DEF UnattendedIsMeant
  <2>1. ~planTurn /\ (planRun \/ current.share \in trusted \/ auto) BY DEF Answers, Flags, Unattended
  <2>2. Busy /\ current.by = cli.by /\ HooksPair
    BY DEF Inv, AuthorsFit, Busy, Calling, DriverPaired, LostHooks
  <2>3. current.share \in {current.by, "host"} BY DEF Inv, TypeOK, Drivers
  <2>4. current.share \in trusted => cli.by \in trusted
    BY <2>2, <2>3, PeersAssumption DEF Inv, TypeOK
  <2> QED BY <2>1, <2>2, <2>4 DEF Inv, RunsFit
<1> QED BY <1>1, Invariance, PTL

(* The turn is attributed to the person who wrote it (popPendingAuthor).   *)
THEOREM TheDriverIsKnown == Spec => []DriverKnown
<1>1. Inv => DriverKnown BY DEF Inv, DriverKnown, DriverPaired, AuthorsFit, Calling, LostHooks
<1> QED BY <1>1, Invariance, PTL

(* Whatever overlaps, the indicator is off when nothing could end a turn.  *)
THEOREM TheIndicatorGoesOff == Spec => []ThinkingEnds
<1>1. Inv => ThinkingEnds BY DEF Inv
<1> QED BY <1>1, Invariance, PTL

=============================================================================
