------------------------------ MODULE Journal ------------------------------
(***************************************************************************)
(* What the event log promises, without hooks, offsets, tiers or crashes:  *)
(* lines are written, the database takes in what was written and keeps it, *)
(* and a reporter is through once it learned that a line of its report is  *)
(* stored, or gave up asking and wrote one itself.                         *)
(***************************************************************************)
CONSTANTS
    Reports,    \* what there is to report, each by its own reporter
    Lines,      \* the lines that may be written
    LineOf(_)   \* the lines that tell of a report

VARIABLES
    written,    \* the entries written so far: a line, at its place
    stored,     \* the lines the database has
    reporter    \* [Reports -> {"asking", "alone", "through"}]

vars == <<written, stored, reporter>>

Texts == {x.line : x \in written}

Init ==
    /\ written = {} /\ stored = {}
    /\ reporter = [r \in Reports |-> "asking"]

(* One more entry, be its line there already or not. *)
Adds(l) == \E x \in written' \ written : x.line = l /\ written' = written \cup {x}

Through(r) == reporter' = [reporter EXCEPT ![r] = "through"]

(* The log writes a line; a reporter that is on its own writes its line. *)
Write(l) == Adds(l) /\ UNCHANGED <<stored, reporter>>

WriteOwn(r) ==
    /\ reporter[r] = "alone" /\ Through(r)
    /\ \E l \in LineOf(r) : Adds(l)
    /\ UNCHANGED stored

(* A reporter learns that its report is stored. *)
Tell(r) ==
    /\ reporter[r] = "asking" /\ Through(r)
    /\ LineOf(r) \cap stored # {}
    /\ UNCHANGED <<written, stored>>

(* Some that have no answer are on their own. *)
GiveUp(rs) ==
    /\ \A r \in rs : reporter[r] = "asking"
    /\ reporter' = [r \in Reports |-> IF r \in rs THEN "alone" ELSE reporter[r]]
    /\ UNCHANGED <<written, stored>>

(* The database takes in some of what is written ... *)
Store ==
    /\ stored \subseteq stored' /\ stored' \subseteq Texts
    /\ UNCHANGED <<written, reporter>>

(* ... or all of it, which leaves no line behind. *)
CatchUp == stored' = Texts /\ UNCHANGED <<written, reporter>>

Report ==
    \/ \E l \in Lines : Write(l)
    \/ \E r \in Reports : WriteOwn(r) \/ Tell(r)
    \/ \E rs \in SUBSET Reports : GiveUp(rs)

(* Nothing stored is lost, nothing is stored that was not written, and     *)
(* nobody is told too early ...                                            *)
Spec == Init /\ [][Report \/ Store]_vars

(* ... and what is written earlier is never stored later. *)
InOrderSpec == Init /\ [][Report \/ CatchUp]_vars
=============================================================================
