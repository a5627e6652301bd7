------------------------ MODULE PermissionGateProofs ------------------------
(***************************************************************************)
(* Proofs about PermissionGate, for any number of asks and ids and any     *)
(* kinds of calls.  The types hold with every race; the rest holds unless  *)
(* an id is used again while something of its older ask is left.           *)
(***************************************************************************)
EXTENDS PermissionGate, TLAPS

-----------------------------------------------------------------------------
(* Types.                                                                  *)

(* The kinds a call may be of are not the mark of an ask not yet made. *)
LEMMA KindsAreKinds == Calls \subseteq Kinds \cup {"guest"} /\ "none" \notin Calls
BY CallsAssumption DEF Kinds

(* No ask is not an ask. *)
LEMMA NoAskIsNone == NoAsk \notin Asks
BY AsksAssumption DEF Asks, NoAsk

(* The answers of the gate are the four it knows. *)
LEMMA AnswersAreTyped ==
    ASSUME NEW k
    PROVE  AnswersTo(k) \subseteq {"allow", "deny", "card", "later"}
<1>1. ASSUME NEW f PROVE Answers(k, f) \subseteq {"allow", "deny", "card", "later"}
  BY DEF Answers
<1> QED
  BY <1>1 DEF AnswersTo

LEMMA RequestIsTyped ==
    ASSUME TypeOK, NEW a \in Asks, NEW i \in Ids, NEW k \in Calls,
           NEW out \in {"allow", "deny", "card", "later"}, Request(a, i, k, out)
    PROVE  /\ kind' \in [Asks -> Calls \cup {"none"}] /\ id' \in [Asks -> Ids \cup {NoId}]
           /\ stash' \in [Ids -> [out : {"none", "allow", "deny"}, for : Asks \cup {NoAsk}]]
           /\ clocks' \subseteq Asks /\ drops' \subseteq Asks /\ tools' \subseteq Asks
           /\ cards' \subseteq Asks /\ stray' \subseteq Asks
           /\ allowedBy' \in [Asks -> {"none", "policy", "host", "peer"}]
           /\ verdict' = verdict /\ slotUp' = slotUp
BY DEF TypeOK, Request, Cleared, NoDecision, NoAsk

LEMMA EndsIsTyped ==
    ASSUME TypeOK, NEW a \in Asks, NEW out, Ends(a, out)
    PROVE  /\ phase' \in [Asks -> {"new", "asked", "polling", "left", "done", "dead"}]
           /\ verdict' \in [Asks -> {"none", "allow", "deny"}]
           /\ kind' \in [Asks -> Calls \cup {"none"}] /\ id' \in [Asks -> Ids \cup {NoId}]
           /\ reply' \in [Asks -> {"none", "allow", "deny"}]
BY DEF TypeOK, Ends, Told

(* An ask that was made has an id, from the moment it is made. *)
Named == \A a \in Asks : phase[a] # "new" => id[a] \in Ids /\ kind[a] \in Calls

(* Everything that refers to an ask refers to one that was made. *)
Made == \A a \in Asks :
    a \in cards \cup stray \cup tools \cup clocks \cup waits \cup drops => phase[a] # "new"

LEMMA EndsKeepsNames ==
    ASSUME TypeOK, Named, NEW a \in Asks, NEW out, phase[a] # "new", Ends(a, out)
    PROVE  Named' /\ \A b \in Asks : phase[b] # "new" => phase'[b] # "new"
<1>1. phase' = [phase EXCEPT ![a] = "done"] /\ UNCHANGED <<kind, id>>
  BY DEF Ends
<1> QED
  BY <1>1 DEF TypeOK, Named

LEMMA SettleIsTyped ==
    ASSUME TypeOK, NEW b \in Asks, id[b] \in Ids, NEW out \in {"allow", "deny"}, Settle(b, out)
    PROVE  /\ phase' \in [Asks -> {"new", "asked", "polling", "left", "done", "dead"}]
           /\ verdict' \in [Asks -> {"none", "allow", "deny"}]
           /\ kind' \in [Asks -> Calls \cup {"none"}] /\ id' \in [Asks -> Ids \cup {NoId}]
           /\ reply' \in [Asks -> {"none", "allow", "deny"}]
           /\ stash' \in [Ids -> [out : {"none", "allow", "deny"}, for : Asks \cup {NoAsk}]]
           /\ waiter' \in [Ids -> Asks \cup {NoAsk}]
           /\ clocks' \subseteq Asks /\ waits' \subseteq Asks
<1>1. CASE waiter[id[b]] # NoAsk
  <2> DEFINE w == waiter[id[b]]
  <2>1. w \in Asks
    BY <1>1 DEF TypeOK
  <2>2. /\ waiter' = [waiter EXCEPT ![id[b]] = NoAsk] /\ waits' = waits \ {w}
        /\ UNCHANGED <<stash, clocks>>
        /\ IF StillWaits(w) THEN Ends(w, out) ELSE UNCHANGED hooks
    BY <1>1 DEF Settle, SettleWaiter
  <2>3. CASE StillWaits(w)
    BY <2>1, <2>2, <2>3, EndsIsTyped DEF TypeOK
  <2>4. CASE ~StillWaits(w)
    BY <2>1, <2>2, <2>4 DEF TypeOK, hooks
  <2> QED
    BY <2>3, <2>4
<1>2. CASE waiter[id[b]] = NoAsk
  BY <1>2 DEF Settle, TypeOK, hooks
<1> QED
  BY <1>1, <1>2

(* Every step keeps the types, and the names of asks. *)
Typed == TypeOK /\ Named /\ Made

LEMMA TypeStep ==
    ASSUME Typed, [Next]_vars
    PROVE  Typed'
<1> USE KindsAreKinds, NoAskIsNone DEF Typed
<1>1. ASSUME NEW a \in Asks, NEW i \in Ids, NEW k \in Calls, Ask(a, i, k)
      PROVE  Typed'
  <2>1. PICK out \in AnswersTo(k) : Request(a, i, k, out)
    BY <1>1 DEF Ask
  <2>2. out \in {"allow", "deny", "card", "later"}
    BY AnswersAreTyped
  <2>3. phase' = [phase EXCEPT ![a] = "asked"] /\ reply' = [reply EXCEPT ![a] = stash'[i].out]
        /\ UNCHANGED <<waiter, waits>>
    BY <1>1 DEF Ask
  <2>4. TypeOK'
    BY <2>1, <2>2, <2>3, RequestIsTyped DEF TypeOK
  <2> QED
    BY <2>1, <2>2, <2>3, <2>4 DEF TypeOK, Named, Made, Request
<1>2. ASSUME NEW a \in Asks, NEW i \in Ids, "guest" \in Calls, GuestAsk(a, i)
      PROVE  Typed'
  <2>1. PICK out \in AnswersTo("critical") :
          /\ Request(a, i, "guest", out)
          /\ phase' = [phase EXCEPT ![a] = IF out = "deny" THEN "dead" ELSE "polling"]
          /\ IF out = "deny" THEN UNCHANGED <<waiter, waits>>
             ELSE waiter' = [waiter EXCEPT ![i] = a] /\ waits' = waits \cup {a}
    BY <1>2 DEF GuestAsk
  <2>2. out \in {"allow", "deny", "card", "later"} /\ reply' = reply
    BY <1>2, AnswersAreTyped DEF GuestAsk
  <2>3. phase' \in [Asks -> {"new", "asked", "polling", "left", "done", "dead"}]
    BY <2>1 DEF TypeOK
  <2>4. waiter' \in [Ids -> Asks \cup {NoAsk}] /\ waits' \subseteq Asks
    BY <2>1 DEF TypeOK
  <2>5. TypeOK'
    BY <1>2, <2>1, <2>2, <2>3, <2>4, RequestIsTyped DEF TypeOK
  <2>6. phase'[a] # "new" /\ \A b \in Asks : b # a => phase'[b] = phase[b]
    BY <2>1 DEF TypeOK
  <2>7. Named'
    BY <1>2, <2>1, <2>6 DEF TypeOK, Named, Request
  <2>8. waits' \subseteq waits \cup {a}
    BY <2>1
  <2> QED
    BY <2>1, <2>5, <2>6, <2>7, <2>8 DEF Made, Request
<1>3. ASSUME NEW a \in Asks, NEW out, phase[a] # "new", Ends(a, out),
             UNCHANGED <<clocks, slotUp, cards, stray, drops, tools, allowedBy, waiter, waits, stash>>
      PROVE  Typed'
  <2>1. TypeOK'
    BY <1>3, EndsIsTyped DEF TypeOK
  <2>2. Named' /\ \A b \in Asks : phase[b] # "new" => phase'[b] # "new"
    BY <1>3, EndsKeepsNames
  <2> QED
    BY <1>3, <2>1, <2>2 DEF Made
<1>4. ASSUME NEW a \in Asks, HookPolls(a)
      PROVE  Typed'
  <2>1. phase[a] = "asked" /\ id[a] \in Ids
        /\ UNCHANGED <<clocks, slotUp, cards, stray, drops, tools, allowedBy>>
    BY <1>4 DEF HookPolls, Named
  <2>2. CASE stash[id[a]] # NoDecision
    <3>1. Ends(a, stash[id[a]].out) /\ stash' = Cleared(id[a]) /\ UNCHANGED <<waiter, waits>>
      BY <1>4, <2>2 DEF HookPolls
    <3>2. stash' \in [Ids -> [out : {"none", "allow", "deny"}, for : Asks \cup {NoAsk}]]
      BY <2>1, <3>1 DEF Cleared, NoDecision, TypeOK
    <3>3. TypeOK'
      BY <2>1, <3>1, <3>2, EndsIsTyped DEF TypeOK
    <3>4. Named' /\ \A b \in Asks : phase[b] # "new" => phase'[b] # "new"
      BY <2>1, <3>1, EndsKeepsNames
    <3> QED
      BY <2>1, <3>1, <3>3, <3>4 DEF Made
  <2>3. CASE stash[id[a]] = NoDecision
    <3>1. /\ phase' = [phase EXCEPT ![a] = "polling"]
          /\ waiter' = [waiter EXCEPT ![id[a]] = a] /\ waits' = waits \cup {a}
          /\ UNCHANGED <<kind, id, reply, verdict, stash>>
      BY <1>4, <2>3 DEF HookPolls
    <3>2. waiter' \in [Ids -> Asks \cup {NoAsk}] /\ waits' \subseteq Asks
      BY <2>1, <3>1 DEF TypeOK
    <3>3. /\ phase' \in [Asks -> {"new", "asked", "polling", "left", "done", "dead"}]
          /\ phase'[a] # "new" /\ \A b \in Asks : b # a => phase'[b] = phase[b]
      BY <3>1 DEF TypeOK
    <3>4. TypeOK'
      BY <2>1, <3>1, <3>2, <3>3 DEF TypeOK
    <3>5. Named'
      BY <2>1, <3>1, <3>3 DEF Named
    <3> QED
      BY <2>1, <3>1, <3>3, <3>4, <3>5 DEF Made
  <2> QED
    BY <2>2, <2>3
<1>5. ASSUME NEW a \in Asks, HookDies(a)
      PROVE  Typed'
  BY <1>5 DEF HookDies, TypeOK, Named, Made
<1>6. ASSUME NEW a \in Asks, id[a] \in Ids, Withdraw(a)
      PROVE  /\ cards' \subseteq cards /\ stray' \subseteq stray
             /\ stash' \in [Ids -> [out : {"none", "allow", "deny"}, for : Asks \cup {NoAsk}]]
  BY <1>6 DEF Withdraw, NoDecision, TypeOK
<1>7. ASSUME NEW a \in Asks, GuestLeaves(a)
      PROVE  Typed'
  BY <1>6, <1>7 DEF GuestLeaves, TypeOK, Named, Made
<1>8. ASSUME NEW a \in Asks, WaitTimeout(a)
      PROVE  Typed'
  <2>1. id[a] \in Ids /\ phase[a] # "new"
    BY <1>8 DEF WaitTimeout, Made, Named
  <2>2. /\ cards' \subseteq cards /\ stray' \subseteq stray
        /\ stash' \in [Ids -> [out : {"none", "allow", "deny"}, for : Asks \cup {NoAsk}]]
    BY <1>6, <1>8, <2>1 DEF WaitTimeout, TypeOK
  <2>3. waits' = waits \ {a} /\ waiter' = [waiter EXCEPT ![id[a]] = NoAsk]
        /\ UNCHANGED <<clocks, slotUp, drops, tools, allowedBy>>
    BY <1>8 DEF WaitTimeout
  <2>4. CASE Ends(a, "timeout")
    <3>1. TypeOK'
      BY <2>1, <2>2, <2>3, <2>4, EndsIsTyped DEF TypeOK
    <3>2. Named' /\ \A b \in Asks : phase[b] # "new" => phase'[b] # "new"
      BY <2>1, <2>4, EndsKeepsNames
    <3> QED
      BY <2>2, <2>3, <3>1, <3>2 DEF Made
  <2>5. CASE UNCHANGED hooks
    BY <2>1, <2>2, <2>3, <2>5 DEF TypeOK, Named, Made, hooks
  <2> QED
    BY <1>8, <2>4, <2>5 DEF WaitTimeout
<1>9. ASSUME NEW b \in Asks, NEW out \in {"allow", "deny"}, phase[b] # "new", Settle(b, out)
      PROVE  /\ Named' /\ \A a \in Asks : phase[a] # "new" => phase'[a] # "new"
             /\ clocks' \subseteq clocks \cup {b} /\ waits' \subseteq waits
  <2>1. CASE UNCHANGED hooks
    BY <1>9, <2>1 DEF Settle, SettleWaiter, hooks, Named, TypeOK
  <2>2. ASSUME NEW w \in Asks, Ends(w, out), StillWaits(w)
        PROVE  Named' /\ \A a \in Asks : phase[a] # "new" => phase'[a] # "new"
    BY <2>2 DEF Ends, StillWaits, Named, TypeOK
  <2>3. CASE waiter[id[b]] # NoAsk /\ StillWaits(waiter[id[b]])
    <3>1. waiter[id[b]] \in Asks /\ Ends(waiter[id[b]], out)
      BY <1>9, <2>3 DEF Settle, SettleWaiter, Named, TypeOK
    <3> QED
      BY <1>9, <2>2, <2>3, <3>1 DEF Settle, SettleWaiter
  <2> QED
    BY <1>9, <2>1, <2>3 DEF Settle, SettleWaiter
<1>10. ASSUME NEW by \in {"host", "peer"}, NEW i \in Ids, NEW out \in {"allow", "deny"}, Respond(by, i, out)
       PROVE  Typed'
  <2>1. PICK b \in CardOf(i) :
          /\ TakeCard(b) /\ Settle(b, out)
          /\ allowedBy' = IF out = "allow" THEN [allowedBy EXCEPT ![b] = by] ELSE allowedBy
          /\ UNCHANGED <<slotUp, drops, tools>>
    BY <1>10 DEF Respond
  <2>2. b \in Asks /\ phase[b] # "new" /\ id[b] \in Ids
    BY DEF CardOf, Under, Board, TypeOK, Made, Named
  <2>3. cards' \subseteq cards /\ stray' \subseteq stray
    BY <2>1 DEF TakeCard, Without
  <2>4. TypeOK'
    BY <2>1, <2>2, <2>3, SettleIsTyped DEF TypeOK
  <2> QED
    BY <1>9, <2>1, <2>2, <2>3, <2>4 DEF TypeOK, Made
<1>11. ASSUME NEW a \in Asks, ToolSettles(a)
       PROVE  Typed'
  <2>1. a \in tools /\ phase[a] # "new" /\ id[a] \in Ids /\ tools' = tools \ {a} /\ Settle(a, "deny")
        /\ UNCHANGED <<slotUp, cards, stray, drops, allowedBy>>
    BY <1>11 DEF ToolSettles, Made, Named
  <2>2. TypeOK'
    BY <2>1, SettleIsTyped DEF TypeOK
  <2> QED
    BY <1>9, <2>1, <2>2 DEF TypeOK, Made
<1>12. ASSUME NEW a \in Asks, Expire(a)
       PROVE  Typed'
  BY <1>12 DEF Expire, Cleared, NoDecision, hooks, TypeOK, Named, Made
<1>13. ASSUME NEW a \in Asks, DropStray(a)
       PROVE  Typed'
  BY <1>13 DEF DropStray, Without, hooks, TypeOK, Named, Made
<1>14. ASSUME NEW up \in BOOLEAN, SlotGone(up)
       PROVE  Typed'
  BY <1>14 DEF SlotGone, hooks, TypeOK, Named, Made
<1>15. CASE UNCHANGED vars
  BY <1>15 DEF vars, hooks, TypeOK, Named, Made
<1>16. ASSUME NEW a \in Asks, HookReads(a) \/ ReplyLost(a)
       PROVE  Typed'
  BY <1>3, <1>16 DEF HookReads, ReplyLost
<1> QED
  BY <1>1, <1>2, <1>4, <1>5, <1>7, <1>8, <1>10, <1>11, <1>12, <1>13, <1>14, <1>15, <1>16 DEF Next

LEMMA TypeInit == Init => Typed
<1> SUFFICES ASSUME Init PROVE Typed
  OBVIOUS
<1>1. TypeOK
  BY DEF Init, TypeOK, NoDecision
<1> QED
  BY <1>1 DEF Init, Typed, Named, Made

(* Every variable of the gate keeps its type, with every reuse of ids.     *)
THEOREM TypeCorrect == Spec => []TypeOK
<1>1. Typed => TypeOK
  BY DEF Typed
<1> QED
  BY <1>1, TypeInit, TypeStep, PTL DEF Spec

-----------------------------------------------------------------------------
(* The inductive invariant, when no id is used again over leftovers.       *)

(* No ask made since has the id of a. *)
Latest(a) == \A b \in Asks : id[b] = id[a] => b <= a

(* Asks are made in order, and have no id before. *)
Ordered == \A a \in Asks :
    phase[a] = "new" => id[a] = NoId /\ \A b \in Asks : a < b => phase[b] = "new"

(* Who may still get or make a decision under an id is the latest there. *)
Newest ==
    /\ \A a \in Asks : a \in cards \cup stray \cup tools \/ phase[a] = "asked" => Latest(a)
    /\ \A i \in Ids, a \in Asks : waiter[i] = a => id[a] = i /\ Latest(a)

(* An allow that waits for a hook was ruled for that hook's ask. *)
Backed == \A a \in Asks :
    /\ reply[a] = "allow" => allowedBy[a] # "none"
    /\ phase[a] = "asked" /\ stash[id[a]].out = "allow" => allowedBy[a] # "none"

(* What is on the boards and in the tools. *)
Boards ==
    /\ cards \cap stray = {}
    /\ \A a \in cards \cup stray : kind[a] \in HostOnly \cup {"write", "ask"}
    /\ \A a \in tools : kind[a] # "guest"

(* An ask has no verdict before its end, and only guests leave. *)
Verdicts == \A a \in Asks :
    /\ phase[a] \in {"new", "asked", "polling", "left"} => verdict[a] = "none"
    /\ phase[a] = "left" => kind[a] = "guest"

IInv == Typed /\ Ordered /\ Newest /\ Backed /\ Boards /\ GuestCardIsHeard /\ Verdicts

LEMMA InvInit == Init => IInv
<1> SUFFICES ASSUME Init PROVE IInv
  OBVIOUS
<1>1. Typed
  BY TypeInit
<1>2. Ordered /\ Newest /\ Backed /\ Boards /\ GuestCardIsHeard /\ Verdicts
  BY NoAskIsNone DEF Init, Ordered, Newest, Backed, Boards, GuestCardIsHeard, Verdicts
<1> QED
  BY <1>1, <1>2 DEF IInv

(* A decision made for an ask on a board or in the tools reaches the hook  *)
(* of that very ask, or no hook: the waiter under its id is its own.       *)
LEMMA SettleReachesOwn ==
    ASSUME IInv, NEW b \in Asks, b \in cards \cup stray \cup tools,
           NEW out \in {"allow", "deny"}, Settle(b, out)
    PROVE  /\ UNCHANGED hooks \/ (StillWaits(b) /\ Ends(b, out))
           /\ stash' = stash \/ stash' = [stash EXCEPT ![id[b]] = [out |-> out, for |-> b]]
           /\ waiter' = waiter \/ waiter' = [waiter EXCEPT ![id[b]] = NoAsk]
<1>1. id[b] \in Ids /\ Latest(b)
  BY DEF IInv, Typed, Made, Named, Newest
<1>2. CASE waiter[id[b]] # NoAsk
  <2>1. waiter[id[b]] \in Asks /\ id[waiter[id[b]]] = id[b] /\ Latest(waiter[id[b]])
    BY <1>1, <1>2 DEF IInv, Typed, TypeOK, Newest
  <2>2. waiter[id[b]] = b
    BY <1>1, <2>1 DEF Latest, Asks
  <2> QED
    BY <1>2, <2>2 DEF Settle, SettleWaiter
<1>3. CASE waiter[id[b]] = NoAsk
  BY <1>3 DEF Settle
<1> QED
  BY <1>2, <1>3

-----------------------------------------------------------------------------
(* A new ask.                                                              *)

LEMMA RequestKeepsOrder ==
    ASSUME IInv, "leftover" \notin Races, NEW a \in Asks, NEW i \in Ids, NEW k, NEW out,
           Unused(i) \/ Reusable(i), Request(a, i, k, out), NEW p, p # "new",
           phase' = [phase EXCEPT ![a] = p],
           waiter' = waiter \/ waiter' = [waiter EXCEPT ![i] = a]
    PROVE  Ordered' /\ Newest'
<1>1. /\ id' = [id EXCEPT ![a] = i] /\ phase[a] = "new" /\ id[a] = NoId
      /\ \A b \in Asks : b < a => phase[b] # "new"
      /\ (cards' \cup stray' \cup tools') \subseteq (cards \cup stray \cup tools \cup {a})
  BY DEF Request, IInv, Ordered
<1>2. /\ \A b \in Asks : id[b] = i => b \notin cards \cup stray \cup tools /\ phase[b] # "asked"
      /\ waiter[i] = NoAsk
  BY NoAskIsNone DEF Unused, Reusable, Under, IInv, Typed, TypeOK, Newest
<1>3. \A b \in Asks : id[b] = i => b <= a
  BY <1>1, IdsAssumption DEF IInv, Ordered, NoId, Asks
<1>4. id' \in [Asks -> Ids \cup {NoId}] /\ phase' \in [Asks -> {"new", "asked", "polling", "left", "done", "dead", p}]
  BY <1>1 DEF IInv, Typed, TypeOK
<1>5. id'[a] = i /\ phase'[a] = p
      /\ \A b \in Asks : b # a => id'[b] = id[b] /\ phase'[b] = phase[b]
  BY <1>1 DEF IInv, Typed, TypeOK
<1>6. Ordered'
  BY <1>1, <1>5 DEF IInv, Ordered, Asks
<1>7. Latest(a)'
  BY <1>3, <1>5 DEF Latest, Asks
<1>8. \A c \in Asks : c # a /\ id[c] # i /\ Latest(c) => Latest(c)'
  BY <1>5 DEF Latest
<1>9. \A c \in Asks : c \in cards' \cup stray' \cup tools' \/ phase'[c] = "asked" => Latest(c)'
  BY <1>1, <1>2, <1>5, <1>7, <1>8 DEF IInv, Newest
<1>10. ASSUME NEW j \in Ids, NEW c \in Asks, waiter'[j] = c
       PROVE  id'[c] = j /\ Latest(c)'
  <2>1. CASE j = i
    <3>1. c = a
      BY <1>2, <1>10, <2>1, NoAskIsNone DEF IInv, Typed, TypeOK
    <3> QED
      BY <1>5, <1>7, <2>1, <3>1
  <2>2. CASE j # i
    <3>1. id[c] = j /\ Latest(c)
      BY <1>10, <2>2 DEF IInv, Typed, TypeOK, Newest
    <3> QED
      BY <1>1, <1>5, <1>8, <2>2, <3>1, IdsAssumption
  <2> QED
    BY <2>1, <2>2
<1> QED
  BY <1>6, <1>9, <1>10 DEF Newest

LEMMA AskKeepsInv ==
    ASSUME IInv, Typed', "leftover" \notin Races,
           NEW a \in Asks, NEW i \in Ids, NEW k \in Calls, Ask(a, i, k)
    PROVE  IInv'
<1>1. k # "guest" /\ (Unused(i) \/ Reusable(i))
  BY DEF Ask
<1>2. PICK out \in AnswersTo(k) : Request(a, i, k, out)
  BY DEF Ask
<1>3. /\ phase' = [phase EXCEPT ![a] = "asked"]
      /\ reply' = [reply EXCEPT ![a] = stash'[i].out]
      /\ waiter' = waiter
  BY DEF Ask
<1>4. Ordered' /\ Newest'
  BY <1>1, <1>2, <1>3, RequestKeepsOrder
<1>5. /\ phase[a] = "new" /\ a \notin cards \cup stray \cup tools
      /\ phase'[a] = "asked" /\ kind'[a] = k /\ id'[a] = i /\ reply'[a] = stash'[i].out
      /\ verdict' = verdict
      /\ \A b \in Asks : b # a => /\ phase'[b] = phase[b] /\ kind'[b] = kind[b] /\ id'[b] = id[b]
                                  /\ reply'[b] = reply[b] /\ allowedBy'[b] = allowedBy[b]
  BY <1>2, <1>3 DEF Request, IInv, Typed, TypeOK, Made
<1>6. /\ stash'[i].out = "allow" => out = "allow"
      /\ \A j \in Ids : j # i => stash'[j] = stash[j]
      /\ out = "allow" => allowedBy'[a] = "policy"
  BY <1>2 DEF Request, Cleared, NoDecision, IInv, Typed, TypeOK
<1>7. ASSUME NEW b \in Asks, b # a, phase[b] = "asked" PROVE id[b] # i
  BY <1>1, <1>7 DEF Unused, Reusable
<1>8. Backed'
  <2>1. (reply'[a] = "allow" \/ stash'[id'[a]].out = "allow") => allowedBy'[a] # "none"
    BY <1>5, <1>6
  <2>2. ASSUME NEW b \in Asks, b # a
        PROVE  /\ reply'[b] = "allow" => allowedBy'[b] # "none"
               /\ phase'[b] = "asked" /\ stash'[id'[b]].out = "allow" => allowedBy'[b] # "none"
    BY <1>5, <1>6, <1>7, <2>2 DEF IInv, Backed, Typed, Named
  <2> QED
    BY <2>1, <2>2 DEF Backed
<1>9. Verdicts'
  BY <1>5 DEF IInv, Verdicts
<1>10. /\ cards' \subseteq cards \cup {a} /\ stray' \subseteq stray \cup {a} /\ tools' \subseteq tools \cup {a}
       /\ a \in cards' \cup stray' => out = "card"
       /\ a \notin cards' \cap stray'
  BY <1>2, <1>5 DEF Request
<1>11. out = "card" => k \in HostOnly \cup {"write", "ask"}
  BY <1>1, CallsAssumption DEF AnswersTo, Answers, HostOnly, Critical, Kinds
<1>12. Boards'
  <2>1. cards \subseteq Asks /\ stray \subseteq Asks /\ tools \subseteq Asks
    BY DEF IInv, Typed, TypeOK
  <2>2. cards' \cap stray' = {}
    BY <1>5, <1>10 DEF IInv, Boards
  <2>3. \A b \in cards' \cup stray' : kind'[b] \in HostOnly \cup {"write", "ask"}
    BY <1>5, <1>10, <1>11, <2>1 DEF IInv, Boards
  <2>4. \A b \in tools' : kind'[b] # "guest"
    BY <1>1, <1>5, <1>10, <2>1 DEF IInv, Boards
  <2> QED
    BY <2>2, <2>3, <2>4 DEF Boards
<1>13. GuestCardIsHeard'
  BY <1>1, <1>5, <1>10 DEF IInv, GuestCardIsHeard, Typed, TypeOK
<1> QED
  BY <1>4, <1>8, <1>9, <1>12, <1>13 DEF IInv

LEMMA GuestAskKeepsInv ==
    ASSUME IInv, Typed', "leftover" \notin Races, NEW a \in Asks, NEW i \in Ids, GuestAsk(a, i)
    PROVE  IInv'
<1>1. Unused(i)
  BY DEF GuestAsk
<1>2. PICK out \in AnswersTo("critical") :
        /\ Request(a, i, "guest", out)
        /\ phase' = [phase EXCEPT ![a] = IF out = "deny" THEN "dead" ELSE "polling"]
        /\ IF out = "deny" THEN UNCHANGED <<waiter, waits>>
           ELSE waiter' = [waiter EXCEPT ![i] = a] /\ waits' = waits \cup {a}
  BY DEF GuestAsk
<1>3. out \in {"deny", "card"}
  BY DEF AnswersTo, Answers
<1>4. Ordered' /\ Newest'
  BY <1>1, <1>2, RequestKeepsOrder
<1>5. /\ phase[a] = "new" /\ a \notin cards \cup stray \cup tools
      /\ phase'[a] = (IF out = "deny" THEN "dead" ELSE "polling") /\ kind'[a] = "guest" /\ id'[a] = i
      /\ verdict' = verdict /\ reply' = reply /\ allowedBy' = allowedBy
      /\ \A b \in Asks : b # a => phase'[b] = phase[b] /\ kind'[b] = kind[b] /\ id'[b] = id[b]
  BY <1>2, <1>3 DEF GuestAsk, Request, IInv, Typed, TypeOK, Made
<1>6. \A j \in Ids : j # i => stash'[j] = stash[j]
  BY <1>2 DEF Request, Cleared, NoDecision, IInv, Typed, TypeOK
<1>7. ASSUME NEW b \in Asks, b # a, phase[b] = "asked" PROVE id[b] # i
  BY <1>1, <1>7 DEF Unused
<1>8. Backed'
  BY <1>5, <1>6, <1>7 DEF IInv, Backed, Typed, Named
<1>9. Verdicts'
  BY <1>5 DEF IInv, Verdicts
<1>10. /\ cards' \subseteq cards \cup {a} /\ stray' \subseteq stray \cup {a} /\ tools' = tools
       /\ a \in cards' \cup stray' => out = "card"
       /\ a \notin cards' \cap stray'
  BY <1>2, <1>3, <1>5 DEF Request
<1>11. Boards'
  BY <1>5, <1>10 DEF IInv, Boards, Typed, TypeOK, HostOnly
<1>12. GuestCardIsHeard'
  BY <1>5, <1>10 DEF IInv, GuestCardIsHeard, Typed, TypeOK
<1> QED
  BY <1>4, <1>8, <1>9, <1>11, <1>12 DEF IInv

-----------------------------------------------------------------------------
(* Every other step.                                                       *)

(* What they have in common: nothing new is asked, listed or registered    *)
(* but a poll, and no decision is stashed for a hook but one for its ask.  *)
Quiet ==
    /\ UNCHANGED <<kind, id, reply>>
    /\ cards' \subseteq cards /\ stray' \subseteq stray /\ tools' \subseteq tools
    /\ \A a \in Asks :
        /\ \/ phase'[a] = phase[a]
           \/ phase[a] \in {"asked", "polling", "left"} /\ phase'[a] \in {"polling", "left", "done", "dead"}
        /\ phase'[a] = "left" => kind[a] = "guest"
        /\ phase'[a] # "done" => verdict'[a] = verdict[a]
        /\ allowedBy[a] # "none" => allowedBy'[a] # "none"
        /\ phase[a] = "asked" /\ stash'[id[a]].out = "allow" =>
              stash[id[a]].out = "allow" \/ allowedBy'[a] # "none"
        /\ a \in cards' \cup stray' /\ kind[a] = "guest" => phase'[a] = phase[a]
    /\ \A i \in Ids, a \in Asks :
        waiter'[i] = a => waiter[i] = a \/ (phase[a] = "asked" /\ id[a] = i)

LEMMA QuietKeepsInv ==
    ASSUME IInv, Typed', Quiet
    PROVE  IInv'
<1>1. Ordered'
  BY DEF IInv, Quiet, Ordered
<1>2. Newest'
  BY DEF IInv, Quiet, Newest, Latest
<1>3. Backed'
  BY DEF IInv, Quiet, Backed
<1>4. Boards'
  BY DEF IInv, Quiet, Boards, Typed, TypeOK
<1>5. GuestCardIsHeard'
  BY DEF IInv, Quiet, GuestCardIsHeard, Typed, TypeOK
<1>6. Verdicts'
  BY DEF IInv, Quiet, Verdicts
<1> QED
  BY <1>1, <1>2, <1>3, <1>4, <1>5, <1>6 DEF IInv

(* Where an ending leaves the asks. *)
LEMMA EndsDoes ==
    ASSUME TypeOK, NEW a \in Asks, NEW out, Ends(a, out)
    PROVE  /\ UNCHANGED <<kind, id, reply>>
           /\ phase'[a] = "done" /\ verdict'[a] = Told(out)
           /\ \A b \in Asks : b # a => phase'[b] = phase[b] /\ verdict'[b] = verdict[b]
BY DEF TypeOK, Ends

(* A withdrawal takes the card off both boards and stashes nothing. *)
LEMMA WithdrawDoes ==
    ASSUME IInv, NEW a \in Asks, phase[a] # "new", Withdraw(a)
    PROVE  /\ cards' \subseteq cards /\ stray' \subseteq stray /\ a \notin cards' \cup stray'
           /\ \A i \in Ids : stash'[i].out = "allow" => stash[i].out = "allow"
<1>1. id[a] \in Ids
  BY DEF IInv, Typed, Named
<1> QED
  BY <1>1 DEF Withdraw, NoDecision, IInv, Typed, TypeOK, Boards

(* A hook that ends by itself, or stops, is none a guest's card waits for. *)
LEMMA HookStepsAreQuiet ==
    ASSUME IInv, NEW a \in Asks, HookReads(a) \/ HookPolls(a) \/ ReplyLost(a) \/ HookDies(a)
    PROVE  Quiet
<1>1. TypeOK /\ (phase[a] \in {"asked", "polling"} => id[a] \in Ids)
  BY DEF IInv, Typed, Named
<1>2. phase[a] = "asked" => phase[a] # "left"  /\ (kind[a] = "guest" => a \notin cards \cup stray)
  BY DEF IInv, GuestCardIsHeard
<1>3. \A b \in Asks : phase[b] = "left" => kind[b] = "guest"
  BY DEF IInv, Verdicts
<1>4. ASSUME NEW out, phase[a] = "asked", Ends(a, out),
             UNCHANGED <<waiter, cards, stray, tools, allowedBy>>,
             \A i \in Ids : stash'[i].out = "allow" => stash[i].out = "allow"
      PROVE  Quiet
  <2>1. /\ UNCHANGED <<kind, id, reply>> /\ phase'[a] = "done"
        /\ \A b \in Asks : b # a => phase'[b] = phase[b] /\ verdict'[b] = verdict[b]
    BY <1>1, <1>4, EndsDoes
  <2> QED
    BY <1>2, <1>3, <1>4, <2>1 DEF Quiet, IInv, Typed, Named
<1>5. CASE HookReads(a) \/ ReplyLost(a)
  BY <1>4, <1>5 DEF HookReads, ReplyLost
<1>6. CASE HookPolls(a)
  <2>1. phase[a] = "asked" /\ id[a] \in Ids /\ UNCHANGED <<cards, stray, tools, allowedBy>>
    BY <1>1, <1>6 DEF HookPolls
  <2>2. CASE stash[id[a]] # NoDecision
    <3>1. /\ Ends(a, stash[id[a]].out) /\ stash' = Cleared(id[a]) /\ UNCHANGED waiter
      BY <1>6, <2>2 DEF HookPolls
    <3>2. \A i \in Ids : stash'[i].out = "allow" => stash[i].out = "allow"
      BY <1>1, <2>1, <3>1 DEF TypeOK, Cleared, NoDecision
    <3> QED
      BY <1>4, <2>1, <3>1, <3>2
  <2>3. CASE stash[id[a]] = NoDecision
    <3>1. /\ phase' = [phase EXCEPT ![a] = "polling"] /\ waiter' = [waiter EXCEPT ![id[a]] = a]
          /\ UNCHANGED <<kind, id, reply, verdict, stash>>
      BY <1>6, <2>3 DEF HookPolls
    <3>2. \A i \in Ids, b \in Asks : waiter'[i] = b => waiter[i] = b \/ (phase[b] = "asked" /\ id[b] = i)
      BY <1>1, <2>1, <3>1 DEF TypeOK
    <3>3. /\ phase'[a] = "polling" /\ \A b \in Asks : b # a => phase'[b] = phase[b]
      BY <1>1, <3>1 DEF TypeOK
    <3> QED
      BY <1>2, <1>3, <2>1, <3>1, <3>2, <3>3 DEF Quiet
  <2> QED
    BY <2>2, <2>3
<1>7. CASE HookDies(a)
  <2>1. /\ phase[a] \in {"asked", "polling"} /\ kind[a] # "guest" /\ phase'[a] = "dead"
        /\ \A b \in Asks : b # a => phase'[b] = phase[b]
        /\ UNCHANGED <<kind, id, reply, verdict, stash, waiter, cards, stray, tools, allowedBy>>
    BY <1>1, <1>7 DEF HookDies, TypeOK
  <2> QED
    BY <1>3, <2>1 DEF Quiet
<1> QED
  BY <1>5, <1>6, <1>7

(* A guest that leaves, and a wait that times out. *)
LEMMA WaitStepsAreQuiet ==
    ASSUME IInv, NEW a \in Asks, GuestLeaves(a) \/ WaitTimeout(a)
    PROVE  Quiet
<1>1. TypeOK /\ phase[a] # "new" /\ id[a] \in Ids
  BY DEF IInv, Typed, Named, Made, GuestLeaves, WaitTimeout
<1>2. \A b \in Asks : phase[b] = "left" => kind[b] = "guest"
  BY DEF IInv, Verdicts
<1>3. \A b \in Asks : phase[b] = "asked" => id[b] \in Ids
  BY DEF IInv, Typed, Named
<1>4. CASE GuestLeaves(a)
  <2>1. /\ kind[a] = "guest" /\ phase[a] = "polling" /\ phase'[a] = "left"
        /\ \A b \in Asks : b # a => phase'[b] = phase[b]
        /\ UNCHANGED <<kind, id, reply, verdict, waiter, tools, allowedBy>>
    BY <1>1, <1>4 DEF GuestLeaves, TypeOK
  <2>2. /\ cards' \subseteq cards /\ stray' \subseteq stray /\ a \notin cards' \cup stray'
        /\ \A i \in Ids : stash'[i].out = "allow" => stash[i].out = "allow"
    BY <1>1, <1>4, WithdrawDoes DEF GuestLeaves
  <2> QED
    BY <1>2, <1>3, <2>1, <2>2 DEF Quiet
<1>5. CASE WaitTimeout(a)
  <2>1. /\ cards' \subseteq cards /\ stray' \subseteq stray
        /\ kind[a] = "guest" => a \notin cards' \cup stray'
        /\ \A i \in Ids : stash'[i].out = "allow" => stash[i].out = "allow"
    BY <1>1, <1>5, WithdrawDoes DEF WaitTimeout
  <2>2. \A i \in Ids, b \in Asks : waiter'[i] = b => waiter[i] = b
    BY <1>1, <1>5, NoAskIsNone DEF WaitTimeout, TypeOK
  <2>3. UNCHANGED <<tools, allowedBy>>
    BY <1>5 DEF WaitTimeout
  <2>4. CASE StillWaits(a)
    <3>1. /\ UNCHANGED <<kind, id, reply>> /\ phase'[a] = "done"
          /\ \A b \in Asks : b # a => phase'[b] = phase[b] /\ verdict'[b] = verdict[b]
      BY <1>1, <1>5, <2>4, EndsDoes DEF WaitTimeout
    <3> QED
      BY <1>2, <1>3, <2>1, <2>2, <2>3, <2>4, <3>1 DEF Quiet, StillWaits
  <2>5. CASE ~StillWaits(a)
    <3>1. UNCHANGED hooks
      BY <1>5, <2>5 DEF WaitTimeout
    <3> QED
      BY <1>2, <1>3, <2>1, <2>2, <2>3, <3>1 DEF Quiet, hooks
  <2> QED
    BY <2>4, <2>5
<1> QED
  BY <1>4, <1>5

(* A decision. *)
LEMMA SettleIsQuiet ==
    ASSUME IInv, NEW b \in Asks, b \in cards \cup stray \cup tools,
           NEW out \in {"allow", "deny"}, Settle(b, out),
           cards' \subseteq cards, stray' \subseteq stray, tools' \subseteq tools,
           b \in cards' \cup stray' => kind[b] # "guest",
           allowedBy' = allowedBy \/ allowedBy' = [allowedBy EXCEPT ![b] = "host"]
                                  \/ allowedBy' = [allowedBy EXCEPT ![b] = "peer"],
           out = "allow" => allowedBy'[b] # "none"
    PROVE  Quiet
<1>1. /\ UNCHANGED hooks \/ (StillWaits(b) /\ Ends(b, out))
      /\ stash' = stash \/ stash' = [stash EXCEPT ![id[b]] = [out |-> out, for |-> b]]
      /\ waiter' = waiter \/ waiter' = [waiter EXCEPT ![id[b]] = NoAsk]
  BY SettleReachesOwn
<1>2. TypeOK /\ Latest(b) /\ id[b] \in Ids
  BY DEF IInv, Typed, Named, Made, Newest
<1>3. \A a \in Asks : allowedBy[a] # "none" => allowedBy'[a] # "none"
  BY <1>2 DEF TypeOK
<1>4. ASSUME NEW a \in Asks, phase[a] = "asked", stash'[id[a]].out = "allow"
      PROVE  stash[id[a]].out = "allow" \/ allowedBy'[a] # "none"
  <2>1. Latest(a) /\ id[a] \in Ids
    BY <1>4 DEF IInv, Newest, Typed, Named
  <2>2. CASE id[a] = id[b]
    <3>1. a = b
      BY <1>2, <2>1, <2>2 DEF Latest, Asks
    <3> QED
      BY <1>1, <1>2, <1>4, <3>1 DEF TypeOK
  <2>3. CASE id[a] # id[b]
    BY <1>1, <1>2, <1>4, <2>1, <2>3 DEF TypeOK
  <2> QED
    BY <2>2, <2>3
<1>5. \A i \in Ids, a \in Asks : waiter'[i] = a => waiter[i] = a
  BY <1>1, <1>2, NoAskIsNone DEF TypeOK
<1>6. \A a \in Asks : phase[a] = "left" => kind[a] = "guest"
  BY DEF IInv, Verdicts
<1>7. CASE UNCHANGED hooks
  BY <1>3, <1>4, <1>5, <1>6, <1>7 DEF Quiet, hooks
<1>8. CASE StillWaits(b) /\ Ends(b, out)
  <2>1. /\ UNCHANGED <<kind, id, reply>> /\ phase'[b] = "done"
        /\ \A a \in Asks : a # b => phase'[a] = phase[a] /\ verdict'[a] = verdict[a]
    BY <1>2, <1>8, EndsDoes
  <2> QED
    BY <1>3, <1>4, <1>5, <1>6, <1>8, <2>1 DEF Quiet, StillWaits
<1> QED
  BY <1>1, <1>7, <1>8

LEMMA DecisionsAreQuiet ==
    ASSUME IInv,
           NEW by \in {"host", "peer"}, NEW i \in Ids, NEW out \in {"allow", "deny"}, Respond(by, i, out)
    PROVE  Quiet
<1>1. PICK b \in CardOf(i) :
        /\ TakeCard(b) /\ Settle(b, out)
        /\ allowedBy' = IF out = "allow" THEN [allowedBy EXCEPT ![b] = by] ELSE allowedBy
        /\ UNCHANGED <<slotUp, drops, tools>>
  BY DEF Respond
<1>2. b \in Asks /\ b \in Board /\ TypeOK
  BY DEF CardOf, Under, Board, IInv, Typed, TypeOK
<1>3. cards' \subseteq cards /\ stray' \subseteq stray /\ b \notin cards' \cup stray'
  BY <1>1, <1>2 DEF TakeCard, Without, Under, Board, IInv, Boards
<1>4. out = "allow" => allowedBy'[b] # "none"
  BY <1>1, <1>2 DEF TypeOK
<1> QED
  BY <1>1, <1>2, <1>3, <1>4, SettleIsQuiet DEF Board

LEMMA ToolsAreQuiet ==
    ASSUME IInv, NEW a \in Asks, ToolSettles(a)
    PROVE  Quiet
<1>1. a \in tools /\ tools' = tools \ {a} /\ Settle(a, "deny") /\ UNCHANGED <<cards, stray, allowedBy>>
  BY DEF ToolSettles
<1>2. kind[a] # "guest"
  BY <1>1 DEF IInv, Boards
<1> QED
  BY <1>1, <1>2, SettleIsQuiet

(* Timers of decisions and stray cards, and slots that go. *)
LEMMA TimersAreQuiet ==
    ASSUME IInv,
           \/ \E a \in Asks : Expire(a) \/ DropStray(a)
           \/ \E up \in BOOLEAN : SlotGone(up)
           \/ UNCHANGED vars
    PROVE  Quiet
<1>1. /\ UNCHANGED <<hooks, waiter, tools, allowedBy>> /\ cards' \subseteq cards /\ stray' \subseteq stray
  BY DEF Expire, DropStray, Without, SlotGone, vars
<1>2. \A b \in Asks : phase[b] = "asked" => id[b] \in Ids
  BY DEF IInv, Typed, Named
<1>3. \A i \in Ids : stash'[i].out = "allow" => stash[i].out = "allow"
  BY DEF Expire, Cleared, NoDecision, DropStray, SlotGone, vars, IInv, Typed, TypeOK
<1> QED
  BY <1>1, <1>2, <1>3 DEF Quiet, hooks, IInv, Verdicts

LEMMA InvStep ==
    ASSUME IInv, "leftover" \notin Races, [Next]_vars
    PROVE  IInv'
<1>1. Typed'
  BY TypeStep DEF IInv
<1>2. CASE \E a \in Asks, i \in Ids : \/ \E k \in Calls : Ask(a, i, k)
                                       \/ GuestAsk(a, i)
  BY <1>1, <1>2, AskKeepsInv, GuestAskKeepsInv
<1>3. CASE Quiet
  BY <1>1, <1>3, QuietKeepsInv
<1> QED
  BY <1>2, <1>3, HookStepsAreQuiet, WaitStepsAreQuiet, DecisionsAreQuiet, ToolsAreQuiet, TimersAreQuiet
  DEF Next

(* Without leftovers, a guest's command on a board belongs to a guest that *)
(* still waits: withdrawing a request when its guest goes is enough.       *)
THEOREM GuestIsHeard == "leftover" \notin Races => (Spec => []GuestCardIsHeard)
<1> SUFFICES ASSUME "leftover" \notin Races PROVE Spec => []GuestCardIsHeard
  OBVIOUS
<1>1. IInv /\ [Next]_vars => IInv'
  BY InvStep
<1>2. IInv => GuestCardIsHeard
  BY DEF IInv
<1> QED
  BY <1>1, <1>2, InvInit, PTL DEF Spec

(* Nor does a guest's command run after its guest has left: the card is    *)
(* off the boards by then, and its timer only refuses.                     *)
THEOREM LeftStaysOut == "leftover" \notin Races => (Spec => LeftNeverRuns)
<1> SUFFICES ASSUME "leftover" \notin Races PROVE Spec => LeftNeverRuns
  OBVIOUS
<1> DEFINE Never == \A a \in Asks : phase[a] = "left" => verdict'[a] # "allow"
<1>1. IInv /\ [Next]_vars => IInv'
  BY InvStep
<1>2. ASSUME IInv, [Next]_vars PROVE [Never]_vars
  <2>1. SUFFICES ASSUME NEW c \in Asks, phase[c] = "left" PROVE verdict'[c] # "allow"
    OBVIOUS
  <2>2. TypeOK /\ verdict[c] = "none" /\ c \notin cards \cup stray \cup tools
    BY <1>2, <2>1 DEF IInv, Typed, Verdicts, GuestCardIsHeard, Boards
  <2>3. CASE verdict'[c] = verdict[c]
    BY <2>2, <2>3
  <2>4. ASSUME NEW a \in Asks, NEW out, Ends(a, out), a # c
        PROVE  verdict'[c] = verdict[c]
    BY <2>2, <2>4, EndsDoes
  <2>5. ASSUME NEW a \in Asks, Ends(a, "timeout") PROVE verdict'[c] # "allow"
    BY <2>2, <2>5, EndsDoes DEF Told
  <2>6. ASSUME NEW b \in Asks, b \in cards \cup stray \cup tools, NEW out \in {"allow", "deny"}, Settle(b, out)
        PROVE  verdict'[c] = verdict[c]
    BY <1>2, <2>2, <2>4, <2>6, SettleReachesOwn DEF hooks
  <2>7. ASSUME NEW a \in Asks, HookReads(a) \/ HookPolls(a) PROVE verdict'[c] = verdict[c]
    BY <2>1, <2>4, <2>7 DEF HookReads, HookPolls
  <2>8. ASSUME NEW by, NEW i \in Ids, NEW out \in {"allow", "deny"}, Respond(by, i, out)
        PROVE  verdict'[c] = verdict[c]
    <3>1. PICK b \in CardOf(i) : Settle(b, out)
      BY <2>8 DEF Respond
    <3> QED
      BY <2>2, <2>6, <3>1 DEF CardOf, Under, Board, TypeOK
  <2>9. ASSUME NEW a \in Asks, ToolSettles(a) PROVE verdict'[c] = verdict[c]
    BY <2>6, <2>9 DEF ToolSettles
  <2>10. ASSUME NEW a \in Asks, NEW i \in Ids, NEW k,
                Ask(a, i, k) \/ GuestAsk(a, i) PROVE verdict' = verdict
    BY <2>10 DEF Ask, GuestAsk, Request
  <2>11. ASSUME NEW a \in Asks, ReplyLost(a) \/ WaitTimeout(a) PROVE verdict'[c] # "allow"
    BY <2>2, <2>5, <2>11 DEF ReplyLost, WaitTimeout, hooks
  <2>12. ASSUME NEW a \in Asks, HookDies(a) \/ GuestLeaves(a) \/ Expire(a) \/ DropStray(a)
         PROVE verdict' = verdict
    BY <2>12 DEF HookDies, GuestLeaves, Expire, DropStray, hooks
  <2>13. (\E up \in BOOLEAN : SlotGone(up)) \/ UNCHANGED vars => verdict' = verdict
    BY DEF SlotGone, vars, hooks
  <2> QED
    BY <1>2, <2>2, <2>7, <2>8, <2>9, <2>10, <2>11, <2>12, <2>13 DEF Next
<1>3. IInv /\ [Next]_vars => [Never]_vars
  BY <1>2
<1> QED
  BY <1>1, <1>3, InvInit, PTL DEF Spec, LeftNeverRuns

-----------------------------------------------------------------------------
(* The protocol keeps the gate's promise.                                  *)

(* The phases of an ask that has not ended. *)
Unsettled == {"asked", "polling", "left"}

LEMMA StatusOf ==
    ASSUME NEW a \in Asks
    PROVE  /\ phase[a] = "new" => GateStatus[a] = "idle"
           /\ phase[a] \in Unsettled => GateStatus[a] = "open"
           /\ phase[a] = "dead" => GateStatus[a] = "deny"
           /\ phase[a] = "done" => GateStatus[a] = verdict[a]
BY DEF GateStatus, Unsettled

LEMMA StatusNext ==
    ASSUME NEW a \in Asks
    PROVE  /\ phase'[a] = "new" => GateStatus'[a] = "idle"
           /\ phase'[a] \in Unsettled => GateStatus'[a] = "open"
           /\ phase'[a] = "dead" => GateStatus'[a] = "deny"
           /\ phase'[a] = "done" => GateStatus'[a] = verdict'[a]
BY DEF GateStatus, Unsettled

LEMMA StatusIsFunction ==
    /\ GateStatus = [b \in Asks |-> GateStatus[b]]
    /\ GateStatus' = [b \in Asks |-> GateStatus'[b]]
BY DEF GateStatus

(* An ask that keeps its phase and its verdict keeps its status, and the   *)
(* status of one ask changes by itself.                                    *)
LEMMA StatusChanges ==
    ASSUME NEW a \in Asks, NEW s, GateStatus'[a] = s,
           \A b \in Asks : b # a => phase'[b] = phase[b] /\ verdict'[b] = verdict[b]
    PROVE  GateStatus' = [GateStatus EXCEPT ![a] = s]
<1>1. \A b \in Asks : b # a => GateStatus'[b] = GateStatus[b]
  BY DEF GateStatus
<1>2. GateStatus = [b \in Asks |-> GateStatus[b]] /\ GateStatus' = [b \in Asks |-> GateStatus'[b]]
  BY StatusIsFunction
<1> QED
  BY <1>1, <1>2

LEMMA StatusStays ==
    ASSUME \A b \in Asks : phase'[b] = phase[b] /\ verdict'[b] = verdict[b]
    PROVE  GateStatus' = GateStatus
<1>1. \A b \in Asks : GateStatus'[b] = GateStatus[b]
  BY DEF GateStatus
<1>2. GateStatus = [b \in Asks |-> GateStatus[b]] /\ GateStatus' = [b \in Asks |-> GateStatus'[b]]
  BY StatusIsFunction
<1> QED
  BY <1>1, <1>2

LEMMA EndMaps ==
    ASSUME TypeOK, NEW a \in Asks, NEW out, phase[a] \in Unsettled, Ends(a, out),
           out = "allow" => allowedBy[a] # "none", allowedBy' = allowedBy
    PROVE  Promise!Next
<1>1. /\ kind' = kind /\ phase'[a] = "done" /\ verdict'[a] = Told(out)
      /\ \A b \in Asks : b # a => phase'[b] = phase[b] /\ verdict'[b] = verdict[b]
  BY EndsDoes
<1>2. GateStatus[a] = "open" /\ GateStatus' = [GateStatus EXCEPT ![a] = Told(out)]
  BY <1>1, StatusOf, StatusNext, StatusChanges
<1>3. Told(out) \in {"allow", "deny"} /\ (Told(out) = "allow" => out = "allow")
  BY DEF Told
<1>4. Promise!End(a, Told(out))
  BY <1>2, <1>3 DEF Promise!End, Promise!Nobody
<1> QED
  BY <1>1, <1>3, <1>4 DEF Promise!Next

LEMMA RequestMaps ==
    ASSUME TypeOK, NEW a \in Asks, NEW i \in Ids, NEW k \in Calls, NEW out,
           Request(a, i, k, out), NEW p \in {"asked", "polling", "dead"},
           phase' = [phase EXCEPT ![a] = p], out = "allow" => "policy" \in MayAllow(k)
    PROVE  Promise!Next
<1>1. /\ phase[a] = "new" /\ kind' = [kind EXCEPT ![a] = k] /\ verdict' = verdict
      /\ allowedBy' = IF out = "allow" THEN [allowedBy EXCEPT ![a] = "policy"] ELSE allowedBy
  BY DEF Request
<1>2. phase'[a] = p /\ \A b \in Asks : b # a => phase'[b] = phase[b]
  BY DEF TypeOK
<1>3. GateStatus'[a] \in {"open", "deny"}
  BY <1>2, StatusNext DEF Unsettled
<1>4. GateStatus[a] = "idle" /\ GateStatus' = [GateStatus EXCEPT ![a] = GateStatus'[a]]
  BY <1>1, <1>2, StatusOf, StatusChanges
<1>5. Promise!Open(a, k)
  BY <1>1, <1>3, <1>4 DEF Promise!Open
<1> QED
  BY <1>5 DEF Promise!Next

(* A step that keeps the ask's status is a stutter of the promise. *)
LEMMA StillOpenMaps ==
    ASSUME TypeOK, NEW a \in Asks, phase[a] \in Unsettled, NEW p \in Unsettled,
           phase' = [phase EXCEPT ![a] = p], UNCHANGED <<kind, verdict, allowedBy>>
    PROVE  UNCHANGED Promise!vars
<1>1. phase'[a] = p /\ \A b \in Asks : b # a => phase'[b] = phase[b]
  BY DEF TypeOK
<1>2. GateStatus' = [GateStatus EXCEPT ![a] = "open"] /\ GateStatus[a] = "open"
  BY <1>1, StatusOf, StatusNext, StatusChanges
<1>3. GateStatus' = GateStatus
  BY <1>2, StatusIsFunction
<1> QED
  BY <1>3 DEF Promise!vars

LEMMA HookStepsMap ==
    ASSUME IInv, NEW a \in Asks, HookReads(a) \/ HookPolls(a) \/ ReplyLost(a) \/ HookDies(a)
    PROVE  Promise!Next \/ UNCHANGED Promise!vars
<1>1. TypeOK /\ Backed
  BY DEF IInv, Typed
<1>2. CASE HookReads(a)
  BY <1>1, <1>2, EndMaps DEF HookReads, Unsettled, Backed
<1>3. CASE ReplyLost(a)
  BY <1>1, <1>3, EndMaps DEF ReplyLost, Unsettled
<1>4. CASE HookPolls(a)
  <2>1. phase[a] = "asked" /\ allowedBy' = allowedBy
    BY <1>4 DEF HookPolls
  <2>2. CASE stash[id[a]] # NoDecision
    <3>1. Ends(a, stash[id[a]].out)
      BY <1>4, <2>2 DEF HookPolls
    <3> QED
      BY <1>1, <2>1, <3>1, EndMaps DEF Unsettled, Backed
  <2>3. CASE stash[id[a]] = NoDecision
    <3>1. phase' = [phase EXCEPT ![a] = "polling"] /\ UNCHANGED <<kind, verdict, allowedBy>>
      BY <1>4, <2>3 DEF HookPolls
    <3> QED
      BY <1>1, <2>1, <3>1, StillOpenMaps DEF Unsettled
  <2> QED
    BY <2>2, <2>3
<1>5. CASE HookDies(a)
  <2>1. /\ phase[a] \in Unsettled /\ phase'[a] = "dead" /\ UNCHANGED <<kind, verdict, allowedBy>>
        /\ \A b \in Asks : b # a => phase'[b] = phase[b]
    BY <1>1, <1>5 DEF HookDies, TypeOK, Unsettled
  <2>2. GateStatus[a] = "open" /\ GateStatus' = [GateStatus EXCEPT ![a] = "deny"]
    BY <2>1, StatusOf, StatusNext, StatusChanges
  <2>3. Promise!End(a, "deny")
    BY <2>2 DEF Promise!End
  <2> QED
    BY <2>1, <2>3 DEF Promise!Next
<1> QED
  BY <1>2, <1>3, <1>4, <1>5

LEMMA WaitStepsMap ==
    ASSUME IInv, NEW a \in Asks, GuestLeaves(a) \/ WaitTimeout(a)
    PROVE  Promise!Next \/ UNCHANGED Promise!vars
<1>1. TypeOK
  BY DEF IInv, Typed
<1>2. CASE GuestLeaves(a)
  BY <1>1, <1>2, StillOpenMaps DEF GuestLeaves, Unsettled
<1>3. CASE WaitTimeout(a) /\ StillWaits(a)
  BY <1>1, <1>3, EndMaps DEF WaitTimeout, StillWaits, Unsettled
<1>4. CASE WaitTimeout(a) /\ ~StillWaits(a)
  BY <1>4, StatusStays DEF WaitTimeout, hooks, Promise!vars
<1> QED
  BY <1>2, <1>3, <1>4

(* A decision is an allow by somebody who may, a refusal, or nothing. *)
LEMMA DecisionsMap ==
    ASSUME IInv,
           NEW by \in {"host", "peer"}, NEW i \in Ids, NEW out \in {"allow", "deny"}, Respond(by, i, out)
    PROVE  Promise!Next \/ UNCHANGED Promise!vars
<1>1. PICK b \in CardOf(i) :
        /\ MayDecide(by, b) /\ Settle(b, out)
        /\ allowedBy' = IF out = "allow" THEN [allowedBy EXCEPT ![b] = by] ELSE allowedBy
  BY DEF Respond
<1>2. b \in Asks /\ b \in cards \cup stray /\ TypeOK /\ phase[b] # "new"
  BY DEF CardOf, Under, Board, IInv, Typed, TypeOK, Made
<1>3. UNCHANGED hooks \/ (StillWaits(b) /\ Ends(b, out))
  BY <1>1, <1>2, SettleReachesOwn
<1>4. by \in MayAllow(kind[b])
  BY <1>1, <1>2 DEF IInv, Boards, MayDecide, MayAllow, HostOnly, Critical
<1>5. GateStatus[b] # "idle"
  <2>1. phase[b] = "done" => verdict[b] \in {"none", "allow", "deny"}
    BY <1>2 DEF TypeOK
  <2> QED
    BY <1>2, <2>1, StatusOf DEF TypeOK, Unsettled
<1>6. CASE out = "deny"
  <2>1. CASE UNCHANGED hooks
    BY <1>1, <1>6, <2>1, StatusStays DEF hooks, Promise!vars
  <2>2. CASE StillWaits(b) /\ Ends(b, out)
    BY <1>1, <1>2, <1>6, <2>2, EndMaps DEF StillWaits, Unsettled
  <2> QED
    BY <1>3, <2>1, <2>2
<1>7. CASE out = "allow"
  <2>1. Promise!Allow(b, by)
    BY <1>1, <1>4, <1>5, <1>7 DEF Promise!Allow
  <2>2. CASE UNCHANGED hooks
    BY <1>2, <2>1, <2>2, StatusStays DEF hooks, Promise!Next
  <2>3. CASE StillWaits(b) /\ Ends(b, out)
    <3>1. /\ kind' = kind /\ phase'[b] = "done" /\ verdict'[b] = "allow"
          /\ \A a \in Asks : a # b => phase'[a] = phase[a] /\ verdict'[a] = verdict[a]
      BY <1>2, <1>7, <2>3, EndsDoes DEF Told
    <3>2. GateStatus[b] = "open" /\ GateStatus' = [GateStatus EXCEPT ![b] = "allow"]
      BY <1>2, <2>3, <3>1, StatusOf, StatusNext, StatusChanges DEF StillWaits, Unsettled
    <3>3. allowedBy'[b] # "none"
      BY <1>1, <1>2, <1>7 DEF TypeOK
    <3>4. Promise!End(b, "allow")
      BY <3>2, <3>3 DEF Promise!End, Promise!Nobody
    <3> QED
      BY <1>2, <2>1, <3>1, <3>4 DEF Promise!Next
  <2> QED
    BY <1>3, <2>2, <2>3
<1> QED
  BY <1>6, <1>7

LEMMA StepMaps ==
    ASSUME IInv, [Next]_vars
    PROVE  [Promise!Next]_Promise!vars
<1>1. ASSUME NEW a \in Asks, NEW i \in Ids, NEW k \in Calls, Ask(a, i, k)
      PROVE  Promise!Next
  <2>1. PICK out \in AnswersTo(k) : Request(a, i, k, out)
    BY <1>1 DEF Ask
  <2>2. out = "allow" => k \in {"read", "bash", "write"}
    BY CallsAssumption DEF AnswersTo, Answers, Kinds
  <2>3. out = "allow" => "policy" \in MayAllow(k)
    BY <2>2 DEF MayAllow, HostOnly, Critical
  <2> QED
    BY <1>1, <2>1, <2>3, RequestMaps DEF Ask, IInv, Typed
<1>2. ASSUME NEW a \in Asks, NEW i \in Ids, "guest" \in Calls, GuestAsk(a, i)
      PROVE  Promise!Next
  <2>1. PICK out \in AnswersTo("critical") :
          /\ Request(a, i, "guest", out)
          /\ phase' = [phase EXCEPT ![a] = IF out = "deny" THEN "dead" ELSE "polling"]
    BY <1>2 DEF GuestAsk
  <2>2. out # "allow"
    BY DEF AnswersTo, Answers
  <2>3. PICK p \in {"polling", "dead"} : phase' = [phase EXCEPT ![a] = p]
    BY <2>1
  <2> QED
    BY <1>2, <2>1, <2>2, <2>3, RequestMaps DEF IInv, Typed
<1>3. ASSUME NEW a \in Asks, ToolSettles(a)
      PROVE  Promise!Next \/ UNCHANGED Promise!vars
  <2>1. UNCHANGED hooks \/ (StillWaits(a) /\ Ends(a, "deny"))
    BY <1>3, SettleReachesOwn DEF ToolSettles
  <2>2. allowedBy' = allowedBy /\ TypeOK
    BY <1>3 DEF ToolSettles, IInv, Typed
  <2>3. CASE UNCHANGED hooks
    BY <2>2, <2>3, StatusStays DEF hooks, Promise!vars
  <2>4. CASE StillWaits(a) /\ Ends(a, "deny")
    BY <2>2, <2>4, EndMaps DEF StillWaits, Unsettled
  <2> QED
    BY <2>1, <2>3, <2>4
<1>4. ASSUME UNCHANGED <<hooks, allowedBy>>
      PROVE  UNCHANGED Promise!vars
  BY <1>4, StatusStays DEF hooks, Promise!vars
<1>5. ASSUME NEW a \in Asks, Expire(a) \/ DropStray(a)
      PROVE  UNCHANGED Promise!vars
  BY <1>4, <1>5 DEF Expire, DropStray
<1>6. ASSUME (\E up \in BOOLEAN : SlotGone(up)) \/ UNCHANGED vars
      PROVE  UNCHANGED Promise!vars
  BY <1>4, <1>6 DEF SlotGone, vars
<1> QED
  BY <1>1, <1>2, <1>3, <1>5, <1>6, HookStepsMap, WaitStepsMap, DecisionsMap DEF Next

LEMMA InitMaps == Init => Promise!Init
<1> SUFFICES ASSUME Init PROVE Promise!Init
  OBVIOUS
<1>1. GateStatus = [a \in Asks |-> "idle"]
  BY DEF Init, GateStatus
<1> QED
  BY <1>1 DEF Init, Promise!Init, Promise!Nobody

(* Without leftovers the protocol implements the gate: whatever the order  *)
(* of replies, polls, cards, timers, kills and slot changes, a tool call   *)
(* runs only if its own ask was allowed, by somebody who may.              *)
THEOREM ProtocolImplementsGate == "leftover" \notin Races => (Spec => Implements)
<1> SUFFICES ASSUME "leftover" \notin Races PROVE Spec => Implements
  OBVIOUS
<1>1. IInv /\ [Next]_vars => IInv'
  BY InvStep
<1>2. IInv /\ [Next]_vars => [Promise!Next]_Promise!vars
  BY StepMaps
<1> QED
  BY <1>1, <1>2, InvInit, InitMaps, PTL DEF Spec, Implements, Promise!Spec

-----------------------------------------------------------------------------
(* A ruling reaches its hook.                                              *)

(* An ask that was not made has been told and allowed nothing. *)
Blank == \A a \in Asks : phase[a] = "new" => allowedBy[a] = "none" /\ reply[a] = "none"

(* A poll, its timer and its registration come and go together. *)
Registered ==
    /\ \A a \in Asks : phase[a] = "polling" => a \in waits
    /\ \A a \in waits : waiter[id[a]] = a
    /\ \A i \in Ids, a \in Asks : waiter[i] = a => phase[a] \notin {"new", "asked"}

(* What is on a board or in the tools is not decided. *)
Undecided ==
    /\ \A a \in cards \cup stray \cup tools : allowedBy[a] = "none"
    /\ \A a \in cards \cup stray : reply[a] = "none" /\ a \notin tools

First(a) == \A b \in Asks : id[b] = id[a] => a <= b

Readable(a) ==
    /\ phase[a] = "asked"
    /\ \/ reply[a] = "allow"
       \/ reply[a] = "none" /\ stash[id[a]] = [out |-> "allow", for |-> a]

Reach == \A a \in Asks :
    First(a) /\ allowedBy[a] # "none" /\ phase[a] \in {"asked", "polling"} => Readable(a)

RInv == Blank /\ Registered /\ Undecided /\ Reach

(* The first ask under an id whose hook has not read its reply is the only *)
(* one: no timer of an older decision can touch what is stashed for it.    *)
LEMMA FirstIsAlone ==
    ASSUME IInv, NEW a \in Asks, phase[a] = "asked", First(a), NEW c \in Asks, id[c] = id[a]
    PROVE  c = a
BY DEF IInv, Newest, Latest, First, Asks

(* What a step other than a new ask leaves to show. *)
LEMMA BlankKept ==
    ASSUME IInv, RInv, Quiet, NEW b, b \notin Asks \/ phase[b] # "new",
           \A a \in Asks : a # b => allowedBy'[a] = allowedBy[a]
    PROVE  Blank'
BY DEF RInv, Blank, Quiet

LEMMA RegisteredKept ==
    ASSUME IInv, RInv, UNCHANGED <<id, waiter, waits>>,
           \A a \in Asks : phase'[a] \in {"new", "asked", "polling"} => phase'[a] = phase[a]
    PROVE  Registered'
BY DEF RInv, Registered, IInv, Typed, TypeOK

(* The registration of one ask goes, and if it polled it ends. *)
LEMMA RegistrationGoes ==
    ASSUME IInv, RInv, NEW c \in Asks, id[c] \in Ids, UNCHANGED id,
           waits' = waits \ {c}, waiter' = [waiter EXCEPT ![id[c]] = NoAsk],
           waiter[id[c]] = c,
           \A a \in Asks : phase'[a] \in {"new", "asked", "polling"} => phase'[a] = phase[a],
           phase'[c] # "polling"
    PROVE  Registered'
<1>1. TypeOK /\ Named /\ Made BY DEF IInv, Typed
<1>2. ASSUME NEW a \in waits, a # c PROVE id[a] # id[c] /\ id[a] \in Ids
  <2>1. a \in Asks /\ waiter[id[a]] = a /\ id[a] \in Ids
    BY <1>1 DEF TypeOK, Named, Made, RInv, Registered
  <2> QED BY <1>2, <2>1
<1>3. \A a \in waits' : waiter'[id'[a]] = a
  BY <1>1, <1>2 DEF TypeOK, RInv, Registered
<1>4. \A a \in Asks : phase'[a] = "polling" => a \in waits'
  BY DEF RInv, Registered
<1>5. \A i \in Ids, a \in Asks : waiter'[i] = a => waiter[i] = a
  BY <1>1, NoAskIsNone DEF TypeOK
<1> QED BY <1>3, <1>4, <1>5 DEF RInv, Registered

LEMMA UndecidedKept ==
    ASSUME RInv, UNCHANGED reply, cards' \subseteq cards, stray' \subseteq stray, tools' \subseteq tools,
           \A a \in cards' \cup stray' \cup tools' : allowedBy'[a] = allowedBy[a]
    PROVE  Undecided'
BY DEF RInv, Undecided

LEMMA ReachKept ==
    ASSUME RInv, UNCHANGED <<id, reply>>,
           \A a \in Asks : First(a) /\ phase'[a] \in {"asked", "polling"} =>
             /\ phase'[a] = phase[a] /\ allowedBy'[a] = allowedBy[a]
             /\ phase[a] = "asked" => stash'[id[a]] = stash[id[a]]
    PROVE  Reach'
<1>1. \A a \in Asks : First(a)' <=> First(a) BY DEF First
<1> QED BY <1>1 DEF RInv, Reach, Readable

(* Hooks. *)
LEMMA HookStepsReach ==
    ASSUME IInv, RInv, NEW a \in Asks, HookReads(a) \/ HookPolls(a) \/ ReplyLost(a) \/ HookDies(a)
    PROVE  RInv'
<1>1. TypeOK /\ Quiet BY HookStepsAreQuiet DEF IInv, Typed
<1>2. UNCHANGED <<id, reply, cards, stray, tools, allowedBy>> /\ phase[a] \in {"asked", "polling"}
  BY <1>1 DEF HookReads, HookPolls, ReplyLost, HookDies, Quiet
<1>3. Blank' /\ Undecided' BY <1>1, <1>2, BlankKept, UndecidedKept
<1>4. id[a] \in Ids BY <1>2 DEF IInv, Typed, Named
<1>5. ASSUME UNCHANGED <<waiter, waits>>, phase'[a] \in {"done", "dead"},
             \A b \in Asks : b # a => phase'[b] = phase[b],
             \A j \in Ids : j # id[a] => stash'[j] = stash[j],
             stash' = stash \/ phase[a] = "asked"
      PROVE  RInv'
  <2>1. Registered' BY <1>2, <1>5, RegisteredKept
  <2>2. ASSUME NEW b \in Asks, First(b), phase'[b] \in {"asked", "polling"}
        PROVE  /\ phase'[b] = phase[b] /\ allowedBy'[b] = allowedBy[b]
               /\ phase[b] = "asked" => stash'[id[b]] = stash[id[b]]
    <3>1. b # a BY <1>5, <2>2
    <3>2. phase[b] = "asked" => id[b] # id[a] /\ id[b] \in Ids
      BY <2>2, <3>1, FirstIsAlone DEF IInv, Typed, Named
    <3> QED BY <1>2, <1>5, <3>1, <3>2
  <2>3. Reach' BY <1>2, <2>2, ReachKept
  <2> QED BY <1>3, <2>1, <2>3 DEF RInv
<1>6. CASE HookReads(a) \/ ReplyLost(a)
  <2>1. \E out : Ends(a, out) BY <1>6 DEF HookReads, ReplyLost
  <2>2. UNCHANGED <<stash, waiter, waits>> BY <1>6 DEF HookReads, ReplyLost
  <2>3. phase'[a] = "done" /\ \A b \in Asks : b # a => phase'[b] = phase[b]
    BY <1>1, <2>1, EndsDoes
  <2> QED BY <1>5, <2>2, <2>3
<1>7. CASE HookDies(a)
  <2>1. UNCHANGED <<stash, waiter, waits>> /\ phase' = [phase EXCEPT ![a] = "dead"]
    BY <1>7 DEF HookDies
  <2> QED BY <1>1, <1>5, <2>1 DEF TypeOK
<1>8. CASE HookPolls(a) /\ stash[id[a]] # NoDecision
  <2>1. Ends(a, stash[id[a]].out) /\ stash' = Cleared(id[a]) /\ UNCHANGED <<waiter, waits>>
        /\ phase[a] = "asked"
    BY <1>8 DEF HookPolls
  <2>2. phase'[a] = "done" /\ \A b \in Asks : b # a => phase'[b] = phase[b]
    BY <1>1, <2>1, EndsDoes
  <2>3. \A j \in Ids : j # id[a] => stash'[j] = stash[j] BY <1>1, <2>1 DEF Cleared, TypeOK
  <2> QED BY <1>5, <2>1, <2>2, <2>3
<1>9. CASE HookPolls(a) /\ stash[id[a]] = NoDecision
  <2>1. /\ phase[a] = "asked" /\ reply[a] = "none" /\ phase' = [phase EXCEPT ![a] = "polling"]
        /\ waiter' = [waiter EXCEPT ![id[a]] = a] /\ waits' = waits \cup {a}
        /\ UNCHANGED stash
    BY <1>9 DEF HookPolls
  <2>2. phase'[a] = "polling" /\ \A b \in Asks : b # a => phase'[b] = phase[b]
    BY <1>1, <2>1 DEF TypeOK
  <2>3. Registered'
    <3>1. \A b \in Asks : phase'[b] = "polling" => b \in waits'
      BY <2>1, <2>2 DEF RInv, Registered
    <3>2. ASSUME NEW b \in waits' PROVE waiter'[id'[b]] = b
      <4>1. CASE b = a BY <1>1, <1>2, <1>4, <2>1, <4>1 DEF TypeOK
      <4>2. CASE b # a
        <5>1. b \in waits /\ b \in Asks /\ waiter[id[b]] = b /\ id[b] \in Ids
          BY <1>1, <2>1, <4>2 DEF TypeOK, RInv, Registered, IInv, Typed, Named, Made
        <5>2. Latest(a) /\ Latest(b) BY <2>1, <5>1 DEF IInv, Newest
        <5>3. id[b] # id[a] BY <4>2, <5>1, <5>2 DEF Latest, Asks
        <5> QED BY <1>1, <1>2, <2>1, <5>1, <5>3 DEF TypeOK
      <4> QED BY <4>1, <4>2
    <3>3. ASSUME NEW i \in Ids, NEW b \in Asks, waiter'[i] = b PROVE phase'[b] \notin {"new", "asked"}
      <4>1. b = a \/ waiter[i] = b BY <1>1, <2>1, <3>3 DEF TypeOK
      <4> QED BY <2>2, <4>1 DEF RInv, Registered
    <3> QED BY <3>1, <3>2, <3>3 DEF Registered
  <2>4. Reach'
    <3>1. First(a) => allowedBy[a] = "none"
      <4>1. stash[id[a]].out = "none" BY <1>9 DEF NoDecision
      <4>2. ~Readable(a) BY <2>1, <4>1 DEF Readable
      <4> QED BY <2>1, <4>2 DEF RInv, Reach
    <3>2. \A b \in Asks : First(b)' <=> First(b) BY <1>2 DEF First
    <3> QED BY <1>2, <2>1, <2>2, <3>1, <3>2 DEF RInv, Reach, Readable
  <2> QED BY <1>3, <2>3, <2>4 DEF RInv
<1> QED BY <1>6, <1>7, <1>8, <1>9

(* Guests that leave, and waits that time out. *)
LEMMA WaitStepsReach ==
    ASSUME IInv, RInv, NEW c \in Asks, GuestLeaves(c) \/ WaitTimeout(c)
    PROVE  RInv'
<1>1. TypeOK /\ Quiet /\ id[c] \in Ids /\ phase[c] # "new"
  BY WaitStepsAreQuiet DEF IInv, Typed, Named, Made, GuestLeaves, WaitTimeout
<1>2. UNCHANGED <<id, reply, tools, allowedBy>> /\ cards' \subseteq cards /\ stray' \subseteq stray
  BY <1>1 DEF GuestLeaves, WaitTimeout, Quiet
<1>3. Blank' /\ Undecided' BY <1>1, <1>2, BlankKept, UndecidedKept
<1>4. phase[c] # "asked"
  <2>1. WaitTimeout(c) => waiter[id[c]] = c BY DEF WaitTimeout, RInv, Registered
  <2> QED BY <1>1, <2>1 DEF GuestLeaves, RInv, Registered
<1>5. \A j \in Ids : j # id[c] => stash'[j] = stash[j]
  BY <1>1 DEF GuestLeaves, WaitTimeout, Withdraw, TypeOK
<1>6. \A a \in Asks : phase'[a] \in {"new", "asked", "polling"} => phase'[a] = phase[a]
  BY <1>1 DEF GuestLeaves, WaitTimeout, Ends, hooks, TypeOK
<1>7. Registered'
  <2>1. CASE GuestLeaves(c)
    BY <1>2, <1>6, <2>1, RegisteredKept DEF GuestLeaves
  <2>2. CASE WaitTimeout(c)
    <3>1. waits' = waits \ {c} /\ waiter' = [waiter EXCEPT ![id[c]] = NoAsk] /\ waiter[id[c]] = c
      BY <2>2 DEF WaitTimeout, RInv, Registered
    <3>2. phase'[c] # "polling" BY <1>1, <2>2 DEF WaitTimeout, StillWaits, Ends, hooks, TypeOK
    <3> QED BY <1>1, <1>2, <1>6, <3>1, <3>2, RegistrationGoes
  <2> QED BY <2>1, <2>2
<1>8. ASSUME NEW a \in Asks, First(a), phase'[a] \in {"asked", "polling"}
      PROVE  /\ phase'[a] = phase[a] /\ allowedBy'[a] = allowedBy[a]
             /\ phase[a] = "asked" => stash'[id[a]] = stash[id[a]]
  <2>1. phase[a] = "asked" => id[a] # id[c] /\ id[a] \in Ids
    BY <1>4, <1>8, FirstIsAlone DEF IInv, Typed, Named
  <2> QED BY <1>2, <1>5, <1>6, <1>8, <2>1
<1>9. Reach' BY <1>2, <1>8, ReachKept
<1> QED BY <1>3, <1>7, <1>9 DEF RInv

(* A decision: if a waiter is registered it is the ask's own, and ends;    *)
(* if none is, the hook has not polled, and finds what is stashed.         *)
LEMMA SettleReaches ==
    ASSUME IInv, RInv, Quiet, NEW b \in Asks, b \in cards \cup stray \cup tools,
           NEW out \in {"allow", "deny"}, Settle(b, out),
           b \in tools => out = "deny",
           \A a \in Asks : a # b => allowedBy'[a] = allowedBy[a],
           out = "deny" => allowedBy' = allowedBy
    PROVE  Registered' /\ Reach'
<1>1. TypeOK /\ id[b] \in Ids /\ phase[b] # "new" /\ UNCHANGED <<id, reply>>
  BY DEF IInv, Typed, Named, Made, Quiet
<1>2. allowedBy[b] = "none" /\ (b \in cards \cup stray => reply[b] = "none")
  BY DEF RInv, Undecided
<1>3. \A a \in Asks : phase[a] = "asked" /\ First(a) /\ a # b => id[a] # id[b] /\ id[a] \in Ids
  BY FirstIsAlone DEF IInv, Typed, Named
<1>4. CASE waiter[id[b]] # NoAsk
  <2>1. waiter[id[b]] = b
    <3>1. waiter[id[b]] \in Asks /\ Latest(b) BY <1>1, <1>4 DEF TypeOK, IInv, Newest
    <3>2. id[waiter[id[b]]] = id[b] /\ Latest(waiter[id[b]]) BY <1>1, <3>1 DEF IInv, Newest
    <3> QED BY <3>1, <3>2 DEF Latest, Asks
  <2>2. /\ waits' = waits \ {b} /\ waiter' = [waiter EXCEPT ![id[b]] = NoAsk] /\ UNCHANGED stash
        /\ IF StillWaits(b) THEN Ends(b, out) ELSE UNCHANGED hooks
    BY <1>4, <2>1, NoAskIsNone DEF Settle, SettleWaiter
  <2>3. phase[b] \notin {"new", "asked"} BY <1>1, <2>1 DEF RInv, Registered
  <2>4. /\ \A a \in Asks : a # b => phase'[a] = phase[a]
        /\ phase'[b] \notin {"new", "asked", "polling"}
    <3>1. CASE StillWaits(b) BY <1>1, <2>2, <3>1, EndsDoes
    <3>2. CASE ~StillWaits(b) BY <1>1, <2>2, <2>3, <3>2 DEF StillWaits, hooks
    <3> QED BY <3>1, <3>2
  <2>5. Registered' BY <1>1, <2>1, <2>2, <2>4, RegistrationGoes
  <2>6. Reach' BY <1>1, <2>2, <2>4, ReachKept
  <2> QED BY <2>5, <2>6
<1>5. CASE waiter[id[b]] = NoAsk
  <2>1. stash' = [stash EXCEPT ![id[b]] = [out |-> out, for |-> b]] /\ UNCHANGED <<hooks, waiter, waits>>
    BY <1>5 DEF Settle
  <2>2. phase' = phase BY <2>1 DEF hooks
  <2>3. Registered' BY <1>1, <2>1, <2>2, RegisteredKept
  <2>4. phase[b] # "polling"
    BY <1>1, <1>5, NoAskIsNone DEF RInv, Registered
  <2>5. ASSUME NEW a \in Asks, First(a)', allowedBy'[a] # "none", phase'[a] \in {"asked", "polling"}
        PROVE  Readable(a)'
    <3>1. First(a) BY <1>1, <2>5 DEF First
    <3>2. CASE a = b
      <4>1. out = "allow" /\ reply[b] = "none" /\ phase[b] = "asked"
        BY <1>2, <2>2, <2>4, <2>5, <3>2
      <4> QED BY <1>1, <2>1, <2>2, <3>2, <4>1 DEF Readable, TypeOK
    <3>3. CASE a # b
      <4>1. Readable(a) BY <2>2, <2>5, <3>1, <3>3 DEF RInv, Reach
      <4>2. id[a] # id[b] /\ id[a] \in Ids BY <1>3, <3>1, <3>3, <4>1 DEF Readable
      <4> QED BY <1>1, <2>1, <2>2, <4>1, <4>2 DEF Readable, TypeOK
    <3> QED BY <3>2, <3>3
  <2> QED BY <2>3, <2>5 DEF Reach
<1> QED BY <1>4, <1>5

LEMMA DecisionsReach ==
    ASSUME IInv, RInv,
           \/ \E by \in {"host", "peer"}, i \in Ids, out \in {"allow", "deny"} : Respond(by, i, out)
           \/ \E a \in Asks : ToolSettles(a)
    PROVE  RInv'
<1>1. Quiet BY DecisionsAreQuiet, ToolsAreQuiet
<1>2. ASSUME NEW by \in {"host", "peer"}, NEW i \in Ids, NEW out \in {"allow", "deny"},
             Respond(by, i, out)
      PROVE  RInv'
  <2>1. PICK b \in CardOf(i) :
          /\ TakeCard(b) /\ Settle(b, out)
          /\ allowedBy' = IF out = "allow" THEN [allowedBy EXCEPT ![b] = by] ELSE allowedBy
          /\ UNCHANGED <<slotUp, drops, tools>>
    BY <1>2 DEF Respond
  <2>2. b \in Asks /\ b \in Board /\ b \in cards \cup stray /\ TypeOK
    BY DEF CardOf, Under, Board, IInv, Typed, TypeOK
  <2>3. cards' \subseteq cards /\ stray' \subseteq stray /\ b \notin cards' \cup stray' \cup tools
    BY <2>1, <2>2 DEF TakeCard, Without, Under, Board, IInv, Boards, RInv, Undecided
  <2>4. (\A a \in Asks : a # b => allowedBy'[a] = allowedBy[a]) /\ (out = "deny" => allowedBy' = allowedBy)
    BY <2>1, <2>2 DEF TypeOK
  <2>5. phase[b] # "new" BY <2>2 DEF IInv, Typed, Made
  <2>6. Blank' BY <1>1, <2>2, <2>4, <2>5, BlankKept
  <2>7. Undecided'
    <3>1. cards' \cup stray' \cup tools' \subseteq Asks BY <2>1, <2>2, <2>3 DEF TypeOK
    <3> QED BY <1>1, <2>1, <2>3, <2>4, <3>1, UndecidedKept DEF Quiet
  <2>8. Registered' /\ Reach' BY <1>1, <2>1, <2>2, <2>3, <2>4, SettleReaches
  <2> QED BY <2>6, <2>7, <2>8 DEF RInv
<1>3. ASSUME NEW a \in Asks, ToolSettles(a) PROVE RInv'
  <2>1. /\ a \in tools /\ tools' = tools \ {a} /\ Settle(a, "deny")
        /\ UNCHANGED <<cards, stray, allowedBy>>
    BY <1>3 DEF ToolSettles
  <2>2. phase[a] # "new" BY <2>1 DEF IInv, Typed, Made
  <2>3. Blank' BY <1>1, <2>1, <2>2, BlankKept
  <2>4. Undecided' BY <1>1, <2>1, UndecidedKept DEF Quiet
  <2>5. Registered' /\ Reach' BY <1>1, <2>1, SettleReaches
  <2> QED BY <2>3, <2>4, <2>5 DEF RInv
<1> QED BY <1>2, <1>3

(* Timers: what they clear belongs to an ask whose hook has its answer. *)
LEMMA TimersReach ==
    ASSUME IInv, RInv,
           \/ \E a \in Asks : Expire(a) \/ DropStray(a)
           \/ \E up \in BOOLEAN : SlotGone(up)
           \/ UNCHANGED vars
    PROVE  RInv'
<1>1. Quiet /\ TypeOK BY TimersAreQuiet DEF IInv, Typed
<1>2. /\ UNCHANGED <<phase, id, reply, waiter, waits, tools, allowedBy>>
      /\ cards' \subseteq cards /\ stray' \subseteq stray
  BY DEF Expire, DropStray, Without, SlotGone, vars, hooks
<1>3. Blank' /\ Undecided'
  <2>1. 0 \notin Asks BY DEF Asks
  <2>2. Blank' BY <1>1, <1>2, <2>1, BlankKept
  <2>3. Undecided' BY <1>1, <1>2, UndecidedKept
  <2> QED BY <2>2, <2>3
<1>4. Registered' BY <1>2, RegisteredKept
<1>5. ASSUME NEW a \in Asks, First(a), phase[a] = "asked" PROVE stash'[id[a]] = stash[id[a]]
  <2>1. id[a] \in Ids BY <1>5 DEF IInv, Typed, Named
  <2>2. ASSUME NEW c \in Asks, Expire(c) PROVE stash'[id[a]] = stash[id[a]]
    <3>1. phase[c] # "asked" /\ stash' = Cleared(id[c]) BY <2>2 DEF Expire
    <3>2. id[c] # id[a] BY <1>5, <3>1, FirstIsAlone
    <3> QED BY <1>1, <2>1, <3>1, <3>2 DEF Cleared, TypeOK
  <2> QED BY <2>2 DEF DropStray, SlotGone, vars
<1>6. Reach' BY <1>2, <1>5, ReachKept
<1> QED BY <1>3, <1>4, <1>6 DEF RInv

(* A new ask. *)
LEMMA AsksReach ==
    ASSUME IInv, RInv, "leftover" \notin Races, NEW a \in Asks, NEW i \in Ids,
           (\E k \in Calls : Ask(a, i, k)) \/ GuestAsk(a, i)
    PROVE  RInv'
<1>1. PICK k, out :
        /\ Request(a, i, k, out) /\ (Unused(i) \/ Reusable(i)) /\ out \in {"allow", "deny", "card", "later"}
        /\ \/ /\ phase' = [phase EXCEPT ![a] = "asked"]
              /\ reply' = [reply EXCEPT ![a] = stash'[i].out] /\ UNCHANGED <<waiter, waits>>
           \/ /\ reply' = reply /\ out # "allow" /\ Unused(i)
              /\ \/ phase' = [phase EXCEPT ![a] = "dead"] /\ UNCHANGED <<waiter, waits>>
                 \/ /\ phase' = [phase EXCEPT ![a] = "polling"]
                    /\ waiter' = [waiter EXCEPT ![i] = a] /\ waits' = waits \cup {a}
  <2>1. ASSUME NEW k \in Calls, Ask(a, i, k)
        PROVE  \E out : /\ Request(a, i, k, out) /\ out \in {"allow", "deny", "card", "later"}
                        /\ (Unused(i) \/ Reusable(i)) /\ phase' = [phase EXCEPT ![a] = "asked"]
                        /\ reply' = [reply EXCEPT ![a] = stash'[i].out] /\ UNCHANGED <<waiter, waits>>
    BY <2>1, AnswersAreTyped DEF Ask
  <2>2. ASSUME GuestAsk(a, i)
        PROVE  \E out : /\ Request(a, i, "guest", out) /\ out \in {"allow", "deny", "card", "later"}
                        /\ reply' = reply /\ out # "allow" /\ Unused(i)
                        /\ \/ phase' = [phase EXCEPT ![a] = "dead"] /\ UNCHANGED <<waiter, waits>>
                           \/ /\ phase' = [phase EXCEPT ![a] = "polling"]
                              /\ waiter' = [waiter EXCEPT ![i] = a] /\ waits' = waits \cup {a}
    <3>1. PICK out \in AnswersTo("critical") :
            /\ Request(a, i, "guest", out)
            /\ phase' = [phase EXCEPT ![a] = IF out = "deny" THEN "dead" ELSE "polling"]
            /\ IF out = "deny" THEN UNCHANGED <<waiter, waits>>
               ELSE waiter' = [waiter EXCEPT ![i] = a] /\ waits' = waits \cup {a}
      BY <2>2 DEF GuestAsk
    <3>2. out \in {"deny", "card"} BY DEF AnswersTo, Answers
    <3>3. Unused(i) /\ reply' = reply BY <2>2 DEF GuestAsk
    <3> QED BY <3>1, <3>2, <3>3
  <2> QED BY <2>1, <2>2
<1>2. TypeOK /\ phase[a] = "new" /\ allowedBy[a] = "none" /\ reply[a] = "none"
      /\ id[a] = NoId /\ a \notin cards \cup stray \cup tools \cup waits
  BY <1>1 DEF Request, IInv, Ordered, Typed, Made, RInv, Blank
<1>3. /\ id'[a] = i /\ \A b \in Asks : b # a =>
           /\ phase'[b] = phase[b] /\ id'[b] = id[b] /\ reply'[b] = reply[b]
           /\ allowedBy'[b] = allowedBy[b]
  BY <1>1, <1>2 DEF Request, TypeOK
<1>4. /\ phase'[a] # "new"
      /\ out = "allow" => phase'[a] = "asked" /\ reply'[a] = "allow"
      /\ out # "allow" => allowedBy' = allowedBy
      /\ out = "card" => reply'[a] = "none"
  BY <1>1, <1>2 DEF Request, Cleared, NoDecision, TypeOK
<1>5. /\ cards' \subseteq cards \cup {a} /\ stray' \subseteq stray \cup {a} /\ tools' \subseteq tools \cup {a}
      /\ a \in cards' \cup stray' => out = "card"
      /\ a \in tools' => out = "later"
  BY <1>1, <1>2 DEF Request
<1>6. \A j \in Ids : j # i => stash'[j] = stash[j] BY <1>1, <1>2 DEF Request, Cleared, TypeOK
<1>7. Blank' BY <1>3, <1>4 DEF RInv, Blank
<1>8. Undecided'
  <2>1. cards \subseteq Asks /\ stray \subseteq Asks /\ tools \subseteq Asks BY <1>2 DEF TypeOK
  <2>2. ASSUME NEW b \in cards' \cup stray' \cup tools' PROVE allowedBy'[b] = "none"
    BY <1>2, <1>3, <1>4, <1>5, <2>1 DEF RInv, Undecided
  <2>3. ASSUME NEW b \in cards' \cup stray' PROVE reply'[b] = "none" /\ b \notin tools'
    BY <1>2, <1>3, <1>4, <1>5, <2>1 DEF RInv, Undecided
  <2> QED BY <2>2, <2>3 DEF Undecided
<1>9. ASSUME NEW b \in Asks, b # a, phase[b] \in {"asked", "polling", "left"} PROVE id[b] # i /\ id[b] \in Ids
  BY <1>1, <1>9 DEF Unused, Reusable, IInv, Typed, Named
<1>10. Registered'
  <2>1. waits \subseteq Asks BY <1>2 DEF TypeOK
  <2>2. \A b \in Asks : phase'[b] = "polling" => b \in waits'
    BY <1>1, <1>2, <1>3 DEF RInv, Registered, TypeOK
  <2>3. ASSUME NEW b \in waits' PROVE waiter'[id'[b]] = b
    <3>1. CASE b = a
      BY <1>1, <1>2, <1>3, <3>1 DEF TypeOK
    <3>2. CASE b # a
      <4>1. b \in waits /\ b \in Asks /\ id'[b] = id[b] /\ id[b] \in Ids /\ waiter[id[b]] = b
        BY <1>1, <1>3, <2>1, <3>2 DEF RInv, Registered, IInv, Typed, Named, Made
      <4>2. waiter' = waiter \/ id[b] # i BY <1>1, <4>1 DEF Unused
      <4> QED BY <1>1, <1>2, <4>1, <4>2 DEF TypeOK
    <3> QED BY <3>1, <3>2
  <2>4. ASSUME NEW j \in Ids, NEW b \in Asks, waiter'[j] = b PROVE phase'[b] \notin {"new", "asked"}
    <3>1. waiter[j] = b \/ (b = a /\ phase'[a] = "polling")
      BY <1>1, <1>2, <2>4 DEF TypeOK
    <3>2. waiter[j] = b => b # a BY <1>2 DEF RInv, Registered
    <3> QED BY <1>3, <3>1, <3>2 DEF RInv, Registered
  <2> QED BY <2>2, <2>3, <2>4 DEF Registered
<1>11. ASSUME NEW b \in Asks, First(b)', allowedBy'[b] # "none", phase'[b] \in {"asked", "polling"}
       PROVE  Readable(b)'
  <2>1. CASE b = a
    BY <1>2, <1>4, <1>11, <2>1 DEF Readable
  <2>2. CASE b # a
    <3>1. id[b] # i /\ id[b] \in Ids BY <1>3, <1>9, <1>11, <2>2
    <3>2. First(b)
      <4> SUFFICES ASSUME NEW c \in Asks, id[c] = id[b] PROVE b <= c BY DEF First
      <4>1. c # a BY <1>2, <3>1, IdsAssumption
      <4> QED BY <1>3, <1>11, <2>2, <4>1 DEF First
    <3>3. Readable(b) BY <1>3, <1>11, <2>2, <3>2 DEF RInv, Reach
    <3> QED BY <1>3, <1>6, <2>2, <3>1, <3>3 DEF Readable
  <2> QED BY <2>1, <2>2
<1> QED BY <1>7, <1>8, <1>10, <1>11 DEF RInv, Reach

LEMMA RInvStep ==
    ASSUME IInv, RInv, "leftover" \notin Races, [Next]_vars
    PROVE  RInv'
<1>1. CASE \E a \in Asks, i \in Ids : (\E k \in Calls : Ask(a, i, k)) \/ GuestAsk(a, i)
  BY <1>1, AsksReach
<1> QED
  BY <1>1, HookStepsReach, WaitStepsReach, DecisionsReach, TimersReach DEF Next

LEMMA RInvInit == Init => RInv
<1> SUFFICES ASSUME Init PROVE RInv OBVIOUS
<1>1. Blank /\ Registered /\ Undecided /\ Reach
  BY NoAskIsNone DEF Init, Blank, Registered, Undecided, Reach
<1> QED BY <1>1 DEF RInv

(* An allow reaches the hook that waits for it (awaitPermissionDecision,   *)
(* earlyPermissionDecisions), unless its id was used before.               *)
THEOREM RulingArrives == "leftover" \notin Races => (Spec => []RulingReaches)
<1> SUFFICES ASSUME "leftover" \notin Races PROVE Spec => []RulingReaches
  OBVIOUS
<1>1. IInv /\ RInv /\ [Next]_vars => IInv' /\ RInv'
  BY InvStep, RInvStep
<1>2. IInv /\ RInv => RulingReaches
  <2> SUFFICES ASSUME IInv, RInv, NEW a \in Asks, allowedBy[a] # "none", phase[a] \in {"asked", "polling"},
                      \A b \in 1..(a - 1) : id[b] # id[a]
               PROVE  Readable(a)
    BY DEF RulingReaches, Readable
  <2>1. First(a) BY DEF First, Asks
  <2> QED BY <2>1 DEF RInv, Reach
<1> QED
  BY <1>1, <1>2, InvInit, RInvInit, PTL DEF Spec

=============================================================================
